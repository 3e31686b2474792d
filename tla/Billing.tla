------------------------------ MODULE Billing ------------------------------
(***************************************************************************)
(* The subscriptions of the billing package (cognix/billing and             *)
(* api/routes/billing.py) for one user: the rows, the Stripe webhook with    *)
(* its in-memory cache of event ids, the checkout endpoint, and who is       *)
(* entitled by a plan.  A handler reads its row, awaits, and commits;        *)
(* SQLAlchemy then writes the columns that differ from what was read.        *)
(* Stripe is external: it may deliver any event it has issued at any         *)
(* moment, in any order, and again.                                         *)
(***************************************************************************)
EXTENDS Naturals, FiniteSets

CONSTANTS StripeSubs,     \* subscription ids Stripe hands out
          Prices,         \* the plans that have a Stripe price (the shipped table gives none)
          MaxCache,       \* _MAX_CACHE_SIZE
          MaxEvents, MaxFlight, MaxLives   \* bounds of the exploration

ASSUME BillingAssumption ==
  /\ {MaxCache, MaxEvents, MaxFlight, MaxLives} \subseteq Nat
  /\ Prices \subseteq {"starter", "pro"}

VARIABLES rows,     \* [RowIds -> Row or NoRow]
          events,   \* the events Stripe has issued
          seen,     \* _processed_event_ids
          flight,   \* the handlers and checkout requests that have read and not committed
          applied,  \* [event id -> how often its handler committed]
          lives     \* how often the cache was emptied, by a restart or when full

billVars == <<rows, events, seen, flight, applied, lives>>

None == "none"
RowIds == {"user", "x1", "x2"}
NoRow == [plan |-> "none", cust |-> None, sub |-> None, status |-> "none"]
Paid == {"starter", "pro", "enterprise"}
Counted == {"active", "trialing"}

\* What Stripe says of a subscription; unpaid stands for what the table does not know.
StripeStatus == {"active", "trialing", "past_due", "canceled", "incomplete", "unpaid"}

\* A Stripe status the table does not know (unpaid, paused) counts as incomplete.
MapStatus(s) == IF s \in {"active", "past_due", "canceled", "trialing"} THEN s ELSE "incomplete"

\* The rows of the table, all of them the one user's.
UserRows == {i \in RowIds : rows[i] # NoRow}

\* The WHERE of each handler's select.
Wanted(e, r) ==
  CASE e.type = "checkout" -> TRUE
    [] e.type = "created"  -> r.sub = e.sub \/ r.cust = e.cust
    [] OTHER               -> r.sub = e.sub

\* What each handler makes of the row it read.
Handled(e, r) ==
  CASE e.type = "checkout" -> [r EXCEPT !.sub = e.sub, !.cust = e.cust, !.status = "active"]
    [] e.type = "created"  -> [r EXCEPT !.sub = e.sub, !.status = MapStatus(e.status)]
    [] e.type = "updated"  -> [r EXCEPT !.status = MapStatus(e.status), !.plan = IF e.plan = None THEN @ ELSE e.plan]
    [] e.type = "deleted"  -> [r EXCEPT !.status = "canceled"]
    [] e.type = "paid"     -> [r EXCEPT !.status = "active"]
    [] e.type = "failed"   -> [r EXCEPT !.status = "past_due"]

\* The UPDATE of a flush: the columns that differ from what the session loaded.
Flushed(now, loaded, new) ==
  [f \in DOMAIN now |-> IF new[f] # loaded[f] THEN new[f] ELSE now[f]]

BillInit ==
  /\ rows = [i \in RowIds |-> NoRow] /\ events = {} /\ seen = {} /\ flight = {}
  /\ applied = [n \in 1..MaxEvents |-> 0] /\ lives = 0

----------------------------------------------------------------------------
\* Stripe issues an event about a subscription.
Issue ==
  /\ Cardinality(events) < MaxEvents
  /\ \E s \in StripeSubs,
        t \in {"checkout", "created", "updated", "deleted", "paid", "failed"},
        st \in StripeStatus, p \in {None, "pro"} :
       /\ (t \notin {"created", "updated"} => st = "active") /\ (t # "updated" => p = None)
       /\ events' = events \cup {[id |-> Cardinality(events) + 1, type |-> t, sub |-> s,
                                  cust |-> "c1", status |-> st, plan |-> p]}
  /\ UNCHANGED <<rows, seen, flight, applied, lives>>

\* A wrong form: the event is not remembered before its handler runs.
RememberedLater(id) == seen

\* _is_duplicate tests and remembers in one step; a full cache is emptied first.
Remembered(id) == IF Cardinality(seen) >= MaxCache THEN {id} ELSE seen \cup {id}

\* A handler at work; an event has one for each life of the cache at most.
Begun(e, i, row, life) == [e |-> e, row |-> i, loaded |-> row, life |-> life]

\* stripe_webhook up to the handler's select, which several rows make raise: the
\* event stays remembered and is answered as a duplicate when Stripe sends it again.
Receive ==
  \E e \in events :
    LET hit == {i \in UserRows : Wanted(e, rows[i])} IN
    /\ e.id \notin seen /\ Cardinality(flight) < MaxFlight
    /\ lives + (IF Cardinality(seen) >= MaxCache THEN 1 ELSE 0) <= MaxLives
    /\ lives' = lives + (IF Cardinality(seen) >= MaxCache THEN 1 ELSE 0)
    /\ seen' = Remembered(e.id)
    /\ flight' = IF Cardinality(hit) > 1 THEN flight
                 ELSE IF hit = {} THEN flight \cup {Begun(e, "user", NoRow, lives')}
                 ELSE flight \cup {Begun(e, i, rows[i], lives') : i \in hit}
    /\ UNCHANGED <<rows, events, applied>>

\* The commit of a webhook handler that found a row.
CommitUpdate(f) ==
  /\ f.e.type # "request" /\ f.loaded # NoRow
  /\ flight' = flight \ {f}
  /\ rows' = [rows EXCEPT ![f.row] = Flushed(@, f.loaded, Handled(f.e, f.loaded))]
  /\ applied' = [applied EXCEPT ![f.e.id] = @ + 1]
  /\ UNCHANGED <<events, seen, lives>>

\* Without a row only the checkout handler writes: it inserts one with the user's id
\* as key, which raises when the key has been taken meanwhile.
CommitInsert(f) ==
  LET taken == rows["user"] # NoRow
      inserts == f.e.type = "checkout" /\ ~taken IN
  /\ f.e.type # "request" /\ f.loaded = NoRow
  /\ flight' = flight \ {f}
  /\ rows' = IF inserts THEN [rows EXCEPT !["user"] = [plan |-> "starter", cust |-> f.e.cust,
                                                        sub |-> f.e.sub, status |-> "active"]]
             ELSE rows
  /\ applied' = IF f.e.type = "checkout" /\ taken THEN applied
                ELSE [applied EXCEPT ![f.e.id] = @ + 1]
  /\ UNCHANGED <<events, seen, lives>>

\* create_checkout reads the user's row ...
RequestCheckout ==
  LET hit == UserRows IN
  /\ Prices # {} /\ Cardinality(flight) < MaxFlight /\ Cardinality(hit) <= 1
  /\ \A i \in hit : rows[i].cust = None
  /\ \E i \in IF hit = {} THEN {"x1", "x2"} ELSE hit :
       /\ ~ \E f \in flight : f.row = i
       /\ flight' = flight \cup {Begun([type |-> "request"], i, rows[i], lives)}
  /\ UNCHANGED <<rows, events, seen, applied, lives>>

\* ... creates the customer, and commits it: on the row it read or on a new one
\* that counts for nothing until Stripe confirms.  Two requests of a user without
\* a row insert two rows.
CommitCheckout(f) ==
  /\ f.e.type = "request"
  /\ flight' = flight \ {f}
  /\ rows' = [rows EXCEPT ![f.row] =
                IF f.loaded # NoRow THEN [@ EXCEPT !.cust = "c1"]
                ELSE [plan |-> "free", cust |-> "c1", sub |-> None, status |-> "incomplete"]]
  /\ UNCHANGED <<events, seen, applied, lives>>

\* The process dies: what was in flight is lost and the cache starts empty.
BillingRestart ==
  /\ lives < MaxLives /\ lives' = lives + 1
  /\ seen' = {} /\ flight' = {}
  /\ UNCHANGED <<rows, events, applied>>

----------------------------------------------------------------------------
\* get_user_plan: the plan of the row that counts; two of them raise.
CountedRows == {i \in UserRows : rows[i].status \in Counted}
UserPlan == IF CountedRows = {} THEN "free" ELSE rows[CHOOSE i \in CountedRows : TRUE].plan

\* check_model_execution without a key of the user's own.
Entitled == Cardinality(CountedRows) = 1 /\ UserPlan \in Paid

BillNext ==
  \/ Issue \/ Receive \/ RequestCheckout \/ BillingRestart
  \/ \E f \in flight : CommitUpdate(f) \/ CommitInsert(f) \/ CommitCheckout(f)

----------------------------------------------------------------------------
\* However deliveries overlap, a handler commits an event at most once for each
\* life of the cache: the first, and one more after a restart or an emptied cache.
AppliedOncePerCache == \A n \in DOMAIN applied : applied[n] <= lives + 1

\* Nobody is entitled to the platform's model keys by a subscription Stripe has not
\* confirmed: some event whose handler committed says paid, active or on trial.
EntitledHasGround ==
  Entitled => \E e \in events : /\ applied[e.id] > 0
                                /\ \/ e.type \in {"checkout", "paid"}
                                   \/ e.type \in {"created", "updated"} /\ e.status \in Counted

\* Webhooks, whatever the order and number of deliveries: no event counts twice within
\* a life of the cache, and no entitlement appears from nothing.
WebhookEffects == AppliedOncePerCache /\ EntitledHasGround
=============================================================================
