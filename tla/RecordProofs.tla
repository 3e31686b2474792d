---------------------------- MODULE RecordProofs ---------------------------
(***************************************************************************)
(* What holds of the records a server keeps and of what it makes of them,  *)
(* for every value of the constants: of Billing the subscriptions,         *)
(* of MemoryStores the episodic records and the facts, of   *)
(* ContextPack the contexts that are built of memories, of WorkflowRuns the*)
(* tools that are mounted on an agent.  The four share no state.           *)
(***************************************************************************)
EXTENDS Billing, MemoryStores, ContextPack, WorkflowRuns, FiniteSetTheorems,
        WellFoundedInduction, TLAPS

-----------------------------------------------------------------------------
(***************************************************************************)
(* Billing: the subscriptions, and the events of Stripe.                   *)
(***************************************************************************)
BillSpec == BillInit /\ [][BillNext]_billVars

\* The values of the columns.
BillRow ==
    [plan : Paid \cup {"free", "none"}, cust : {"c1", None}, sub : StripeSubs \cup {None},
     status : {"none", "active", "canceled", "trialing", "past_due", "incomplete"}]

StripeEvent ==
    [id : 1..MaxEvents,
     type : {"checkout", "created", "updated", "deleted", "paid", "failed"},
     sub : StripeSubs, cust : {"c1"}, status : StripeStatus,
     plan : {None, "pro"}]

CheckoutRequest == [type |-> "request"]

Handler(es) == [e : es \cup {CheckoutRequest}, row : RowIds, loaded : BillRow, life : Nat]

\* The handlers of an event that have not committed.
InFlight(fl, n) == {f \in fl : f.e.type # "request" /\ f.e.id = n}

\* An event that says paid or active, and whose handler has committed.
Ground(es, ap) ==
    \E e \in es : /\ ap[e.id] > 0
                  /\ \/ e.type \in {"checkout", "paid"}
                     \/ e.type \in {"created", "updated"} /\ e.status \in Counted

BillTypes ==
    /\ rows \in [RowIds -> BillRow]
    /\ events \subseteq StripeEvent /\ IsFiniteSet(events)
    /\ flight \subseteq Handler(events) /\ IsFiniteSet(flight)
    /\ applied \in [1..MaxEvents -> Nat] /\ lives \in Nat

\* A handler under way counts as committed; an event that is remembered has had one
\* more chance than the cache has had lives before.
Counts ==
    \A n \in 1..MaxEvents :
       applied[n] + Cardinality(InFlight(flight, n)) <= lives + (IF n \in seen THEN 1 ELSE 0)

Grounds == \A i \in RowIds : rows[i].status \in Counted => Ground(events, applied)

EventsKept == BillTypes /\ Counts /\ Grounds

\* Each handler stands for an event or a checkout request.
LEMMA Handlers ==
    ASSUME BillTypes
    PROVE  /\ \A e \in events : e.type # "request" /\ e \in StripeEvent
           /\ \A f \in flight : /\ f \in Handler(events)
                                /\ f.e.type # "request" => f.e \in events
           /\ \A n \in 1..MaxEvents : /\ IsFiniteSet(InFlight(flight, n))
                                      /\ Cardinality(InFlight(flight, n)) \in Nat
<1>1. \A e \in events : e.type # "request" /\ e \in StripeEvent
  BY DEF BillTypes, StripeEvent
<1>2. \A f \in flight : f \in Handler(events) /\ (f.e.type # "request" => f.e \in events)
  BY DEF BillTypes, Handler, CheckoutRequest
<1>3. ASSUME NEW n \in 1..MaxEvents
      PROVE  IsFiniteSet(InFlight(flight, n)) /\ Cardinality(InFlight(flight, n)) \in Nat
  <2>1. InFlight(flight, n) \in SUBSET flight
    BY DEF InFlight
  <2> QED  BY <2>1, FS_Subset, FS_CardinalityType DEF BillTypes
<1> QED  BY <1>1, <1>2, <1>3

\* A handler begins: it counts for its event only.
LEMMA Begins ==
    ASSUME BillTypes, NEW f, NEW n \in 1..MaxEvents
    PROVE  /\ IsFiniteSet(flight \cup {f})
           /\ Cardinality(InFlight(flight \cup {f}, n)) \in Nat
           /\ Cardinality(InFlight(flight \cup {f}, n)) <= Cardinality(InFlight(flight, n)) + 1
           /\ f.e.type = "request" \/ f.e.id # n =>
                Cardinality(InFlight(flight \cup {f}, n)) = Cardinality(InFlight(flight, n))
<1>1. IsFiniteSet(InFlight(flight, n)) /\ Cardinality(InFlight(flight, n)) \in Nat
  BY Handlers
<1>2. CASE f.e.type = "request" \/ f.e.id # n
  <2>1. InFlight(flight \cup {f}, n) = InFlight(flight, n)
    BY <1>2 DEF InFlight
  <2> QED  BY <1>1, <2>1, FS_AddElement DEF BillTypes
<1>3. CASE ~(f.e.type = "request" \/ f.e.id # n)
  <2>1. InFlight(flight \cup {f}, n) = InFlight(flight, n) \cup {f}
    BY <1>3 DEF InFlight
  <2>2. Cardinality(InFlight(flight, n) \cup {f})
          = IF f \in InFlight(flight, n) THEN Cardinality(InFlight(flight, n))
            ELSE Cardinality(InFlight(flight, n)) + 1
    BY <1>1, FS_AddElement
  <2>3. IsFiniteSet(flight \cup {f})
    BY FS_AddElement DEF BillTypes
  <2> QED  BY <1>1, <1>3, <2>1, <2>2, <2>3
<1> QED  BY <1>2, <1>3

\* A handler ends.
LEMMA Ends ==
    ASSUME BillTypes, NEW f \in flight, NEW n \in 1..MaxEvents
    PROVE  /\ IsFiniteSet(flight \ {f})
           /\ Cardinality(InFlight(flight \ {f}, n)) =
                IF f.e.type # "request" /\ f.e.id = n THEN Cardinality(InFlight(flight, n)) - 1
                ELSE Cardinality(InFlight(flight, n))
<1>1. IsFiniteSet(InFlight(flight, n)) /\ Cardinality(InFlight(flight, n)) \in Nat
  BY Handlers
<1>2. InFlight(flight \ {f}, n) = InFlight(flight, n) \ {f}
  BY DEF InFlight
<1>3. f \in InFlight(flight, n) <=> f.e.type # "request" /\ f.e.id = n
  BY DEF InFlight
<1>4. Cardinality(InFlight(flight, n) \ {f})
        = IF f \in InFlight(flight, n) THEN Cardinality(InFlight(flight, n)) - 1
          ELSE Cardinality(InFlight(flight, n))
  BY <1>1, FS_RemoveElement
<1>5. IsFiniteSet(flight \ {f})
  BY FS_RemoveElement DEF BillTypes
<1> QED  BY <1>2, <1>3, <1>4, <1>5

\* Stripe issues an event: its number is new, and no handler has it.
LEMMA Issues == ASSUME EventsKept, Issue  PROVE EventsKept'
<1> DEFINE n == Cardinality(events) + 1
<1>1. Cardinality(events) < MaxEvents /\ Cardinality(events) \in Nat /\ MaxEvents \in Nat
  BY BillingAssumption, FS_CardinalityType DEF Issue, EventsKept, BillTypes
<1>2. n \in 1..MaxEvents
  BY <1>1
<1> HIDE DEF n
<1>3. PICK s \in StripeSubs, t \in {"checkout", "created", "updated", "deleted", "paid", "failed"},
           st \in StripeStatus, p \in {None, "pro"} :
        events' = events \cup {[id |-> n, type |-> t, sub |-> s, cust |-> "c1",
                                status |-> st, plan |-> p]}
  BY DEF Issue, n
<1> DEFINE e == [id |-> n, type |-> t, sub |-> s, cust |-> "c1", status |-> st, plan |-> p]
<1>4. e \in StripeEvent
  BY <1>2 DEF StripeEvent, StripeStatus
<1>5. events' = events \cup {e}
  BY <1>3
<1> HIDE DEF e
<1>6. events' \subseteq StripeEvent /\ IsFiniteSet(events') /\ events \subseteq events'
  BY <1>4, <1>5, FS_AddElement DEF EventsKept, BillTypes
<1>7. UNCHANGED <<rows, seen, flight, applied, lives>>
  BY DEF Issue
<1>8. flight \subseteq Handler(events')
  BY <1>6 DEF EventsKept, BillTypes, Handler
<1>9. BillTypes' /\ Counts'
  BY <1>6, <1>7, <1>8 DEF EventsKept, BillTypes, Counts
<1>10. Ground(events, applied) => Ground(events', applied)
  BY <1>6 DEF Ground
<1>11. Grounds'
  BY <1>7, <1>10 DEF EventsKept, Grounds
<1> QED  BY <1>9, <1>11 DEF EventsKept

\* The table's rows are three at most.
LEMMA FewRows == \A S \in SUBSET RowIds : IsFiniteSet(S) /\ Cardinality(S) \in Nat
<1>1. IsFiniteSet({"user"} \cup {"x1"})
  BY FS_Singleton, FS_AddElement
<1>2. IsFiniteSet(({"user"} \cup {"x1"}) \cup {"x2"})
  BY <1>1, FS_AddElement
<1>3. RowIds = ({"user"} \cup {"x1"}) \cup {"x2"}
  BY DEF RowIds
<1> QED  BY <1>2, <1>3, FS_Subset, FS_CardinalityType

\* What an action that begins a handler, or none, keeps.
LEMMA BeginsHandler ==
    ASSUME EventsKept, NEW f \in Handler(events), f.e.type # "request",
           seen' = Remembered(f.e.id), f.e.id \notin seen,
           lives' = lives + (IF Cardinality(seen) >= MaxCache THEN 1 ELSE 0),
           flight' = flight \/ flight' = flight \cup {f},
           UNCHANGED <<rows, events, applied>>
    PROVE  EventsKept'
<1>1. lives \in Nat /\ lives' \in Nat /\ lives' >= lives
  BY DEF EventsKept, BillTypes
<1>2. f.e \in events /\ f.e.id \in 1..MaxEvents
  BY DEF Handler, CheckoutRequest, EventsKept, BillTypes, StripeEvent
<1>3. IsFiniteSet(flight')
  BY FS_AddElement DEF EventsKept, BillTypes
<1>4. BillTypes'
  BY <1>1, <1>3 DEF EventsKept, BillTypes
<1>5. ASSUME NEW n \in 1..MaxEvents
      PROVE  applied'[n] + Cardinality(InFlight(flight', n))
               <= lives' + (IF n \in seen' THEN 1 ELSE 0)
  <2> DEFINE before == Cardinality(InFlight(flight, n))
             now == Cardinality(InFlight(flight', n))
  <2>1. before \in Nat /\ applied[n] \in Nat /\ applied'[n] = applied[n]
    BY Handlers DEF EventsKept, BillTypes
  <2>2. /\ now \in Nat /\ now <= before + 1
        /\ n # f.e.id => now = before
    <3>1. CASE flight' = flight
      BY <2>1, <3>1
    <3>2. CASE flight' = flight \cup {f}
      <4>1. BillTypes
        BY DEF EventsKept
      <4>2. /\ Cardinality(InFlight(flight \cup {f}, n)) \in Nat
            /\ Cardinality(InFlight(flight \cup {f}, n)) <= before + 1
            /\ n # f.e.id => Cardinality(InFlight(flight \cup {f}, n)) = before
        BY <4>1, Begins
      <4> QED  BY <3>2, <4>2
    <3> QED  BY <3>1, <3>2
  <2>3. applied[n] + before <= lives + (IF n \in seen THEN 1 ELSE 0)
    BY DEF EventsKept, Counts
  <2>4. /\ f.e.id \in seen'
        /\ \/ lives' = lives + 1
           \/ lives' = lives /\ seen' = seen \cup {f.e.id}
    BY <1>1 DEF Remembered
  <2> HIDE DEF before, now
  <2>5. applied[n] + now <= lives' + (IF n \in seen' THEN 1 ELSE 0)
    <3>1. CASE n = f.e.id
      BY <1>1, <2>1, <2>2, <2>3, <2>4, <3>1
    <3>2. CASE n # f.e.id
      BY <1>1, <2>1, <2>2, <2>3, <2>4, <3>2
    <3> QED  BY <3>1, <3>2
  <2> QED  BY <2>1, <2>5 DEF now
<1>6. Counts'
  BY <1>5 DEF Counts
<1>7. Grounds'
  BY DEF EventsKept, Grounds
<1> QED  BY <1>4, <1>6, <1>7 DEF EventsKept

\* A delivery that is not a duplicate: a handler begins, unless several rows fit.
LEMMA Receives == ASSUME EventsKept, Receive  PROVE EventsKept'
<1> DEFINE hit(e) == {i \in UserRows : Wanted(e, rows[i])}
<1>1. PICK e \in events :
         /\ e.id \notin seen
         /\ lives' = lives + (IF Cardinality(seen) >= MaxCache THEN 1 ELSE 0)
         /\ seen' = Remembered(e.id)
         /\ flight' = IF Cardinality(hit(e)) > 1 THEN flight
                      ELSE IF hit(e) = {}
                        THEN flight \cup {Begun(e, "user", NoRow, lives')}
                      ELSE flight \cup {Begun(e, i, rows[i], lives') : i \in hit(e)}
         /\ UNCHANGED <<rows, events, applied>>
  BY DEF Receive
<1>2. e.type # "request" /\ hit(e) \in SUBSET RowIds
  BY Handlers DEF EventsKept, UserRows
<1>3. "user" \in RowIds /\ NoRow \in BillRow
  BY DEF RowIds, NoRow, BillRow, None
<1> DEFINE none == Begun(e, "user", NoRow, lives')
           h(i) == Begun(e, i, rows[i], lives')
<1>0. lives' \in Nat
  BY <1>1 DEF EventsKept, BillTypes
<1>4. none \in Handler(events) /\ none.e = e
  BY <1>0, <1>3 DEF Handler, Begun
<1>5. \A i \in RowIds : h(i) \in Handler(events) /\ h(i).e = e
  BY <1>0 DEF Handler, EventsKept, BillTypes, Begun
<1>6. \/ flight' = flight \/ flight' = flight \cup {none}
      \/ \E i \in RowIds : flight' = flight \cup {h(i)}
  <2>1. CASE Cardinality(hit(e)) > 1 \/ hit(e) = {}
    BY <1>1, <2>1
  <2>2. CASE ~(Cardinality(hit(e)) > 1) /\ hit(e) # {}
    <3>1. IsFiniteSet(hit(e)) /\ Cardinality(hit(e)) \in Nat
      BY <1>2, FewRows
    <3>2. Cardinality(hit(e)) = 1
      BY <2>2, <3>1, FS_EmptySet
    <3>3. PICK i : hit(e) = {i}
      BY <3>1, <3>2, FS_Singleton
    <3>4. flight' = flight \cup {h(i)} /\ i \in RowIds
      BY <1>1, <1>2, <2>2, <3>3
    <3> QED  BY <3>4
  <2> QED  BY <2>1, <2>2
<1> HIDE DEF none, h
<1>7. CASE flight' = flight \/ flight' = flight \cup {none}
  BY <1>1, <1>2, <1>4, <1>7, BeginsHandler
<1>8. ASSUME NEW i \in RowIds, flight' = flight \cup {h(i)}
      PROVE  EventsKept'
  BY <1>1, <1>2, <1>5, <1>8, BeginsHandler
<1> QED  BY <1>6, <1>7, <1>8

\* What has happened stays a ground.
LEMMA GroundStays ==
    ASSUME BillTypes, applied' \in [1..MaxEvents -> Nat],
           \A n \in 1..MaxEvents : applied'[n] >= applied[n], Ground(events, applied)
    PROVE  Ground(events, applied')
<1>1. PICK e \in events : /\ applied[e.id] > 0
                          /\ \/ e.type \in {"checkout", "paid"}
                             \/ e.type \in {"created", "updated"} /\ e.status \in Counted
  BY DEF Ground
<1>2. e.id \in 1..MaxEvents
  BY DEF BillTypes, StripeEvent
<1>3. applied'[e.id] > 0
  BY <1>1, <1>2 DEF BillTypes
<1> QED  BY <1>1, <1>3 DEF Ground

\* A handler commits, or raises: what it writes has its event for a ground.
LEMMA HandlerEnds ==
    ASSUME EventsKept, NEW f \in flight, f.e.type # "request", NEW committed \in BOOLEAN,
           flight' = flight \ {f},
           applied' = IF committed THEN [applied EXCEPT ![f.e.id] = @ + 1] ELSE applied,
           rows' \in [RowIds -> BillRow],
           \A i \in RowIds : rows'[i].status \in Counted =>
              \/ rows[i].status \in Counted
              \/ /\ committed
                 /\ \/ f.e.type \in {"checkout", "paid"}
                    \/ f.e.type \in {"created", "updated"} /\ f.e.status \in Counted,
           UNCHANGED <<events, seen, lives>>
    PROVE  EventsKept'
<1>1. f.e \in events /\ f.e.id \in 1..MaxEvents
  BY Handlers DEF EventsKept, BillTypes, StripeEvent
<1>2. BillTypes /\ applied \in [1..MaxEvents -> Nat] /\ lives \in Nat
  BY DEF EventsKept, BillTypes
<1>3. /\ applied' \in [1..MaxEvents -> Nat]
      /\ \A n \in 1..MaxEvents :
            applied'[n] = IF committed /\ n = f.e.id THEN applied[n] + 1 ELSE applied[n]
  BY <1>1, <1>2
<1>4. IsFiniteSet(flight') /\ flight' \subseteq Handler(events)
  BY <1>2, FS_RemoveElement DEF BillTypes
<1>5. BillTypes'
  BY <1>2, <1>3, <1>4 DEF BillTypes
<1>6. ASSUME NEW n \in 1..MaxEvents
      PROVE  applied'[n] + Cardinality(InFlight(flight', n))
               <= lives + (IF n \in seen THEN 1 ELSE 0)
  <2> DEFINE before == Cardinality(InFlight(flight, n))
             now == Cardinality(InFlight(flight', n))
  <2>1. before \in Nat /\ applied[n] \in Nat
    BY <1>2, Handlers
  <2>2. now = IF n = f.e.id THEN before - 1 ELSE before
    BY <1>2, Ends
  <2>3. applied[n] + before <= lives + (IF n \in seen THEN 1 ELSE 0)
    BY DEF EventsKept, Counts
  <2>4. applied'[n] <= applied[n] + 1 /\ (n # f.e.id => applied'[n] = applied[n])
        /\ applied'[n] \in Nat
    BY <1>3, <2>1
  <2> HIDE DEF before, now
  <2>5. applied'[n] + now <= applied[n] + before
    BY <2>1, <2>2, <2>4
  <2>6. applied'[n] + now <= lives + (IF n \in seen THEN 1 ELSE 0)
    BY <1>2, <2>1, <2>2, <2>3, <2>4, <2>5
  <2> QED  BY <2>6 DEF now
<1>7. Counts'
  BY <1>6 DEF Counts
<1>8. ASSUME NEW i \in RowIds, rows'[i].status \in Counted  PROVE Ground(events, applied')
  <2>1. CASE rows[i].status \in Counted
    <3>1. Ground(events, applied)
      BY <2>1 DEF EventsKept, Grounds
    <3>2. \A n \in 1..MaxEvents : applied'[n] >= applied[n]
      BY <1>2, <1>3
    <3> QED  BY <1>2, <1>3, <3>1, <3>2, GroundStays
  <2>2. CASE rows[i].status \notin Counted
    <3>1. /\ committed
          /\ \/ f.e.type \in {"checkout", "paid"}
             \/ f.e.type \in {"created", "updated"} /\ f.e.status \in Counted
      BY <1>8, <2>2
    <3>2. applied'[f.e.id] > 0
      BY <1>1, <1>2, <1>3, <3>1
    <3> QED  BY <1>1, <3>1, <3>2 DEF Ground
  <2> QED  BY <2>1, <2>2
<1>9. Grounds'
  BY <1>8 DEF Grounds
<1> QED  BY <1>5, <1>7, <1>9 DEF EventsKept

\* What a handler makes of a row is a row; it counts newly only by a word of Stripe.
LEMMA HandledRows ==
    ASSUME NEW e \in StripeEvent, NEW r \in BillRow
    PROVE  /\ Handled(e, r) \in BillRow
           /\ Handled(e, r).status \in Counted /\ Handled(e, r).status # r.status =>
                \/ e.type \in {"checkout", "paid"}
                \/ e.type \in {"created", "updated"} /\ e.status \in Counted
<1>1. /\ e.type \in {"checkout", "created", "updated", "deleted", "paid", "failed"}
      /\ e.sub \in StripeSubs /\ e.cust = "c1" /\ e.plan \in {None, "pro"}
      /\ e.status \in StripeStatus
  BY DEF StripeEvent
<1>2. /\ MapStatus(e.status) \in {"active", "past_due", "canceled", "trialing", "incomplete"}
      /\ MapStatus(e.status) \in Counted => e.status \in Counted
  BY <1>1 DEF MapStatus, Counted, StripeStatus
<1>3. CASE e.type = "checkout"
  BY <1>1, <1>3 DEF Handled, BillRow
<1>4. CASE e.type = "created"
  BY <1>1, <1>2, <1>4 DEF Handled, BillRow, Counted
<1>5. CASE e.type = "updated"
  BY <1>1, <1>2, <1>5 DEF Handled, BillRow, Counted, Paid, None
<1>6. CASE e.type = "deleted" \/ e.type = "failed"
  BY <1>6 DEF Handled, BillRow, Counted
<1>7. CASE e.type = "paid"
  BY <1>7 DEF Handled, BillRow
<1> QED  BY <1>1, <1>3, <1>4, <1>5, <1>6, <1>7

\* A handler that found a row writes the columns it has changed.
LEMMA Updates == ASSUME EventsKept, NEW f \in flight, CommitUpdate(f)  PROVE EventsKept'
<1> DEFINE now == rows[f.row]
           new == Handled(f.e, f.loaded)
<1>1. /\ f.e.type # "request" /\ flight' = flight \ {f}
      /\ rows' = [rows EXCEPT ![f.row] = Flushed(now, f.loaded, new)]
      /\ applied' = [applied EXCEPT ![f.e.id] = @ + 1]
      /\ UNCHANGED <<events, seen, lives>>
  BY DEF CommitUpdate
<1>2. /\ f.e \in StripeEvent /\ f.row \in RowIds /\ f.loaded \in BillRow /\ now \in BillRow
  BY <1>1, Handlers DEF EventsKept, BillTypes, Handler
<1>3. /\ new \in BillRow
      /\ new.status \in Counted /\ new.status # f.loaded.status =>
            \/ f.e.type \in {"checkout", "paid"}
            \/ f.e.type \in {"created", "updated"} /\ f.e.status \in Counted
  BY <1>1, <1>2, HandledRows
<1>4. /\ Flushed(now, f.loaded, new) \in BillRow
      /\ Flushed(now, f.loaded, new).status =
            IF new.status # f.loaded.status THEN new.status ELSE now.status
  <2> HIDE DEF now, new
  <2>1. DOMAIN now = {"plan", "cust", "sub", "status"}
    BY <1>2 DEF BillRow
  <2> QED  BY <1>2, <1>3, <2>1 DEF Flushed, BillRow
<1> DEFINE row == Flushed(now, f.loaded, new)
<1>5. row \in BillRow /\ rows' = [rows EXCEPT ![f.row] = row]
  BY <1>1, <1>4
<1> HIDE DEF row
<1>6. /\ rows' \in [RowIds -> BillRow]
      /\ \A i \in RowIds : rows'[i] = IF i = f.row THEN row ELSE rows[i]
  BY <1>2, <1>5 DEF EventsKept, BillTypes
<1>7. ASSUME NEW i \in RowIds, rows'[i].status \in Counted
      PROVE  \/ rows[i].status \in Counted
             \/ f.e.type \in {"checkout", "paid"}
             \/ f.e.type \in {"created", "updated"} /\ f.e.status \in Counted
  BY <1>3, <1>4, <1>6, <1>7 DEF row
<1> QED  BY <1>1, <1>6, <1>7, HandlerEnds

\* A handler that found no row: only a checkout inserts one.
LEMMA Inserts == ASSUME EventsKept, NEW f \in flight, CommitInsert(f)  PROVE EventsKept'
<1> DEFINE taken == rows["user"] # NoRow
           inserts == f.e.type = "checkout" /\ ~taken
           committed == ~(f.e.type = "checkout" /\ taken)
           row == [plan |-> "starter", cust |-> f.e.cust, sub |-> f.e.sub, status |-> "active"]
<1>1. /\ f.e.type # "request" /\ flight' = flight \ {f}
      /\ rows' = IF inserts THEN [rows EXCEPT !["user"] = row] ELSE rows
      /\ applied' = IF committed THEN [applied EXCEPT ![f.e.id] = @ + 1] ELSE applied
      /\ UNCHANGED <<events, seen, lives>>
  BY DEF CommitInsert
<1>2. f.e \in StripeEvent
  BY <1>1, Handlers DEF EventsKept
<1>3. row \in BillRow
  BY <1>2 DEF BillRow, StripeEvent, Paid
<1>4. inserts => committed /\ f.e.type = "checkout"
  OBVIOUS
<1>5. committed \in BOOLEAN
  OBVIOUS
<1> HIDE DEF taken, inserts, committed, row
<1>6. /\ rows' \in [RowIds -> BillRow]
      /\ \A i \in RowIds : rows'[i] = rows[i] \/ inserts
  BY <1>1, <1>3 DEF EventsKept, BillTypes
<1> QED  BY <1>1, <1>4, <1>5, <1>6, HandlerEnds

\* A checkout request is read, and committed: it counts for nothing.
LEMMA ChecksOut ==
    ASSUME EventsKept, RequestCheckout \/ \E f \in flight : CommitCheckout(f)
    PROVE  EventsKept'
<1>1. CASE RequestCheckout
  <2>1. PICK i \in {"x1", "x2"} \cup UserRows :
           /\ flight' = flight \cup {Begun(CheckoutRequest, i, rows[i], lives)}
           /\ UNCHANGED <<rows, events, seen, applied, lives>>
    BY <1>1 DEF RequestCheckout, CheckoutRequest
  <2> DEFINE f == Begun(CheckoutRequest, i, rows[i], lives)
  <2>2. i \in RowIds /\ rows[i] \in BillRow
    BY DEF RowIds, UserRows, EventsKept, BillTypes
  <2>3. f \in Handler(events) /\ f.e.type = "request" /\ flight' = flight \cup {f}
    BY <2>1, <2>2 DEF Handler, CheckoutRequest, Begun, EventsKept, BillTypes
  <2> HIDE DEF f
  <2>4. IsFiniteSet(flight')
    BY <2>3, FS_AddElement DEF EventsKept, BillTypes
  <2>5. BillTypes'
    BY <2>1, <2>3, <2>4 DEF EventsKept, BillTypes
  <2>6. \A n \in 1..MaxEvents :
           Cardinality(InFlight(flight', n)) = Cardinality(InFlight(flight, n))
    BY <2>3, Begins DEF EventsKept
  <2> QED  BY <2>1, <2>5, <2>6 DEF EventsKept, Counts, Grounds
<1>2. ASSUME NEW f \in flight, CommitCheckout(f)  PROVE EventsKept'
  <2> DEFINE row == IF f.loaded # NoRow THEN [rows[f.row] EXCEPT !.cust = "c1"]
                    ELSE [plan |-> "free", cust |-> "c1", sub |-> None, status |-> "incomplete"]
  <2>1. /\ f.e.type = "request" /\ flight' = flight \ {f}
        /\ rows' = [rows EXCEPT ![f.row] = row]
        /\ UNCHANGED <<events, seen, applied, lives>>
    BY <1>2 DEF CommitCheckout
  <2>2. f.row \in RowIds /\ rows[f.row] \in BillRow
    BY Handlers DEF EventsKept, BillTypes, Handler
  <2>3. row \in BillRow /\ (row.status = rows[f.row].status \/ row.status = "incomplete")
    BY <2>2 DEF BillRow, Paid
  <2> HIDE DEF row
  <2>4. /\ rows' \in [RowIds -> BillRow]
        /\ \A i \in RowIds : rows'[i] = IF i = f.row THEN row ELSE rows[i]
    BY <2>1, <2>2, <2>3 DEF EventsKept, BillTypes
  <2>5. IsFiniteSet(flight')
    BY <2>1, FS_RemoveElement DEF EventsKept, BillTypes
  <2>6. BillTypes'
    BY <2>1, <2>4, <2>5 DEF EventsKept, BillTypes
  <2>7. \A n \in 1..MaxEvents :
           Cardinality(InFlight(flight', n)) = Cardinality(InFlight(flight, n))
    BY <2>1, Ends DEF EventsKept
  <2>8. Counts'
    BY <2>1, <2>7 DEF EventsKept, Counts
  <2>9. \A i \in RowIds : rows'[i].status \in Counted => rows[i].status \in Counted
    BY <2>2, <2>3, <2>4 DEF Counted
  <2>10. Grounds'
    BY <2>1, <2>9 DEF EventsKept, Grounds
  <2> QED  BY <2>6, <2>8, <2>10 DEF EventsKept
<1> QED  BY <1>1, <1>2

\* The process dies: the handlers are lost, and the cache is empty.
LEMMA BillingRestarts == ASSUME EventsKept, BillingRestart  PROVE EventsKept'
<1>1. /\ lives' = lives + 1 /\ seen' = {} /\ flight' = {}
      /\ UNCHANGED <<rows, events, applied>>
  BY DEF BillingRestart
<1>2. IsFiniteSet({}) /\ Cardinality({}) = 0
  BY FS_EmptySet
<1>3. BillTypes'
  BY <1>1, <1>2 DEF EventsKept, BillTypes
<1>4. ASSUME NEW n \in 1..MaxEvents
      PROVE  applied[n] + Cardinality(InFlight({}, n)) <= lives + 1
  <2>1. InFlight({}, n) = {}
    BY DEF InFlight
  <2>2. Cardinality(InFlight(flight, n)) \in Nat /\ applied[n] \in Nat /\ lives \in Nat
    BY Handlers DEF EventsKept, BillTypes
  <2>3. applied[n] + Cardinality(InFlight(flight, n)) <= lives + (IF n \in seen THEN 1 ELSE 0)
    BY DEF EventsKept, Counts
  <2> QED  BY <1>2, <2>1, <2>2, <2>3
<1>5. Counts'
  BY <1>1, <1>4 DEF Counts
<1>6. Grounds'
  BY <1>1 DEF EventsKept, Grounds
<1> QED  BY <1>3, <1>5, <1>6 DEF EventsKept

\* However events are delivered: none counts twice within a life of the cache, and no
\* entitlement appears from nothing.
THEOREM EventsHaveEffect == BillSpec => []WebhookEffects
<1>1. BillInit => EventsKept
  <2> SUFFICES ASSUME BillInit  PROVE EventsKept
    OBVIOUS
  <2>1. /\ rows = [i \in RowIds |-> NoRow] /\ events = {} /\ seen = {} /\ flight = {}
        /\ applied = [n \in 1..MaxEvents |-> 0] /\ lives = 0
    BY DEF BillInit
  <2>2. NoRow \in BillRow /\ NoRow.status \notin Counted
    BY DEF NoRow, BillRow, None, Counted
  <2>3. IsFiniteSet({}) /\ Cardinality({}) = 0
    BY FS_EmptySet
  <2>4. BillTypes
    BY <2>1, <2>2, <2>3 DEF BillTypes
  <2>5. \A n \in 1..MaxEvents : InFlight(flight, n) = {}
    BY <2>1 DEF InFlight
  <2>6. Counts
    <3>1. ASSUME NEW n \in 1..MaxEvents
          PROVE  applied[n] + Cardinality(InFlight(flight, n))
                   <= lives + (IF n \in seen THEN 1 ELSE 0)
      <4>1. Cardinality(InFlight(flight, n)) = 0
        BY <2>3, <2>5
      <4>2. applied[n] = 0 /\ lives = 0
        BY <2>1
      <4> QED  BY <4>1, <4>2
    <3> QED  BY <3>1 DEF Counts
  <2>7. Grounds
    BY <2>1, <2>2 DEF Grounds
  <2> QED  BY <2>4, <2>6, <2>7 DEF EventsKept
<1>2. EventsKept /\ [BillNext]_billVars => EventsKept'
  <2> SUFFICES ASSUME EventsKept, [BillNext]_billVars  PROVE EventsKept'
    OBVIOUS
  <2>1. ASSUME UNCHANGED <<rows, events, seen, flight, applied, lives>>  PROVE EventsKept'
    BY <2>1 DEF EventsKept, BillTypes, Counts, Grounds
  <2>2. CASE UNCHANGED billVars
    BY <2>1, <2>2 DEF billVars
  <2> QED  BY <2>2, Issues, Receives, ChecksOut, Updates, Inserts, BillingRestarts
           DEF BillNext
<1>3. EventsKept => WebhookEffects
  <2> SUFFICES ASSUME EventsKept  PROVE WebhookEffects
    OBVIOUS
  <2>1. ASSUME NEW n \in 1..MaxEvents  PROVE applied[n] <= lives + 1
    <3>1. Cardinality(InFlight(flight, n)) \in Nat /\ applied[n] \in Nat /\ lives \in Nat
      BY Handlers DEF EventsKept, BillTypes
    <3>2. applied[n] + Cardinality(InFlight(flight, n)) <= lives + (IF n \in seen THEN 1 ELSE 0)
      BY DEF EventsKept, Counts
    <3> QED  BY <3>1, <3>2
  <2>2. AppliedOncePerCache
    <3>1. DOMAIN applied = 1..MaxEvents
      BY DEF EventsKept, BillTypes
    <3> QED  BY <2>1, <3>1 DEF AppliedOncePerCache
  <2>3. ASSUME Entitled  PROVE Ground(events, applied)
    <3>1. CountedRows # {}
      BY <2>3, FS_EmptySet DEF Entitled
    <3> QED  BY <3>1 DEF CountedRows, UserRows, EventsKept, Grounds
  <2>4. EntitledHasGround
    BY <2>3 DEF EntitledHasGround, Ground
  <2> QED  BY <2>2, <2>4 DEF WebhookEffects
<1> QED  BY <1>1, <1>2, <1>3, PTL DEF BillSpec

-----------------------------------------------------------------------------
(***************************************************************************)
(* The memory: the records and the facts.                                  *)
(***************************************************************************)
\* What a request is doing, over records and facts that are there.
Work(k, cs, fs, n) ==
    /\ DOMAIN k = {"pc", "rec", "value", "existing", "now", "rows"}
    /\ k.pc \in {"idle", "projecting", "extracting", "upserting", "marking", "compressing"}
    /\ k.pc = "projecting" => k.rec \in Rec /\ cs[k.rec] # NULL
    /\ k.pc = "upserting" => /\ k.value \in Value /\ k.now \in 1..n
                             /\ k.existing # NULL => k.existing \in Fact /\ fs[k.existing] # NULL
    /\ \A r \in DOMAIN k.rows : r \in Rec /\ cs[r] # NULL /\ k.rows[r] \in ColdRow

MemoryTypes ==
    /\ cold \in [Rec -> ColdRow \cup {NULL}] /\ vault \subseteq Records
    /\ facts \in [Fact -> FactRow \cup {NULL}] /\ clock \in Nat
    /\ actor = [a \in Actor |-> actor[a]]
    /\ \A a \in Actor : Work(actor[a], cold, facts, clock)

\* What is superseded has an heir, and a fact that was ever recorded left one active.
Heirs(fs, n, value) ==
    /\ \A f \in Fact : fs[f] # NULL =>
          /\ fs[f].at \in 1..n
          /\ fs[f].supersedes # NULL => fs[fs[f].supersedes] # NULL
          /\ fs[f].status = "superseded" =>
                \E g \in Fact : fs[g] # NULL /\ fs[g].supersedes = f
    /\ (\E f \in Fact : fs[f] # NULL) => \E f \in Fact : fs[f] # NULL /\ fs[f].status = "active"
    /\ value # NULL => \E f \in Fact : fs[f] # NULL

\* Without a race one request at most is about to write, and has read the active fact.
NoRace ==
    ~raced =>
      /\ \A a, b \in Actor : actor[a].pc = "upserting" /\ actor[b].pc = "upserting" => a = b
      /\ \A a \in Actor : actor[a].pc = "upserting" =>
            ActiveFacts = IF actor[a].existing = NULL THEN {} ELSE {actor[a].existing}
      /\ latest = NULL => ActiveFacts = {}
      /\ latest # NULL => \E f \in Fact : ActiveFacts = {f} /\ facts[f].value = latest

MemoryKept == MemoryTypes /\ Heirs(facts, clock, latest) /\ NoRace

\* Work goes on over records and facts that stay.
LEMMA WorkStays ==
    ASSUME NEW k, NEW cs, NEW ds, NEW fs, NEW gs, NEW n \in Nat, NEW m \in Nat, n <= m,
           Work(k, cs, fs, n), \A r \in Rec : cs[r] # NULL => ds[r] # NULL,
           \A f \in Fact : fs[f] # NULL => gs[f] # NULL
    PROVE  Work(k, ds, gs, m)
<1>1. k.pc = "upserting" => k.now \in 1..m
  BY DEF Work
<1> QED  BY <1>1 DEF Work

\* An idle request has nothing in hand.
LEMMA IdleWorks ==
    /\ \A cs, fs, n : Work(Idle, cs, fs, n)
    /\ Idle.pc = "idle" /\ DOMAIN Idle.rows = {}
    /\ DOMAIN Idle = {"pc", "rec", "value", "existing", "now", "rows"}
<1>1. DOMAIN <<>> = {}
  OBVIOUS
<1>2. /\ DOMAIN Idle = {"pc", "rec", "value", "existing", "now", "rows"}
      /\ Idle.pc = "idle" /\ Idle.rows = <<>>
  BY DEF Idle
<1> QED  BY <1>1, <1>2 DEF Work

\* A step of a request that does not touch the facts.
LEMMA RequestGoesOn ==
    ASSUME MemoryKept, NEW a \in Actor, NEW w, actor' = [actor EXCEPT ![a] = w],
           Work(w, cold', facts, clock), w.pc # "upserting",
           cold' \in [Rec -> ColdRow \cup {NULL}],
           \A r \in Rec : cold[r] # NULL => cold'[r] # NULL,
           vault' \subseteq Records', UNCHANGED <<facts, clock, latest, raced>>
    PROVE  MemoryKept'
<1>1. /\ actor' = [b \in Actor |-> actor'[b]]
      /\ \A b \in Actor : actor'[b] = IF b = a THEN w ELSE actor[b]
  BY DEF MemoryKept, MemoryTypes
<1>2. ASSUME NEW b \in Actor  PROVE Work(actor'[b], cold', facts, clock)
  <2>1. CASE b = a
    BY <1>1, <2>1
  <2>2. CASE b # a
    <3>1. Work(actor[b], cold, facts, clock) /\ clock \in Nat
      BY DEF MemoryKept, MemoryTypes
    <3>2. Work(actor[b], cold', facts, clock)
      BY <3>1, WorkStays
    <3> QED  BY <1>1, <2>2, <3>2
  <2> QED  BY <2>1, <2>2
<1>3. MemoryTypes'
  BY <1>1, <1>2 DEF MemoryKept, MemoryTypes
<1>4. ActiveFacts' = ActiveFacts
  BY DEF ActiveFacts
<1>5. \A b \in Actor : actor'[b].pc = "upserting" => actor'[b] = actor[b]
  BY <1>1
<1>6. NoRace'
  BY <1>4, <1>5 DEF MemoryKept, NoRace
<1> QED  BY <1>3, <1>6 DEF MemoryKept

\* The rows of the table and the work at hand.
LEMMA AtWork ==
    ASSUME MemoryKept, NEW a \in Actor
    PROVE  /\ Work(actor[a], cold, facts, clock) /\ clock \in Nat
           /\ cold \in [Rec -> ColdRow \cup {NULL}] /\ NULL \notin ColdRow
           /\ vault \subseteq Records
           /\ DOMAIN actor[a] = {"pc", "rec", "value", "existing", "now", "rows"}
  BY MemoryAssumption DEF MemoryKept, MemoryTypes, Work

\* A record is remembered.
LEMMA Remembers ==
    ASSUME MemoryKept, NEW a \in Actor, NEW r \in Rec, Remember(a, r)  PROVE MemoryKept'
<1>0. 0 \in 0..MaxAccess
  BY MemoryAssumption
<1>1. PICK summary \in {"", "given"} : Add(r, [summary |-> summary, access |-> 0])
  BY DEF Remember
<1> DEFINE row == [summary |-> summary, access |-> 0]
           w == [Idle EXCEPT !.pc = "projecting", !.rec = r]
<1>2. row \in ColdRow /\ row # NULL
  <2>1. summary \in {"", "given", "made"}
    OBVIOUS
  <2>2. row \in ColdRow
    BY <1>0, <2>1 DEF ColdRow
  <2> QED  BY <2>2, AtWork
<1>3. cold' = [cold EXCEPT ![r] = row] /\ actor' = [actor EXCEPT ![a] = w]
      /\ UNCHANGED <<vault, facts, clock, latest, raced>>
  BY <1>1 DEF Add, Remember
<1>4. /\ DOMAIN w = {"pc", "rec", "value", "existing", "now", "rows"}
      /\ w.pc = "projecting" /\ w.rec = r /\ w.rows = Idle.rows
  BY DEF Idle
<1> HIDE DEF row, w
<1>5. /\ cold' \in [Rec -> ColdRow \cup {NULL}]
      /\ \A s \in Rec : cold'[s] = IF s = r THEN row ELSE cold[s]
  BY <1>2, <1>3, AtWork
<1>6. Work(w, cold', facts, clock)
  BY <1>2, <1>4, <1>5, IdleWorks DEF Work
<1>7. vault' \subseteq Records'
  BY <1>2, <1>3, <1>5, AtWork DEF Records
<1> QED  BY <1>2, <1>3, <1>4, <1>5, <1>6, <1>7, RequestGoesOn

\* It is projected, and asked for a fact; or nothing is extracted.
LEMMA Projects ==
    ASSUME MemoryKept, NEW a \in Actor, Project(a) \/ NothingExtracted(a)
    PROVE  MemoryKept'
<1>1. CASE Project(a)
  <2> DEFINE w == [actor[a] EXCEPT !.pc = "extracting"]
  <2>1. /\ actor[a].pc = "projecting" /\ vault' \in {vault, vault \cup {actor[a].rec}}
        /\ actor' = [actor EXCEPT ![a] = w] /\ UNCHANGED <<cold, facts, clock, latest, raced>>
    BY <1>1 DEF Project
  <2>2. /\ DOMAIN w = {"pc", "rec", "value", "existing", "now", "rows"}
        /\ w.pc = "extracting" /\ w.rows = actor[a].rows
    BY AtWork
  <2> HIDE DEF w
  <2>3. Work(w, cold, facts, clock)
    BY <2>2, AtWork DEF Work
  <2>4. vault' \subseteq Records
    BY <2>1, AtWork DEF Work, Records
  <2>5. Records' = Records
    BY <2>1 DEF Records
  <2> QED  BY <2>1, <2>2, <2>3, <2>4, <2>5, AtWork, RequestGoesOn
<1>2. CASE NothingExtracted(a)
  <2>1. actor' = [actor EXCEPT ![a] = Idle]
        /\ UNCHANGED <<cold, vault, facts, clock, latest, raced>>
    BY <1>2 DEF NothingExtracted
  <2>2. Records' = Records
    BY <2>1 DEF Records
  <2> QED  BY <2>1, <2>2, IdleWorks, AtWork, RequestGoesOn
<1> QED  BY <1>1, <1>2

\* Rows are read, to be marked or to be summarised.
LEMMA Reads == ASSUME MemoryKept, NEW a \in Actor, Search(a) \/ Compress(a)  PROVE MemoryKept'
<1>1. PICK found \in SUBSET Records, pc \in {"marking", "compressing"} :
         actor' = [actor EXCEPT ![a] =
                     [Idle EXCEPT !.pc = pc, !.rows = [r \in found |-> cold[r]]]]
  BY DEF Search, Compress
<1> DEFINE w == [Idle EXCEPT !.pc = pc, !.rows = [r \in found |-> cold[r]]]
<1>2. /\ DOMAIN w = {"pc", "rec", "value", "existing", "now", "rows"}
      /\ w.pc = pc /\ w.rows = [r \in found |-> cold[r]]
  BY DEF Idle
<1>3. actor' = [actor EXCEPT ![a] = w]
  BY <1>1
<1> HIDE DEF w
<1>4. \A r \in found : r \in Rec /\ cold[r] # NULL /\ cold[r] \in ColdRow
  BY AtWork DEF Records
<1>5. Work(w, cold, facts, clock)
  BY <1>2, <1>4 DEF Work
<1>6. UNCHANGED <<cold, vault, facts, clock, latest, raced>>
  BY DEF Search, Compress
<1>7. Records' = Records
  BY <1>6 DEF Records
<1> QED  BY <1>2, <1>3, <1>5, <1>6, <1>7, AtWork, RequestGoesOn

\* The rows that were found are marked where they stand.
LEMMA Marks ==
    ASSUME MemoryKept, NEW a \in Actor, MarkAccessed(a)
    PROVE  /\ MemoryKept'
           /\ \A r \in Records : cold'[r] # NULL /\ cold'[r].summary = cold[r].summary
<1>1. /\ cold' = [r \in Rec |-> IF r \in DOMAIN actor[a].rows
                                  THEN Accessed(cold[r], actor[a].rows[r]) ELSE cold[r]]
      /\ actor' = [actor EXCEPT ![a] = Idle] /\ UNCHANGED <<vault, facts, clock, latest, raced>>
  BY DEF MarkAccessed
<1>2. ASSUME NEW row \in ColdRow, NEW asRead
      PROVE  /\ Accessed(row, asRead) \in ColdRow
             /\ Accessed(row, asRead).summary = row.summary
  <2>1. row.access \in 0..MaxAccess
    BY DEF ColdRow
  <2>2. More(row.access) \in 0..MaxAccess
    BY <2>1, MemoryAssumption DEF More
  <2> QED  BY <2>2 DEF Accessed, ColdRow
<1>3. ASSUME NEW r \in Rec
      PROVE  /\ cold'[r] \in ColdRow \cup {NULL}
             /\ cold[r] # NULL => cold'[r] # NULL /\ cold'[r].summary = cold[r].summary
  <2>1. CASE r \in DOMAIN actor[a].rows
    <3>1. cold[r] \in ColdRow
      BY <2>1, AtWork DEF Work
    <3> QED  BY <1>1, <1>2, <2>1, <3>1, AtWork
  <2>2. CASE r \notin DOMAIN actor[a].rows
    BY <1>1, <2>2, AtWork
  <2> QED  BY <2>1, <2>2
<1>4. cold' \in [Rec -> ColdRow \cup {NULL}]
  BY <1>1, <1>3
<1>5. vault' \subseteq Records'
  BY <1>1, <1>3, AtWork DEF Records
<1>6. MemoryKept'
  BY <1>1, <1>3, <1>4, <1>5, IdleWorks, RequestGoesOn
<1> QED  BY <1>3, <1>6 DEF Records

\* A row is written back as it was read, with what the model answered.
LEMMA Summarises ==
    ASSUME MemoryKept, NEW a \in Actor, NEW r \in Rec, StoreSummary(a, r)
    PROVE  MemoryKept'
<1>0. PICK summary \in {"made", ""} : Add(r, [actor[a].rows[r] EXCEPT !.summary = summary])
  BY DEF StoreSummary
<1> DEFINE row == [actor[a].rows[r] EXCEPT !.summary = summary]
           rest == [s \in DOMAIN actor[a].rows \ {r} |-> actor[a].rows[s]]
           w == IF DOMAIN rest = {} THEN Idle ELSE [actor[a] EXCEPT !.rows = rest]
<1>1. /\ actor[a].pc = "compressing" /\ r \in DOMAIN actor[a].rows
      /\ cold' = [cold EXCEPT ![r] = row] /\ actor' = [actor EXCEPT ![a] = w]
      /\ UNCHANGED <<vault, facts, clock, latest, raced>>
  BY <1>0 DEF StoreSummary, Add, Compresses
<1>2. row \in ColdRow
  <2>1. actor[a].rows[r] \in ColdRow
    BY <1>1, AtWork DEF Work
  <2> QED  BY <2>1 DEF ColdRow
<1> HIDE DEF row
<1>3. /\ cold' \in [Rec -> ColdRow \cup {NULL}]
      /\ \A s \in Rec : cold'[s] = IF s = r THEN row ELSE cold[s]
  BY <1>1, <1>2, AtWork
<1>4. \A s \in Rec : cold[s] # NULL => cold'[s] # NULL
  BY <1>2, <1>3, AtWork
<1>5. Work(w, cold', facts, clock) /\ w.pc # "upserting"
  <2>1. CASE DOMAIN rest = {}
    BY <2>1, IdleWorks
  <2>2. CASE DOMAIN rest # {}
    <3>1. /\ DOMAIN rest = DOMAIN actor[a].rows \ {r}
          /\ \A s \in DOMAIN rest : rest[s] = actor[a].rows[s]
      OBVIOUS
    <3>2. w = [actor[a] EXCEPT !.rows = rest]
      BY <2>2
    <3> HIDE DEF rest, w
    <3>3. /\ DOMAIN w = {"pc", "rec", "value", "existing", "now", "rows"}
          /\ w.pc = "compressing" /\ w.rows = rest
      BY <1>1, <3>2, AtWork
    <3>4. Work(actor[a], cold, facts, clock)
      BY AtWork
    <3>5. \A s \in DOMAIN rest : s \in Rec /\ cold'[s] # NULL /\ rest[s] \in ColdRow
      BY <1>4, <3>1, <3>4 DEF Work
    <3> QED  BY <3>3, <3>5 DEF Work
  <2> QED  BY <2>1, <2>2
<1> HIDE DEF w, rest
<1>6. vault' \subseteq Records'
  BY <1>1, <1>4, AtWork DEF Records
<1> QED  BY <1>1, <1>3, <1>4, <1>5, <1>6, RequestGoesOn

\* Of numbers that are bounded there is a largest.
LEMMA Largest ==
    ASSUME NEW S, S \subseteq Nat, S # {}, NEW n \in Nat, \A x \in S : x <= n
    PROVE  \E x \in S : \A y \in S : x >= y
<1> DEFINE T == {n - x : x \in S}
           Less == OpToRel(<, Nat)
<1>1. T \subseteq Nat /\ T # {}
  <2>1. \A x \in S : n - x \in Nat
    OBVIOUS
  <2> QED  BY <2>1
<1>2. IsWellFoundedOn(Less, Nat)
  BY NatLessThanWellFounded
<1>3. \A p, q \in Nat : <<p, q>> \in Less <=> p < q
  BY DEF OpToRel
<1>4. \A x \in S : n - x \in T
  OBVIOUS
<1>5. \A q \in T : \E x \in S : q = n - x
  OBVIOUS
<1> HIDE DEF Less, T
<1>6. PICK q \in T : \A p \in T : ~ (<<p, q>> \in Less)
  BY <1>1, <1>2, WFMin
<1>7. PICK x \in S : q = n - x
  BY <1>5
<1>8. ASSUME NEW y \in S  PROVE x >= y
  <2>1. n - y \in Nat /\ q \in Nat /\ ~(n - y < q)
    BY <1>1, <1>3, <1>4, <1>6
  <2>2. x \in Nat /\ y \in Nat
    OBVIOUS
  <2> QED  BY <1>7, <2>1, <2>2
<1> QED  BY <1>8

\* The active fact that is read is one, if there is any.
LEMMA ActiveRead ==
    ASSUME MemoryKept
    PROVE  /\ NULL \notin Fact /\ NULL \notin Value /\ NULL \notin FactRow
           /\ facts \in [Fact -> FactRow \cup {NULL}]
           /\ \A f \in ActiveFacts : f \in Fact /\ facts[f] \in FactRow
           /\ ActiveFacts = {} => ActiveForKey = NULL
           /\ ActiveFacts # {} => ActiveForKey \in ActiveFacts
<1>1. NULL \notin Fact /\ NULL \notin Value /\ NULL \notin FactRow
  BY MemoryAssumption
<1>2. facts \in [Fact -> FactRow \cup {NULL}] /\ clock \in Nat
  BY DEF MemoryKept, MemoryTypes
<1>3. \A f \in ActiveFacts : f \in Fact /\ facts[f] \in FactRow /\ facts[f].at \in 1..clock
  BY <1>2 DEF ActiveFacts, MemoryKept, Heirs
<1>4. ASSUME ActiveFacts # {}  PROVE ActiveForKey \in ActiveFacts
  <2> DEFINE S == {facts[f].at : f \in ActiveFacts}
  <2>1. S \subseteq Nat /\ S # {} /\ \A x \in S : x <= clock
    BY <1>2, <1>3, <1>4
  <2>2. \A f \in ActiveFacts : facts[f].at \in S
    OBVIOUS
  <2>3. \A x \in S : \E f \in ActiveFacts : x = facts[f].at
    OBVIOUS
  <2> HIDE DEF S
  <2>4. PICK x \in S : \A y \in S : x >= y
    BY <1>2, <2>1, Largest
  <2>5. \E f \in ActiveFacts : \A g \in ActiveFacts : facts[f].at >= facts[g].at
    BY <2>2, <2>3, <2>4
  <2> QED  BY <1>4, <2>5 DEF ActiveForKey
<1> QED  BY <1>1, <1>2, <1>3, <1>4 DEF ActiveForKey

\* An upsert reads the active fact; another one under way is a race.
LEMMA BeginsUpsert ==
    ASSUME MemoryKept, NEW a \in Actor, NEW v \in Value, BeginUpsert(a, v)
    PROVE  MemoryKept'
<1> DEFINE w == [Idle EXCEPT !.pc = "upserting", !.value = v, !.existing = ActiveForKey,
                             !.now = clock + 1]
<1>1. /\ clock' = clock + 1 /\ actor' = [actor EXCEPT ![a] = w]
      /\ raced' = (raced \/ \E b \in Actor \ {a} : actor[b].pc = "upserting")
      /\ UNCHANGED <<cold, vault, facts, latest>>
  BY DEF BeginUpsert
<1>2. /\ DOMAIN w = {"pc", "rec", "value", "existing", "now", "rows"}
      /\ w.pc = "upserting" /\ w.value = v /\ w.existing = ActiveForKey /\ w.now = clock + 1
      /\ w.rows = Idle.rows
  BY DEF Idle
<1> HIDE DEF w
<1>3. clock \in Nat /\ clock' \in Nat /\ clock + 1 \in 1..clock'
  BY <1>1, AtWork
<1>4. ActiveForKey # NULL => ActiveForKey \in Fact /\ facts[ActiveForKey] # NULL
  BY ActiveRead
<1>5. Work(w, cold, facts, clock')
  BY <1>2, <1>3, <1>4, IdleWorks DEF Work
<1>6. /\ actor' = [b \in Actor |-> actor'[b]]
      /\ \A b \in Actor : actor'[b] = IF b = a THEN w ELSE actor[b]
  BY <1>1 DEF MemoryKept, MemoryTypes
<1>7. ASSUME NEW b \in Actor  PROVE Work(actor'[b], cold, facts, clock')
  <2>1. Work(actor[b], cold, facts, clock')
    BY <1>1, <1>3, AtWork, WorkStays
  <2> QED  BY <1>5, <1>6, <2>1
<1>8. Records' = Records /\ ActiveFacts' = ActiveFacts
  BY <1>1 DEF Records, ActiveFacts
<1>9. MemoryTypes'
  BY <1>1, <1>3, <1>6, <1>7, <1>8 DEF MemoryKept, MemoryTypes
<1>10. Heirs(facts', clock', latest')
  BY <1>1, <1>3 DEF MemoryKept, Heirs
<1>11. ASSUME ~raced'  PROVE NoRace'
  <2>1. ~raced /\ \A b \in Actor : actor'[b].pc = "upserting" => b = a
    BY <1>1, <1>6, <1>11
  <2>2. ActiveFacts = IF ActiveForKey = NULL THEN {} ELSE {ActiveForKey}
    BY <2>1, ActiveRead DEF MemoryKept, NoRace
  <2>3. actor'[a].existing = ActiveForKey
    BY <1>2, <1>6
  <2> QED  BY <1>1, <1>8, <2>1, <2>2, <2>3 DEF MemoryKept, NoRace
<1>12. NoRace'
  BY <1>11 DEF NoRace
<1> QED  BY <1>9, <1>10, <1>12 DEF MemoryKept

\* The end of an upsert.
LEMMA FactsChange ==
    ASSUME MemoryKept, NEW a \in Actor, actor[a].pc = "upserting",
           facts' \in [Fact -> FactRow \cup {NULL}],
           \A f \in Fact : facts[f] # NULL => facts'[f] # NULL,
           latest' = actor[a].value, actor' = [actor EXCEPT ![a] = Idle],
           Heirs(facts', clock, latest'),
           ~raced => \E f \in Fact : ActiveFacts' = {f} /\ facts'[f].value = latest',
           UNCHANGED <<cold, vault, clock, raced>>
    PROVE  MemoryKept'
<1>1. /\ actor' = [b \in Actor |-> actor'[b]]
      /\ \A b \in Actor : actor'[b] = IF b = a THEN Idle ELSE actor[b]
  BY DEF MemoryKept, MemoryTypes
<1>2. ASSUME NEW b \in Actor  PROVE Work(actor'[b], cold, facts', clock)
  <2>1. Work(actor[b], cold, facts', clock)
    BY AtWork, WorkStays
  <2> QED  BY <1>1, <2>1, IdleWorks
<1>3. Records' = Records
  BY DEF Records
<1>4. MemoryTypes'
  BY <1>1, <1>2, <1>3 DEF MemoryKept, MemoryTypes
<1>5. latest' # NULL
  BY AtWork, ActiveRead DEF Work
<1>6. ~raced => \A b \in Actor : actor'[b].pc # "upserting"
  BY <1>1, IdleWorks DEF MemoryKept, NoRace
<1>7. NoRace'
  BY <1>5, <1>6 DEF NoRace
<1> QED  BY <1>4, <1>7 DEF MemoryKept

\* The fact is confirmed, or superseded by a new one.
LEMMA CommitsUpsert == ASSUME MemoryKept, NEW a \in Actor, CommitUpsert(a)  PROVE MemoryKept'
<1> DEFINE w == actor[a]
           e == actor[a].existing
<1>1. /\ w.pc = "upserting" /\ latest' = w.value /\ actor' = [actor EXCEPT ![a] = Idle]
      /\ UNCHANGED <<cold, vault, clock, raced>>
  BY DEF CommitUpsert
<1>2. /\ w.value \in Value /\ w.now \in 1..clock /\ w.now \in Nat
      /\ e # NULL => e \in Fact /\ facts[e] # NULL
  BY <1>1, AtWork DEF Work
<1>3. facts \in [Fact -> FactRow \cup {NULL}] /\ NULL \notin FactRow /\ NULL \notin Fact
  BY ActiveRead
<1>4. /\ Heirs(facts, clock, latest)
      /\ ~raced => ActiveFacts = IF e = NULL THEN {} ELSE {e}
  BY <1>1 DEF MemoryKept, NoRace
<1>5. ASSUME e # NULL, facts[e].value = w.value, facts' = [facts EXCEPT ![e].at = w.now]
      PROVE  MemoryKept'
  <2> DEFINE row == [facts[e] EXCEPT !.at = w.now]
  <2>1. e \in Fact /\ facts[e] \in FactRow /\ facts' = [facts EXCEPT ![e] = row]
    BY <1>2, <1>3, <1>5
  <2>2. /\ row \in FactRow /\ row.at = w.now /\ row.status = facts[e].status
        /\ row.supersedes = facts[e].supersedes /\ row.value = facts[e].value
    BY <1>2, <2>1 DEF FactRow
  <2> HIDE DEF row
  <2>3. /\ facts' \in [Fact -> FactRow \cup {NULL}]
        /\ \A f \in Fact : facts'[f] = IF f = e THEN row ELSE facts[f]
    BY <1>3, <2>1, <2>2
  <2>4. \A f \in Fact :
           /\ facts'[f] # NULL <=> facts[f] # NULL
           /\ facts[f] # NULL =>
                /\ facts'[f].status = facts[f].status /\ facts'[f].value = facts[f].value
                /\ facts'[f].supersedes = facts[f].supersedes
                /\ facts'[f].at \in 1..clock
    BY <1>2, <1>3, <1>4, <2>1, <2>2, <2>3 DEF Heirs
  <2>5. \A f \in Fact : facts[f] # NULL /\ facts[f].supersedes # NULL => facts[f].supersedes \in Fact
    BY <1>3 DEF FactRow
  <2>6. \E f \in Fact : facts'[f] # NULL
    BY <1>2, <1>5, <2>4
  <2>7. Heirs(facts', clock, latest')
    BY <1>4, <2>4, <2>5, <2>6 DEF Heirs
  <2>8. ActiveFacts' = ActiveFacts
    BY <2>4 DEF ActiveFacts
  <2>9. ~raced => ActiveFacts' = {e} /\ facts'[e].value = latest'
    BY <1>1, <1>2, <1>4, <1>5, <2>4, <2>8
  <2> QED  BY <1>1, <1>2, <1>5, <2>3, <2>4, <2>7, <2>9, FactsChange
<1>6. ASSUME NEW f \in Fact, facts[f] = NULL,
             facts' = Replaced(facts, e, f, [status |-> "active", value |-> w.value,
                                             supersedes |-> e, at |-> w.now])
      PROVE  MemoryKept'
  <2> DEFINE row == [status |-> "active", value |-> w.value, supersedes |-> e, at |-> w.now]
             old == [facts[e] EXCEPT !.status = "superseded"]
  <2>1. /\ row \in FactRow /\ row.status = "active" /\ row.value = w.value
        /\ row.supersedes = e /\ row.at = w.now
    BY <1>2 DEF FactRow
  <2>2. e # NULL => /\ e \in Fact /\ e # f /\ facts[e] \in FactRow
                    /\ old \in FactRow /\ old.status = "superseded"
                    /\ old.supersedes = facts[e].supersedes /\ old.at = facts[e].at
    BY <1>2, <1>3, <1>6 DEF FactRow
  <2>3. facts' = [Superseded(facts, e) EXCEPT ![f] = row]
    BY <1>6 DEF Replaced
  <2>4. Superseded(facts, e) = IF e = NULL THEN facts ELSE [facts EXCEPT ![e] = old]
    BY DEF Superseded
  <2> HIDE DEF row, old
  <2>5. /\ Superseded(facts, e) \in [Fact -> FactRow \cup {NULL}]
        /\ \A g \in Fact : Superseded(facts, e)[g] = IF e # NULL /\ g = e THEN old ELSE facts[g]
    BY <1>3, <2>2, <2>4
  <2>6. /\ facts' \in [Fact -> FactRow \cup {NULL}]
        /\ \A g \in Fact : facts'[g] = IF g = f THEN row
                                       ELSE IF e # NULL /\ g = e THEN old ELSE facts[g]
    BY <2>1, <2>3, <2>5
  <2>7. /\ facts'[f] = row /\ row # NULL
        /\ e # NULL => facts'[e] = old /\ old # NULL
    BY <1>3, <2>1, <2>2, <2>6
  <2>8. \A g \in Fact : facts[g] # NULL => facts'[g] # NULL /\ g # f
    BY <1>3, <1>6, <2>2, <2>6
  <2>9. \A g \in Fact : facts[g] # NULL =>
           facts'[g].supersedes = facts[g].supersedes /\ facts'[g].at = facts[g].at
    BY <2>2, <2>6, <2>8
  <2>10. \A g \in Fact : facts[g] # NULL /\ facts[g].supersedes # NULL => facts[g].supersedes \in Fact
    BY <1>3 DEF FactRow
  <2>11. \A g \in Fact : facts'[g] # NULL => g = f \/ facts[g] # NULL
    BY <1>2, <2>6
  <2>12. ASSUME NEW g \in Fact, facts'[g] # NULL
         PROVE  /\ facts'[g].at \in 1..clock
                /\ facts'[g].supersedes # NULL => facts'[facts'[g].supersedes] # NULL
                /\ facts'[g].status = "superseded" =>
                     \E h \in Fact : facts'[h] # NULL /\ facts'[h].supersedes = g
    <3>1. CASE g = f
      BY <1>2, <2>1, <2>7, <3>1
    <3>2. CASE g # f
      <4>1. facts[g] # NULL
        BY <2>11, <2>12, <3>2
      <4>2. facts'[g].at \in 1..clock
        BY <1>4, <2>9, <4>1 DEF Heirs
      <4>3. facts'[g].supersedes # NULL => facts'[facts'[g].supersedes] # NULL
        BY <1>4, <2>8, <2>9, <2>10, <4>1 DEF Heirs
      <4>4. CASE e # NULL /\ g = e
        BY <2>1, <2>7, <4>2, <4>3, <4>4
      <4>5. CASE ~(e # NULL /\ g = e)
        <5>1. facts'[g] = facts[g]
          BY <2>6, <3>2, <4>5
        <5> QED  BY <1>4, <2>8, <2>9, <4>1, <4>2, <4>3, <5>1 DEF Heirs
      <4> QED  BY <4>4, <4>5
    <3> QED  BY <3>1, <3>2
  <2>13. Heirs(facts', clock, latest')
    BY <2>1, <2>7, <2>12 DEF Heirs
  <2>14. ~raced => ActiveFacts' = {f} /\ facts'[f].value = latest'
    <3> SUFFICES ASSUME ~raced  PROVE ActiveFacts' = {f} /\ facts'[f].value = latest'
      OBVIOUS
    <3>1. ActiveFacts = IF e = NULL THEN {} ELSE {e}
      BY <1>4
    <3>2. \A g \in Fact : facts[g] # NULL /\ facts[g].status = "active" => e # NULL /\ g = e
      BY <3>1 DEF ActiveFacts
    <3>3. \A g \in Fact : facts'[g] # NULL /\ facts'[g].status = "active" => g = f
      BY <2>2, <2>6, <3>2
    <3>4. f \in ActiveFacts'
      BY <2>1, <2>7 DEF ActiveFacts
    <3>5. \A g \in ActiveFacts' : g = f
      BY <3>3 DEF ActiveFacts
    <3> QED  BY <1>1, <2>1, <2>7, <3>4, <3>5
  <2> QED  BY <1>1, <2>6, <2>8, <2>13, <2>14, FactsChange
<1> QED  BY <1>5, <1>6 DEF CommitUpsert

\* The process dies: an upsert that is cut off counts as a race.
LEMMA MemoryCrashes == ASSUME MemoryKept, Crash  PROVE MemoryKept'
<1>1. /\ raced' = (raced \/ \E a \in Actor : actor[a].pc = "upserting")
      /\ actor' = [a \in Actor |-> Idle] /\ UNCHANGED <<cold, vault, facts, clock, latest>>
  BY DEF Crash
<1>2. Records' = Records /\ ActiveFacts' = ActiveFacts
  BY <1>1 DEF Records, ActiveFacts
<1>3. \A a \in Actor : actor'[a] = Idle
  BY <1>1
<1>4. MemoryTypes'
  BY <1>1, <1>2, <1>3, IdleWorks DEF MemoryKept, MemoryTypes
<1>5. NoRace'
  BY <1>1, <1>2, <1>3, IdleWorks DEF MemoryKept, NoRace
<1> QED  BY <1>1, <1>4, <1>5 DEF MemoryKept

\* Every step keeps the invariant.
LEMMA MemorySteps == ASSUME MemoryKept, [Next]_vars  PROVE MemoryKept'
<1>1. CASE UNCHANGED vars
  <2>1. Records' = Records /\ ActiveFacts' = ActiveFacts
    BY <1>1 DEF vars, Records, ActiveFacts
  <2> QED  BY <1>1, <2>1 DEF vars, MemoryKept, MemoryTypes, NoRace
<1>2. CASE Crash
  BY <1>2, MemoryCrashes
<1>3. ASSUME NEW a \in Actor, NEW r \in Rec, Remember(a, r) \/ StoreSummary(a, r)
      PROVE  MemoryKept'
  BY <1>3, Remembers, Summarises
<1>4. ASSUME NEW a \in Actor, Project(a) \/ NothingExtracted(a) \/ Search(a) \/ Compress(a)
      PROVE  MemoryKept'
  BY <1>4, Projects, Reads
<1>5. ASSUME NEW a \in Actor, NEW v \in Value, BeginUpsert(a, v)  PROVE MemoryKept'
  BY <1>5, BeginsUpsert
<1>6. ASSUME NEW a \in Actor, CommitUpsert(a)  PROVE MemoryKept'
  BY <1>6, CommitsUpsert
<1>7. ASSUME NEW a \in Actor, MarkAccessed(a)  PROVE MemoryKept'
  BY <1>7, Marks
<1> QED  BY <1>1, <1>2, <1>3, <1>4, <1>5, <1>6, <1>7 DEF Next

\* What a compression has read came without a summary, and has none yet unless another
\* compression had read it too.
ReadOnce ==
    \A a, b \in Actor : \A r \in Rec : Compresses(actor[a], r) =>
        /\ cold[r].summary # "given"
        /\ r \in overlapped \/ (cold[r].summary = "" /\ (Compresses(actor[b], r) => a = b))

SummariesKept ==
    \A r \in Records :
       /\ cold[r].summary = "given" => cold'[r].summary = "given"
       /\ cold[r].summary = "made" => cold'[r].summary = "made" \/ r \in overlapped

\* What a compression has read is a record.
LEMMA CompressesRecords ==
    ASSUME MemoryKept, NEW a \in Actor, NEW r, Compresses(actor[a], r)
    PROVE  r \in Records /\ r \in Rec
  BY AtWork DEF Work, Compresses, Records

\* A request that leaves the summaries alone and compresses nothing.
LEMMA SummariesAlone ==
    ASSUME MemoryKept, ReadOnce, NEW a \in Actor, NEW w, actor' = [actor EXCEPT ![a] = w],
           w.pc # "compressing", overlapped' = overlapped,
           \A r \in Records : cold'[r].summary = cold[r].summary
    PROVE  ReadOnce' /\ SummariesKept
<1>1. \A b \in Actor : actor'[b] = IF b = a THEN w ELSE actor[b]
  BY DEF MemoryKept, MemoryTypes
<1>2. \A b \in Actor : \A r \in Rec : Compresses(actor'[b], r) => Compresses(actor[b], r) /\ r \in Records
  BY <1>1, CompressesRecords DEF Compresses
<1>3. ReadOnce'
  BY <1>2 DEF ReadOnce
<1> QED  BY <1>3 DEF SummariesKept

\* Compressions that begin together overlap; one that writes had the row to itself or not.
LEMMA SummariesStep == ASSUME MemoryKept, ReadOnce, [Next]_vars  PROVE ReadOnce' /\ SummariesKept
<1>1. CASE UNCHANGED vars
  BY <1>1 DEF vars, ReadOnce, SummariesKept, Compresses
<1>2. CASE Crash
  <2>1. \A a \in Actor : actor'[a].pc = "idle"
    BY <1>2, IdleWorks DEF Crash
  <2> QED  BY <1>2, <2>1 DEF Crash, ReadOnce, SummariesKept, Compresses
<1>3. ASSUME NEW a \in Actor, NEW r \in Rec, Remember(a, r)  PROVE ReadOnce' /\ SummariesKept
  <2> DEFINE w == [Idle EXCEPT !.pc = "projecting", !.rec = r]
  <2>1. /\ cold[r] = NULL /\ \E row : cold' = [cold EXCEPT ![r] = row]
        /\ actor' = [actor EXCEPT ![a] = w] /\ overlapped' = overlapped
    BY <1>3 DEF Remember, Add
  <2>2. w.pc = "projecting"
    BY DEF Idle
  <2> HIDE DEF w
  <2>3. \A s \in Records : cold'[s].summary = cold[s].summary
    BY <2>1, AtWork DEF Records
  <2> QED  BY <2>1, <2>2, <2>3, SummariesAlone
<1>4. ASSUME NEW a \in Actor, Project(a) \/ NothingExtracted(a) \/ CommitUpsert(a) \/ Search(a)
      PROVE  ReadOnce' /\ SummariesKept
  <2>1. \E w : actor' = [actor EXCEPT ![a] = w] /\ w.pc \in {"idle", "extracting", "marking"}
    <3>1. CASE Project(a)
      <4>1. actor' = [actor EXCEPT ![a] = [actor[a] EXCEPT !.pc = "extracting"]]
        BY <3>1 DEF Project
      <4>2. [actor[a] EXCEPT !.pc = "extracting"].pc = "extracting"
        BY AtWork
      <4> QED  BY <4>1, <4>2
    <3>2. CASE NothingExtracted(a) \/ CommitUpsert(a)
      BY <3>2, IdleWorks DEF NothingExtracted, CommitUpsert
    <3>3. CASE Search(a)
      <4>1. PICK found \in SUBSET Records : actor' = [actor EXCEPT ![a] =
               [Idle EXCEPT !.pc = "marking", !.rows = [r \in found |-> cold[r]]]]
        BY <3>3 DEF Search
      <4>2. [Idle EXCEPT !.pc = "marking", !.rows = [r \in found |-> cold[r]]].pc = "marking"
        BY DEF Idle
      <4> QED  BY <4>1, <4>2
    <3> QED  BY <1>4, <3>1, <3>2, <3>3
  <2>2. UNCHANGED <<cold, overlapped>>
    BY <1>4 DEF Project, NothingExtracted, CommitUpsert, Search
  <2> QED  BY <2>1, <2>2, SummariesAlone
<1>5. ASSUME NEW a \in Actor, NEW v \in Value, BeginUpsert(a, v)  PROVE ReadOnce' /\ SummariesKept
  <2> DEFINE w == [Idle EXCEPT !.pc = "upserting", !.value = v, !.existing = ActiveForKey, !.now = clock']
  <2>1. actor' = [actor EXCEPT ![a] = w] /\ UNCHANGED <<cold, overlapped>>
    BY <1>5 DEF BeginUpsert
  <2>2. w.pc = "upserting"
    BY DEF Idle
  <2> HIDE DEF w
  <2> QED  BY <2>1, <2>2, SummariesAlone
<1>6. ASSUME NEW a \in Actor, MarkAccessed(a)  PROVE ReadOnce' /\ SummariesKept
  <2>1. actor' = [actor EXCEPT ![a] = Idle] /\ overlapped' = overlapped
    BY <1>6 DEF MarkAccessed
  <2> QED  BY <1>6, <2>1, Marks, IdleWorks, SummariesAlone
<1>7. ASSUME NEW a \in Actor, Compress(a)  PROVE ReadOnce' /\ SummariesKept
  <2>1. PICK old \in SUBSET {r \in Records : cold[r].summary = ""} :
           /\ actor' = [actor EXCEPT ![a] =
                  [Idle EXCEPT !.pc = "compressing", !.rows = [r \in old |-> cold[r]]]]
           /\ overlapped' = overlapped \cup {r \in old : \E b \in Actor : Compresses(actor[b], r)}
    BY <1>7 DEF Compress
  <2> DEFINE w == [Idle EXCEPT !.pc = "compressing", !.rows = [r \in old |-> cold[r]]]
  <2>2. w.pc = "compressing" /\ DOMAIN w.rows = old
    BY DEF Idle
  <2>3. \A b \in Actor : actor'[b] = IF b = a THEN w ELSE actor[b]
    BY <2>1 DEF MemoryKept, MemoryTypes
  <2>4. actor[a].pc = "idle" /\ cold' = cold
    BY <1>7, IdleWorks DEF Compress
  <2> HIDE DEF w
  <2>5. ASSUME NEW b \in Actor, NEW c \in Actor, NEW r \in Rec, Compresses(actor'[b], r)
        PROVE  /\ cold[r].summary # "given"
               /\ r \in overlapped' \/ (cold[r].summary = "" /\ (Compresses(actor'[c], r) => b = c))
    <3>1. CASE b = a
      <4>1. r \in old /\ cold[r].summary = ""
        BY <2>1, <2>2, <2>3, <2>5, <3>1 DEF Compresses
      <4>2. CASE c = a
        BY <3>1, <4>1, <4>2
      <4>3. CASE c # a
        <5>1. actor'[c] = actor[c]
          BY <2>3, <4>3
        <5>2. Compresses(actor[c], r) => r \in overlapped'
          BY <2>1, <4>1
        <5>3. r \in overlapped' \/ ~Compresses(actor'[c], r)
          BY <5>1, <5>2
        <5> QED  BY <4>1, <5>3
      <4> QED  BY <4>2, <4>3
    <3>2. CASE b # a
      <4>1. Compresses(actor[b], r)
        BY <2>3, <2>5, <3>2
      <4>2. Compresses(actor'[c], r) /\ c = a => r \in overlapped'
        BY <2>1, <2>2, <2>3, <4>1 DEF Compresses
      <4>3. /\ cold[r].summary # "given"
            /\ r \in overlapped \/ (cold[r].summary = "" /\ (Compresses(actor[c], r) => b = c))
        BY <4>1 DEF ReadOnce
      <4>4. r \in overlapped => r \in overlapped'
        BY <2>1
      <4>5. CASE c = a
        <5>1. r \in overlapped' \/ ~Compresses(actor'[c], r)
          BY <4>2, <4>5
        <5> QED  BY <4>3, <4>4, <5>1
      <4>6. CASE c # a
        <5>1. actor'[c] = actor[c]
          BY <2>3, <4>6
        <5>2. r \in overlapped' \/ (cold[r].summary = "" /\ (Compresses(actor'[c], r) => b = c))
          BY <4>3, <4>4, <5>1
        <5> QED  BY <4>3, <5>2
      <4> QED  BY <4>5, <4>6
    <3> QED  BY <3>1, <3>2
  <2> QED  BY <2>4, <2>5 DEF ReadOnce, SummariesKept
<1>8. ASSUME NEW a \in Actor, NEW r \in Rec, StoreSummary(a, r)  PROVE ReadOnce' /\ SummariesKept
  <2>1. PICK summary \in {"made", ""} : Add(r, [actor[a].rows[r] EXCEPT !.summary = summary])
    BY <1>8 DEF StoreSummary
  <2> DEFINE row == [actor[a].rows[r] EXCEPT !.summary = summary]
             rest == [s \in DOMAIN actor[a].rows \ {r} |-> actor[a].rows[s]]
             w == IF DOMAIN rest = {} THEN Idle ELSE [actor[a] EXCEPT !.rows = rest]
  <2>2. /\ Compresses(actor[a], r) /\ actor' = [actor EXCEPT ![a] = w]
        /\ cold' = [cold EXCEPT ![r] = row] /\ overlapped' = overlapped
    BY <1>8, <2>1 DEF StoreSummary, Add
  <2>3. row.summary = summary
    <3>1. actor[a].rows[r] \in ColdRow
      BY <2>2, AtWork DEF Work, Compresses
    <3> QED  BY <3>1 DEF ColdRow
  <2>4. \A s : Compresses(w, s) => Compresses(actor[a], s) /\ s # r
    <3>1. DOMAIN rest = DOMAIN actor[a].rows \ {r}
      OBVIOUS
    <3>2. CASE DOMAIN rest = {}
      BY <3>2, IdleWorks DEF Compresses
    <3>3. CASE DOMAIN rest # {}
      <4>1. w = [actor[a] EXCEPT !.rows = rest]
        BY <3>3
      <4> HIDE DEF w, rest
      <4>2. w.pc = actor[a].pc /\ w.rows = rest
        BY <4>1, AtWork
      <4> QED  BY <3>1, <4>2 DEF Compresses
    <3> QED  BY <3>2, <3>3
  <2> HIDE DEF row, rest, w
  <2>5. /\ \A b \in Actor : actor'[b] = IF b = a THEN w ELSE actor[b]
        /\ \A s \in Rec : cold'[s] = IF s = r THEN row ELSE cold[s]
    BY <2>2, AtWork DEF MemoryKept, MemoryTypes
  <2>6. ASSUME NEW b \in Actor, NEW c \in Actor, NEW s \in Rec, Compresses(actor'[b], s)
        PROVE  /\ cold'[s].summary # "given"
               /\ s \in overlapped \/ (cold'[s].summary = "" /\ (Compresses(actor'[c], s) => b = c))
    <3>1. Compresses(actor[b], s) /\ (b = a => s # r)
      BY <2>4, <2>5, <2>6
    <3>2. Compresses(actor'[c], s) => Compresses(actor[c], s)
      BY <2>4, <2>5
    <3>3. CASE s = r
      <4>1. r \in overlapped
        BY <2>2, <3>1, <3>3 DEF ReadOnce
      <4>2. cold'[s].summary # "given"
        BY <2>3, <2>5, <3>3
      <4>3. s \in overlapped
        BY <3>3, <4>1
      <4> QED  BY <4>2, <4>3
    <3>4. CASE s # r
      BY <2>5, <3>1, <3>2, <3>4 DEF ReadOnce
    <3> QED  BY <3>3, <3>4
  <2>7. SummariesKept
    <3>1. cold[r].summary # "given" /\ (r \in overlapped \/ cold[r].summary = "")
      BY <2>2 DEF ReadOnce
    <3>2. \A s \in Records : s \in Rec
      BY DEF Records
    <3>3. \A s \in Records : s # r => cold'[s] = cold[s]
      BY <2>5, <3>2
    <3> QED  BY <3>1, <3>3 DEF SummariesKept
  <2> QED  BY <2>2, <2>6, <2>7 DEF ReadOnce
<1> QED  BY <1>1, <1>2, <1>3, <1>4, <1>5, <1>6, <1>7, <1>8 DEF Next

\* The invariant holds when the store is empty.
LEMMA MemoryBegins == ASSUME Init  PROVE MemoryKept
<1>1. /\ cold = [r \in Rec |-> NULL] /\ vault = {} /\ facts = [f \in Fact |-> NULL]
      /\ actor = [a \in Actor |-> Idle] /\ clock = 0 /\ latest = NULL
  BY DEF Init
<1>2. \A f \in Fact : facts[f] = NULL
  BY <1>1
<1>3. ActiveFacts = {}
  BY <1>2 DEF ActiveFacts
<1>4. \A a \in Actor : actor[a] = Idle
  BY <1>1
<1>5. MemoryTypes
  BY <1>1, <1>4, IdleWorks DEF MemoryTypes
<1>6. Heirs(facts, clock, latest)
  BY <1>1, <1>2 DEF Heirs
<1>7. NoRace
  BY <1>1, <1>3, <1>4, IdleWorks DEF NoRace
<1> QED  BY <1>5, <1>6, <1>7 DEF MemoryKept

\* Nothing is superseded by nothing; a value stays active once one was recorded, and it
\* is the one recorded last unless upserts overlap or are cut off.
THEOREM FactsHaveHeirs == Spec => []MemoryInv
<1>1. MemoryKept => MemoryInv
  <2> SUFFICES ASSUME MemoryKept  PROVE MemoryInv
    OBVIOUS
  <2>1. /\ NULL \notin Fact /\ facts \in [Fact -> FactRow \cup {NULL}]
        /\ Heirs(facts, clock, latest)
    BY ActiveRead DEF MemoryKept
  <2>2. \A f \in Fact : facts[f] # NULL => facts[f] \in FactRow
    BY <2>1
  <2>3. \A f \in Fact : facts[f] # NULL =>
           /\ facts[f].status \in {"active", "superseded"} /\ facts[f].value \in Value
           /\ facts[f].at \in 1..clock
           /\ facts[f].supersedes \in {g \in Fact : facts[g] # NULL} \cup {NULL}
    BY <2>1, <2>2 DEF FactRow, Heirs
  <2>4. \A a \in Actor : DOMAIN actor[a].rows \subseteq Records
    BY AtWork DEF Work, Records
  <2>5. MemoryTypeOK
    BY <2>3, <2>4 DEF MemoryTypeOK, MemoryKept, MemoryTypes
  <2>6. SupersededHasHeir
    BY <2>1 DEF SupersededHasHeir, Heirs, ActiveFacts
  <2>7. ASSUME ~raced, latest # NULL
        PROVE  Cardinality(ActiveFacts) = 1 /\ facts[ActiveForKey].value = latest
    <3>1. PICK f \in Fact : ActiveFacts = {f} /\ facts[f].value = latest
      BY <2>7 DEF MemoryKept, NoRace
    <3>2. ActiveForKey = f
      BY <3>1, ActiveRead
    <3> QED  BY <3>1, <3>2, FS_Singleton
  <2> QED  BY <2>5, <2>6, <2>7 DEF MemoryInv, LatestIsActive
<1> QED  BY <1>1, MemoryBegins, MemorySteps, PTL DEF Spec

\* A summary that came with a record stays, and one that was made unless two
\* compressions had read the record at a time.
THEOREM SummariesStay == Spec => SummaryKept
<1>1. MemoryKept /\ ReadOnce /\ [Next]_vars => MemoryKept' /\ ReadOnce' /\ [SummariesKept]_vars
  BY MemorySteps, SummariesStep
<1>2. Init => MemoryKept /\ ReadOnce
  <2>1. Init => \A a \in Actor : actor[a].pc = "idle"
    BY IdleWorks DEF Init
  <2> QED  BY <2>1, MemoryBegins DEF ReadOnce, Compresses
<1>3. Spec => [][SummariesKept]_vars
  BY <1>1, <1>2, PTL DEF Spec
<1> QED  BY <1>3 DEF SummaryKept, SummariesKept

-----------------------------------------------------------------------------
(***************************************************************************)
(* Folds.  A fold from the left is a recursive function on the sets of     *)
(* places, which takes the last place of a set off; on the sets 1..k it goes*)
(* through the sequence.  That there is such a function, whatever is done at*)
(* a place, follows from there being no smallest set of places 1..n that it*)
(* does not exist for; what holds at every place follows likewise.         *)
(***************************************************************************)

\* Of numbers there is a smallest.
LEMMA Smallest == ASSUME NEW S, S \subseteq Nat, S # {}  PROVE \E q \in S : \A p \in S : q <= p
<1> DEFINE Less == OpToRel(<, Nat)
<1>1. IsWellFoundedOn(Less, Nat)
  BY NatLessThanWellFounded
<1>2. \A p, q \in Nat : <<p, q>> \in Less <=> p < q
  BY DEF OpToRel
<1> HIDE DEF Less
<1>3. PICK q \in S : \A p \in S : ~ (<<p, q>> \in Less)
  BY <1>1, WFMin
<1>4. ASSUME NEW p \in S  PROVE q <= p
  <2>1. p \in Nat /\ q \in Nat
    OBVIOUS
  <2>2. ~(p < q)
    BY <1>2, <1>3, <2>1
  <2> QED  BY <2>1, <2>2
<1> QED  BY <1>4

\* A set of numbers that has 0, and with each number the next up to n, has all up to n.
LEMMA UpTo ==
    ASSUME NEW n \in Nat, NEW S, 0 \in S, \A k \in 1..n : k - 1 \in S => k \in S
    PROVE  0..n \subseteq S
<1> DEFINE bad == {k \in 0..n : k \notin S}
<1>1. SUFFICES ASSUME bad # {}  PROVE FALSE
  OBVIOUS
<1>2. PICK k \in bad : \A p \in bad : k <= p
  <2>1. bad \subseteq Nat
    OBVIOUS
  <2> HIDE DEF bad
  <2> QED  BY <1>1, <2>1, Smallest
<1>3. k \in 1..n /\ k - 1 \in 0..n /\ k - 1 \notin bad
  BY <1>2
<1> QED  BY <1>2, <1>3

\* The last place of a set of places.
LEMMA LastPlace ==
    ASSUME NEW n \in Nat \ {0}, NEW S \in SUBSET (1..n), n \in S
    PROVE  Max(S) = n
<1>1. \A y \in S : n >= y
  OBVIOUS
<1>2. \A x \in S : (\A y \in S : x >= y) => x = n
  BY <1>1
<1> QED  BY <1>1, <1>2 DEF Max

\* The arguments of a fold: a sequence over T, and what is done at a place.
Folding(A, T, s, base, step) == base \in A /\ s \in Seq(T) /\ step \in [A -> [T -> A]]

\* The function that the fold is taken from, on the places up to n.
Folded(it, s, n, base, step) ==
    it = [S \in SUBSET (1..n) |->
            IF S = {} THEN base ELSE step[it[S \ {Max(S)}]][s[Max(S)]]]

\* There is such a function, whatever is done at each place.
LEMMA FoldExists ==
    ASSUME NEW A, NEW T, NEW s, NEW base, NEW step, Folding(A, T, s, base, step)
    PROVE  \E it \in [SUBSET (1..Len(s)) -> A] : Folded(it, s, Len(s), base, step)
<1> DEFINE Q(n) == \E it \in [SUBSET (1..n) -> A] : Folded(it, s, n, base, step)
           good == {n \in 0..Len(s) : Q(n)}
<1>0. Len(s) \in Nat /\ base \in A /\ s \in Seq(T) /\ step \in [A -> [T -> A]]
  BY DEF Folding
<1>1. Q(0)
  <2> DEFINE it == [S \in SUBSET (1..0) |-> base]
  <2>1. it \in [SUBSET (1..0) -> A]
    BY <1>0
  <2>2. \A S \in SUBSET (1..0) : S = {}
    OBVIOUS
  <2>3. it = [S \in SUBSET (1..0) |->
                IF S = {} THEN base ELSE step[it[S \ {Max(S)}]][s[Max(S)]]]
    BY <2>2
  <2> HIDE DEF it
  <2> QED  BY <2>1, <2>3 DEF Folded
<1>2. ASSUME NEW n \in 1..Len(s), Q(n - 1)  PROVE Q(n)
  <2>1. PICK old \in [SUBSET (1..(n - 1)) -> A] : Folded(old, s, n - 1, base, step)
    BY <1>2
  <2> DEFINE new == [S \in SUBSET (1..n) |->
                       IF n \in S THEN step[old[S \ {n}]][s[n]] ELSE old[S]]
  <2>2. n \in Nat \ {0} /\ s[n] \in T
    BY <1>0
  <2>3. ASSUME NEW S \in SUBSET (1..n), n \notin S
        PROVE  S \in SUBSET (1..(n - 1)) /\ new[S] = old[S]
    BY <2>2, <2>3
  <2>4. ASSUME NEW S \in SUBSET (1..n), n \in S
        PROVE  /\ S \ {n} \in SUBSET (1..(n - 1)) /\ Max(S) = n
               /\ new[S] = step[old[S \ {n}]][s[n]] /\ new[S \ {n}] = old[S \ {n}]
    <3>1. S \ {n} \in SUBSET (1..(n - 1)) /\ S \ {n} \in SUBSET (1..n)
      BY <2>2
    <3>2. Max(S) = n
      BY <2>2, <2>4, LastPlace
    <3> QED  BY <2>4, <3>1, <3>2
  <2>5. new \in [SUBSET (1..n) -> A]
    <3>1. ASSUME NEW S \in SUBSET (1..n)  PROVE new[S] \in A
      <4> HIDE DEF new
      <4>1. CASE n \in S
        <5>1. old[S \ {n}] \in A
          BY <2>1, <2>4, <4>1
        <5>2. step[old[S \ {n}]] \in [T -> A]
          BY <1>0, <5>1
        <5>3. step[old[S \ {n}]][s[n]] \in A
          BY <2>2, <5>2
        <5> QED  BY <2>4, <4>1, <5>3
      <4>2. CASE n \notin S
        BY <2>1, <2>3, <4>2
      <4> QED  BY <4>1, <4>2
    <3> QED  BY <3>1
  <2>6. ASSUME NEW S \in SUBSET (1..n)
        PROVE  new[S] = IF S = {} THEN base ELSE step[new[S \ {Max(S)}]][s[Max(S)]]
    <3> HIDE DEF new
    <3>1. CASE n \in S
      BY <2>4, <3>1
    <3>2. CASE n \notin S
      <4>1. S \in SUBSET (1..(n - 1)) /\ new[S] = old[S]
        BY <2>3, <3>2
      <4>2. old[S] = IF S = {} THEN base ELSE step[old[S \ {Max(S)}]][s[Max(S)]]
        BY <2>1, <4>1 DEF Folded
      <4>3. S \ {Max(S)} \in SUBSET (1..n) /\ n \notin S \ {Max(S)}
        BY <3>2
      <4>4. new[S \ {Max(S)}] = old[S \ {Max(S)}]
        BY <2>3, <4>3
      <4> QED  BY <4>1, <4>2, <4>4
    <3> QED  BY <3>1, <3>2
  <2> HIDE DEF new
  <2>7. Folded(new, s, n, base, step)
    BY <2>5, <2>6 DEF Folded
  <2> QED  BY <2>5, <2>7
<1> HIDE DEF Q
<1>3. 0..Len(s) \subseteq good
  <2>1. 0 \in good
    BY <1>0, <1>1
  <2>2. \A n \in 1..Len(s) : n - 1 \in good => n \in good
    BY <1>0, <1>2
  <2> HIDE DEF good
  <2> QED  BY <1>0, <2>1, <2>2, UpTo
<1>4. Q(Len(s))
  BY <1>0, <1>3
<1> QED  BY <1>4 DEF Q

\* A set of places has a last one.
LEMMA MaxPlace ==
    ASSUME NEW n \in Nat, NEW S \in SUBSET (1..n), S # {}
    PROVE  Max(S) \in S
<1> DEFINE left == {n - p : p \in S}
<1>1. left \subseteq Nat /\ left # {}
  <2>1. \A p \in S : p \in 1..n /\ n - p \in Nat
    OBVIOUS
  <2> QED  BY <2>1
<1>2. PICK q \in left : \A p \in left : q <= p
  BY <1>1, Smallest
<1>3. PICK x \in S : q = n - x
  BY <1>2
<1>4. ASSUME NEW y \in S  PROVE x >= y
  <2>1. n - y \in left /\ x \in 1..n /\ y \in 1..n
    OBVIOUS
  <2>2. q <= n - y
    BY <1>2, <2>1
  <2> QED  BY <1>3, <2>1, <2>2
<1> QED  BY <1>4 DEF Max

\* On the sets 1..k the last place is k.
LEMMA Prefix ==
    ASSUME NEW n \in Nat, NEW k \in 1..n
    PROVE  /\ 1..k \in SUBSET (1..n) /\ 1..k # {} /\ Max(1..k) = k
           /\ (1..k) \ {k} = 1..(k - 1)
<1>1. k \in Nat \ {0} /\ k \in 1..k /\ 1..k \in SUBSET (1..k)
  OBVIOUS
<1>2. Max(1..k) = k
  BY <1>1, LastPlace
<1> QED  BY <1>1, <1>2

\* What a fold comes to at each place.
Runs(run, s, base, step) ==
    /\ run[0] = base
    /\ \A k \in 1..Len(s) : run[k] = step[run[k - 1]][s[k]]

\* The function of a fold on the sets 1..k, as far as its values are known.
Repeats(it, s, A, base, step) ==
    /\ it[{}] = base
    /\ \A k \in 1..Len(s) : it[1..(k - 1)] \in A => it[1..k] = step[it[1..(k - 1)]][s[k]]

\* So the value of a fold is the last one of a run through the sequence.
LEMMA FoldRuns ==
    ASSUME NEW A, NEW T, NEW s, NEW base, NEW step, Folding(A, T, s, base, step),
           NEW it, Repeats(it, s, A, base, step)
    PROVE  \E run \in [0..Len(s) -> A] : Runs(run, s, base, step) /\ run[Len(s)] = it[1..Len(s)]
<1> DEFINE n == Len(s)
           run == [k \in 0..n |-> it[1..k]]
           good == {k \in 0..n : run[k] \in A}
<1>1. /\ n \in Nat /\ \A k \in 1..n : s[k] \in T /\ k - 1 \in 0..n /\ k \in 0..n
      /\ base \in A /\ step \in [A -> [T -> A]]
  BY DEF Folding
<1>2. run[0] = base
  <2>1. 1..0 = {} /\ 0 \in 0..n
    BY <1>1
  <2> QED  BY <2>1 DEF Repeats
<1>3. ASSUME NEW k \in 1..n, run[k - 1] \in A  PROVE run[k] = step[run[k - 1]][s[k]] /\ run[k] \in A
  <2>1. run[k] = it[1..k] /\ run[k - 1] = it[1..(k - 1)]
    BY <1>1
  <2> HIDE DEF run, n
  <2>2. run[k] = step[run[k - 1]][s[k]]
    BY <1>3, <2>1 DEF n, Repeats
  <2> QED  BY <1>1, <1>3, <2>2
<1>4. run[n] = it[1..n]
  BY <1>1
<1>5. run = [k \in 0..n |-> run[k]]
  OBVIOUS
<1> HIDE DEF run, n
<1>6. 0 \in good
  BY <1>1, <1>2
<1>7. \A k \in 1..n : k - 1 \in good => k \in good
  BY <1>1, <1>3
<1>8. \A k \in 0..n : run[k] \in A
  <2> HIDE DEF good
  <2>1. 0..n \subseteq good
    BY <1>1, <1>6, <1>7, UpTo
  <2> QED  BY <2>1 DEF good
<1>9. run \in [0..n -> A]
  BY <1>5, <1>8
<1>10. Runs(run, s, base, step)
  BY <1>1, <1>2, <1>3, <1>8 DEF Runs, n
<1> QED  BY <1>4, <1>9, <1>10 DEF n

\* The tokens of a sequence, place by place.
LEMMA TokensRun ==
    ASSUME NEW items \in Seq(Nat)
    PROVE  \E run \in [0..Len(items) -> Nat] :
              /\ run[0] = 0 /\ Tokens(items) = run[Len(items)]
              /\ \A k \in 1..Len(items) : run[k] = run[k - 1] + items[k]
<1> DEFINE n == Len(items)
           step == [sum \in Nat |-> [t \in Nat |-> sum + t]]
           Eq(it) == it = [S \in SUBSET DOMAIN items |->
                             IF S = {} THEN 0
                             ELSE LET x == Max(S) IN it[S \ {x}] + items[x]]
           chosen == CHOOSE it : Eq(it)
<1>1. /\ n \in Nat /\ DOMAIN items = 1..n /\ 0 \in Nat /\ step \in [Nat -> [Nat -> Nat]]
      /\ \A k \in 1..n : items[k] \in Nat
  OBVIOUS
<1>2. Tokens(items) = chosen[1..n]
  BY <1>1 DEF Tokens, FoldLeft, MapThenFoldSet
<1>3. \A sum, t \in Nat : step[sum][t] = sum + t
  OBVIOUS
<1> HIDE DEF step
<1>4. Folding(Nat, Nat, items, 0, step)
  BY <1>1 DEF Folding
<1>5. \E it : Eq(it)
  <2>1. PICK it \in [SUBSET (1..n) -> Nat] : Folded(it, items, n, 0, step)
    BY <1>4, FoldExists
  <2>2. ASSUME NEW S \in SUBSET (1..n), S # {}
        PROVE  step[it[S \ {Max(S)}]][items[Max(S)]] = it[S \ {Max(S)}] + items[Max(S)]
    <3>1. Max(S) \in 1..n
      BY <1>1, <2>2, MaxPlace
    <3>2. it[S \ {Max(S)}] \in Nat /\ items[Max(S)] \in Nat
      BY <1>1, <2>1, <3>1
    <3> QED  BY <1>3, <3>2
  <2>3. Eq(it)
    BY <1>1, <2>1, <2>2 DEF Folded
  <2> QED  BY <2>3
<1>6. Eq(chosen)
  BY <1>5
<1> HIDE DEF chosen
<1>7. chosen[{}] = 0
  BY <1>6
<1>8. ASSUME NEW k \in 1..n  PROVE chosen[1..k] = chosen[1..(k - 1)] + items[k]
  <2>1. /\ 1..k \in SUBSET (1..n) /\ 1..k # {} /\ Max(1..k) = k
        /\ (1..k) \ {k} = 1..(k - 1)
    BY <1>1, Prefix
  <2> QED  BY <1>1, <1>6, <2>1
<1>9. Repeats(chosen, items, Nat, 0, step)
  <2> HIDE DEF Eq
  <2> QED  BY <1>1, <1>3, <1>7, <1>8 DEF Repeats
<1>10. PICK run \in [0..n -> Nat] : Runs(run, items, 0, step) /\ run[n] = chosen[1..n]
  <2> HIDE DEF Eq
  <2> QED  BY <1>4, <1>9, FoldRuns
<1>11. \A k \in 1..n : run[k - 1] \in Nat
  <2>1. \A k \in 1..n : k - 1 \in 0..n
    BY <1>1
  <2> QED  BY <1>10, <2>1
<1>12. ASSUME NEW k \in 1..n  PROVE run[k] = run[k - 1] + items[k]
  <2>1. run[k] = step[run[k - 1]][items[k]]
    BY <1>10 DEF Runs
  <2>2. run[k - 1] \in Nat /\ items[k] \in Nat
    BY <1>1, <1>11
  <2> QED  BY <1>3, <2>1, <2>2
<1>13. run[0] = 0 /\ Tokens(items) = run[n]
  BY <1>2, <1>10 DEF Runs
<1> HIDE DEF Eq
<1> QED  BY <1>12, <1>13

\* The tokens of a longer sequence.
LEMMA TokensGrow ==
    /\ Tokens(<<>>) = 0
    /\ \A items \in Seq(Nat), t \in Nat :
          /\ Tokens(items) \in Nat
          /\ Tokens(Append(items, t)) = Tokens(items) + t
<1>1. Tokens(<<>>) = 0
  <2>1. <<>> \in Seq(Nat) /\ Len(<<>>) = 0
    OBVIOUS
  <2> QED  BY <2>1, TokensRun
<1>2. ASSUME NEW items \in Seq(Nat), NEW t \in Nat
      PROVE  Tokens(items) \in Nat /\ Tokens(Append(items, t)) = Tokens(items) + t
  <2> DEFINE n == Len(items)
             more == Append(items, t)
  <2>1. /\ n \in Nat /\ more \in Seq(Nat) /\ Len(more) = n + 1 /\ more[n + 1] = t
        /\ \A k \in 1..n : more[k] = items[k] /\ items[k] \in Nat /\ k - 1 \in 0..n
                           /\ k \in 1..(n + 1)
    OBVIOUS
  <2> HIDE DEF n, more
  <2>2. PICK a \in [0..n -> Nat] :
              /\ a[0] = 0 /\ Tokens(items) = a[n]
              /\ \A k \in 1..n : a[k] = a[k - 1] + items[k]
    BY TokensRun DEF n
  <2>3. PICK b \in [0..Len(more) -> Nat] :
              /\ b[0] = 0 /\ Tokens(more) = b[Len(more)]
              /\ \A k \in 1..Len(more) : b[k] = b[k - 1] + more[k]
    <3>1. more \in Seq(Nat)
      BY <2>1
    <3> QED  BY <3>1, TokensRun
  <2> DEFINE same == {k \in 0..n : a[k] = b[k]}
  <2>4. 0 \in same
    BY <2>1, <2>2, <2>3
  <2>5. ASSUME NEW k \in 1..n, k - 1 \in same  PROVE k \in same
    <3>1. k \in 0..n /\ k \in 1..Len(more) /\ k - 1 \in 0..n
      BY <2>1
    <3>2. a[k] = a[k - 1] + items[k] /\ b[k] = b[k - 1] + more[k] /\ more[k] = items[k]
      BY <2>1, <2>2, <2>3, <3>1
    <3>3. a[k - 1] = b[k - 1]
      BY <2>5
    <3> QED  BY <3>1, <3>2, <3>3
  <2>6. a[n] = b[n]
    <3> HIDE DEF same
    <3>1. 0..n \subseteq same
      BY <2>1, <2>4, <2>5, UpTo
    <3> QED  BY <2>1, <3>1 DEF same
  <2>7. b[n + 1] = b[n] + t /\ a[n] \in Nat
    <3>1. n + 1 \in 1..(n + 1) /\ (n + 1) - 1 = n /\ n \in 0..n
      BY <2>1
    <3> QED  BY <2>1, <2>2, <2>3, <3>1
  <2> QED  BY <2>1, <2>2, <2>3, <2>6, <2>7 DEF more
<1> QED  BY <1>1, <1>2

-----------------------------------------------------------------------------
(***************************************************************************)
(* ContextPack: what is taken of the sources fits into the budget.         *)
(***************************************************************************)

\* What has been taken so far.
Take == [kept : Seq(Nat), used : Nat]

\* One step of TakeFitting.
Kept(acc, t, budget) ==
    IF acc.used + t <= budget
    THEN [kept |-> Append(acc.kept, t), used |-> acc.used + t] ELSE acc

\* What is taken of a sequence, place by place.
TakenBy(run, items, spent, budget) ==
    /\ run \in [0..Len(items) -> Take]
    /\ run[0] = [kept |-> <<>>, used |-> spent]
    /\ TakeFitting(items, spent, budget) = run[Len(items)]
    /\ \A k \in 1..Len(items) : run[k] = Kept(run[k - 1], items[k], budget)

\* There is such a run.
LEMMA TakenRun ==
    ASSUME NEW items, items \in Seq(Nat), NEW spent \in Nat, NEW budget \in Nat
    PROVE  \E run : TakenBy(run, items, spent, budget)
<1> DEFINE n == Len(items)
           base == [kept |-> <<>>, used |-> spent]
           step == [acc \in Take |-> [t \in Nat |-> Kept(acc, t, budget)]]
           Eq(it) == it = [S \in SUBSET DOMAIN items |->
                             IF S = {} THEN base
                             ELSE LET x == Max(S) IN Kept(it[S \ {x}], items[x], budget)]
           chosen == CHOOSE it : Eq(it)
<1>1. /\ n \in Nat /\ DOMAIN items = 1..n /\ base \in Take
      /\ \A k \in 1..n : items[k] \in Nat
  BY DEF Take
<1>2. TakeFitting(items, spent, budget) = chosen[1..n]
  BY <1>1 DEF TakeFitting, FoldLeft, MapThenFoldSet, Kept
<1>3. \A acc \in Take, t \in Nat : Kept(acc, t, budget) \in Take
  BY DEF Take, Kept
<1>4. /\ step \in [Take -> [Nat -> Take]]
      /\ \A acc \in Take, t \in Nat : step[acc][t] = Kept(acc, t, budget)
  BY <1>3
<1> HIDE DEF step, base
<1>5. Folding(Take, Nat, items, base, step)
  BY <1>1, <1>4 DEF Folding
<1>6. \E it : Eq(it)
  <2>1. PICK it \in [SUBSET (1..n) -> Take] : Folded(it, items, n, base, step)
    BY <1>5, FoldExists
  <2>2. ASSUME NEW S \in SUBSET (1..n), S # {}
        PROVE  step[it[S \ {Max(S)}]][items[Max(S)]]
                  = Kept(it[S \ {Max(S)}], items[Max(S)], budget)
    <3>1. Max(S) \in 1..n
      BY <1>1, <2>2, MaxPlace
    <3>2. it[S \ {Max(S)}] \in Take /\ items[Max(S)] \in Nat
      BY <1>1, <2>1, <3>1
    <3> QED  BY <1>4, <3>2
  <2>3. Eq(it)
    BY <1>1, <2>1, <2>2 DEF Folded
  <2> QED  BY <2>3
<1>7. Eq(chosen)
  BY <1>6
<1> HIDE DEF chosen
<1>8. chosen[{}] = base
  BY <1>7
<1>9. ASSUME NEW k \in 1..n
      PROVE  chosen[1..k] = Kept(chosen[1..(k - 1)], items[k], budget)
  <2>1. /\ 1..k \in SUBSET (1..n) /\ 1..k # {} /\ Max(1..k) = k
        /\ (1..k) \ {k} = 1..(k - 1)
    BY <1>1, Prefix
  <2> QED  BY <1>1, <1>7, <2>1
<1>10. Repeats(chosen, items, Take, base, step)
  <2> HIDE DEF Eq
  <2> QED  BY <1>1, <1>4, <1>8, <1>9 DEF Repeats
<1>11. PICK run \in [0..n -> Take] : Runs(run, items, base, step) /\ run[n] = chosen[1..n]
  <2> HIDE DEF Eq
  <2> QED  BY <1>5, <1>10, FoldRuns
<1>12. \A k \in 1..n : run[k - 1] \in Take
  <2>1. \A k \in 1..n : k - 1 \in 0..n
    BY <1>1
  <2> QED  BY <1>11, <2>1
<1>13. TakenBy(run, items, spent, budget)
  <2>1. \A k \in 1..n : run[k] = Kept(run[k - 1], items[k], budget)
    BY <1>1, <1>4, <1>11, <1>12 DEF Runs
  <2>2. run[0] = [kept |-> <<>>, used |-> spent]
    BY <1>11 DEF Runs, base
  <2> QED  BY <1>2, <1>11, <2>1, <2>2 DEF TakenBy
<1> QED  BY <1>13

\* What is taken fits into what is left of the budget; when nothing is, nothing fits.
LEMMA TakenFits ==
    ASSUME NEW items \in Seq(Nat \ {0}), NEW spent \in Nat, NEW budget \in Nat
    PROVE  LET taken == TakeFitting(items, spent, budget) IN
           /\ taken \in Take
           /\ taken.used = spent + Tokens(taken.kept)
           /\ taken.kept = <<>> \/ taken.used <= budget
           /\ taken.kept = <<>> => \A i \in DOMAIN items : spent + items[i] > budget
<1> DEFINE n == Len(items)
<1>1. items \in Seq(Nat)
  OBVIOUS
<1>2. n \in Nat /\ DOMAIN items = 1..n /\ \A k \in 1..n : items[k] \in Nat
  OBVIOUS
<1>3. PICK run : TakenBy(run, items, spent, budget)
  BY <1>1, TakenRun
<1>4. /\ run \in [0..n -> Take]
      /\ run[0] = [kept |-> <<>>, used |-> spent]
      /\ TakeFitting(items, spent, budget) = run[n]
      /\ \A k \in 1..n : run[k] = Kept(run[k - 1], items[k], budget)
  BY <1>3 DEF TakenBy
<1> HIDE DEF n
<1> DEFINE Good(k) == /\ run[k].used = spent + Tokens(run[k].kept)
                      /\ run[k].kept = <<>> \/ run[k].used <= budget
                      /\ run[k].kept = <<>> => \A i \in 1..k : spent + items[i] > budget
           good == {k \in 0..n : Good(k)}
<1>5. 0 \in good
  BY <1>2, <1>4, TokensGrow
<1>6. ASSUME NEW k \in 1..n, k - 1 \in good  PROVE k \in good
  <2>1. /\ k \in 0..n /\ k - 1 \in 0..n /\ items[k] \in Nat
        /\ run[k] = Kept(run[k - 1], items[k], budget)
        /\ run[k - 1] \in Take /\ Good(k - 1)
    BY <1>2, <1>4, <1>6
  <2>2. /\ run[k - 1].kept \in Seq(Nat) /\ run[k - 1].used \in Nat
        /\ Tokens(run[k - 1].kept) \in Nat
        /\ Tokens(Append(run[k - 1].kept, items[k])) = Tokens(run[k - 1].kept) + items[k]
    BY <2>1, TokensGrow DEF Take
  <2>3. CASE run[k - 1].used + items[k] <= budget
    <3>1. /\ run[k].kept = Append(run[k - 1].kept, items[k])
          /\ run[k].used = run[k - 1].used + items[k]
      BY <2>1, <2>3 DEF Kept
    <3>2. Len(Append(run[k - 1].kept, items[k])) # 0 /\ Len(<<>>) = 0
      BY <2>1, <2>2
    <3>3. run[k].kept # <<>>
      BY <3>1, <3>2, Zenon
    <3>4. run[k].used = spent + Tokens(run[k].kept)
      BY <2>1, <2>2, <3>1
    <3>5. run[k].used <= budget
      BY <2>3, <3>1
    <3> QED  BY <2>1, <3>3, <3>4, <3>5
  <2>4. CASE ~(run[k - 1].used + items[k] <= budget)
    <3>1. run[k] = run[k - 1]
      BY <2>1, <2>4 DEF Kept
    <3>2. run[k].kept = <<>> => spent + items[k] > budget
      BY <2>1, <2>2, <2>4, <3>1, TokensGrow
    <3>3. \A i \in 1..k : i = k \/ i \in 1..(k - 1)
      BY <1>2
    <3> QED  BY <2>1, <3>1, <3>2, <3>3
  <2> QED  BY <2>3, <2>4
<1>7. Good(n)
  <2> HIDE DEF good
  <2>1. 0..n \subseteq good
    BY <1>2, <1>5, <1>6, UpTo
  <2> QED  BY <1>2, <2>1 DEF good
<1>8. run[n] \in Take
  BY <1>2, <1>4
<1> QED  BY <1>2, <1>4, <1>7, <1>8

\* Numbers of tokens by source.
Amounts == [{"hot", "atomic", "procedural", "cold", "deep"} -> Nat]

\* Shares that are rounded down do not exceed the whole.
LEMMA SharesFit ==
    ASSUME NEW b \in Nat, NEW total \in Nat, total > 0, NEW r \in [1..5 -> Nat],
           total = r[1] + r[2] + r[3] + r[4] + r[5]
    PROVE  LET q(i) == (b * r[i]) \div total IN
           (\A i \in 1..5 : q(i) \in Nat) /\ q(1) + q(2) + q(3) + q(4) + q(5) <= b
<1> DEFINE q(i) == (b * r[i]) \div total
<1>1. ASSUME NEW i \in 1..5  PROVE q(i) \in Nat /\ total * q(i) <= b * r[i]
  <2>1. b * r[i] \in Nat
    OBVIOUS
  <2> QED  BY <2>1
<1> HIDE DEF q
<1>2. total * (q(1) + q(2) + q(3) + q(4) + q(5))
        = total * q(1) + total * q(2) + total * q(3) + total * q(4) + total * q(5)
  BY <1>1
<1>3. b * r[1] + b * r[2] + b * r[3] + b * r[4] + b * r[5] = b * total
  OBVIOUS
<1> DEFINE whole == q(1) + q(2) + q(3) + q(4) + q(5)
<1>4. whole \in Nat /\ total * whole <= b * total
  <2>1. \A i \in 1..5 : total * q(i) \in Int /\ b * r[i] \in Int
    BY <1>1
  <2> QED  BY <1>1, <1>2, <1>3, <2>1
<1> HIDE DEF whole
<1>5. whole <= b
  <2>1. SUFFICES ASSUME whole >= b + 1  PROVE FALSE
    BY <1>4
  <2>2. total * whole >= total * (b + 1)
    BY <1>4, <2>1
  <2>3. total * (b + 1) = b * total + total
    OBVIOUS
  <2> QED  BY <1>4, <2>2, <2>3
<1> QED  BY <1>1, <1>5 DEF whole, q

\* The sources' allocations are within the budget, all of them together.
LEMMA Allocated ==
    ASSUME NEW available \in Amounts, NEW budget \in Nat
    PROVE  LET share == Allocate(available, budget) IN
           share \in Amounts /\ Sum(share) <= budget
<1> DEFINE five == {"hot", "atomic", "procedural", "cold", "deep"}
           active == {s \in DOMAIN Priority : available[s] > 0}
           ratio == [s \in DOMAIN Priority |-> IF s \in active THEN Share(s) ELSE 0]
           total == Sum(ratio)
           part(s) == IF total = 0 THEN budget \div Cardinality(active)
                      ELSE (budget * Share(s)) \div total
           least == [s \in DOMAIN Priority |->
                       IF s \notin active THEN 0
                       ELSE IF part(s) < available[s] THEN part(s) ELSE available[s]]
           First(s) == s \in active /\ \A r \in active : Priority[s] <= Priority[r]
           share == [s \in DOMAIN Priority |->
                       IF First(s) THEN least[s] + (budget - Sum(least)) ELSE least[s]]
<1>1. DOMAIN Priority = five /\ \A s \in five : available[s] \in Nat
  BY DEF Priority, Amounts
<1>2. /\ Share("hot") = 40 /\ Share("procedural") = 25 /\ Share("cold") = 25
      /\ Share("deep") = 10 /\ Share("atomic") = 0
      /\ Priority["hot"] = 1 /\ Priority["atomic"] = 2 /\ Priority["procedural"] = 3
      /\ Priority["cold"] = 4 /\ Priority["deep"] = 5
  BY DEF Share, Priority
<1>3. Allocate(available, budget) = share
  BY DEF Allocate
<1> HIDE DEF active
<1>4. /\ \A s \in five : ratio[s] = IF s \in active THEN Share(s) ELSE 0
      /\ total = ratio["hot"] + ratio["atomic"] + ratio["procedural"] + ratio["cold"] + ratio["deep"]
  BY <1>1 DEF Sum
<1> HIDE DEF ratio
<1> HIDE DEF total
<1>5. \A s \in five : ratio[s] \in Nat
  BY <1>2, <1>4
<1>6. total \in Nat
  BY <1>4, <1>5
<1> DEFINE parts == [s \in five |-> IF s \in active THEN part(s) ELSE 0]
<1>7. ASSUME total = 0
      PROVE  (\A s \in five : s \in active => part(s) \in Nat) /\ Sum(parts) <= budget
  <2>1. \A s \in five : s \in active => s = "atomic"
    <3>1. /\ ratio["hot"] \in Nat /\ ratio["procedural"] \in Nat
          /\ ratio["cold"] \in Nat /\ ratio["deep"] \in Nat /\ ratio["atomic"] \in Nat
      BY <1>5
    <3>2. /\ ratio["hot"] = 0 /\ ratio["procedural"] = 0
          /\ ratio["cold"] = 0 /\ ratio["deep"] = 0
      <4> DEFINE h == ratio["hot"]
                 p == ratio["procedural"]
                 c == ratio["cold"]
                 d == ratio["deep"]
                 a == ratio["atomic"]
      <4>1. h + a + p + c + d = 0
        BY <1>4, <1>7
      <4>2. h \in Nat /\ p \in Nat /\ c \in Nat /\ d \in Nat /\ a \in Nat
        BY <3>1
      <4> HIDE DEF h, p, c, d, a
      <4>3. h = 0 /\ p = 0 /\ c = 0 /\ d = 0
        BY <4>1, <4>2
      <4> QED  BY <4>3 DEF h, p, c, d
    <3>3. /\ "hot" \notin active /\ "procedural" \notin active
          /\ "cold" \notin active /\ "deep" \notin active
      BY <1>2, <1>4, <3>2
    <3> QED  BY <3>3
  <2>2. active \subseteq five
    BY <1>1 DEF active
  <2>3. active = {} \/ active = {"atomic"}
    BY <2>1, <2>2
  <2>4. Cardinality({"atomic"}) = 1
    BY FS_Singleton
  <2>5. CASE active = {}
    BY <2>5 DEF Sum
  <2>6. CASE active = {"atomic"}
    <3>1. part("atomic") = budget
      BY <1>7, <2>4, <2>6
    <3> HIDE DEF part
    <3> QED  BY <2>6, <3>1 DEF Sum
  <2> QED  BY <2>3, <2>5, <2>6
<1>8. ASSUME total # 0
      PROVE  (\A s \in five : s \in active => part(s) \in Nat) /\ Sum(parts) <= budget
  <2> DEFINE r == <<ratio["hot"], ratio["atomic"], ratio["procedural"], ratio["cold"],
                    ratio["deep"]>>
             q(i) == (budget * r[i]) \div total
  <2>1. r \in [1..5 -> Nat]
    BY <1>5
  <2>2. total = r[1] + r[2] + r[3] + r[4] + r[5] /\ total > 0
    BY <1>4, <1>6, <1>8
  <2>3. r[1] = ratio["hot"] /\ r[2] = ratio["atomic"] /\ r[3] = ratio["procedural"]
        /\ r[4] = ratio["cold"] /\ r[5] = ratio["deep"]
    OBVIOUS
  <2> HIDE DEF r
  <2>4. (\A i \in 1..5 : q(i) \in Nat) /\ q(1) + q(2) + q(3) + q(4) + q(5) <= budget
    BY <1>6, <2>1, <2>2, SharesFit
  <2>5. \A s \in five : s \in active => part(s) = (budget * ratio[s]) \div total
    BY <1>4, <1>8
  <2>6. \A s \in five : s \notin active => ratio[s] = 0
    BY <1>4
  <2>7. /\ parts["hot"] <= q(1) /\ parts["atomic"] <= q(2) /\ parts["procedural"] <= q(3)
        /\ parts["cold"] <= q(4) /\ parts["deep"] <= q(5)
    <3> HIDE DEF part
    <3> QED  BY <2>3, <2>4, <2>5
  <2>8. \A s \in five : s \in active => part(s) \in Nat
    <3> HIDE DEF part
    <3> QED  BY <2>3, <2>4, <2>5
  <2>9. \A s \in five : parts[s] \in Nat
    <3> HIDE DEF part
    <3> QED  BY <2>8
  <2> HIDE DEF part, q, parts
  <2>10. Sum(parts) <= budget
    BY <2>4, <2>7, <2>9 DEF Sum
  <2> QED  BY <2>8, <2>10 DEF parts
<1>9. \A s \in five : s \in active => part(s) \in Nat
  BY <1>7, <1>8
<1>10. Sum(parts) <= budget
  BY <1>7, <1>8
<1> HIDE DEF part
<1>11. \A s \in five : least[s] = IF s \notin active THEN 0
                       ELSE IF part(s) < available[s] THEN part(s) ELSE available[s]
  BY <1>1
<1> HIDE DEF least
<1>12. \A s \in five : least[s] \in Nat
  BY <1>1, <1>9, <1>11
<1>13. Sum(least) \in Nat /\ Sum(least) <= budget
  <2>1. \A s \in five : least[s] <= IF s \in active THEN part(s) ELSE 0
    BY <1>1, <1>9, <1>11
  <2> QED  BY <1>9, <1>10, <1>12, <2>1 DEF Sum
<1>14. \A s, r \in five : First(s) /\ First(r) => s = r
  BY <1>1, <1>2
<1> HIDE DEF First
<1>15. \A s \in five : share[s] = IF First(s) THEN least[s] + (budget - Sum(least)) ELSE least[s]
  BY <1>1
<1>16. share \in Amounts
  <2>1. \A s \in five : share[s] \in Nat
    BY <1>12, <1>13, <1>15
  <2> QED  BY <1>1, <2>1 DEF Amounts
<1>17. Sum(share) <= budget
  BY <1>12, <1>13, <1>14, <1>15 DEF Sum
<1> QED  BY <1>3, <1>16, <1>17

ContextSpec == ContextInit /\ [][Build]_contextVars

Searched == {"atomic", "procedural", "cold"}

\* What a request holds, and what the searches find for it.
LEMMA Asked ==
    ASSUME NEW w \in Requests
    PROVE  /\ w.hot \in Nat /\ w.budget \in Nat /\ w.given \in Nat /\ Deep(w) \in Nat
           /\ \A s \in Searched : Candidates(w, s) \in Seq(Nat \ {0})
<1>1. /\ w.hot \in Nat /\ w.budget \in Nat /\ w.given \in Nat /\ w.deep \in Nat
      /\ w.atomic \in Items(MaxFacts) /\ w.procedural \in Items(MaxSkills)
      /\ w.cold \in Items(MaxRecords)
  <2>1. /\ w.hot \in Sizes \cup {0} /\ w.budget \in Budgets /\ w.given \in {0} \cup Sizes
        /\ w.deep \in {0} \cup Sizes
        /\ w.atomic \in Items(MaxFacts) /\ w.procedural \in Items(MaxSkills)
        /\ w.cold \in Items(MaxRecords)
    BY DEF Requests
  <2>2. Sizes \cup {0} \subseteq Nat /\ Budgets \subseteq Nat
    BY ContextAssumption
  <2> QED  BY <2>1, <2>2
<1>2. Deep(w) \in Nat
  BY <1>1 DEF Deep
<1>3. ASSUME NEW n \in Nat, NEW items \in Items(n)  PROVE items \in Seq(Nat \ {0})
  <2>1. PICK k \in 0..n : items \in [1..k -> Sizes]
    BY <1>3 DEF Items
  <2>2. items \in [1..k -> Nat \ {0}] /\ k \in Nat
    <3>1. k \in Nat
      BY <1>3
    <3>2. \A j \in 1..k : items[j] \in Nat \ {0}
      BY <2>1, ContextAssumption
    <3> QED  BY <2>1, <3>1, <3>2
  <2> QED  BY <2>2
<1>4. MaxFacts \in Nat /\ MaxSkills \in Nat /\ MaxRecords \in Nat
  BY ContextAssumption
<1>5. /\ w.atomic \in Seq(Nat \ {0}) /\ w.procedural \in Seq(Nat \ {0})
      /\ w.cold \in Seq(Nat \ {0})
  BY <1>1, <1>3, <1>4
<1>6. <<>> \in Seq(Nat \ {0})
  OBVIOUS
<1>7. \A s \in Searched : Candidates(w, s) \in Seq(Nat \ {0})
  BY <1>5, <1>6 DEF Candidates, Searched
<1> QED  BY <1>1, <1>2, <1>7

\* Source by source: the whole fits, and what is left out does not.
LEMMA PriorityFits ==
    ASSUME NEW w \in Requests
    PROVE  LET p == PriorityPack(w)
               loaded == IF w.given > 0 THEN 0 ELSE p.deep
               spent == w.hot + Selected(p) IN
           /\ Selected(p) <= w.budget
           /\ spent + loaded <= w.budget \/ (Selected(p) = 0 /\ loaded = 0)
           /\ \A s \in Searched :
                p[s] = <<>> => \A i \in DOMAIN Candidates(w, s) :
                                 spent + Candidates(w, s)[i] > w.budget
<1> DEFINE b == w.budget
           A == Candidates(w, "atomic")
           P == Candidates(w, "procedural")
           C == Candidates(w, "cold")
           first == TakeFitting(A, w.hot, b)
           second == TakeFitting(P, first.used, b)
           third == TakeFitting(C, second.used, b)
           p == PriorityPack(w)
           loaded == IF w.given > 0 THEN 0 ELSE p.deep
           spent == w.hot + Selected(p)
<1>1. /\ w.hot \in Nat /\ b \in Nat /\ w.given \in Nat /\ Deep(w) \in Nat
      /\ A \in Seq(Nat \ {0}) /\ P \in Seq(Nat \ {0}) /\ C \in Seq(Nat \ {0})
  BY Asked DEF Searched
<1>2. /\ p.atomic = first.kept /\ p.procedural = second.kept /\ p.cold = third.kept
      /\ p.deep = IF w.given = 0 /\ third.used + Deep(w) > b THEN 0 ELSE Deep(w)
  BY DEF PriorityPack
<1>3. p["atomic"] = first.kept /\ p["procedural"] = second.kept /\ p["cold"] = third.kept
  BY DEF PriorityPack
<1> HIDE DEF b, A, P, C, p
<1>4. /\ first.kept \in Seq(Nat) /\ first.used \in Nat
      /\ first.used = w.hot + Tokens(first.kept)
      /\ first.kept = <<>> \/ first.used <= b
      /\ first.kept = <<>> => \A i \in DOMAIN A : w.hot + A[i] > b
  BY <1>1, TakenFits DEF Take
<1> HIDE DEF first
<1>5. /\ second.kept \in Seq(Nat) /\ second.used \in Nat
      /\ second.used = first.used + Tokens(second.kept)
      /\ second.kept = <<>> \/ second.used <= b
      /\ second.kept = <<>> => \A i \in DOMAIN P : first.used + P[i] > b
  BY <1>1, <1>4, TakenFits DEF Take
<1> HIDE DEF second
<1>6. /\ third.kept \in Seq(Nat) /\ third.used \in Nat
      /\ third.used = second.used + Tokens(third.kept)
      /\ third.kept = <<>> \/ third.used <= b
      /\ third.kept = <<>> => \A i \in DOMAIN C : second.used + C[i] > b
  BY <1>1, <1>5, TakenFits DEF Take
<1> HIDE DEF third
<1>7. Tokens(first.kept) \in Nat /\ Tokens(second.kept) \in Nat /\ Tokens(third.kept) \in Nat
  BY <1>4, <1>5, <1>6, TokensGrow
<1>8. Selected(p) = Tokens(first.kept) + Tokens(second.kept) + Tokens(third.kept)
  BY <1>2 DEF Selected
<1>9. /\ first.kept = <<>> => Tokens(first.kept) = 0
      /\ second.kept = <<>> => Tokens(second.kept) = 0
      /\ third.kept = <<>> => Tokens(third.kept) = 0
  BY TokensGrow
<1>10. /\ spent \in Nat /\ spent = third.used /\ first.used <= spent /\ second.used <= spent
       /\ spent <= b \/ Selected(p) = 0
  <2> DEFINE f == Tokens(first.kept)
             k == Tokens(second.kept)
             c == Tokens(third.kept)
  <2>1. f \in Nat /\ k \in Nat /\ c \in Nat /\ Selected(p) = f + k + c
    BY <1>7, <1>8
  <2> DEFINE h == w.hot
             x == first.used
             y == second.used
             z == third.used
  <2>2. h \in Nat /\ b \in Nat /\ x = h + f /\ y = x + k /\ z = y + c
    BY <1>1, <1>4, <1>5, <1>6
  <2>3. /\ f = 0 \/ x <= b
        /\ k = 0 \/ y <= b
        /\ c = 0 \/ z <= b
    BY <1>4, <1>5, <1>6, <1>9
  <2>4. spent = h + (f + k + c)
    BY <2>1
  <2> HIDE DEF f, k, c, h, x, y, z, spent
  <2>5. x \in Nat /\ y \in Nat /\ z \in Nat /\ x <= y /\ y <= z /\ z = h + (f + k + c)
    BY <2>1, <2>2
  <2>6. c = 0 => z = y
    BY <2>1, <2>2, <2>5
  <2>7. k = 0 => y = x
    BY <2>1, <2>2, <2>5
  <2>8. z <= b \/ (f = 0 /\ k = 0 /\ c = 0)
    BY <2>2, <2>3, <2>5, <2>6, <2>7
  <2>9. (f = 0 /\ k = 0 /\ c = 0) => Selected(p) = 0
    BY <2>1
  <2>10. z \in Nat /\ z = spent /\ x <= z /\ y <= z /\ (z <= b \/ Selected(p) = 0)
    BY <2>2, <2>4, <2>5, <2>8, <2>9
  <2> QED  BY <2>10 DEF x, y, z
<1>11. Selected(p) \in Nat /\ Selected(p) <= b
  BY <1>1, <1>7, <1>8, <1>10
<1>12. spent + loaded <= b \/ (Selected(p) = 0 /\ loaded = 0)
  BY <1>1, <1>2, <1>10, <1>11
<1>13. ASSUME NEW s \in Searched, p[s] = <<>>, NEW i \in DOMAIN Candidates(w, s)
       PROVE  spent + Candidates(w, s)[i] > b
  <2>1. Candidates(w, s) \in Seq(Nat \ {0})
    BY Asked
  <2>2. Candidates(w, s)[i] \in Nat
    BY <2>1
  <2>3. CASE s = "atomic"
    <3>1. i \in DOMAIN A /\ A[i] \in Nat /\ Candidates(w, s)[i] = A[i]
      BY <2>2, <2>3 DEF A
    <3>2. w.hot + A[i] > b
      BY <1>3, <1>4, <1>13, <2>3, <3>1
    <3> QED  BY <1>1, <1>11, <3>1, <3>2
  <2>4. CASE s = "procedural"
    <3>1. i \in DOMAIN P /\ P[i] \in Nat /\ Candidates(w, s)[i] = P[i]
      BY <2>2, <2>4 DEF P
    <3>2. first.used + P[i] > b
      BY <1>3, <1>5, <1>13, <2>4, <3>1
    <3> QED  BY <1>1, <1>4, <1>10, <3>1, <3>2
  <2>5. CASE s = "cold"
    <3>1. i \in DOMAIN C /\ C[i] \in Nat /\ Candidates(w, s)[i] = C[i]
      BY <2>2, <2>5 DEF C
    <3>2. second.used + C[i] > b
      BY <1>3, <1>6, <1>13, <2>5, <3>1
    <3> QED  BY <1>1, <1>5, <1>10, <3>1, <3>2
  <2> QED  BY <2>3, <2>4, <2>5 DEF Searched
<1> QED  BY <1>11, <1>12, <1>13 DEF b, p

\* Each source within its share.
LEMMA BalancedFits ==
    ASSUME NEW w \in Requests
    PROVE  Selected(BalancedPack(w)) <= w.budget
<1> DEFINE available == [hot |-> w.hot, atomic |-> Tokens(Candidates(w, "atomic")),
                         procedural |-> Tokens(Candidates(w, "procedural")),
                         cold |-> Tokens(Candidates(w, "cold")), deep |-> Deep(w)]
           share == Allocate(available, w.budget)
           taken(s) == TakeFitting(Candidates(w, s), 0, share[s])
           p == BalancedPack(w)
<1>1. /\ w.hot \in Nat /\ w.budget \in Nat /\ Deep(w) \in Nat
      /\ \A s \in Searched : Candidates(w, s) \in Seq(Nat \ {0})
  BY Asked
<1>2. \A s \in Searched : Tokens(Candidates(w, s)) \in Nat
  <2>1. \A s \in Searched : Candidates(w, s) \in Seq(Nat)
    <3>1. \A items \in Seq(Nat \ {0}) : items \in Seq(Nat)
      OBVIOUS
    <3> QED  BY <1>1, <3>1
  <2> QED  BY <2>1, TokensGrow
<1>3. available \in Amounts
  BY <1>1, <1>2 DEF Amounts, Searched
<1>4. /\ p.atomic = taken("atomic").kept /\ p.procedural = taken("procedural").kept
      /\ p.cold = taken("cold").kept
  BY DEF BalancedPack
<1> HIDE DEF available, p
<1>5. share \in Amounts /\ Sum(share) <= w.budget
  BY <1>1, <1>3, Allocated
<1> HIDE DEF share
<1>6. ASSUME NEW s \in Searched
      PROVE  Tokens(taken(s).kept) \in Nat /\ Tokens(taken(s).kept) <= share[s]
  <2>1. share[s] \in Nat
    BY <1>5 DEF Amounts, Searched
  <2>2. /\ taken(s) \in Take
        /\ taken(s).used = 0 + Tokens(taken(s).kept)
        /\ taken(s).kept = <<>> \/ taken(s).used <= share[s]
    BY <1>1, <2>1, TakenFits
  <2> HIDE DEF taken
  <2>3. taken(s).kept \in Seq(Nat) /\ taken(s).used \in Nat
    BY <2>2 DEF Take
  <2>4. Tokens(taken(s).kept) \in Nat
    BY <2>3, TokensGrow
  <2>5. taken(s).kept = <<>> => Tokens(taken(s).kept) = 0
    BY TokensGrow
  <2> QED  BY <2>1, <2>2, <2>4, <2>5
<1> HIDE DEF taken
<1>7. share["hot"] \in Nat /\ share["deep"] \in Nat
  BY <1>5 DEF Amounts
<1>8. share["atomic"] \in Nat /\ share["procedural"] \in Nat /\ share["cold"] \in Nat
  BY <1>5 DEF Amounts
<1>9. Selected(p) <= w.budget
  <2> DEFINE f == Tokens(taken("atomic").kept)
             k == Tokens(taken("procedural").kept)
             c == Tokens(taken("cold").kept)
  <2>1. Selected(p) = f + k + c
    BY <1>4 DEF Selected
  <2>2. /\ f \in Nat /\ k \in Nat /\ c \in Nat
        /\ f <= share["atomic"] /\ k <= share["procedural"] /\ c <= share["cold"]
    BY <1>6 DEF Searched
  <2>3. share["hot"] + share["atomic"] + share["procedural"] + share["cold"] + share["deep"]
           <= w.budget
    BY <1>5 DEF Sum
  <2> HIDE DEF f, k, c
  <2>4. f + k + c <= share["atomic"] + share["procedural"] + share["cold"]
    BY <1>8, <2>2
  <2>5. share["atomic"] + share["procedural"] + share["cold"] <= w.budget
    BY <1>1, <1>7, <1>8, <2>3
  <2> QED  BY <1>1, <1>8, <2>1, <2>2, <2>4, <2>5
<1> QED  BY <1>9 DEF p

\* PackFits: for every limit of the searches, every budget and every size, the memories
\* that are selected fit, and a source is only left out when nothing of it would.
THEOREM ContextsFit == ContextSpec => []PackFits
<1>1. ContextInit => PackFits
  BY DEF ContextInit, PackFits, Unasked
<1>2. ASSUME PackFits, Build  PROVE PackFits'
  <2>1. PICK w \in Requests :
          /\ wanted' = w
          /\ pack' = CASE w.strategy = "greedy"   -> GreedyPack(w)
                       [] w.strategy = "balanced" -> BalancedPack(w)
                       [] OTHER                   -> PriorityPack(w)
    BY <1>2 DEF Build
  <2>2. CASE w.strategy = "greedy"
    BY <2>1, <2>2 DEF PackFits
  <2>3. CASE w.strategy = "balanced"
    <3>1. wanted' = w /\ pack' = BalancedPack(w)
      BY <2>1, <2>3
    <3> QED  BY <2>3, <3>1, BalancedFits DEF PackFits
  <2>4. CASE w.strategy \notin {"greedy", "balanced"}
    <3>1. wanted' = w /\ pack' = PriorityPack(w)
      BY <2>1, <2>4
    <3> QED  BY <3>1, PriorityFits DEF PackFits, Searched
  <2> QED  BY <2>2, <2>3, <2>4
<1>3. PackFits /\ UNCHANGED contextVars => PackFits'
  BY DEF PackFits, contextVars, Candidates, Included
<1> QED  BY <1>1, <1>2, <1>3, PTL DEF ContextSpec

-----------------------------------------------------------------------------
(***************************************************************************)
(* WorkflowRuns: the tools that are mounted on an agent.                   *)
(***************************************************************************)
WorkflowSpec == WorkflowInit /\ [][WorkflowNext]_workflowVars

ToolNames == {"s", "m", "n", "c", Browser}
Mountable == {names \in Seq(ToolNames) : IsInjective(names)}

Offer == [skills : SUBSET ToolNames, mcp : SUBSET ToolNames, connectors : SUBSET ToolNames]

\* A list of names with one more, which was not in it.
LEMMA OneMore ==
    ASSUME NEW names \in Mountable, NEW n \in ToolNames, n \notin ToSet(names)
    PROVE  Append(names, n) \in Mountable /\ ToSet(Append(names, n)) = ToSet(names) \cup {n}
<1> DEFINE more == Append(names, n)
           last == Len(names) + 1
<1>1. names \in Seq(ToolNames) /\ IsInjective(names)
  BY DEF Mountable
<1>2. /\ more \in Seq(ToolNames) /\ DOMAIN names = 1..Len(names) /\ DOMAIN more = 1..last
      /\ Len(names) \in Nat /\ more[last] = n
      /\ \A k \in 1..Len(names) : more[k] = names[k]
  BY <1>1
<1> HIDE DEF more
<1>3. \A k \in 1..last : k = last \/ k \in 1..Len(names)
  BY <1>2
<1>4. \A k \in 1..Len(names) : names[k] # n
  BY <1>2 DEF ToSet
<1>5. IsInjective(more)
  <2> SUFFICES ASSUME NEW a \in 1..last, NEW b \in 1..last, more[a] = more[b]  PROVE a = b
    BY <1>2 DEF IsInjective
  <2>1. CASE a = last \/ b = last
    BY <1>2, <1>3, <1>4, <2>1
  <2>2. CASE a # last /\ b # last
    <3>1. a \in DOMAIN names /\ b \in DOMAIN names /\ names[a] = names[b]
      BY <1>2, <1>3, <2>2
    <3> QED  BY <1>1, <3>1 DEF IsInjective
  <2> QED  BY <2>1, <2>2
<1>6. ToSet(more) = ToSet(names) \cup {n}
  <2>1. ToSet(more) \subseteq ToSet(names) \cup {n}
    BY <1>2, <1>3 DEF ToSet
  <2>2. \A k \in 1..Len(names) : k \in 1..last
    BY <1>2
  <2>3. last \in 1..last
    BY <1>2
  <2>4. ToSet(names) \cup {n} \subseteq ToSet(more)
    BY <1>2, <2>2, <2>3 DEF ToSet
  <2> QED  BY <2>1, <2>4
<1> QED  BY <1>2, <1>5, <1>6 DEF Mountable, more

\* Taking a name out leaves the others, each once.
LEMMA TakenOut ==
    ASSUME NEW names \in Mountable, NEW name
    PROVE  Without(names, name) \in Mountable /\ ToSet(Without(names, name)) = ToSet(names) \ {name}
<1> DEFINE n == Len(names)
           A == Seq(ToolNames)
           Put(kept, t) == IF t = name THEN kept ELSE Append(kept, t)
           step == [kept \in A |-> [t \in ToolNames |-> Put(kept, t)]]
           Eq(it) == it = [S \in SUBSET DOMAIN names |->
                             IF S = {} THEN <<>>
                             ELSE LET x == Max(S) IN Put(it[S \ {x}], names[x])]
           chosen == CHOOSE it : Eq(it)
<1>1. /\ n \in Nat /\ DOMAIN names = 1..n /\ names \in A /\ IsInjective(names)
      /\ \A k \in 1..n : names[k] \in ToolNames
  BY DEF Mountable
<1>2. Without(names, name) = chosen[1..n]
  BY <1>1 DEF Without, FoldLeft, MapThenFoldSet
<1>3. \A kept \in A, t \in ToolNames : Put(kept, t) \in A
  OBVIOUS
<1>4. /\ step \in [A -> [ToolNames -> A]]
      /\ \A kept \in A, t \in ToolNames : step[kept][t] = Put(kept, t)
  BY <1>3
<1>5. <<>> \in A
  OBVIOUS
<1> HIDE DEF step, A
<1>6. Folding(A, ToolNames, names, <<>>, step)
  BY <1>1, <1>4, <1>5 DEF Folding, A
<1>7. \E it : Eq(it)
  <2>1. PICK it \in [SUBSET (1..n) -> A] : Folded(it, names, n, <<>>, step)
    BY <1>6, FoldExists
  <2>2. ASSUME NEW S \in SUBSET (1..n), S # {}
        PROVE  step[it[S \ {Max(S)}]][names[Max(S)]] = Put(it[S \ {Max(S)}], names[Max(S)])
    <3>1. Max(S) \in 1..n
      BY <1>1, <2>2, MaxPlace
    <3>2. it[S \ {Max(S)}] \in A /\ names[Max(S)] \in ToolNames
      BY <1>1, <2>1, <3>1
    <3> HIDE DEF Put
    <3> QED  BY <1>4, <3>2
  <2>3. Eq(it)
    <3> HIDE DEF Put
    <3> QED  BY <1>1, <2>1, <2>2 DEF Folded
  <2> QED  BY <2>3
<1>8. Eq(chosen)
  BY <1>7
<1> HIDE DEF chosen
<1>9. chosen[{}] = <<>>
  BY <1>8
<1>10. ASSUME NEW k \in 1..n  PROVE chosen[1..k] = Put(chosen[1..(k - 1)], names[k])
  <2>1. /\ 1..k \in SUBSET (1..n) /\ 1..k # {} /\ Max(1..k) = k
        /\ (1..k) \ {k} = 1..(k - 1)
    BY <1>1, Prefix
  <2> HIDE DEF Put
  <2> QED  BY <1>1, <1>8, <2>1
<1>11. Repeats(chosen, names, A, <<>>, step)
  <2> HIDE DEF Eq, Put
  <2> QED  BY <1>1, <1>4, <1>9, <1>10 DEF Repeats
<1>12. PICK run \in [0..n -> A] : Runs(run, names, <<>>, step) /\ run[n] = chosen[1..n]
  <2> HIDE DEF Eq
  <2> QED  BY <1>6, <1>11, FoldRuns
<1> DEFINE Good(k) == /\ run[k] \in Mountable
                      /\ ToSet(run[k]) = {names[j] : j \in 1..k} \ {name}
           good == {k \in 0..n : Good(k)}
<1>13. 0 \in good
  <2>1. run[0] = <<>>
    BY <1>12 DEF Runs
  <2>2. <<>> \in Mountable /\ ToSet(<<>>) = {}
    BY DEF Mountable, ToSet, IsInjective
  <2>3. 1..0 = {} /\ 0 \in 0..n
    BY <1>1
  <2> QED  BY <2>1, <2>2, <2>3
<1>14. ASSUME NEW k \in 1..n, k - 1 \in good  PROVE k \in good
  <2>1. k - 1 \in 0..n /\ k \in 0..n /\ Good(k - 1) /\ names[k] \in ToolNames
    BY <1>1, <1>14
  <2>2. run[k - 1] \in A
    BY <1>12, <2>1
  <2>3. run[k] = Put(run[k - 1], names[k])
    <3> HIDE DEF Put
    <3> QED  BY <1>4, <1>12, <2>1, <2>2 DEF Runs
  <2>4. {names[j] : j \in 1..k} = {names[j] : j \in 1..(k - 1)} \cup {names[k]}
    <3>1. \A j \in 1..k : j = k \/ j \in 1..(k - 1)
      BY <1>1
    <3>2. k \in 1..k /\ \A j \in 1..(k - 1) : j \in 1..k
      BY <1>1
    <3> QED  BY <3>1, <3>2
  <2>5. names[k] \notin {names[j] : j \in 1..(k - 1)}
    <3>1. \A j \in 1..(k - 1) : j \in 1..n /\ j # k
      BY <1>1
    <3> QED  BY <1>1, <3>1 DEF IsInjective
  <2>6. CASE names[k] = name
    BY <2>1, <2>3, <2>4, <2>6
  <2>7. CASE names[k] # name
    <3>1. run[k] = Append(run[k - 1], names[k])
      BY <2>3, <2>7
    <3>2. names[k] \notin ToSet(run[k - 1])
      BY <2>1, <2>5
    <3>3. /\ run[k] \in Mountable
          /\ ToSet(run[k]) = ToSet(run[k - 1]) \cup {names[k]}
      BY <2>1, <3>1, <3>2, OneMore
    <3> QED  BY <2>1, <2>4, <2>7, <3>3
  <2> QED  BY <2>6, <2>7
<1>15. Good(n)
  <2> HIDE DEF good
  <2>1. 0..n \subseteq good
    BY <1>1, <1>13, <1>14, UpTo
  <2> QED  BY <1>1, <2>1 DEF good
<1>16. {names[j] : j \in 1..n} = ToSet(names)
  BY <1>1 DEF ToSet
<1> QED  BY <1>2, <1>12, <1>15, <1>16

\* A name that is attached is there once, at the end, beside the others.
LEMMA Attached ==
    ASSUME NEW names \in Mountable, NEW name \in ToolNames
    PROVE  Attach(names, name) \in Mountable /\ ToSet(Attach(names, name)) = ToSet(names) \cup {name}
<1>1. /\ Without(names, name) \in Mountable
      /\ ToSet(Without(names, name)) = ToSet(names) \ {name}
  BY TakenOut
<1> QED  BY <1>1, OneMore DEF Attach

\* The names of a finite set, one after another.
LEMMA SetListed ==
    ASSUME NEW S, IsFiniteSet(S)
    PROVE  SetToSeq(S) \in Seq(S) /\ ToSet(SetToSeq(S)) = S
<1> DEFINE n == Cardinality(S)
           list == SetToSeq(S)
<1>1. n \in Nat /\ ExistsBijection(1..n, S)
  BY FS_CardinalityType
<1>2. \E f \in [1..n -> S] : IsInjective(f)
  BY <1>1 DEF ExistsBijection, Bijection, Injection
<1>3. list \in [1..n -> S] /\ IsInjective(list)
  BY <1>2 DEF SetToSeq
<1> HIDE DEF list
<1>4. list \in Injection(1..n, S)
  BY <1>3 DEF Injection
<1>5. Cardinality(1..n) = n
  BY <1>1, FS_Interval
<1>6. list \in Surjection(1..n, S)
  BY <1>4, <1>5, FS_Injection
<1>7. \A x \in S : \E k \in 1..n : list[k] = x
  BY <1>6 DEF Surjection
<1>8. list \in Seq(S) /\ ToSet(list) = S
  BY <1>1, <1>3, <1>7 DEF ToSet
<1> QED  BY <1>8 DEF list

\* Mounting a source leaves every name once, those of the source among them.
LEMMA AllMounted ==
    ASSUME NEW names \in Mountable, NEW source \in SUBSET ToolNames
    PROVE  /\ Mounted(names, source) \in Mountable
           /\ ToSet(Mounted(names, source)) = ToSet(names) \cup source
<1> DEFINE list == SetToSeq(source)
           n == Len(list)
           step == [kept \in Mountable |-> [t \in ToolNames |-> Attach(kept, t)]]
           Eq(it) == it = [S \in SUBSET DOMAIN list |->
                             IF S = {} THEN names
                             ELSE LET x == Max(S) IN Attach(it[S \ {x}], list[x])]
           chosen == CHOOSE it : Eq(it)
<1>1. IsFiniteSet(source)
  <2>1. IsFiniteSet(ToolNames)
    <3>1. IsFiniteSet({})
      BY FS_EmptySet
    <3>2. IsFiniteSet({"s"})
      BY FS_Singleton
    <3>3. IsFiniteSet({"s"} \cup {"m"}) 
      BY <3>2, FS_AddElement
    <3>4. IsFiniteSet({"s"} \cup {"m"} \cup {"n"})
      BY <3>3, FS_AddElement
    <3>5. IsFiniteSet({"s"} \cup {"m"} \cup {"n"} \cup {"c"})
      BY <3>4, FS_AddElement
    <3>6. IsFiniteSet({"s"} \cup {"m"} \cup {"n"} \cup {"c"} \cup {Browser})
      BY <3>5, FS_AddElement
    <3>7. {"s"} \cup {"m"} \cup {"n"} \cup {"c"} \cup {Browser} = ToolNames
      BY DEF ToolNames
    <3> QED  BY <3>6, <3>7
  <2> QED  BY <2>1, FS_Subset
<1>2. list \in Seq(source) /\ ToSet(list) = source
  BY <1>1, SetListed
<1>3. Mounted(names, source) = chosen[DOMAIN list]
  BY DEF Mounted, FoldLeft, MapThenFoldSet
<1> HIDE DEF list
<1>4. /\ n \in Nat /\ DOMAIN list = 1..n /\ list \in Seq(ToolNames)
      /\ \A k \in 1..n : list[k] \in ToolNames
  BY <1>2
<1>5. /\ step \in [Mountable -> [ToolNames -> Mountable]]
      /\ \A kept \in Mountable, t \in ToolNames : step[kept][t] = Attach(kept, t)
  BY Attached
<1> HIDE DEF step
<1>6. Folding(Mountable, ToolNames, list, names, step)
  BY <1>4, <1>5 DEF Folding
<1>7. \E it : Eq(it)
  <2>1. PICK it \in [SUBSET (1..n) -> Mountable] : Folded(it, list, n, names, step)
    BY <1>6, FoldExists
  <2>2. ASSUME NEW S \in SUBSET (1..n), S # {}
        PROVE  step[it[S \ {Max(S)}]][list[Max(S)]] = Attach(it[S \ {Max(S)}], list[Max(S)])
    <3>1. Max(S) \in 1..n
      BY <1>4, <2>2, MaxPlace
    <3>2. it[S \ {Max(S)}] \in Mountable /\ list[Max(S)] \in ToolNames
      BY <1>4, <2>1, <3>1
    <3> QED  BY <1>5, <3>2
  <2>3. Eq(it)
    BY <1>4, <2>1, <2>2 DEF Folded
  <2> QED  BY <2>3
<1>8. Eq(chosen)
  BY <1>7
<1> HIDE DEF chosen
<1>9. chosen[{}] = names
  BY <1>8
<1>10. ASSUME NEW k \in 1..n  PROVE chosen[1..k] = Attach(chosen[1..(k - 1)], list[k])
  <2>1. /\ 1..k \in SUBSET (1..n) /\ 1..k # {} /\ Max(1..k) = k
        /\ (1..k) \ {k} = 1..(k - 1)
    BY <1>4, Prefix
  <2> QED  BY <1>4, <1>8, <2>1
<1>11. Repeats(chosen, list, Mountable, names, step)
  <2> HIDE DEF Eq
  <2> QED  BY <1>4, <1>5, <1>9, <1>10 DEF Repeats
<1>12. PICK run \in [0..n -> Mountable] : Runs(run, list, names, step) /\ run[n] = chosen[1..n]
  <2> HIDE DEF Eq
  <2> QED  BY <1>6, <1>11, FoldRuns
<1> DEFINE good == {k \in 0..n : ToSet(run[k]) = ToSet(names) \cup {list[j] : j \in 1..k}}
<1>13. 0 \in good
  <2>1. 1..0 = {} /\ 0 \in 0..n /\ run[0] = names
    BY <1>4, <1>12 DEF Runs
  <2> QED  BY <2>1
<1>14. ASSUME NEW k \in 1..n, k - 1 \in good  PROVE k \in good
  <2>1. k - 1 \in 0..n /\ k \in 0..n /\ list[k] \in ToolNames /\ run[k - 1] \in Mountable
    BY <1>4, <1>12
  <2>2. run[k] = Attach(run[k - 1], list[k])
    BY <1>5, <1>12, <2>1 DEF Runs
  <2>3. {list[j] : j \in 1..k} = {list[j] : j \in 1..(k - 1)} \cup {list[k]}
    <3>1. \A j \in 1..k : j = k \/ j \in 1..(k - 1)
      BY <1>4
    <3>2. k \in 1..k /\ \A j \in 1..(k - 1) : j \in 1..k
      BY <1>4
    <3> QED  BY <3>1, <3>2
  <2>4. ToSet(run[k]) = ToSet(run[k - 1]) \cup {list[k]}
    BY <2>1, <2>2, Attached
  <2> QED  BY <1>14, <2>1, <2>3, <2>4
<1>15. ToSet(run[n]) = ToSet(names) \cup {list[j] : j \in 1..n} /\ run[n] \in Mountable
  <2> HIDE DEF good
  <2>1. 0..n \subseteq good
    BY <1>4, <1>13, <1>14, UpTo
  <2> QED  BY <1>4, <1>12, <2>1 DEF good
<1>16. {list[j] : j \in 1..n} = source
  BY <1>2, <1>4 DEF ToSet
<1> QED  BY <1>3, <1>4, <1>12, <1>15, <1>16

\* The list of the tools and the names that a call is looked up by stay together.
ToolsKept ==
    /\ tools \in Mountable /\ ToSet(tools) = toolMap
    /\ offered \in Offer

\* The servers that a run has yet to ask are among those that were offered.
Asks(run) == "left" \in DOMAIN run /\ run.left \subseteq ToolNames
RunsAsk == DOMAIN flow = Flows /\ \A f \in Flows : Asks(flow[f])

\* What one run does is its own.
LEMMA OneRun ==
    ASSUME RunsAsk, NEW f \in Flows, NEW run, Asks(run), flow' = [flow EXCEPT ![f] = run]
    PROVE  RunsAsk'
BY DEF RunsAsk

\* A step is over.
LEMMA Noted ==
    ASSUME RunsAsk, NEW f \in Flows, NEW status, NEW goesOn, Note(f, status, goesOn)
    PROVE  RunsAsk'
<1> DEFINE done == [flow[f] EXCEPT !.at = IF goesOn THEN "step" ELSE "raised",
                                   !.step = @ + 1, !.round = 0, !.left = {},
                                   !.results = Append(@, status)]
<1>1. Asks(flow[f])
  BY DEF RunsAsk
<1>2. "left" \in DOMAIN done /\ done.left = {}
  BY <1>1 DEF Asks
<1>3. flow' = [flow EXCEPT ![f] = done]
  BY DEF Note
<1> HIDE DEF done
<1>4. Asks(done)
  BY <1>2 DEF Asks
<1> QED  BY <1>3, <1>4, OneRun

\* A run is idle again.
LEMMA Idles ==
    ASSUME RunsAsk, NEW f \in Flows, flow' = [flow EXCEPT ![f] = Idling]
    PROVE  RunsAsk'
<1>1. Asks(Idling)
  BY DEF Idling, Asks
<1> QED  BY <1>1, OneRun

\* A run moves on.
LEMMA Moves ==
    ASSUME RunsAsk, NEW f \in Flows, NEW at, MoveTo(f, at)
    PROVE  RunsAsk'
<1> DEFINE moved == [flow[f] EXCEPT !.at = at]
<1>1. Asks(flow[f])
  BY DEF RunsAsk
<1>2. Asks(moved)
  BY <1>1 DEF Asks
<1>3. flow' = [flow EXCEPT ![f] = moved]
  BY DEF MoveTo
<1> HIDE DEF moved
<1> QED  BY <1>2, <1>3, OneRun

\* The runs stay as they should, whatever is offered.
LEMMA StillAsking ==
    ASSUME RunsAsk, offered \in Offer, WorkflowNext
    PROVE  RunsAsk'
<1>1. offered.mcp \in SUBSET ToolNames
  BY DEF Offer
<1>2. ASSUME NEW f \in Flows, RunWorkflow(f)  PROVE RunsAsk'
  BY <1>2, Moves DEF RunWorkflow
<1>3. ASSUME NEW f \in Flows, BeginStep(f)  PROVE RunsAsk'
  BY <1>3, Moves, Noted DEF BeginStep
<1>4. ASSUME NEW f \in Flows, Prepare(f)  PROVE RunsAsk'
  <2>1. CASE prepared
    BY <1>4, <2>1, Moves DEF Prepare
  <2>2. CASE ~prepared
    <3>1. flow' = [flow EXCEPT ![f].at = "mcp", ![f].left = offered.mcp]
      BY <1>4, <2>2 DEF Prepare
    <3> DEFINE moved == [flow[f] EXCEPT !.at = "mcp", !.left = offered.mcp]
    <3>2. Asks(flow[f])
      BY DEF RunsAsk
    <3>3. Asks(moved)
      BY <1>1, <3>2 DEF Asks
    <3>4. flow' = [flow EXCEPT ![f] = moved]
      BY <3>1, <3>2 DEF RunsAsk
    <3> HIDE DEF moved
    <3> QED  BY <3>3, <3>4, OneRun
  <2> QED  BY <2>1, <2>2
<1>5. ASSUME NEW f \in Flows, MountMcp(f)  PROVE RunsAsk'
  <2>1. CASE MoveTo(f, "connectors")
    BY <2>1, Moves
  <2>2. ASSUME NEW m \in flow[f].left, flow' = [flow EXCEPT ![f].left = @ \ {m}]
        PROVE  RunsAsk'
    <3> DEFINE moved == [flow[f] EXCEPT !.left = @ \ {m}]
    <3>1. Asks(flow[f])
      BY DEF RunsAsk
    <3>2. Asks(moved)
      BY <3>1 DEF Asks
    <3>3. flow' = [flow EXCEPT ![f] = moved]
      BY <2>2
    <3> HIDE DEF moved
    <3> QED  BY <3>2, <3>3, OneRun
  <2>3. CASE flow' = [flow EXCEPT ![f] = Idling]
    BY <2>3, Idles
  <2>4. CASE Note(f, "error", Steps[flow[f].step].onError)
    BY <2>4, Noted
  <2> QED  BY <1>5, <2>1, <2>2, <2>3, <2>4 DEF MountMcp
<1>6. ASSUME NEW f \in Flows, MountConnectors(f)  PROVE RunsAsk'
  BY <1>6, Moves, Idles DEF MountConnectors
<1>7. ASSUME NEW f \in Flows, AgentAnswers(f)  PROVE RunsAsk'
  <2>1. CASE flow' = [flow EXCEPT ![f].at = "prepare", ![f].round = @ + 1]
    <3> DEFINE moved == [flow[f] EXCEPT !.at = "prepare", !.round = @ + 1]
    <3>1. Asks(flow[f])
      BY DEF RunsAsk
    <3>2. Asks(moved)
      BY <3>1 DEF Asks
    <3>3. flow' = [flow EXCEPT ![f] = moved]
      BY <2>1
    <3> HIDE DEF moved
    <3> QED  BY <3>2, <3>3, OneRun
  <2> QED  BY <1>7, <2>1, Noted DEF AgentAnswers
<1>8. ASSUME NEW f \in Flows, EndWorkflow(f)  PROVE RunsAsk'
  BY <1>8, Idles DEF EndWorkflow
<1>9. ASSUME NEW f \in Flows, MountDirectly(f)  PROVE RunsAsk'
  <2>1. flow' = [flow EXCEPT ![f].at = "mcp", ![f].direct = TRUE, ![f].left = offered.mcp]
    BY <1>9 DEF MountDirectly
  <2> DEFINE moved == [flow[f] EXCEPT !.at = "mcp", !.direct = TRUE, !.left = offered.mcp]
  <2>2. Asks(flow[f])
    BY DEF RunsAsk
  <2>3. Asks(moved)
    BY <1>1, <2>2 DEF Asks
  <2>4. flow' = [flow EXCEPT ![f] = moved]
    BY <2>1
  <2> HIDE DEF moved
  <2> QED  BY <2>3, <2>4, OneRun
<1>10. ASSUME ToggleBrowser \/ ChangeOffer  PROVE RunsAsk'
  BY <1>10 DEF ToggleBrowser, ChangeOffer, RunsAsk
<1> QED  BY <1>2, <1>3, <1>4, <1>5, <1>6, <1>7, <1>8, <1>9, <1>10 DEF WorkflowNext

\* Mounting one source.
LEMMA Mounts ==
    ASSUME ToolsKept, NEW source \in SUBSET ToolNames, Mount(source), offered' = offered
    PROVE  ToolsKept'
BY AllMounted DEF ToolsKept, Mount

\* Mounting the browser tool.
LEMMA WithTheBrowser ==
    ASSUME NEW names \in Mountable
    PROVE  /\ WithBrowser(names) \in Mountable
           /\ ToSet(WithBrowser(names)) = ToSet(names) \cup {Browser}
<1>1. Browser \in ToolNames
  BY DEF ToolNames
<1> QED  BY <1>1, Attached DEF WithBrowser

\* OneToolPerName: however many runs mount tools on the agent at once, it lists every
\* tool once, and exactly those that a call can reach.
THEOREM ToolsOnce == WorkflowSpec => []OneToolPerName
<1>1. WorkflowInit => ToolsKept /\ RunsAsk
  <2> SUFFICES ASSUME WorkflowInit  PROVE ToolsKept /\ RunsAsk
    OBVIOUS
  <2>1. tools \in Mountable /\ ToSet(tools) = toolMap
    BY DEF WorkflowInit, Mountable, ToSet, IsInjective
  <2>2. offered \in Offer
    BY DEF WorkflowInit, Offer, ToolNames
  <2>3. RunsAsk
    BY DEF WorkflowInit, RunsAsk, Idling, Asks
  <2> QED  BY <2>1, <2>2, <2>3 DEF ToolsKept
<1>2. ASSUME ToolsKept, RunsAsk, WorkflowNext  PROVE ToolsKept'
  <2>1. /\ tools \in Mountable /\ ToSet(tools) = toolMap /\ offered \in Offer
        /\ offered.skills \in SUBSET ToolNames /\ offered.mcp \in SUBSET ToolNames
        /\ offered.connectors \in SUBSET ToolNames
    BY <1>2 DEF ToolsKept, Offer
  <2>2. ASSUME UNCHANGED <<tools, toolMap, offered>>  PROVE ToolsKept'
    BY <1>2, <2>2 DEF ToolsKept
  <2>3. ASSUME NEW f \in Flows, Prepare(f)  PROVE ToolsKept'
    <3>1. CASE prepared
      BY <2>2, <2>3, <3>1 DEF Prepare
    <3>2. CASE ~prepared
      BY <1>2, <2>1, <2>3, <3>2, Mounts DEF Prepare
    <3> QED  BY <3>1, <3>2
  <2>4. ASSUME NEW f \in Flows, MountMcp(f)  PROVE ToolsKept'
    <3>1. /\ offered' = offered
          /\ (\E m \in flow[f].left : Mount({m})) \/ UNCHANGED <<tools, toolMap>>
      BY <2>4 DEF MountMcp
    <3>2. flow[f].left \subseteq ToolNames
      BY <1>2 DEF RunsAsk, Asks
    <3>3. ASSUME NEW m \in flow[f].left, Mount({m})  PROVE ToolsKept'
      <4>1. {m} \in SUBSET ToolNames
        BY <3>2, <3>3
      <4> QED  BY <1>2, <3>1, <3>3, <4>1, Mounts
    <3> QED  BY <2>2, <3>1, <3>3
  <2>5. ASSUME NEW f \in Flows, MountConnectors(f)  PROVE ToolsKept'
    <3>1. PICK found \in {offered.connectors, {}} :
            /\ tools' = WithBrowser(Mounted(tools, found))
            /\ toolMap' = toolMap \cup found \cup {Browser}
      BY <2>5 DEF MountConnectors
    <3>2. offered' = offered
      BY <2>5 DEF MountConnectors
    <3>3. found \in SUBSET ToolNames
      BY <2>1, <3>1
    <3>4. /\ Mounted(tools, found) \in Mountable
          /\ ToSet(Mounted(tools, found)) = toolMap \cup found
      BY <2>1, <3>3, AllMounted
    <3>5. tools' \in Mountable /\ ToSet(tools') = toolMap'
      BY <3>1, <3>4, WithTheBrowser
    <3> QED  BY <2>1, <3>2, <3>5 DEF ToolsKept
  <2>6. ASSUME ToggleBrowser  PROVE ToolsKept'
    <3>1. CASE tools' = WithBrowser(tools) /\ toolMap' = toolMap \cup {Browser}
      <4>1. tools' \in Mountable /\ ToSet(tools') = toolMap'
        BY <2>1, <3>1, WithTheBrowser
      <4> QED  BY <2>1, <2>6, <4>1 DEF ToolsKept, ToggleBrowser
    <3>2. CASE tools' = Without(tools, Browser) /\ toolMap' = toolMap \ {Browser}
      <4>1. tools' \in Mountable /\ ToSet(tools') = toolMap'
        BY <2>1, <3>2, TakenOut
      <4> QED  BY <2>1, <2>6, <4>1 DEF ToolsKept, ToggleBrowser
    <3> QED  BY <2>6, <3>1, <3>2 DEF ToggleBrowser
  <2>7. ASSUME ChangeOffer  PROVE ToolsKept'
    <3>1. offered' \in Offer
      BY <2>1, <2>7 DEF ChangeOffer, Offer, ToolNames
    <3> QED  BY <2>1, <2>7, <3>1 DEF ToolsKept, ChangeOffer
  <2>8. ASSUME NEW f \in Flows, MountDirectly(f)  PROVE ToolsKept'
    BY <1>2, <2>1, <2>8, Mounts DEF MountDirectly
  <2>9. ASSUME NEW f \in Flows,
               RunWorkflow(f) \/ BeginStep(f) \/ AgentAnswers(f) \/ EndWorkflow(f)
        PROVE  ToolsKept'
    BY <2>2, <2>9 DEF RunWorkflow, BeginStep, AgentAnswers, EndWorkflow
  <2> QED  BY <1>2, <2>3, <2>4, <2>5, <2>6, <2>7, <2>8, <2>9 DEF WorkflowNext
<1>3. ToolsKept /\ RunsAsk /\ WorkflowNext => RunsAsk'
  BY StillAsking DEF ToolsKept
<1>4. ToolsKept /\ RunsAsk /\ UNCHANGED workflowVars => ToolsKept' /\ RunsAsk'
  BY DEF ToolsKept, RunsAsk, workflowVars
<1>5. ToolsKept => OneToolPerName
  BY DEF ToolsKept, OneToolPerName, Mountable
<1> QED  BY <1>1, <1>2, <1>3, <1>4, <1>5, PTL DEF WorkflowSpec
=============================================================================
