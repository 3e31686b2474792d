----------------------------- MODULE TaskStore -----------------------------
(***************************************************************************)
(* One row of the scheduled_tasks table and the statements that            *)
(* cognix/scheduler/store.py runs against it.  Every statement is one      *)
(* UPDATE ... WHERE (or one SELECT), so each is a guard and an atomic      *)
(* function of the row.                                                    *)
(*                                                                         *)
(* A datetime column is kept as its distance from the current time, so the *)
(* model needs no absolute clock:                                          *)
(*   next : NULL, or the time left until next_run  (0: next_run <= now)    *)
(*   left : NULL, or lease_expires_at - now        (< 0: expired)          *)
(*                                                                         *)
(* Operators marked "a wrong form" are plausible bugs; nothing uses them,  *)
(* they show that the properties of the modules above can fail.            *)
(***************************************************************************)
EXTENDS Integers

CONSTANTS
    Node,        \* runtime nodes, the possible values of lease_owner
    NULL,        \* the SQL NULL
    LeaseTTL,    \* ttl_seconds of a lease
    RunCap       \* bound: run_count is saturated here

TaskState == {"active", "paused", "completed", "failed", "canceled"}

ASSUME StoreAssumption ==
    /\ NULL \notin Int /\ NULL \notin Node /\ NULL \notin TaskState
    /\ LeaseTTL \in Nat
    /\ RunCap \in Nat \ {0}

(***************************************************************************)
(* "deleted" stands for a row that is no longer in the table.  keyed says  *)
(* that the stored idempotency_key is the key of the task (each task has   *)
(* at most one); ran says that last_run is not NULL.                       *)
(***************************************************************************)
Row == [state : TaskState \cup {"deleted"},
        next  : Nat \cup {NULL},
        owner : Node \cup {NULL},
        left  : Int \cup {NULL},
        runs  : Nat,
        ran   : BOOLEAN,
        keyed : BOOLEAN]

\* TaskStore.create: an active row, scheduled, never run, without a lease.
Created(firstRun, withKey) ==
    [state |-> "active", next |-> firstRun, owner |-> NULL, left |-> NULL,
     runs |-> 0, ran |-> FALSE, keyed |-> withKey]

Unleased(row) == [row EXCEPT !.owner = NULL, !.left = NULL]

NeverExpired(row) == FALSE                                  \* a wrong form

Expired(row) == row.left # NULL /\ row.left < 0

\* The WHERE clause of the SELECT in claim_due_tasks.
Claimable(row) ==
    /\ row.state = "active"
    /\ row.next # NULL /\ row.next = 0
    /\ row.owner = NULL \/ row.left = NULL \/ Expired(row)

\* Wrong forms of CanAcquire: the owner, or the expiry, is not looked at.
CanAcquireHeld(row, owner) == row.state = "active"

CanAcquireFreeOnly(row, owner) ==
    row.state = "active" /\ (row.owner = NULL \/ row.owner = owner)

\* acquire_lease: free, expired or already ours; next_run plays no part.
CanAcquire(row, owner) ==
    /\ row.state = "active"
    /\ \/ row.owner = NULL
       \/ row.owner = owner
       \/ row.left = NULL
       \/ Expired(row)

Acquired(row, owner) == [row EXCEPT !.owner = owner, !.left = LeaseTTL]

CanExtendAny(row, owner) == row.state = "active"            \* a wrong form

\* extend_lease: no test of the old expiry, but the task must be active.
CanExtend(row, owner) == row.owner = owner /\ row.state = "active"

ExtendedByHalf(row) == [row EXCEPT !.left = LeaseTTL \div 2]  \* a wrong form

Extended(row) == [row EXCEPT !.left = LeaseTTL]

\* release_lease.
Released(row, owner) == IF row.owner = owner THEN Unleased(row) ELSE row

\* Wrong forms of Completed: any caller may complete; the state is not written;
\* the lease is kept.
CompletedByAnyone(row, owner, nextRun, newState) ==
    [Unleased(row) EXCEPT
        !.next = nextRun,
        !.state = IF newState = NULL THEN row.state ELSE newState]

CompletedWithoutState(row, owner, nextRun, newState) ==
    IF row.owner = owner THEN [Unleased(row) EXCEPT !.next = nextRun] ELSE row

CompletedLeased(row, owner, nextRun, newState) ==
    IF row.owner = owner
    THEN [row EXCEPT !.next = nextRun,
                     !.state = IF newState = NULL THEN row.state ELSE newState]
    ELSE row

\* complete_lease; newState = NULL leaves the state alone.
Completed(row, owner, nextRun, newState) ==
    IF row.owner = owner
    THEN [Unleased(row) EXCEPT
            !.next = nextRun,
            !.state = IF newState = NULL THEN row.state ELSE newState]
    ELSE row

\* reap_orphaned_leases, for one row.
Reaped(row) ==
    IF row.state = "active" /\ row.owner # NULL /\ Expired(row)
    THEN Unleased(row)
    ELSE row

\* cancel: unconditional on the state (the routes test it beforehand).
Canceled(row) ==
    IF row.state = "deleted" THEN row
    ELSE [Unleased(row) EXCEPT !.state = "canceled", !.next = NULL]

ReplayedSpent(row) ==                                       \* a wrong form
    IF row.state = "failed"
    THEN [Unleased(row) EXCEPT !.state = "active", !.next = 0] ELSE row

\* replay_failed.
Replayed(row) ==
    IF row.state = "failed"
    THEN [Unleased(row) EXCEPT !.state = "active", !.runs = 0, !.next = 0,
                               !.keyed = FALSE]
    ELSE row

\* update_state: pause, resume and restore write the column and nothing else.
StateSet(row, newState) ==
    IF row.state = "deleted" THEN row ELSE [row EXCEPT !.state = newState]

\* delete: what the row knew is gone.
Deleted(row) ==
    [Unleased(row) EXCEPT !.state = "deleted", !.next = NULL, !.runs = 0,
                          !.ran = FALSE, !.keyed = FALSE]

KeySeenTwice(row) == row.keyed /\ row.runs > 1               \* a wrong form

\* check_idempotency returns False: this key is stored and the task has run.
KeySeen(row) == row.keyed /\ row.ran

\* check_idempotency returns True: the key is stored.
KeyStored(row) ==
    IF row.state = "deleted" THEN row ELSE [row EXCEPT !.keyed = TRUE]

\* The UPDATE of TaskExecutor._persist_run: any status, no lease test.
RunRecorded(row) ==
    IF row.state = "deleted" THEN row
    ELSE [row EXCEPT !.runs = IF @ < RunCap THEN @ + 1 ELSE @, !.ran = TRUE]

\* A point in time draws nearer by one unit; the past is all the same.
Sooner(distance) ==
    IF distance = NULL \/ distance = 0 THEN distance ELSE distance - 1

\* One unit of time passes for the datetime columns of a row.
Aged(row) ==
    [row EXCEPT
       !.next = Sooner(@),
       !.left = IF @ = NULL \/ @ < 0 THEN @ ELSE @ - 1]
=============================================================================
