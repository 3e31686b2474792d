----------------------------- MODULE Approvals -----------------------------
(***************************************************************************)
(* The approval requests of cognix/local/approvals.py.  One JSON file      *)
(* holds them all; an operation reads it, changes it and writes it back    *)
(* without an await, so inside one process each is atomic, and is here a   *)
(* function of the one request that it changes.                            *)
(*                                                                         *)
(* The payload is what the resumers use: the call that waits (a tool call, *)
(* a plan step, a conversation to remember) and the saved snapshot of the  *)
(* waiting run.                                                            *)
(***************************************************************************)
EXTENDS Naturals

CONSTANTS
    Req,     \* request ids; the file holds as many requests (a bound)
    NULL

Status == {"pending", "approved", "rejected", "completed"}

Kind == {"tool_permission", "memory_write", "sdk", "plan_apply"}

ASSUME ApprovalsAssumption == NULL \notin Req /\ NULL \notin Kind

NoRequest == [status |-> "none", kind |-> NULL, work |-> NULL, snap |-> NULL]

Created(kind, work) ==
    [status |-> "pending", kind |-> kind, work |-> work, snap |-> NULL]

\* get and list_all: what the file holds.
Stored(request) == {q \in Req : request[q].status # "none"}

Unused(request) == Req \ Stored(request)

\* _set_status writes any status over any other.
WithStatus(r, status) == [r EXCEPT !.status = status]

\* approve: a no-op on a request that somebody has resolved.
Approved(r) == IF r.status = "pending" THEN WithStatus(r, "approved") ELSE r

\* respond approves whatever the request has become meanwhile.
Responded(r) == WithStatus(r, "approved")

Rejected(r) == WithStatus(r, "rejected")

CompletedUnsaved(r) == r                                    \* a wrong form

Completed(r) == WithStatus(r, "completed")

\* update_metadata: merge the snapshot of the waiting run.
WithSnapshot(r, snap) == [r EXCEPT !.snap = snap]
=============================================================================
