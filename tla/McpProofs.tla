----------------------------- MODULE McpProofs -----------------------------
(***************************************************************************)
(* What holds of McpRuntime for every set of coroutines, server processes  *)
(* and locks and for every bound: a call returns its own answer, a listing *)
(* the tools of its own configuration, a lock is held by exactly the       *)
(* coroutine that starts a process under it, and no process is forgotten.  *)
(***************************************************************************)
EXTENDS McpRuntime, TLAPS

-----------------------------------------------------------------------------
(* The types of the records.  A request bears its number as its id, among  *)
(* those the server has read and among the answers in its stdout.          *)

Pc == {"idle", "locking", "starting", "reading", "answered", "listing", "listed", "closing"}

Op == {"list", "upsert", "delete", "stop", "restart"}

Numbered == {r \in [id : Nat, nth : Nat] : r.id = r.nth}

Process ==
    [state : {"none", "live", "dead"}, version : Nat, requests : 0..MaxRequests,
     asked : SUBSET Numbered, replies : Seq(Numbered)]

Routine ==
    [pc : Pc, server : Server \cup {NULL}, lock : Lock \cup {NULL}, proc : Proc \cup {NULL},
     id : Nat, nth : Nat, got : Nat, op : Op \cup {NULL}]

Types ==
    /\ config \in Server \cup {NULL} /\ mounted \in Server \cup {NULL}
    /\ client \in Proc \cup {NULL} /\ lock \in Lock \cup {NULL}
    /\ held \in [Lock -> Caller \cup {NULL}]
    /\ tools \in [Version -> {0} \cup Version]
    /\ proc \in [Proc -> Process]
    /\ caller \in [Caller -> Routine]
    /\ disturbed \in BOOLEAN

-----------------------------------------------------------------------------
(* The inductive invariant.                                                *)

\* What a coroutine holds at each point.
Fits(w, ps) ==
    /\ w.pc \in {"locking", "starting", "listing", "listed", "closing"} => w.server \in Server
    /\ w.pc \in {"locking", "starting"} <=> w.lock # NULL
    /\ w.pc \in {"starting", "reading", "listing"} => w.proc \in Proc
    /\ w.pc = "reading" => w.id = w.nth
    /\ w.pc = "answered" => w.got = w.nth
    /\ w.pc = "listing" =>
          /\ ps[w.proc].state # "none"
          /\ ps[w.proc].state = "live" => ps[w.proc].version = w.server.at
    /\ w.pc = "listed" => w.got = w.server.at

Places(cs, ps) == \A c \in Caller : Fits(cs[c], ps)

\* The tool cache keeps a list under the configuration it was made with.
Cached(ts) == \A v \in Version : ts[v] \in {0, v}

HeldBy(h, cs) ==
    \A l \in Lock, c \in Caller : h[l] = c <=> cs[c].pc = "starting" /\ cs[c].lock = l

\* A client in use was started once, so that nothing starts it again.
Used(k, ps) == k # NULL => ps[k].state # "none"

\* Undisturbed, the coroutines that may start a process contend for one lock, ...
OneLock(d, l, cs) ==
    ~d => \A c \in Caller : cs[c].pc \in {"locking", "starting"} => cs[c].lock = l

\* ... and one that starts a process has no live client to overwrite.
Alone(d, k, cs, ps) ==
    ~d => \A c \in Caller : cs[c].pc = "starting" => k = NULL \/ ps[k].state # "live"

Owns(w, p) == w.proc = p /\ w.pc \in {"starting", "listing", "closing"}

Owned(d, k, cs, ps) ==
    ~d => \A p \in Proc : ps[p].state = "live" => k = p \/ \E c \in Caller : Owns(cs[c], p)

Inv ==
    /\ Types
    /\ Places(caller, proc)
    /\ Cached(tools)
    /\ HeldBy(held, caller)
    /\ Used(client, proc)
    /\ OneLock(disturbed, lock, caller)
    /\ Alone(disturbed, client, caller, proc)
    /\ Owned(disturbed, client, caller, proc)

-----------------------------------------------------------------------------
(* Processes.                                                              *)

\* A process is started once, dies once and keeps its configuration.
Ages(ps, qs) ==
    \A p \in Proc :
        /\ ps[p].state # "none" => qs[p].state # "none"
        /\ ps[p].state # "none" /\ qs[p].state = "live" =>
              ps[p].state = "live" /\ qs[p].version = ps[p].version

\* Ending a process.
LEMMA Killing ==
    ASSUME proc \in [Proc -> Process], NEW p \in Proc
    PROVE  /\ Killed(p) \in [Proc -> Process]
           /\ Ages(proc, Killed(p))
           /\ \A q \in Proc : Killed(p)[q].state = "live" => q # p /\ proc[q].state = "live"
<1> DEFINE dead == [NoProc EXCEPT !.state = "dead"]
<1>1. dead \in Process /\ dead.state = "dead"
  <2>1. <<>> \in Seq(Numbered) /\ {} \subseteq Numbered /\ 0 \in 0..MaxRequests
    BY McpAssumption
  <2>2. NoProc \in Process
    BY <2>1 DEF NoProc, Process
  <2>3. \A r \in Process : [r EXCEPT !.state = "dead"] \in Process
    BY DEF Process
  <2>4. dead.state = "dead"
    BY DEF NoProc
  <2> QED  BY <2>2, <2>3, <2>4
<1> HIDE DEF dead
<1>2. Killed(p) = [proc EXCEPT ![p] = dead]
  BY DEF Killed, dead
<1> QED  BY <1>1, <1>2 DEF Ages, Process

\* Starting one with a configuration.
LEMMA Spawning ==
    ASSUME proc \in [Proc -> Process], NEW p \in Proc, NEW v \in Nat, proc[p] = NoProc
    PROVE  /\ Spawned(p, v) \in [Proc -> Process]
           /\ Ages(proc, Spawned(p, v))
           /\ \A q \in Proc : Spawned(p, v)[q].state = "live" => q = p \/ proc[q].state = "live"
           /\ Spawned(p, v)[p].state = "live" /\ Spawned(p, v)[p].version = v
<1> DEFINE new == [NoProc EXCEPT !.state = "live", !.version = v]
<1>1. new \in Process /\ new.state = "live" /\ new.version = v
  BY McpAssumption DEF NoProc, Process
<1>2. proc[p].state = "none"
  BY DEF NoProc
<1> HIDE DEF new
<1>3. Spawned(p, v) = [proc EXCEPT ![p] = new]
  BY DEF Spawned, new
<1> QED  BY <1>1, <1>2, <1>3 DEF Ages, Process

\* A request is numbered, and its answer is the only one its reader accepts.
LEMMA Requesting ==
    ASSUME proc \in [Proc -> Process], caller \in [Caller -> Routine],
           NEW c \in Caller, NEW p \in Proc, proc[p].state # "none", Request(c, p, proc)
    PROVE  /\ proc' \in [Proc -> Process]
           /\ Ages(proc, proc')
           /\ \A q \in Proc : proc'[q].state = proc[q].state
           /\ caller' \in [Caller -> Routine]
           /\ \A b \in Caller \ {c} : caller'[b] = caller[b]
           /\ caller'[c].pc = "reading" /\ caller'[c].proc = p
           /\ Fits(caller'[c], proc')
<1> DEFINE n == proc[p].requests + 1
           r == [proc[p] EXCEPT !.requests = n, !.asked = @ \cup {[id |-> n, nth |-> n]}]
           w == [Idle EXCEPT !.pc = "reading", !.proc = p, !.id = n, !.nth = n]
<1>1. n \in 0..MaxRequests
  BY McpAssumption DEF Request, Process
<1>2. [id |-> n, nth |-> n] \in Numbered
  BY <1>1 DEF Numbered
<1>3. r \in Process /\ r.state = proc[p].state /\ r.version = proc[p].version
  BY <1>1, <1>2 DEF Process
<1>4. /\ w \in Routine /\ w.pc = "reading" /\ w.proc = p /\ w.id = n /\ w.nth = n
      /\ w.lock = NULL
  <2>1. n \in Nat
    BY <1>1, McpAssumption
  <2> HIDE DEF n
  <2> QED  BY <2>1 DEF Routine, Idle, Pc
<1>5. /\ \A q \in Proc : proc'[q] = IF q = p THEN r ELSE proc[q]
      /\ proc' = [q \in Proc |-> proc'[q]]
  BY DEF Request, NextId
<1>6. caller' = [caller EXCEPT ![c] = w]
  BY DEF Request, NextId
<1> HIDE DEF r, w, n
<1>7. proc' \in [Proc -> Process]
  BY <1>3, <1>5
<1>8. Ages(proc, proc') /\ \A q \in Proc : proc'[q].state = proc[q].state
  BY <1>3, <1>5 DEF Ages, Process
<1>9. caller' \in [Caller -> Routine] /\ caller'[c] = w /\ \A b \in Caller \ {c} : caller'[b] = caller[b]
  BY <1>4, <1>6
<1>10. Fits(w, proc')
  BY <1>4 DEF Fits
<1> QED  BY <1>4, <1>7, <1>8, <1>9, <1>10

-----------------------------------------------------------------------------
(* What a step of a coroutine keeps.                                       *)

\* The other coroutines stay where they are.
LEMMA PlacesKept ==
    ASSUME Types, Places(caller, proc), NEW c \in Caller,
           \A b \in Caller \ {c} : caller'[b] = caller[b],
           Ages(proc, proc'), Fits(caller'[c], proc')
    PROVE  Places(caller', proc')
<1> SUFFICES ASSUME NEW b \in Caller, b # c  PROVE Fits(caller'[b], proc')
  BY DEF Places
<1>1. caller'[b] = caller[b] /\ Fits(caller[b], proc) /\ caller[b] \in Routine
  BY DEF Places, Types
<1> QED  BY <1>1 DEF Fits, Ages

\* Everything but the lock, when the client is left or popped.
LEMMA Step ==
    ASSUME Inv, Types', NEW c \in Caller,
           \A b \in Caller \ {c} : caller'[b] = caller[b],
           Ages(proc, proc'), Fits(caller'[c], proc'), Cached(tools'),
           HeldBy(held', caller'), OneLock(disturbed', lock', caller'),
           disturbed => disturbed', client' = client \/ client' = NULL,
           caller'[c].pc = "starting" => client = NULL \/ proc[client].state = "dead",
           \A p \in Proc : proc'[p].state = "live" =>
               \/ Owns(caller'[c], p)
               \/ /\ proc[p].state = "live" /\ ~Owns(caller[c], p)
                  /\ client = p => client' = p
    PROVE  Inv'
<1>1. Places(caller', proc')
  BY PlacesKept DEF Inv
<1>2. Used(client', proc')
  <2>1. CASE client' = NULL
    BY <2>1 DEF Used
  <2>2. CASE client' = client /\ client # NULL
    BY <2>2 DEF Inv, Used, Types, Ages
  <2> QED  BY <2>1, <2>2
<1>3. Alone(disturbed', client', caller', proc')
  <2> SUFFICES ASSUME ~disturbed', NEW b \in Caller, caller'[b].pc = "starting", client' # NULL
               PROVE  proc'[client'].state # "live"
    BY DEF Alone
  <2>1. client' = client /\ client \in Proc /\ proc[client].state # "none"
    BY DEF Inv, Types, Used
  <2>2. proc[client].state # "live"
    <3>1. CASE b = c
      BY <3>1, <2>1
    <3>2. CASE b # c
      BY <3>2, <2>1 DEF Inv, Alone
    <3> QED  BY <3>1, <3>2
  <2> QED  BY <2>1, <2>2 DEF Ages
<1>4. Owned(disturbed', client', caller', proc')
  <2> SUFFICES ASSUME ~disturbed', NEW p \in Proc, proc'[p].state = "live"
               PROVE  client' = p \/ \E b \in Caller : Owns(caller'[b], p)
    BY DEF Owned
  <2>1. CASE Owns(caller'[c], p)
    BY <2>1
  <2>2. CASE proc[p].state = "live" /\ ~Owns(caller[c], p) /\ (client = p => client' = p)
    <3>1. client = p \/ \E b \in Caller : Owns(caller[b], p)
      BY <2>2 DEF Inv, Owned
    <3>2. CASE client = p
      BY <3>2, <2>2
    <3>3. CASE \E b \in Caller : Owns(caller[b], p)
      <4>1. PICK b \in Caller : Owns(caller[b], p)
        BY <3>3
      <4>2. b # c
        BY <4>1, <2>2
      <4> QED  BY <4>1, <4>2
    <3> QED  BY <3>1, <3>2, <3>3
  <2> QED  BY <2>1, <2>2
<1> QED  BY <1>1, <1>2, <1>3, <1>4 DEF Inv

\* The lock of the server stays where it is while nobody takes or releases it.
LEMMA LocksKept ==
    ASSUME Inv, NEW c \in Caller,
           \A b \in Caller \ {c} : caller'[b] = caller[b],
           held' = held, lock' = lock, disturbed => disturbed',
           caller[c].pc # "starting", caller'[c].pc \notin {"locking", "starting"}
    PROVE  HeldBy(held', caller') /\ OneLock(disturbed', lock', caller')
<1>1. HeldBy(held', caller')
  BY DEF Inv, HeldBy
<1>2. OneLock(disturbed', lock', caller')
  BY DEF Inv, OneLock
<1> QED  BY <1>1, <1>2

\* Who was starting a process releases the lock it holds.
LEMMA Releasing ==
    ASSUME Inv, NEW c \in Caller,
           \A b \in Caller \ {c} : caller'[b] = caller[b],
           Release(c), lock' = lock, disturbed => disturbed',
           caller[c].pc = "starting", caller'[c].pc \notin {"locking", "starting"}
    PROVE  HeldBy(held', caller') /\ OneLock(disturbed', lock', caller')
<1> DEFINE k == caller[c].lock
<1>1. k \in Lock /\ held[k] = c
  BY DEF Inv, HeldBy, Types, Places, Fits, Routine
<1>2. held' = [held EXCEPT ![k] = NULL] /\ held \in [Lock -> Caller \cup {NULL}]
  BY DEF Release, Inv, Types
<1>3. HeldBy(held', caller')
  <2> SUFFICES ASSUME NEW l \in Lock, NEW b \in Caller
               PROVE  held'[l] = b <=> caller'[b].pc = "starting" /\ caller'[b].lock = l
    BY DEF HeldBy
  <2>1. NULL # b
    BY McpAssumption
  <2>2. held[l] = b <=> caller[b].pc = "starting" /\ caller[b].lock = l
    BY DEF Inv, HeldBy
  <2>3. CASE l = k
    BY <1>1, <1>2, <2>1, <2>2, <2>3
  <2>4. CASE l # k
    BY <1>1, <1>2, <2>2, <2>4 DEF Inv, HeldBy
  <2> QED  BY <2>3, <2>4
<1>4. OneLock(disturbed', lock', caller')
  BY DEF Inv, OneLock
<1> QED  BY <1>3, <1>4

\* A coroutine takes a new record.
LEMMA Becomes ==
    ASSUME caller \in [Caller -> Routine], NEW c \in Caller, NEW r \in Routine,
           caller' = [caller EXCEPT ![c] = r]
    PROVE  /\ caller' \in [Caller -> Routine] /\ caller'[c] = r
           /\ \A b \in Caller \ {c} : caller'[b] = caller[b]
  OBVIOUS

\* A coroutine that does nothing fits every state of the processes.
LEMMA Idling ==
    /\ Idle \in Routine /\ Idle.pc = "idle" /\ Idle.lock = NULL /\ Idle.proc = NULL
    /\ \A ps : Fits(Idle, ps)
    /\ \A p : ~Owns(Idle, p)
<1>1. Idle \in Routine /\ Idle.pc = "idle" /\ Idle.lock = NULL /\ Idle.proc = NULL
  BY DEF Idle, Routine, Pc
<1> HIDE DEF Idle
<1>2. \A ps : Fits(Idle, ps)
  BY <1>1 DEF Fits
<1> QED  BY <1>1, <1>2 DEF Owns

\* Processes that do not change.
LEMMA Unaged == ASSUME proc' = proc  PROVE Ages(proc, proc')
  BY DEF Ages

-----------------------------------------------------------------------------
(* call_tool.                                                              *)

\* A call enters: it takes the lock the server has or, when it has none, one
\* that no coroutine holds or waits for.
LEMMA Calls == ASSUME Inv, NEW c \in Caller, Call(c)  PROVE Inv'
<1>1. PICK server \in Servers, l \in Lock :
         /\ IF lock = NULL THEN \A b \in Caller : caller[b].lock # l ELSE l = lock
         /\ lock' = l
         /\ caller' = [caller EXCEPT ![c] = [Idle EXCEPT !.pc = "locking", !.server = server,
                                               !.lock = l]]
  BY DEF Call
<1>2. /\ caller[c] = Idle
      /\ UNCHANGED <<config, client, held, tools, mounted, proc, disturbed>>
  BY DEF Call
<1> DEFINE r == [Idle EXCEPT !.pc = "locking", !.server = server, !.lock = l]
<1>3. server \in Server
  BY DEF Servers, Inv, Types
<1>4. l # NULL
  BY McpAssumption
<1>5. r \in Routine /\ r.pc = "locking" /\ r.server = server /\ r.lock = l
  BY <1>3 DEF Idle, Routine, Pc
<1> HIDE DEF r
<1>6. /\ caller' \in [Caller -> Routine] /\ caller'[c] = r
      /\ \A b \in Caller \ {c} : caller'[b] = caller[b]
  BY <1>1, <1>5, Becomes DEF Inv, Types, r
<1>7. Types'
  BY <1>1, <1>2, <1>6 DEF Inv, Types
<1>8. Fits(caller'[c], proc')
  BY <1>3, <1>4, <1>5, <1>6 DEF Fits
<1>9. caller[c].pc = "idle"
  BY <1>2, Idling
<1>10. HeldBy(held', caller')
  BY <1>2, <1>5, <1>6, <1>9 DEF Inv, HeldBy
<1>11. OneLock(disturbed', lock', caller')
  <2> SUFFICES ASSUME ~disturbed', NEW b \in Caller, caller'[b].pc \in {"locking", "starting"}
               PROVE  caller'[b].lock = l
    BY <1>1 DEF OneLock
  <2>1. CASE b = c
    BY <2>1, <1>5, <1>6
  <2>2. CASE b # c
    <3>1. caller[b].lock = lock /\ caller[b].lock # NULL
      BY <2>2, <1>2, <1>6 DEF Inv, OneLock, Places, Fits
    <3> QED  BY <3>1, <2>2, <1>1, <1>6
  <2> QED  BY <2>1, <2>2
<1>12. Cached(tools') /\ Ages(proc, proc')
  BY <1>2, Unaged DEF Inv
<1>13. \A p \in Proc : proc'[p].state = "live" =>
           proc[p].state = "live" /\ ~Owns(caller[c], p) /\ (client = p => client' = p)
  BY <1>2, <1>9 DEF Owns
<1> QED  BY <1>2, <1>5, <1>6, <1>7, <1>8, <1>10, <1>11, <1>12, <1>13, Step

\* The live client takes the request.
LEMMA Reuses == ASSUME Inv, NEW c \in Caller, Reuse(c)  PROVE Inv'
<1>1. /\ caller[c].pc = "locking" /\ Live(client) /\ Request(c, client, proc)
      /\ UNCHANGED <<config, client, lock, held, tools, mounted, disturbed>>
  BY DEF Reuse
<1>2. client \in Proc /\ proc[client].state # "none"
  BY <1>1 DEF Live, Inv, Types
<1>3. /\ proc' \in [Proc -> Process] /\ Ages(proc, proc')
      /\ \A q \in Proc : proc'[q].state = proc[q].state
      /\ caller' \in [Caller -> Routine]
      /\ \A b \in Caller \ {c} : caller'[b] = caller[b]
      /\ caller'[c].pc = "reading" /\ Fits(caller'[c], proc')
  BY <1>1, <1>2, Requesting DEF Inv, Types
<1>4. Types'
  BY <1>1, <1>3 DEF Inv, Types
<1>5. HeldBy(held', caller') /\ OneLock(disturbed', lock', caller')
  BY <1>1, <1>3, LocksKept
<1>6. Cached(tools')
  BY <1>1 DEF Inv
<1>7. \A p \in Proc : proc'[p].state = "live" =>
           proc[p].state = "live" /\ ~Owns(caller[c], p) /\ (client = p => client' = p)
  BY <1>1, <1>3 DEF Owns
<1> QED  BY <1>1, <1>3, <1>4, <1>5, <1>6, <1>7, Step

\* With no live client, a process is started under the free lock.
LEMMA Starts == ASSUME Inv, NEW c \in Caller, Start(c)  PROVE Inv'
<1> DEFINE k == caller[c].lock
<1>1. /\ caller[c].pc = "locking" /\ held[k] = NULL /\ ~Live(client)
      /\ held' = [held EXCEPT ![k] = c]
      /\ UNCHANGED <<config, client, lock, tools, mounted, disturbed>>
  BY DEF Start, LockFree
<1>2. PICK p \in Proc :
         /\ proc[p] = NoProc
         /\ proc' = Spawned(p, caller[c].server.at)
         /\ caller' = [caller EXCEPT ![c].pc = "starting", ![c].proc = p]
  BY DEF Start
<1>3. caller[c] \in Routine /\ Fits(caller[c], proc)
  BY DEF Inv, Types, Places
<1>4. caller[c].server \in Server /\ k \in Lock /\ k # NULL
  BY <1>1, <1>3 DEF Fits, Routine
<1>5. caller[c].server.at \in Nat
  BY <1>4 DEF Server, Version
<1>6. /\ proc' \in [Proc -> Process] /\ Ages(proc, proc')
      /\ \A q \in Proc : proc'[q].state = "live" => q = p \/ proc[q].state = "live"
      /\ proc'[p].state = "live"
  BY <1>2, <1>5, Spawning DEF Inv, Types
<1> DEFINE r == [caller[c] EXCEPT !.pc = "starting", !.proc = p]
<1>7. /\ r \in Routine /\ r.pc = "starting" /\ r.proc = p /\ r.lock = k
      /\ r.server = caller[c].server
  BY <1>3 DEF Routine, Pc
<1>8. /\ \A b \in Caller \ {c} : caller'[b] = caller[b]
      /\ caller'[c] = r /\ caller' \in [Caller -> Routine]
  BY <1>2, <1>7 DEF Inv, Types
<1> HIDE DEF r
<1>9. Types'
  BY <1>1, <1>4, <1>6, <1>8 DEF Inv, Types
<1>10. Fits(r, proc')
  BY <1>4, <1>7 DEF Fits
<1>11. HeldBy(held', caller')
  <2> SUFFICES ASSUME NEW l \in Lock, NEW b \in Caller
               PROVE  held'[l] = b <=> caller'[b].pc = "starting" /\ caller'[b].lock = l
    BY DEF HeldBy
  <2>1. NULL # b
    BY McpAssumption
  <2>2. /\ held[l] = b <=> caller[b].pc = "starting" /\ caller[b].lock = l
        /\ held[k] = b <=> caller[b].pc = "starting" /\ caller[b].lock = k
    BY <1>4 DEF Inv, HeldBy
  <2>3. held'[l] = IF l = k THEN c ELSE held[l]
    BY <1>1, <1>4 DEF Inv, Types
  <2>4. CASE b = c
    BY <2>2, <2>3, <2>4, <1>1, <1>7, <1>8
  <2>5. CASE b # c
    BY <2>1, <2>2, <2>3, <2>5, <1>1, <1>8
  <2> QED  BY <2>4, <2>5
<1>12. OneLock(disturbed', lock', caller')
  BY <1>1, <1>7, <1>8 DEF Inv, OneLock
<1>13. client = NULL \/ proc[client].state = "dead"
  BY <1>1 DEF Live, Inv, Types, Used, Process
<1>14. \A q \in Proc : proc'[q].state = "live" =>
           \/ Owns(caller'[c], q)
           \/ proc[q].state = "live" /\ ~Owns(caller[c], q) /\ (client = q => client' = q)
  BY <1>1, <1>6, <1>7, <1>8 DEF Owns
<1> QED
  BY <1>1, <1>6, <1>8, <1>9, <1>10, <1>11, <1>12, <1>13, <1>14, Step DEF Inv

\* The started process becomes the client.  Undisturbed, the client it replaces
\* does not run: all that start a process wait for the lock that c holds.
LEMMA Initializes == ASSUME Inv, NEW c \in Caller, Initialized(c)  PROVE Inv'
<1> DEFINE p == caller[c].proc
<1>1. /\ caller[c].pc = "starting" /\ Live(p) /\ client' = p
      /\ Release(c) /\ Request(c, p, proc)
      /\ UNCHANGED <<config, lock, tools, mounted, disturbed>>
  BY DEF Initialized
<1>2. p \in Proc /\ proc[p].state = "live"
  BY <1>1 DEF Live, Inv, Places, Fits
<1>3. /\ proc' \in [Proc -> Process] /\ Ages(proc, proc')
      /\ \A q \in Proc : proc'[q].state = proc[q].state
      /\ caller' \in [Caller -> Routine]
      /\ \A b \in Caller \ {c} : caller'[b] = caller[b]
      /\ caller'[c].pc = "reading" /\ Fits(caller'[c], proc')
  BY <1>1, <1>2, Requesting DEF Inv, Types
<1>4. held' \in [Lock -> Caller \cup {NULL}]
  BY <1>1 DEF Release, Inv, Types
<1>5. Types'
  BY <1>1, <1>2, <1>3, <1>4 DEF Inv, Types
<1>6. HeldBy(held', caller') /\ OneLock(disturbed', lock', caller')
  BY <1>1, <1>3, Releasing
<1>7. Places(caller', proc') /\ Cached(tools')
  BY <1>1, <1>3, PlacesKept DEF Inv
<1>8. Used(client', proc')
  BY <1>1, <1>2, <1>3 DEF Used
<1>9. Alone(disturbed', client', caller', proc')
  <2> SUFFICES ASSUME ~disturbed, NEW b \in Caller, b # c, caller[b].pc = "starting"
               PROVE  FALSE
    BY <1>1, <1>3 DEF Alone
  <2>1. caller[b].lock = lock /\ caller[c].lock = lock
    BY <1>1 DEF Inv, OneLock
  <2>2. lock \in Lock
    BY <2>1, <1>1 DEF Inv, Types, Places, Fits
  <2>3. held[lock] = b /\ held[lock] = c
    BY <2>1, <2>2, <1>1 DEF Inv, HeldBy
  <2> QED  BY <2>3
<1>10. Owned(disturbed', client', caller', proc')
  <2> SUFFICES ASSUME ~disturbed, NEW q \in Proc, proc[q].state = "live"
               PROVE  p = q \/ \E b \in Caller : Owns(caller'[b], q)
    BY <1>1, <1>3 DEF Owned
  <2>1. client # q
    BY <1>1, McpAssumption DEF Inv, Alone
  <2>2. PICK b \in Caller : Owns(caller[b], q)
    BY <2>1 DEF Inv, Owned
  <2>3. CASE b = c
    BY <2>2, <2>3 DEF Owns
  <2>4. CASE b # c
    BY <2>2, <2>4, <1>3
  <2> QED  BY <2>3, <2>4
<1> QED  BY <1>5, <1>6, <1>7, <1>8, <1>9, <1>10 DEF Inv

\* initialize raises: the lock is released and the process ended.
LEMMA InitializeFails == ASSUME Inv, NEW c \in Caller, NotInitialized(c)  PROVE Inv'
<1> DEFINE p == caller[c].proc
<1>1. /\ caller[c].pc = "starting" /\ Release(c) /\ proc' = Killed(p)
      /\ caller' = [caller EXCEPT ![c] = Idle]
      /\ UNCHANGED <<config, client, lock, tools, mounted, disturbed>>
  BY DEF NotInitialized
<1>2. p \in Proc
  BY <1>1 DEF Inv, Places, Fits
<1>3. /\ proc' \in [Proc -> Process] /\ Ages(proc, proc')
      /\ \A q \in Proc : proc'[q].state = "live" => q # p /\ proc[q].state = "live"
  BY <1>1, <1>2, Killing DEF Inv, Types
<1>4. /\ caller' \in [Caller -> Routine] /\ caller'[c] = Idle
      /\ \A b \in Caller \ {c} : caller'[b] = caller[b]
  BY <1>1, Idling, Becomes DEF Inv, Types
<1>5. held' \in [Lock -> Caller \cup {NULL}]
  BY <1>1 DEF Release, Inv, Types
<1>6. Types'
  BY <1>1, <1>3, <1>4, <1>5 DEF Inv, Types
<1>7. caller'[c].pc = "idle" /\ Fits(caller'[c], proc')
  BY <1>4, Idling
<1>8. HeldBy(held', caller') /\ OneLock(disturbed', lock', caller')
  BY <1>1, <1>4, <1>7, Releasing
<1>9. Cached(tools')
  BY <1>1 DEF Inv
<1>10. \A q \in Proc : proc'[q].state = "live" =>
           proc[q].state = "live" /\ ~Owns(caller[c], q) /\ (client = q => client' = q)
  BY <1>1, <1>3 DEF Owns
<1> QED  BY <1>1, <1>3, <1>4, <1>6, <1>7, <1>8, <1>9, <1>10, Step

\* The next message is the answer that was waited for, or is dropped.
LEMMA Reads == ASSUME Inv, NEW c \in Caller, Read(c)  PROVE Inv'
<1> DEFINE w == caller[c]
           p == w.proc
           replies == proc[p].replies
           rest == [proc[p] EXCEPT !.replies = Tail(replies)]
           done == [w EXCEPT !.pc = "answered", !.got = Head(replies).nth]
<1>1. /\ w.pc = "reading" /\ Live(p) /\ replies # <<>>
      /\ proc' = [proc EXCEPT ![p].replies = Tail(replies)]
      /\ caller' = IF Head(replies).id = w.id
                     THEN [caller EXCEPT ![c].pc = "answered", ![c].got = Head(replies).nth]
                     ELSE caller
      /\ UNCHANGED <<config, client, lock, held, tools, mounted, disturbed>>
  BY DEF Read, Accepts
<1>2. w \in Routine /\ p \in Proc /\ w.id = w.nth /\ w.lock = NULL
  BY <1>1 DEF Inv, Types, Places, Fits
<1>3. proc[p] \in Process
  BY <1>2 DEF Inv, Types
<1>4. replies \in Seq(Numbered)
  BY <1>3 DEF Process
<1>5. Head(replies) \in Numbered /\ Tail(replies) \in Seq(Numbered)
  BY <1>1, <1>4
<1>6. Head(replies).id = Head(replies).nth /\ Head(replies).nth \in Nat
  BY <1>5 DEF Numbered
<1> HIDE DEF replies
<1>7. rest \in Process /\ rest.state = proc[p].state /\ rest.version = proc[p].version
  BY <1>3, <1>5 DEF Process
<1>8. /\ done \in Routine /\ done.pc = "answered" /\ done.got = Head(replies).nth
      /\ done.nth = w.nth /\ done.lock = NULL
  BY <1>2, <1>6 DEF Routine, Pc
<1>9. proc' = [proc EXCEPT ![p] = rest]
  BY <1>1
<1>10. \/ caller' = caller
       \/ Head(replies).id = w.id /\ caller'[c] = done
  BY <1>1 DEF Inv, Types
<1>11. /\ caller' \in [Caller -> Routine]
       /\ \A b \in Caller \ {c} : caller'[b] = caller[b]
  BY <1>1, <1>2, <1>8 DEF Inv, Types
<1> HIDE DEF rest, done
<1>12. /\ proc' \in [Proc -> Process] /\ Ages(proc, proc')
       /\ \A q \in Proc : proc'[q].state = proc[q].state
  BY <1>7, <1>9, <1>2 DEF Inv, Types, Ages
<1>13. Types'
  BY <1>1, <1>11, <1>12 DEF Inv, Types
<1>14. Fits(caller'[c], proc') /\ caller'[c].pc \in {"reading", "answered"}
  BY <1>1, <1>2, <1>6, <1>8, <1>10 DEF Fits
<1>15. HeldBy(held', caller') /\ OneLock(disturbed', lock', caller')
  BY <1>1, <1>11, <1>14, LocksKept
<1>16. Cached(tools')
  BY <1>1 DEF Inv
<1>17. \A q \in Proc : proc'[q].state = "live" =>
           proc[q].state = "live" /\ ~Owns(caller[c], q) /\ (client = q => client' = q)
  BY <1>1, <1>12 DEF Owns
<1> QED  BY <1>1, <1>11, <1>12, <1>13, <1>14, <1>15, <1>16, <1>17, Step

\* A coroutine that is reading, or has its result, ends.
LEMMA Returns ==
    ASSUME Inv, NEW c \in Caller, CallFails(c) \/ Return(c)
    PROVE  Inv'
<1>1. /\ caller[c].pc \in {"reading", "answered", "listed"}
      /\ caller' = [caller EXCEPT ![c] = Idle]
      /\ UNCHANGED <<config, client, lock, held, tools, mounted, proc, disturbed>>
  BY DEF CallFails, Return
<1>2. /\ caller' \in [Caller -> Routine] /\ caller'[c] = Idle
      /\ \A b \in Caller \ {c} : caller'[b] = caller[b]
  BY <1>1, Idling, Becomes DEF Inv, Types
<1>3. Types'
  BY <1>1, <1>2 DEF Inv, Types
<1>4. caller'[c].pc = "idle" /\ Fits(caller'[c], proc')
  BY <1>2, Idling
<1>5. HeldBy(held', caller') /\ OneLock(disturbed', lock', caller')
  BY <1>1, <1>2, <1>4, LocksKept
<1>6. Cached(tools') /\ Ages(proc, proc')
  BY <1>1, Unaged DEF Inv
<1>7. \A q \in Proc : proc'[q].state = "live" =>
           proc[q].state = "live" /\ ~Owns(caller[c], q) /\ (client = q => client' = q)
  BY <1>1 DEF Owns
<1> QED  BY <1>1, <1>2, <1>3, <1>4, <1>5, <1>6, <1>7, Step

-----------------------------------------------------------------------------
(* list_tools.                                                             *)

\* The record of a coroutine that has its list.
LEMMA Listing ==
    ASSUME NEW server \in Server, NEW version \in Version, NEW c \in Caller,
           caller \in [Caller -> Routine], mounted \in Server \cup {NULL},
           Listed(c, server, version), server.at = version
    PROVE  /\ caller' \in [Caller -> Routine] /\ mounted' \in Server \cup {NULL}
           /\ \A b \in Caller \ {c} : caller'[b] = caller[b]
           /\ caller'[c].pc = "listed" /\ Fits(caller'[c], proc')
<1> DEFINE r == [Idle EXCEPT !.pc = "listed", !.server = server, !.got = version]
<1>1. r \in Routine /\ r.pc = "listed" /\ r.server = server /\ r.got = version /\ r.lock = NULL
  <2>1. version \in Nat
    BY DEF Version
  <2> QED  BY <2>1 DEF Idle, Routine, Pc
<1> HIDE DEF r
<1>2. /\ caller' \in [Caller -> Routine] /\ caller'[c] = r
      /\ \A b \in Caller \ {c} : caller'[b] = caller[b]
  BY <1>1, Becomes DEF Listed, r
<1>3. mounted' \in Server \cup {NULL}
  BY DEF Listed
<1> QED  BY <1>1, <1>2, <1>3 DEF Fits

\* A list in the cache is the one of the configuration it is found under.
LEMMA ListsCached == ASSUME Inv, NEW c \in Caller, ListCached(c)  PROVE Inv'
<1>1. /\ caller[c] = Idle /\ config # NULL /\ tools[config.at] # 0
      /\ Listed(c, config, tools[config.at])
      /\ UNCHANGED <<config, client, lock, held, tools, proc, disturbed>>
  BY DEF ListCached, CacheKey
<1>2. config \in Server /\ config.at \in Version
  BY <1>1 DEF Inv, Types, Server
<1>3. tools[config.at] = config.at
  BY <1>1, <1>2 DEF Inv, Cached
<1>4. /\ caller' \in [Caller -> Routine] /\ mounted' \in Server \cup {NULL}
      /\ \A b \in Caller \ {c} : caller'[b] = caller[b]
      /\ caller'[c].pc = "listed" /\ Fits(caller'[c], proc')
  BY <1>1, <1>2, <1>3, Listing DEF Inv, Types
<1>5. Types'
  BY <1>1, <1>4 DEF Inv, Types
<1>6. caller[c].pc = "idle"
  BY <1>1, Idling
<1>7. HeldBy(held', caller') /\ OneLock(disturbed', lock', caller')
  BY <1>1, <1>4, <1>6, LocksKept
<1>8. Cached(tools') /\ Ages(proc, proc')
  BY <1>1, Unaged DEF Inv
<1>9. \A q \in Proc : proc'[q].state = "live" =>
           proc[q].state = "live" /\ ~Owns(caller[c], q) /\ (client = q => client' = q)
  BY <1>1, <1>6 DEF Owns
<1> QED  BY <1>1, <1>4, <1>5, <1>7, <1>8, <1>9, Step

\* A process is started for this listing alone.
LEMMA Lists == ASSUME Inv, NEW c \in Caller, List(c)  PROVE Inv'
<1>1. /\ caller[c] = Idle /\ config # NULL
      /\ UNCHANGED <<config, client, lock, held, tools, mounted, disturbed>>
  BY DEF List
<1>2. PICK p \in Proc :
         /\ proc[p] = NoProc
         /\ proc' = Spawned(p, config.at)
         /\ caller' = [caller EXCEPT ![c] = [Idle EXCEPT !.pc = "listing", !.server = config,
                                               !.proc = p, !.op = "list"]]
  BY DEF List, Discover
<1> DEFINE r == [Idle EXCEPT !.pc = "listing", !.server = config, !.proc = p, !.op = "list"]
<1>3. config \in Server /\ config.at \in Nat
  BY <1>1 DEF Inv, Types, Server, Version
<1>4. /\ proc' \in [Proc -> Process] /\ Ages(proc, proc')
      /\ \A q \in Proc : proc'[q].state = "live" => q = p \/ proc[q].state = "live"
      /\ proc'[p].state = "live" /\ proc'[p].version = config.at
  BY <1>2, <1>3, Spawning DEF Inv, Types
<1>5. /\ r \in Routine /\ r.pc = "listing" /\ r.server = config /\ r.proc = p
      /\ r.lock = NULL
  BY <1>3 DEF Idle, Routine, Pc, Op
<1> HIDE DEF r
<1>6. /\ caller' \in [Caller -> Routine] /\ caller'[c] = r
      /\ \A b \in Caller \ {c} : caller'[b] = caller[b]
  BY <1>2, <1>5, Becomes DEF Inv, Types, r
<1>7. Types'
  BY <1>1, <1>4, <1>6 DEF Inv, Types
<1>8. Fits(caller'[c], proc')
  BY <1>3, <1>4, <1>5, <1>6 DEF Fits
<1>9. caller[c].pc = "idle"
  BY <1>1, Idling
<1>10. HeldBy(held', caller') /\ OneLock(disturbed', lock', caller')
  BY <1>1, <1>5, <1>6, <1>9, LocksKept
<1>11. Cached(tools')
  BY <1>1 DEF Inv
<1>12. \A q \in Proc : proc'[q].state = "live" =>
           \/ Owns(caller'[c], q)
           \/ proc[q].state = "live" /\ ~Owns(caller[c], q) /\ (client = q => client' = q)
  BY <1>1, <1>4, <1>5, <1>6, <1>9 DEF Owns
<1> QED  BY <1>1, <1>4, <1>5, <1>6, <1>7, <1>8, <1>10, <1>11, <1>12, Step

\* The process is ended; what it listed is cached under its configuration.
LEMMA ListsOk == ASSUME Inv, NEW c \in Caller, ListOk(c)  PROVE Inv'
<1> DEFINE w == caller[c]
           v == proc[w.proc].version
<1>1. /\ w.pc = "listing" /\ Live(w.proc)
      /\ proc' = Killed(w.proc)
      /\ tools' = [tools EXCEPT ![w.server.at] = v]
      /\ Listed(c, w.server, v)
      /\ UNCHANGED <<config, client, lock, held, disturbed>>
  BY DEF ListOk, CacheKey
<1>2. w \in Routine /\ Fits(w, proc)
  BY DEF Inv, Types, Places
<1>3. /\ w.proc \in Proc /\ w.server \in Server /\ v = w.server.at
  BY <1>1, <1>2 DEF Fits, Live
<1>4. v \in Version
  BY <1>3 DEF Server
<1>5. /\ proc' \in [Proc -> Process] /\ Ages(proc, proc')
      /\ \A q \in Proc : proc'[q].state = "live" => q # w.proc /\ proc[q].state = "live"
  BY <1>1, <1>3, Killing DEF Inv, Types
<1>6. /\ caller' \in [Caller -> Routine] /\ mounted' \in Server \cup {NULL}
      /\ \A b \in Caller \ {c} : caller'[b] = caller[b]
      /\ caller'[c].pc = "listed" /\ Fits(caller'[c], proc')
  BY <1>1, <1>3, <1>4, Listing DEF Inv, Types
<1>7. Cached(tools') /\ tools' \in [Version -> {0} \cup Version]
  BY <1>1, <1>3, <1>4 DEF Inv, Types, Cached
<1>8. Types'
  BY <1>1, <1>5, <1>6, <1>7 DEF Inv, Types
<1>9. HeldBy(held', caller') /\ OneLock(disturbed', lock', caller')
  BY <1>1, <1>6, LocksKept
<1>10. \A q \in Proc : proc'[q].state = "live" =>
           proc[q].state = "live" /\ ~Owns(caller[c], q) /\ (client = q => client' = q)
  BY <1>1, <1>5 DEF Owns
<1> QED  BY <1>1, <1>5, <1>6, <1>7, <1>8, <1>9, <1>10, Step

\* The listing raises: its process is ended all the same.
LEMMA ListsFail == ASSUME Inv, NEW c \in Caller, ListFails(c)  PROVE Inv'
<1> DEFINE p == caller[c].proc
<1>1. /\ caller[c].pc = "listing" /\ proc' = Killed(p)
      /\ caller' = [caller EXCEPT ![c] = Idle]
      /\ UNCHANGED <<config, client, lock, held, tools, mounted, disturbed>>
  BY DEF ListFails
<1>2. p \in Proc
  BY <1>1 DEF Inv, Places, Fits
<1>3. /\ proc' \in [Proc -> Process] /\ Ages(proc, proc')
      /\ \A q \in Proc : proc'[q].state = "live" => q # p /\ proc[q].state = "live"
  BY <1>1, <1>2, Killing DEF Inv, Types
<1>4. /\ caller' \in [Caller -> Routine] /\ caller'[c] = Idle
      /\ \A b \in Caller \ {c} : caller'[b] = caller[b]
  BY <1>1, Idling, Becomes DEF Inv, Types
<1>5. Types'
  BY <1>1, <1>3, <1>4 DEF Inv, Types
<1>6. caller'[c].pc = "idle" /\ Fits(caller'[c], proc')
  BY <1>4, Idling
<1>7. HeldBy(held', caller') /\ OneLock(disturbed', lock', caller')
  BY <1>1, <1>4, <1>6, LocksKept
<1>8. Cached(tools')
  BY <1>1 DEF Inv
<1>9. \A q \in Proc : proc'[q].state = "live" =>
           proc[q].state = "live" /\ ~Owns(caller[c], q) /\ (client = q => client' = q)
  BY <1>1, <1>3 DEF Owns
<1> QED  BY <1>1, <1>3, <1>4, <1>5, <1>6, <1>7, <1>8, <1>9, Step

-----------------------------------------------------------------------------
(* invalidate, cancellation and the server processes.                      *)

\* The persistent client is popped; whoever closes it owns it from now on.
LEMMA Invalidates == ASSUME Inv, NEW c \in Caller, Invalidate(c)  PROVE Inv'
<1>1. PICK op \in {"upsert", "delete", "stop", "restart"} :
         /\ op = "upsert" => config.at < MaxVersion
         /\ config' \in Written(op)
         /\ caller' = [caller EXCEPT ![c] = [Idle EXCEPT !.pc = "closing", !.op = op,
                                               !.server = config, !.proc = client]]
  BY DEF Invalidate
<1>2. /\ caller[c] = Idle /\ config # NULL /\ client' = NULL
      /\ disturbed' = (disturbed \/ \E b \in Caller : Starting(b))
      /\ UNCHANGED <<lock, held, tools, mounted, proc>>
  BY DEF Invalidate
<1>3. config \in Server
  BY <1>2 DEF Inv, Types
<1>4. config' \in Server \cup {NULL}
  <2>1. CASE op = "upsert"
    <3>1. config.at + 1 \in Version
      BY <1>1, <1>3, <2>1, McpAssumption DEF Server, Version
    <3>2. PICK e \in BOOLEAN : config' = [at |-> config.at + 1, enabled |-> e]
      BY <1>1, <2>1 DEF Written
    <3> QED  BY <3>1, <3>2 DEF Server
  <2>2. CASE op # "upsert"
    BY <1>1, <1>3, <2>2 DEF Written
  <2> QED  BY <2>1, <2>2
<1> DEFINE r == [Idle EXCEPT !.pc = "closing", !.op = op, !.server = config, !.proc = client]
<1>5. /\ r \in Routine /\ r.pc = "closing" /\ r.server = config /\ r.proc = client
      /\ r.lock = NULL
  BY <1>3 DEF Idle, Routine, Pc, Op, Inv, Types
<1> HIDE DEF r
<1>6. /\ caller' \in [Caller -> Routine] /\ caller'[c] = r
      /\ \A b \in Caller \ {c} : caller'[b] = caller[b]
  BY <1>1, <1>5, Becomes DEF Inv, Types, r
<1>7. Types'
  BY <1>2, <1>4, <1>6 DEF Inv, Types
<1>8. Fits(caller'[c], proc')
  BY <1>3, <1>5, <1>6 DEF Fits
<1>9. caller[c].pc = "idle"
  BY <1>2, Idling
<1>10. HeldBy(held', caller') /\ OneLock(disturbed', lock', caller')
  BY <1>2, <1>5, <1>6, <1>9, LocksKept
<1>11. Cached(tools') /\ Ages(proc, proc')
  BY <1>2, Unaged DEF Inv
<1>12. \A q \in Proc : proc'[q].state = "live" =>
           \/ Owns(caller'[c], q)
           \/ proc[q].state = "live" /\ ~Owns(caller[c], q) /\ (client = q => client' = q)
  BY <1>2, <1>5, <1>6, <1>9 DEF Owns
<1> QED  BY <1>2, <1>5, <1>6, <1>7, <1>8, <1>10, <1>11, <1>12, Step

\* An empty cache is a sound one, and with no start under way the lock may go.
LEMMA Dropping ==
    ASSUME Inv, NEW c \in Caller, Dropped,
           \A b \in Caller \ {c} : caller'[b] = caller[b],
           caller[c].pc # "starting", caller'[c].pc \notin {"locking", "starting"}
    PROVE  /\ Cached(tools') /\ tools' \in [Version -> {0} \cup Version]
           /\ HeldBy(held', caller') /\ OneLock(disturbed', lock', caller')
           /\ disturbed => disturbed'
           /\ disturbed' \in BOOLEAN
<1>1. Cached(tools') /\ tools' \in [Version -> {0} \cup Version]
  BY DEF Dropped, Cached
<1>2. HeldBy(held', caller')
  BY DEF Dropped, Inv, HeldBy
<1>3. disturbed' = (disturbed \/ \E b \in Caller : caller[b].pc \in {"locking", "starting"})
  BY DEF Dropped, Starting
<1>4. OneLock(disturbed', lock', caller')
  BY <1>3 DEF OneLock
<1>5. disturbed' \in BOOLEAN /\ (disturbed => disturbed')
  BY <1>3 DEF Inv, Types
<1> QED  BY <1>1, <1>2, <1>4, <1>5

\* The popped process is ended; a restart starts one to list the tools again.
LEMMA Closes == ASSUME Inv, NEW c \in Caller, Closed(c)  PROVE Inv'
<1> DEFINE w == caller[c]
           killed == IF w.proc = NULL THEN proc ELSE Killed(w.proc)
<1>1. w.pc = "closing" /\ Dropped /\ client' = client
  BY DEF Closed
<1>2. w \in Routine /\ Fits(w, proc)
  BY DEF Inv, Types, Places
<1>3. w.server \in Server /\ w.server.at \in Nat /\ w.lock = NULL
  BY <1>1, <1>2 DEF Fits, Server, Version
<1>4. /\ killed \in [Proc -> Process] /\ Ages(proc, killed)
      /\ \A q \in Proc : killed[q].state = "live" => q # w.proc /\ proc[q].state = "live"
  <2>1. CASE w.proc = NULL
    BY <2>1, McpAssumption DEF Inv, Types, Ages
  <2>2. CASE w.proc # NULL
    <3>1. w.proc \in Proc
      BY <1>2, <2>2 DEF Routine
    <3> QED  BY <2>2, <3>1, Killing DEF Inv, Types
  <2> QED  BY <2>1, <2>2
<1> HIDE DEF killed
<1>5. /\ UNCHANGED <<config, held, mounted>>
      /\ lock' = NULL
  BY <1>1 DEF Dropped
<1>6. CASE ~(w.op = "restart" /\ w.server.enabled)
  <2>1. proc' = killed /\ caller' = [caller EXCEPT ![c] = Idle]
    BY <1>6 DEF Closed, killed
  <2>2. /\ caller' \in [Caller -> Routine] /\ caller'[c] = Idle
        /\ \A b \in Caller \ {c} : caller'[b] = caller[b]
    BY <2>1, Idling, Becomes DEF Inv, Types
  <2>3. caller'[c].pc = "idle" /\ Fits(caller'[c], proc')
    BY <2>2, Idling
  <2>4. /\ Cached(tools') /\ tools' \in [Version -> {0} \cup Version]
        /\ HeldBy(held', caller') /\ OneLock(disturbed', lock', caller')
        /\ disturbed => disturbed'
        /\ disturbed' \in BOOLEAN
    BY <1>1, <2>2, <2>3, Dropping
  <2>5. Types'
    BY <1>1, <1>4, <1>5, <2>1, <2>2, <2>4 DEF Inv, Types
  <2>6. \A q \in Proc : proc'[q].state = "live" =>
             proc[q].state = "live" /\ ~Owns(caller[c], q) /\ (client = q => client' = q)
    BY <1>1, <1>4, <2>1 DEF Owns
  <2> QED  BY <1>1, <1>4, <2>1, <2>2, <2>3, <2>4, <2>5, <2>6, Step
<1>7. CASE w.op = "restart" /\ w.server.enabled
  <2>1. PICK p \in Proc :
           /\ proc[p] = NoProc
           /\ proc' = [killed EXCEPT ![p] = Spawned(p, w.server.at)[p]]
           /\ caller' = [caller EXCEPT ![c].pc = "listing", ![c].proc = p]
    BY <1>7 DEF Closed, killed
  <2>2. /\ Spawned(p, w.server.at)[p] \in Process
        /\ Spawned(p, w.server.at)[p].state = "live"
        /\ Spawned(p, w.server.at)[p].version = w.server.at
    BY <1>3, <2>1, Spawning DEF Inv, Types
  <2>3. /\ proc' \in [Proc -> Process]
        /\ proc'[p].state = "live" /\ proc'[p].version = w.server.at
        /\ \A q \in Proc \ {p} : proc'[q] = killed[q]
    BY <1>4, <2>1, <2>2
  <2>4. proc[p].state = "none"
    BY <2>1 DEF NoProc
  <2>5. Ages(proc, proc')
    BY <1>4, <2>3, <2>4 DEF Ages
  <2> DEFINE r == [w EXCEPT !.pc = "listing", !.proc = p]
  <2>6. /\ r \in Routine /\ r.pc = "listing" /\ r.proc = p /\ r.server = w.server
        /\ r.lock = NULL
    BY <1>2, <1>3 DEF Routine, Pc
  <2>7. /\ caller' \in [Caller -> Routine] /\ caller'[c] = r
        /\ \A b \in Caller \ {c} : caller'[b] = caller[b]
    BY <2>1, <2>6 DEF Inv, Types
  <2> HIDE DEF r
  <2>8. Fits(caller'[c], proc')
    BY <1>3, <2>3, <2>6, <2>7 DEF Fits
  <2>9. /\ Cached(tools') /\ tools' \in [Version -> {0} \cup Version]
        /\ HeldBy(held', caller') /\ OneLock(disturbed', lock', caller')
        /\ disturbed => disturbed'
        /\ disturbed' \in BOOLEAN
    BY <1>1, <2>6, <2>7, Dropping
  <2>10. Types'
    BY <1>1, <1>5, <2>3, <2>7, <2>9 DEF Inv, Types
  <2>11. \A q \in Proc : proc'[q].state = "live" =>
             \/ Owns(caller'[c], q)
             \/ proc[q].state = "live" /\ ~Owns(caller[c], q) /\ (client = q => client' = q)
    BY <1>1, <1>4, <2>3, <2>6, <2>7 DEF Owns
  <2> QED  BY <1>1, <2>5, <2>6, <2>7, <2>8, <2>9, <2>10, <2>11, Step
<1> QED  BY <1>6, <1>7

\* CancelledError: the start is abandoned, its process left to itself.
LEMMA Cancels == ASSUME Inv, NEW c \in Caller, Cancel(c)  PROVE Inv'
<1> DEFINE w == caller[c]
<1>1. /\ w.pc \in {"locking", "starting", "reading", "listing"}
      /\ IF w.pc = "starting" THEN Release(c) ELSE UNCHANGED held
      /\ disturbed' = (disturbed \/ w.pc \in {"starting", "listing"})
      /\ proc' \in IF w.pc = "listing" THEN {proc, Killed(w.proc)} ELSE {proc}
      /\ caller' = [caller EXCEPT ![c] = Idle]
      /\ UNCHANGED <<config, client, lock, tools, mounted>>
  BY DEF Cancel
<1>2. /\ caller' \in [Caller -> Routine] /\ caller'[c] = Idle
      /\ \A b \in Caller \ {c} : caller'[b] = caller[b]
  BY <1>1, Idling, Becomes DEF Inv, Types
<1>3. caller'[c].pc = "idle" /\ Fits(caller'[c], proc')
  BY <1>2, Idling
<1>4. /\ proc' \in [Proc -> Process] /\ Ages(proc, proc')
      /\ \A q \in Proc : proc'[q].state = "live" => proc[q].state = "live"
  <2>1. CASE proc' = proc
    BY <2>1 DEF Inv, Types, Ages
  <2>2. CASE w.pc = "listing" /\ proc' = Killed(w.proc)
    <3>1. w.proc \in Proc
      BY <2>2 DEF Inv, Places, Fits
    <3> QED  BY <2>2, <3>1, Killing DEF Inv, Types
  <2> QED  BY <1>1, <2>1, <2>2
<1>5. held' \in [Lock -> Caller \cup {NULL}] /\ (disturbed => disturbed') /\ disturbed' \in BOOLEAN
  BY <1>1 DEF Release, Inv, Types
<1>6. Types'
  BY <1>1, <1>2, <1>4, <1>5 DEF Inv, Types
<1>7. HeldBy(held', caller') /\ OneLock(disturbed', lock', caller')
  <2>1. CASE w.pc = "starting"
    BY <1>1, <1>2, <1>3, <1>5, <2>1, Releasing
  <2>2. CASE w.pc # "starting"
    BY <1>1, <1>2, <1>3, <1>5, <2>2, LocksKept
  <2> QED  BY <2>1, <2>2
<1>8. Cached(tools') /\ Places(caller', proc')
  BY <1>1, <1>2, <1>3, <1>4, PlacesKept DEF Inv
<1>9. Used(client', proc')
  BY <1>1, <1>4 DEF Inv, Types, Used, Ages
<1>10. Alone(disturbed', client', caller', proc')
  <2> SUFFICES ASSUME ~disturbed', NEW b \in Caller, caller'[b].pc = "starting", client # NULL
               PROVE  proc'[client].state # "live"
    BY <1>1 DEF Alone
  <2>1. b # c /\ caller[b].pc = "starting" /\ ~disturbed /\ client \in Proc
    BY <1>2, <1>3, <1>5 DEF Inv, Types
  <2> QED  BY <2>1, <1>4 DEF Inv, Alone
<1>11. Owned(disturbed', client', caller', proc')
  <2> SUFFICES ASSUME ~disturbed', NEW q \in Proc, proc'[q].state = "live"
               PROVE  client = q \/ \E b \in Caller : Owns(caller'[b], q)
    BY <1>1 DEF Owned
  <2>1. proc[q].state = "live" /\ ~disturbed /\ ~Owns(caller[c], q)
    BY <1>1, <1>4 DEF Owns
  <2>2. CASE client # q
    <3>1. PICK b \in Caller : Owns(caller[b], q)
      BY <2>1, <2>2 DEF Inv, Owned
    <3> QED  BY <3>1, <2>1, <1>2
  <2> QED  BY <2>2
<1> QED  BY <1>6, <1>7, <1>8, <1>9, <1>10, <1>11 DEF Inv

\* A server answers or dies while the coroutines stay where they are.
LEMMA Serves == ASSUME Inv, NEW p \in Proc, Answer(p) \/ Die(p)  PROVE Inv'
<1>1. /\ proc[p].state = "live"
      /\ UNCHANGED <<config, client, lock, held, tools, mounted, caller, disturbed>>
  BY DEF Answer, Die, Live
<1>2. /\ proc' \in [Proc -> Process] /\ Ages(proc, proc')
      /\ \A q \in Proc : proc'[q].state = "live" => proc[q].state = "live"
  <2>1. CASE Die(p)
    BY <2>1, Killing DEF Die, Inv, Types
  <2>2. CASE Answer(p)
    <3>1. PICK request \in proc[p].asked :
             proc' = [proc EXCEPT ![p].asked = @ \ {request}, ![p].replies = Append(@, request)]
      BY <2>2 DEF Answer
    <3>2. proc[p] \in Process
      BY DEF Inv, Types
    <3>3. /\ request \in Numbered /\ proc[p].replies \in Seq(Numbered)
          /\ proc[p].asked \ {request} \in SUBSET Numbered
      BY <3>2 DEF Process
    <3>4. Append(proc[p].replies, request) \in Seq(Numbered)
      BY <3>3
    <3> DEFINE r == [proc[p] EXCEPT !.asked = @ \ {request}, !.replies = Append(@, request)]
    <3>5. r \in Process /\ r.state = proc[p].state /\ r.version = proc[p].version
      BY <3>2, <3>3, <3>4 DEF Process
    <3>6. /\ \A q \in Proc : proc'[q] = IF q = p THEN r ELSE proc[q]
          /\ proc' = [q \in Proc |-> proc'[q]]
      BY <3>1 DEF Inv, Types
    <3> HIDE DEF r
    <3>7. proc' \in [Proc -> Process]
      BY <3>5, <3>6 DEF Inv, Types
    <3> QED  BY <3>5, <3>6, <3>7 DEF Ages
  <2> QED  BY <2>1, <2>2
<1>3. Types'
  BY <1>1, <1>2 DEF Inv, Types
<1>4. Places(caller', proc')
  <2> SUFFICES ASSUME NEW b \in Caller  PROVE Fits(caller[b], proc')
    BY <1>1 DEF Places
  <2>1. Fits(caller[b], proc)
    BY DEF Inv, Places
  <2> QED  BY <2>1, <1>2 DEF Fits, Ages
<1>5. Used(client', proc')
  BY <1>1, <1>2 DEF Inv, Types, Used, Ages
<1>6. Alone(disturbed', client', caller', proc')
  BY <1>1, <1>2 DEF Inv, Types, Alone
<1>7. Owned(disturbed', client', caller', proc')
  BY <1>1, <1>2 DEF Inv, Owned
<1>8. Cached(tools') /\ HeldBy(held', caller') /\ OneLock(disturbed', lock', caller')
  BY <1>1 DEF Inv
<1> QED  BY <1>3, <1>4, <1>5, <1>6, <1>7, <1>8 DEF Inv

-----------------------------------------------------------------------------
(* The theorems.                                                           *)

\* Nothing runs at first.
LEMMA Starting0 == Init => Inv
<1> SUFFICES ASSUME Init  PROVE Inv
  OBVIOUS
<1>1. \A c \in Caller : caller[c] = Idle
  BY DEF Init
<1>2. NoProc \in Process /\ NoProc.state = "none"
  <2>1. <<>> \in Seq(Numbered) /\ {} \subseteq Numbered /\ 0 \in 0..MaxRequests
    BY McpAssumption
  <2> QED  BY <2>1 DEF NoProc, Process
<1>3. Types
  <2>1. [at |-> 1, enabled |-> TRUE] \in Server
    BY McpAssumption DEF Server, Version
  <2> QED  BY <1>2, <2>1, Idling DEF Init, Types
<1>4. Places(caller, proc)
  BY <1>1, Idling DEF Places
<1>5. Cached(tools)
  BY DEF Init, Cached
<1>6. HeldBy(held, caller)
  BY <1>1, Idling, McpAssumption DEF Init, HeldBy
<1>7. Used(client, proc)
  BY DEF Init, Used
<1>8. /\ OneLock(disturbed, lock, caller)
      /\ Alone(disturbed, client, caller, proc)
  BY <1>1, Idling DEF OneLock, Alone
<1>9. Owned(disturbed, client, caller, proc)
  BY <1>2 DEF Init, Owned
<1> QED  BY <1>3, <1>4, <1>5, <1>6, <1>7, <1>8, <1>9 DEF Inv

\* Every step keeps the invariant.
LEMMA Steps == Inv /\ [Next]_vars => Inv'
<1> SUFFICES ASSUME Inv, [Next]_vars  PROVE Inv'
  OBVIOUS
<1>1. ASSUME NEW c \in Caller,
             \/ Call(c) \/ Reuse(c) \/ Start(c) \/ Initialized(c) \/ NotInitialized(c)
             \/ Read(c) \/ CallFails(c) \/ Return(c)
      PROVE  Inv'
  BY <1>1, Calls, Reuses, Starts, Initializes, InitializeFails, Reads, Returns
<1>2. ASSUME NEW c \in Caller,
             \/ ListCached(c) \/ List(c) \/ ListOk(c) \/ ListFails(c)
             \/ Invalidate(c) \/ Closed(c) \/ Cancel(c)
      PROVE  Inv'
  BY <1>2, ListsCached, Lists, ListsOk, ListsFail, Invalidates, Closes, Cancels
<1>3. ASSUME NEW p \in Proc, Answer(p) \/ Die(p)  PROVE Inv'
  BY <1>3, Serves
<1>4. CASE UNCHANGED vars
  BY <1>4 DEF vars, Inv, Types, Places, Cached, HeldBy, Used, OneLock, Alone, Owned
<1> QED  BY <1>1, <1>2, <1>3, <1>4 DEF Next

\* The inductive invariant, of every behaviour of the MCP runtime.
THEOREM McpInvariance == Spec => []Inv
  BY Starting0, Steps, PTL DEF Spec

\* A call returns the answer to its own request, whatever comes late and whoever
\* else reads the stdout of the process; a listing returns the tools of the
\* configuration it was asked for, also from the cache and after an invalidation.
THEOREM AnswersAreOwn == Spec => []AnswersMatch
<1>1. Inv => AnswersMatch
  BY DEF Inv, Places, Fits, AnswersMatch
<1> QED  BY <1>1, McpInvariance, PTL

\* Every variable has its type and a lock is held exactly by who starts under it; no
\* server process is forgotten while no start is cancelled or meets an invalidation.
THEOREM NoProcessForgotten == Spec => []McpInv
<1>1. Inv => McpTypeOK
  BY DEF Inv, Types, HeldBy, McpTypeOK, Process
<1>2. Inv => ProcessesOwned
  BY McpAssumption DEF Inv, Owned, Owns, ProcessesOwned, Live
<1> QED  BY <1>1, <1>2, McpInvariance, PTL DEF McpInv
=============================================================================
