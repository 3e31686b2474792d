---------------------------- MODULE MemoryStores ---------------------------
(***************************************************************************)
(* The memory of cognix/memory: episodic records (ColdMemoryStore, SQLite  *)
(* with a full-text index), their projection in Markdown (MemoryVault) and *)
(* stable facts (AtomicFactStore), written by concurrent requests.         *)
(*                                                                         *)
(* What one SQLite connection commits is atomic.  A SELECT opens no        *)
(* transaction, so what a request read may be old when it writes.          *)
(* The facts are those of one (workspace, entity, key).                    *)
(***************************************************************************)
EXTENDS Naturals, FiniteSets

CONSTANTS
    Actor,       \* requests being served
    Rec,         \* ids of cold records (a bound)
    Fact,        \* ids of facts (a bound)
    Value,       \* values of the fact
    MaxUpserts,  \* bound: upserts that begin
    MaxAccess,   \* bound: access_count is saturated here
    NULL

\* The rows of cold_memory and of atomic_facts.
ColdRow == [summary : {"", "given", "made"}, access : 0..MaxAccess]

FactRow ==
    [status : {"active", "superseded"}, value : Value, supersedes : Fact \cup {NULL}, at : Nat]

ASSUME MemoryAssumption ==
    /\ NULL \notin Rec \cup Fact \cup Value \cup ColdRow \cup FactRow
    /\ MaxUpserts \in Nat /\ MaxAccess \in Nat

VARIABLES
    cold,     \* [Rec -> row of cold_memory or NULL]
    fts,      \* [Rec -> the summaries under which the index has the record]
    vault,    \* records projected into the vault
    facts,    \* [Fact -> row of atomic_facts or NULL]
    actor,    \* [Actor -> coroutine]
    clock,    \* upserts begun, their updated_at
    latest,   \* history: the value last recorded
    raced,    \* history: two upserts overlapped, or one was cut off
    overlapped \* history: records that two compressions had read at a time

vars == <<cold, fts, vault, facts, actor, clock, latest, raced, overlapped>>

Idle == [pc |-> "idle", rec |-> NULL, value |-> NULL, existing |-> NULL, now |-> 0, rows |-> <<>>]

Init ==
    /\ cold = [r \in Rec |-> NULL] /\ fts = [r \in Rec |-> {}] /\ vault = {}
    /\ facts = [f \in Fact |-> NULL]
    /\ actor = [a \in Actor |-> Idle]
    /\ clock = 0 /\ latest = NULL /\ raced = FALSE /\ overlapped = {}

Records == {r \in Rec : cold[r] # NULL}

(***************************************************************************)
(* ColdMemoryStore.add: the row and its index row, in one transaction.     *)
(***************************************************************************)
Add(r, row) ==
    /\ cold' = [cold EXCEPT ![r] = row]
    /\ fts' = [fts EXCEPT ![r] = {row.summary}]

\* remember: a record, with or without a summary of its own.
Remember(a, r) ==
    /\ actor[a] = Idle /\ cold[r] = NULL
    /\ \E summary \in {"", "given"} : Add(r, [summary |-> summary, access |-> 0])
    /\ actor' = [actor EXCEPT ![a] = [Idle EXCEPT !.pc = "projecting", !.rec = r]]
    /\ UNCHANGED <<vault, facts, clock, latest, raced, overlapped>>

\* MemoryVault.append_record; an error never blocks the memory.
Project(a) ==
    /\ actor[a].pc = "projecting"
    /\ vault' \in {vault, vault \cup {actor[a].rec}}
    /\ actor' = [actor EXCEPT ![a].pc = "extracting"]
    /\ UNCHANGED <<cold, fts, facts, clock, latest, raced, overlapped>>

NothingExtracted(a) ==
    /\ actor[a].pc = "extracting"
    /\ actor' = [actor EXCEPT ![a] = Idle]
    /\ UNCHANGED <<cold, fts, vault, facts, clock, latest, raced, overlapped>>

(***************************************************************************)
(* AtomicFactStore.upsert: the active fact of the key is read, and one     *)
(* transaction confirms it or puts a new fact in its place.                *)
(***************************************************************************)
ActiveFacts == {f \in Fact : facts[f] # NULL /\ facts[f].status = "active"}

ActiveForKey ==
    IF ActiveFacts = {} THEN NULL
    ELSE CHOOSE f \in ActiveFacts : \A g \in ActiveFacts : facts[f].at >= facts[g].at

BeginUpsert(a, v) ==
    /\ actor[a] = Idle \/ actor[a].pc = "extracting"
    /\ clock < MaxUpserts /\ clock' = clock + 1
    /\ actor' = [actor EXCEPT ![a] = [Idle EXCEPT !.pc = "upserting", !.value = v,
                                        !.existing = ActiveForKey, !.now = clock']]
    /\ raced' = (raced \/ \E b \in Actor \ {a} : actor[b].pc = "upserting")
    /\ UNCHANGED <<cold, fts, vault, facts, latest, overlapped>>

SupersededKept(fs, old) == fs                               \* a wrong form

Superseded(fs, old) ==
    IF old = NULL THEN fs ELSE [fs EXCEPT ![old].status = "superseded"]

Replaced(fs, old, new, row) == [Superseded(fs, old) EXCEPT ![new] = row]

CommitUpsert(a) ==
    LET w == actor[a]
    IN  /\ w.pc = "upserting"
        /\ IF w.existing # NULL /\ facts[w.existing].value = w.value
             THEN facts' = [facts EXCEPT ![w.existing].at = w.now]
             ELSE \E f \in Fact :
                    /\ facts[f] = NULL
                    /\ facts' = Replaced(facts, w.existing, f,
                          [status |-> "active", value |-> w.value, supersedes |-> w.existing,
                           at |-> w.now])
        /\ latest' = w.value
        /\ actor' = [actor EXCEPT ![a] = Idle]
        /\ UNCHANGED <<cold, fts, vault, clock, raced, overlapped>>

(***************************************************************************)
(* ColdMemoryStore.search: what is returned is marked as accessed, row by  *)
(* row where it stands.                                                    *)
(***************************************************************************)
Search(a) ==
    /\ actor[a] = Idle
    /\ \E found \in SUBSET Records :
          /\ found # {}
          /\ actor' = [actor EXCEPT ![a] =
                [Idle EXCEPT !.pc = "marking", !.rows = [r \in found |-> cold[r]]]]
    /\ UNCHANGED <<cold, fts, vault, facts, clock, latest, raced, overlapped>>

More(n) == IF n < MaxAccess THEN n + 1 ELSE n

AccessedAsRead(row, seen) == [seen EXCEPT !.access = More(@)]   \* a wrong form

Accessed(row, seen) == [row EXCEPT !.access = More(@)]

MarkAccessed(a) ==
    /\ actor[a].pc = "marking"
    /\ cold' = [r \in Rec |-> IF r \in DOMAIN actor[a].rows
                                THEN Accessed(cold[r], actor[a].rows[r]) ELSE cold[r]]
    /\ actor' = [actor EXCEPT ![a] = Idle]
    /\ UNCHANGED <<fts, vault, facts, clock, latest, raced, overlapped>>

(***************************************************************************)
(* compress: the old rows without a summary are read, the model is asked   *)
(* (or they are truncated), and each row is written back as it was read,   *)
(* with what the model answered, which may be nothing at all.              *)
(***************************************************************************)
Compresses(k, r) == k.pc = "compressing" /\ r \in DOMAIN k.rows

Compress(a) ==
    /\ actor[a] = Idle
    /\ \E old \in SUBSET {r \in Records : cold[r].summary = ""} :
          /\ old # {}
          /\ actor' = [actor EXCEPT ![a] =
                [Idle EXCEPT !.pc = "compressing", !.rows = [r \in old |-> cold[r]]]]
          /\ overlapped' = overlapped \cup {r \in old : \E b \in Actor : Compresses(actor[b], r)}
    /\ UNCHANGED <<cold, fts, vault, facts, clock, latest, raced>>

StoreSummary(a, r) ==
    LET rows == actor[a].rows
        rest == [s \in DOMAIN rows \ {r} |-> rows[s]]
    IN  /\ Compresses(actor[a], r)
        /\ \E summary \in {"made", ""} : Add(r, [rows[r] EXCEPT !.summary = summary])
        /\ actor' = [actor EXCEPT ![a] =
              IF DOMAIN rest = {} THEN Idle ELSE [@ EXCEPT !.rows = rest]]
        /\ UNCHANGED <<vault, facts, clock, latest, raced, overlapped>>

Crash ==
    /\ \E a \in Actor : actor[a] # Idle
    /\ raced' = (raced \/ \E a \in Actor : actor[a].pc = "upserting")
    /\ actor' = [a \in Actor |-> Idle]
    /\ UNCHANGED <<cold, fts, vault, facts, clock, latest, overlapped>>

Next ==
    \/ \E a \in Actor :
          \/ \E r \in Rec : Remember(a, r) \/ StoreSummary(a, r)
          \/ Project(a) \/ NothingExtracted(a)
          \/ \E v \in Value : BeginUpsert(a, v)
          \/ CommitUpsert(a) \/ Search(a) \/ MarkAccessed(a) \/ Compress(a)
    \/ Crash

Spec == Init /\ [][Next]_vars

-----------------------------------------------------------------------------
(* Every variable has its type; only records are indexed or projected.     *)
MemoryTypeOK ==
    /\ cold \in [Rec -> ColdRow \cup {NULL}]
    /\ vault \subseteq Records
    /\ \A f \in Fact : facts[f] # NULL =>
          /\ facts[f].status \in {"active", "superseded"} /\ facts[f].value \in Value
          /\ facts[f].at \in 1..clock
          /\ facts[f].supersedes \in {g \in Fact : facts[g] # NULL} \cup {NULL}
    /\ \A a \in Actor : DOMAIN actor[a].rows \subseteq Records

(***************************************************************************)
(* A summary that came with a record stays.  One that compress made stays  *)
(* unless two compressions had read the record at a time: the later one    *)
(* writes the row as it read it, and its model may answer with nothing.    *)
(***************************************************************************)
SummaryKept ==
    [][\A r \in Records :
          /\ cold[r].summary = "given" => cold'[r].summary = "given"
          /\ cold[r].summary = "made" => cold'[r].summary = "made" \/ r \in overlapped]_vars

(***************************************************************************)
(* A fact is superseded only by another: the replaced value is reachable   *)
(* from its heir, and once a value was recorded some fact is active, also  *)
(* when upserts overlap or are cut off.                                    *)
(***************************************************************************)
SupersededHasHeir ==
    /\ \A f \in Fact : facts[f] # NULL /\ facts[f].status = "superseded" =>
          \E g \in Fact : facts[g] # NULL /\ facts[g].supersedes = f
    /\ latest # NULL => ActiveFacts # {}

(***************************************************************************)
(* "Facts are the single source of truth": as long as no two upserts of    *)
(* the key overlap, one fact is active, and it has the value recorded      *)
(* last.                                                                   *)
(***************************************************************************)
LatestIsActive ==
    ~raced /\ latest # NULL =>
        /\ Cardinality(ActiveFacts) = 1
        /\ facts[ActiveForKey].value = latest

\* The types, and the chain of a key's facts: nothing is superseded by nothing, a value
\* stays active, and the one recorded last unless upserts overlap.
MemoryInv == MemoryTypeOK /\ SupersededHasHeir /\ LatestIsActive
=============================================================================
