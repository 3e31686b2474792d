---------------------------- MODULE ContextPack ----------------------------
(***************************************************************************)
(* What goes into a model's context: the router, the budget and the builder  *)
(* of cognix/memory (router.py, budget.py, pipeline.py ContextBuilder).  A   *)
(* memory is the number of its tokens; a source is the sequence of what a    *)
(* search found, best first.                                                 *)
(***************************************************************************)
EXTENDS Integers, Sequences, FiniteSets, SequencesExt

CONSTANTS
    Sizes, Budgets,                     \* token counts of a memory; token budgets
    MaxFacts, MaxSkills, MaxRecords     \* the limits of the searches

ASSUME ContextAssumption ==
  /\ Sizes \subseteq Nat \ {0} /\ Budgets \subseteq Nat
  /\ {MaxFacts, MaxSkills, MaxRecords} \subseteq Nat

VARIABLES wanted, pack      \* the request for a context, the context built

contextVars == <<wanted, pack>>

Sources == {"atomic", "procedural", "cold", "deep"}

Tokens(items) == FoldLeft(LAMBDA sum, t : sum + t, 0, items)

\* MemoryRouter: the stores a category of message is looked up in.
Routes(category) ==
  CASE category = "factual"    -> {"atomic", "deep"}
    [] category = "episodic"   -> {"atomic", "cold"}
    [] category = "procedural" -> {"atomic", "procedural"}

Included(w) ==
  IF w.strategy \in {"routed", "balanced"} THEN w.include \cap Routes(w.category) ELSE w.include

\* A wrong form: the item is counted after the test.
TakeFittingLate(items, used, budget) ==
  FoldLeft(LAMBDA acc, t : IF acc.used < budget
             THEN [kept |-> Append(acc.kept, t), used |-> acc.used + t] ELSE acc,
           [kept |-> <<>>, used |-> used], items)

\* Items that no longer fit are passed over, smaller ones after them may fit.
TakeFitting(items, used, budget) ==
  FoldLeft(LAMBDA acc, t : IF acc.used + t <= budget
             THEN [kept |-> Append(acc.kept, t), used |-> acc.used + t] ELSE acc,
           [kept |-> <<>>, used |-> used], items)

\* ContextBudgetManager.allocate: the shares, in percent, of the sources that have
\* content; facts have none.
Share(source) ==
  CASE source = "hot" -> 40 [] source \in {"procedural", "cold"} -> 25
    [] source = "deep" -> 10 [] OTHER -> 0
Priority == [hot |-> 1, atomic |-> 2, procedural |-> 3, cold |-> 4, deep |-> 5]

Sum(f) == f["hot"] + f["atomic"] + f["procedural"] + f["cold"] + f["deep"]

\* What rounding and small sources leave over goes to the first source.
Allocate(available, budget) ==
  LET active == {s \in DOMAIN Priority : available[s] > 0}
      total == Sum([s \in DOMAIN Priority |-> IF s \in active THEN Share(s) ELSE 0])
      part(s) == IF total = 0 THEN budget \div Cardinality(active)
                 ELSE (budget * Share(s)) \div total
      least == [s \in DOMAIN Priority |->
                  IF s \notin active THEN 0
                  ELSE IF part(s) < available[s] THEN part(s) ELSE available[s]]
      First(s) == s \in active /\ \A r \in active : Priority[s] <= Priority[r] IN
  [s \in DOMAIN Priority |-> IF First(s) THEN least[s] + (budget - Sum(least)) ELSE least[s]]

----------------------------------------------------------------------------
\* What the searches find; deep memory is a file, unless the caller brings its own.
Candidates(w, source) == IF source \in Included(w) THEN w[source] ELSE <<>>

Deep(w) ==
  IF w.given > 0 THEN w.given ELSE IF "deep" \in Included(w) THEN w.deep ELSE 0

\* "greedy": everything, to be cut when the prompt is rendered.
GreedyPack(w) ==
  [hot |-> w.hot, atomic |-> Candidates(w, "atomic"), cold |-> Candidates(w, "cold"),
   procedural |-> Candidates(w, "procedural"), deep |-> Deep(w)]

\* "priority" and "routed": source by source, while there is budget left.
PriorityPack(w) ==
  LET facts == TakeFitting(Candidates(w, "atomic"), w.hot, w.budget)
      skills == TakeFitting(Candidates(w, "procedural"), facts.used, w.budget)
      cold == TakeFitting(Candidates(w, "cold"), skills.used, w.budget) IN
  [hot |-> w.hot, atomic |-> facts.kept, procedural |-> skills.kept, cold |-> cold.kept,
   deep |-> IF w.given = 0 /\ cold.used + Deep(w) > w.budget THEN 0 ELSE Deep(w)]

\* "balanced": each source within its share; hot and deep memory are not trimmed.
BalancedPack(w) ==
  LET share == Allocate([hot |-> w.hot, atomic |-> Tokens(Candidates(w, "atomic")),
                         procedural |-> Tokens(Candidates(w, "procedural")),
                         cold |-> Tokens(Candidates(w, "cold")), deep |-> Deep(w)], w.budget)
      Chosen(source) == TakeFitting(Candidates(w, source), 0, share[source]).kept IN
  [hot |-> w.hot, atomic |-> Chosen("atomic"), procedural |-> Chosen("procedural"),
   cold |-> Chosen("cold"), deep |-> IF share["deep"] <= 0 THEN 0 ELSE Deep(w)]

Items(n) == UNION {[1..k -> Sizes] : k \in 0..n}

Requests ==
  [strategy : {"greedy", "priority", "routed", "balanced"},
   category : {"factual", "episodic", "procedural"},
   include : {Sources, Sources \ {"deep"}, {"cold", "deep"}, {}},
   budget : Budgets, hot : Sizes \cup {0}, given : {0} \cup Sizes, deep : {0} \cup Sizes,
   atomic : Items(MaxFacts), procedural : Items(MaxSkills), cold : Items(MaxRecords)]

Unasked == [strategy |-> "none"]

ContextInit == wanted = Unasked /\ pack = Unasked

Build ==
  /\ wanted = Unasked
  /\ \E w \in Requests :
       /\ w.strategy \in {"greedy", "priority"} => w.category = "factual"
       /\ w.given > 0 => w.deep = 0
       /\ wanted' = w
       /\ pack' = CASE w.strategy = "greedy"   -> GreedyPack(w)
                    [] w.strategy = "balanced" -> BalancedPack(w)
                    [] OTHER                   -> PriorityPack(w)

----------------------------------------------------------------------------
Selected(p) == Tokens(p.atomic) + Tokens(p.procedural) + Tokens(p.cold)

\* The memories selected never exceed the token budget; in the order of priority they
\* fit beside hot memory and whatever deep memory is loaded, and a source is only left
\* out completely when none of its items would fit any more.
PackFits ==
  wanted.strategy \notin {"none", "greedy"} =>
  /\ Selected(pack) <= wanted.budget
  /\ wanted.strategy # "balanced" =>
       LET loaded == IF wanted.given > 0 THEN 0 ELSE pack.deep
           used == wanted.hot + Selected(pack) IN
       /\ used + loaded <= wanted.budget \/ (Selected(pack) = 0 /\ loaded = 0)
       /\ \A s \in {"atomic", "procedural", "cold"} :
            pack[s] = <<>> => \A i \in DOMAIN Candidates(wanted, s) :
                                used + Candidates(wanted, s)[i] > wanted.budget
=============================================================================
