----------------------------- MODULE LockChains -----------------------------
(***************************************************************************)
(* The blocking-chain analysis: the query of blocking_pairs                *)
(* (ops/activity.py) asks the server for the holders each backend waits    *)
(* for, one backend after another, while the server goes on; then          *)
(* blocking_lock_chain_rca (ops/analysis.py) names the root blockers and   *)
(* walks the graph of the pairs below each of them.                        *)
(*                                                                         *)
(* A holder is a backend or a prepared transaction, which has no backend   *)
(* and drops out of the pairs in the join.  The stack of the walk is a     *)
(* set: a pid that is on it twice is skipped the second time.  Queries,    *)
(* users and states of the backends are left out.                          *)
(***************************************************************************)
EXTENDS Naturals, FiniteSets

CONSTANTS
  Backends,   \* the server's sessions, numbered as pg_stat_activity lists them
  Prepared,   \* a prepared transaction
  None,       \* no backend
  MaxRows,    \* MAX_ROWS
  MaxWaits,   \* bound: waits at a time
  MaxChanges  \* bound: changes of waits during the query

ASSUME BackendAssumption ==
  /\ Backends \subseteq Nat /\ IsFiniteSet(Backends)
  /\ Prepared \notin Backends /\ None \notin Backends
ASSUME BoundAssumption == MaxRows \in Nat \ {0} /\ MaxWaits \in Nat /\ MaxChanges \in Nat

Holders == Backends \cup {Prepared}
Waits == {w \in Backends \X Holders : w[1] # w[2]}
Pairs == {w \in Waits : w[2] \in Backends}

VARIABLES
  waits,    \* who waits for whom on the server, now
  changes,  \* changes of it so far
  pc,       \* where the analysis is
  todo,     \* rows that the query has still to read; roots still to walk
  passed,   \* the row that the WHERE clause let pass
  pairs,    \* {blockedPid, blockingPid}
  root,     \* the root whose chain is walked
  stack,    \* the stack of _descendants
  seen,     \* the pids it has seen
  victims,  \* blockedPids of each root
  answer,   \* what the tool returns
  asof      \* history: the holders each backend had when its row was read

vars == <<waits, changes, pc, todo, passed, pairs, root, stack, seen, victims, answer, asof>>
server == <<waits, changes>>
query == <<passed, pairs, asof>>
walk == <<root, stack, seen, victims>>

HoldersOf(b) == {w[2] : w \in {w \in waits : w[1] = b}}

NoAnswer == [suspected |-> FALSE, roots |-> {}, worst |-> None, truncated |-> FALSE]

Init ==
  /\ waits \in {w \in SUBSET Waits : Cardinality(w) <= MaxWaits}
  /\ changes = 0
  /\ pc = "where"
  /\ todo = Backends
  /\ passed = None
  /\ pairs = {}
  /\ root = None
  /\ stack = {}
  /\ seen = {}
  /\ victims = [b \in Backends |-> {}]
  /\ answer = NoAnswer
  /\ asof = [b \in Backends |-> {}]

-----------------------------------------------------------------------------
(* A backend starts to wait, or one of those it waits for lets go; what     *)
(* happens after the query no longer reaches the analysis.                  *)
Change(b, holders) ==
  /\ pc \in {"where", "unnest"} /\ changes < MaxChanges
  /\ b \notin holders /\ holders # HoldersOf(b)
  /\ HoldersOf(b) = {} \/ holders \subseteq HoldersOf(b)
  /\ LET after == {w \in waits : w[1] # b} \cup ({b} \X holders) IN
       Cardinality(after) <= MaxWaits /\ waits' = after
  /\ changes' = changes + 1
  /\ UNCHANGED <<pc, todo, query, walk, answer>>

(* Row by row the query calls pg_blocking_pids in its WHERE clause and once *)
(* more to unnest what it returns.                                          *)
Where(b) ==
  /\ pc = "where" /\ b \in todo /\ \A c \in todo : b <= c
  /\ IF HoldersOf(b) = {}
     THEN todo' = todo \ {b} /\ UNCHANGED <<pc, passed>>
     ELSE passed' = b /\ pc' = "unnest" /\ UNCHANGED todo
  /\ UNCHANGED <<server, pairs, asof, walk, answer>>

(* Faulty: an outer join. *)
UnnestUnjoined ==
  /\ pc = "unnest"
  /\ pairs' = pairs \cup ({passed} \X HoldersOf(passed))
  /\ asof' = [asof EXCEPT ![passed] = HoldersOf(passed)]
  /\ todo' = todo \ {passed}
  /\ passed' = None
  /\ pc' = "where"
  /\ UNCHANGED <<server, walk, answer>>

(* A holder without a backend has no row to join. *)
Unnest ==
  /\ pc = "unnest"
  /\ pairs' = pairs \cup ({passed} \X (HoldersOf(passed) \cap Backends))
  /\ asof' = [asof EXCEPT ![passed] = HoldersOf(passed)]
  /\ todo' = todo \ {passed}
  /\ passed' = None
  /\ pc' = "where"
  /\ UNCHANGED <<server, walk, answer>>

-----------------------------------------------------------------------------
Blocked == {p[1] : p \in pairs}
Blocking == {p[2] : p \in pairs}
Children(g) == {p[1] : p \in {p \in pairs : p[2] = g}}

Roots == Blocking \ Blocked

(* Faulty: no return of its own for no pairs. *)
NothingToWalkSuspected ==
  /\ pc = "where" /\ todo = {} /\ Roots = {}
  /\ answer' = [NoAnswer EXCEPT !.suspected = TRUE]
  /\ pc' = "done"
  /\ UNCHANGED <<server, todo, query, walk>>

(* Nobody is blocked, or nobody is a root. *)
NothingToWalk ==
  /\ pc = "where" /\ todo = {} /\ Roots = {}
  /\ answer' = [NoAnswer EXCEPT !.suspected = pairs # {}]
  /\ pc' = "done"
  /\ UNCHANGED <<server, todo, query, walk>>

SomeRoots ==
  /\ pc = "where" /\ todo = {} /\ Roots # {}
  /\ todo' = Roots
  /\ pc' = "roots"
  /\ UNCHANGED <<server, query, walk, answer>>

Walk(r) ==
  /\ pc = "roots" /\ r \in todo
  /\ root' = r
  /\ stack' = Children(r)
  /\ seen' = {}
  /\ pc' = "walk"
  /\ UNCHANGED <<server, todo, query, victims, answer>>

(* Faulty: the children of a pid that was seen are pushed again. *)
SkipPushing(p) ==
  /\ pc = "walk" /\ p \in stack /\ p \in seen
  /\ stack' = (stack \ {p}) \cup Children(p)
  /\ UNCHANGED <<server, pc, todo, query, root, seen, victims, answer>>

Skip(p) ==
  /\ pc = "walk" /\ p \in stack /\ p \in seen
  /\ stack' = stack \ {p}
  /\ UNCHANGED <<server, pc, todo, query, root, seen, victims, answer>>

(* Faulty: the direct victims of a root only. *)
VisitShallow(p) ==
  /\ pc = "walk" /\ p \in stack /\ p \notin seen
  /\ seen' = seen \cup {p}
  /\ stack' = stack \ {p}
  /\ UNCHANGED <<server, pc, todo, query, root, victims, answer>>

Visit(p) ==
  /\ pc = "walk" /\ p \in stack /\ p \notin seen
  /\ seen' = seen \cup {p}
  /\ stack' = (stack \ {p}) \cup Children(p)
  /\ UNCHANGED <<server, pc, todo, query, root, victims, answer>>

Walked ==
  /\ pc = "walk" /\ stack = {}
  /\ victims' = [victims EXCEPT ![root] = seen]
  /\ todo' = todo \ {root}
  /\ pc' = "roots"
  /\ root' = None
  /\ seen' = {}
  /\ UNCHANGED <<server, query, stack, answer>>

Count(r) == Cardinality(victims[r])

(* roots[:MAX_ROWS] of the roots by their counts, in an order that a tie    *)
(* leaves open; the worst comes first.                                      *)
Tops == {top \in SUBSET Roots :
           /\ Cardinality(top) = IF Cardinality(Roots) < MaxRows THEN Cardinality(Roots) ELSE MaxRows
           /\ \A r \in top, q \in Roots \ top : Count(q) <= Count(r)}

(* Faulty: the cut does not say so. *)
AnswerSilently(top, worst) ==
  /\ pc = "roots" /\ todo = {}
  /\ top \in Tops
  /\ worst \in top /\ \A r \in Roots : Count(r) <= Count(worst)
  /\ answer' = [NoAnswer EXCEPT !.roots = top, !.worst = worst]
  /\ pc' = "done"
  /\ UNCHANGED <<server, todo, query, walk>>

Answer(top, worst) ==
  /\ pc = "roots" /\ todo = {}
  /\ top \in Tops
  /\ worst \in top /\ \A r \in Roots : Count(r) <= Count(worst)
  /\ answer' = [suspected |-> FALSE, roots |-> top, worst |-> worst, truncated |-> top # Roots]
  /\ pc' = "done"
  /\ UNCHANGED <<server, todo, query, walk>>

-----------------------------------------------------------------------------
(* The query's rows, and then the analysis. *)
QueryStep == Unnest \/ \E b \in Backends : Where(b)

RcaStep ==
  \/ NothingToWalk \/ SomeRoots \/ Walked
  \/ \E p \in Backends : Walk(p) \/ Skip(p) \/ Visit(p)
  \/ \E top \in SUBSET Backends, worst \in Backends : Answer(top, worst)

Next ==
  \/ \E b \in Backends, holders \in SUBSET Holders : Change(b, holders)
  \/ QueryStep
  \/ RcaStep

Spec == Init /\ [][Next]_vars /\ WF_vars(QueryStep \/ RcaStep)
-----------------------------------------------------------------------------
Known == Backends \cup {None}

TypeOK ==
  /\ waits \subseteq Waits /\ changes \in 0 .. MaxChanges
  /\ pc \in {"where", "unnest", "roots", "walk", "done"}
  /\ todo \subseteq Backends /\ passed \in Known
  /\ pairs \subseteq Pairs
  /\ root \in Known /\ stack \subseteq Backends /\ seen \subseteq Backends
  /\ victims \in [Backends -> SUBSET Backends]
  /\ answer \in [suspected : BOOLEAN, roots : SUBSET Backends, worst : Known,
                 truncated : BOOLEAN]
  /\ asof \in [Backends -> SUBSET Holders]

(* The victims of a root are those that wait for it at any remove: the      *)
(* least set that holds whoever waits for the root or for a member.         *)
Closed(set, r) == \A p \in pairs : p[2] \in set \cup {r} => p[1] \in set

VictimsExact ==
  pc = "done" =>
    \A r \in Roots :
      /\ Closed(victims[r], r)
      /\ \A set \in SUBSET Backends : Closed(set, r) => victims[r] \subseteq set

(* "A cycle is reported as a likely deadlock": the rows are read one after  *)
(* another, so a cycle of them need not have been there at any time; but    *)
(* if the blocked backends still wait for what their rows say, it is.       *)
Deadlock(graph, set) ==
  set # {} /\ \A b \in set : \E g \in set : <<b, g>> \in graph

DeadlockIsReal ==
  answer.suspected /\ (\A b \in Blocked : HoldersOf(b) = asof[b]) =>
    \E set \in SUBSET Backends : Deadlock(waits, set)

(* Nobody who waits is passed over: a blocked backend is a victim of a root *)
(* that is returned, or the answer says that it was cut, or it waits, at    *)
(* some remove, in a cycle.                                                 *)
EveryoneAccounted ==
  pc = "done" =>
    \A b \in Blocked :
      \/ \E r \in answer.roots : b \in victims[r]
      \/ answer.truncated
      \/ \E set \in SUBSET Backends : b \in set /\ Deadlock(pairs, set)

(* "A root blocker blocks others but is itself blocked by none": a root     *)
(* that is named may have waited for a prepared transaction, whose pairs    *)
(* the join drops, so that this fails ...                                   *)
RootsBlockedByNone ==
  \A r \in answer.roots : asof[r] = {}

(* ... but for no other backend, when its row was read.                     *)
RootsWaitForPreparedOnly ==
  \A r \in answer.roots : asof[r] \subseteq {Prepared}

(* The analysis returns, whatever cycles are in the pairs.                  *)
RcaReturns == <>(pc = "done")
=============================================================================
