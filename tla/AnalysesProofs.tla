--------------------------- MODULE AnalysesProofs ---------------------------
(***************************************************************************)
(* What the analyses guarantee for servers of any size.                    *)
(*                                                                         *)
(* LockChains, however the waits change while the query reads them: the    *)
(* pairs are the rows as they were read (RowsInv); below a root the walk   *)
(* keeps every victim of a pid it has seen either seen or on the stack,    *)
(* and puts only pids there that every closed set holds (WalkInv); and     *)
(* every step of it leaves less to do (StepsLeft).                         *)
(*                                                                         *)
(* TopReads: what a read leaves out, it says it left out, and it is ranked *)
(* no higher than anything it shows (ReadCut); the two analyses rank what  *)
(* was read by something else, and their promises are what survives that.  *)
(***************************************************************************)
EXTENDS LockChains, TopReads, FiniteSetTheorems, TLAPS

RowsInv ==
  /\ pc = "unnest" => passed \in todo
  /\ pc \in {"where", "unnest"} => \A b \in todo : asof[b] = {}
  /\ \A b \in Backends, g \in Backends : <<b, g>> \in pairs <=> g \in asof[b]

AnswerInv ==
  /\ pc # "done" => answer = NoAnswer
  /\ answer.roots \subseteq Roots
  /\ answer.suspected => pairs # {} /\ Roots = {}
  /\ pc = "done" => answer.truncated \/ answer.roots = Roots

(* victims[r] is the least closed set below r. *)
Least(set, r) ==
  /\ Closed(set, r)
  /\ \A other \in SUBSET Backends : Closed(other, r) => set \subseteq other

WalkInv ==
  /\ pc \in {"roots", "walk"} => \A r \in Roots \ todo : Least(victims[r], r)
  /\ pc = "walk" =>
       /\ root \in Backends
       /\ \A p \in pairs : p[2] \in seen \cup {root} => p[1] \in seen \cup stack
       /\ \A other \in SUBSET Backends : Closed(other, root) => seen \cup stack \subseteq other
  /\ pc = "done" => \A r \in Roots : Least(victims[r], r)

IInv == TypeOK /\ RowsInv /\ AnswerInv /\ WalkInv

-----------------------------------------------------------------------------
(* Typing. *)

LEMMA Vocabulary ==
  /\ Backends \subseteq Holders
  /\ Pairs \subseteq Backends \X Backends
  /\ \A b, g \in Backends : <<b, g>> \in Pairs <=> b # g
  /\ None \notin Backends /\ Prepared \notin Backends
  BY BackendAssumption DEF Holders, Pairs, Waits

LEMMA GraphType ==
  ASSUME TypeOK
  PROVE  /\ Roots \subseteq Backends /\ Blocked \subseteq Backends /\ Blocking \subseteq Backends
         /\ \A b \in Backends : HoldersOf(b) \in SUBSET Holders /\ b \notin HoldersOf(b)
         /\ \A b \in Backends : Children(b) \in SUBSET Backends
  BY Vocabulary DEF TypeOK, Roots, Blocked, Blocking, HoldersOf, Children, Waits, Pairs

LEMMA InitType == Init => TypeOK
  BY BoundAssumption DEF Init, TypeOK, NoAnswer, Known, Waits, Pairs

LEMMA ChangeType ==
  ASSUME TypeOK, NEW b \in Backends, NEW holders \in SUBSET Holders, Change(b, holders)
  PROVE  TypeOK'
  <1>1. waits' \subseteq Waits
    BY DEF Change, TypeOK, Waits
  <1>2. changes' \in 0 .. MaxChanges
    BY BoundAssumption DEF Change, TypeOK
  <1> QED BY <1>1, <1>2 DEF Change, TypeOK, query, walk

LEMMA QueryType == ASSUME TypeOK, RowsInv, QueryStep PROVE TypeOK'
  <1>1. ASSUME NEW b \in Backends, Where(b) PROVE TypeOK'
    BY <1>1 DEF Where, TypeOK, Known, server, walk
  <1>2. ASSUME Unnest PROVE TypeOK'
    <2>1. passed \in Backends
      BY <1>2 DEF Unnest, RowsInv, TypeOK
    <2>2. {passed} \X (HoldersOf(passed) \cap Backends) \subseteq Pairs
      BY <2>1, GraphType, Vocabulary
    <2>3. pairs' \subseteq Pairs
      BY <1>2, <2>2 DEF Unnest, TypeOK
    <2>4. asof' \in [Backends -> SUBSET Holders]
      BY <1>2, <2>1, GraphType DEF Unnest, TypeOK
    <2> QED BY <1>2, <2>3, <2>4 DEF Unnest, TypeOK, Known, server, walk
  <1> QED BY <1>1, <1>2 DEF QueryStep

LEMMA RcaType == ASSUME TypeOK, RcaStep PROVE TypeOK'
  <1> USE DEF TypeOK, Known, server, query
  <1>1. ASSUME NothingToWalk PROVE TypeOK'
    BY <1>1 DEF NothingToWalk, NoAnswer, walk
  <1>2. ASSUME SomeRoots PROVE TypeOK'
    BY <1>2, GraphType DEF SomeRoots, walk
  <1>3. ASSUME Walked PROVE TypeOK'
    BY <1>3 DEF Walked
  <1>4. ASSUME NEW p \in Backends, Walk(p) PROVE TypeOK'
    BY <1>4, GraphType DEF Walk
  <1>5. ASSUME NEW p \in Backends, Skip(p) PROVE TypeOK'
    BY <1>5 DEF Skip
  <1>6. ASSUME NEW p \in Backends, Visit(p) PROVE TypeOK'
    BY <1>6, GraphType DEF Visit
  <1>7. ASSUME NEW top \in SUBSET Backends, NEW worst \in Backends, Answer(top, worst)
        PROVE  TypeOK'
    BY <1>7 DEF Answer, walk
  <1> QED BY <1>1, <1>2, <1>3, <1>4, <1>5, <1>6, <1>7 DEF RcaStep

-----------------------------------------------------------------------------
(* The graph is complete when the walk begins, and no longer changes. *)

LEMMA GraphRests ==
  ASSUME UNCHANGED pairs
  PROVE  /\ Roots' = Roots /\ Blocked' = Blocked
         /\ \A set, r : Closed(set, r)' <=> Closed(set, r)
         /\ \A g : Children(g)' = Children(g)
  BY DEF Roots, Blocked, Blocking, Closed, Children

LEMMA InitInv == Init => IInv
  <1> SUFFICES ASSUME Init PROVE IInv
    OBVIOUS
  <1>1. TypeOK
    BY InitType
  <1> QED BY <1>1 DEF IInv, Init, RowsInv, AnswerInv, WalkInv, NoAnswer, Roots, Blocking, Blocked

LEMMA ChangeInv ==
  ASSUME IInv, NEW b \in Backends, NEW holders \in SUBSET Holders, Change(b, holders)
  PROVE  IInv'
  <1>1. TypeOK'
    BY ChangeType DEF IInv
  <1>2. UNCHANGED <<pc, todo, passed, pairs, asof, root, stack, seen, victims, answer>>
    BY DEF Change, query, walk
  <1>3. RowsInv'
    BY <1>2 DEF IInv, RowsInv
  <1>4. AnswerInv' /\ WalkInv'
    BY <1>2, GraphRests DEF IInv, AnswerInv, WalkInv, Least, Change
  <1> QED BY <1>1, <1>3, <1>4 DEF IInv

LEMMA WhereInv == ASSUME IInv, NEW b \in Backends, Where(b) PROVE IInv'
  <1>1. TypeOK'
    BY QueryType DEF IInv, QueryStep
  <1>2. RowsInv'
    BY DEF IInv, RowsInv, Where
  <1>3. AnswerInv' /\ WalkInv'
    BY GraphRests DEF IInv, AnswerInv, WalkInv, Where, walk
  <1> QED BY <1>1, <1>2, <1>3 DEF IInv

LEMMA UnnestInv == ASSUME IInv, Unnest PROVE IInv'
  <1>1. TypeOK'
    BY QueryType DEF IInv, QueryStep
  <1>2. passed \in todo /\ passed \in Backends /\ asof[passed] = {}
    BY DEF IInv, RowsInv, Unnest, TypeOK
  <1>3. RowsInv'
    <2>1. \A b \in todo' : asof'[b] = {}
      BY <1>2 DEF IInv, RowsInv, TypeOK, Unnest
    <2>2. ASSUME NEW b \in Backends, NEW g \in Backends
          PROVE  <<b, g>> \in pairs' <=> g \in asof'[b]
      <3>1. asof'[b] = IF b = passed THEN HoldersOf(passed) ELSE asof[b]
        BY <1>2 DEF Unnest, IInv, TypeOK
      <3>2. <<b, g>> \in pairs' <=> <<b, g>> \in pairs \/ (b = passed /\ g \in HoldersOf(passed))
        BY DEF Unnest
      <3>3. <<b, g>> \in pairs <=> g \in asof[b]
        BY DEF IInv, RowsInv
      <3> QED BY <1>2, <3>1, <3>2, <3>3
    <2> QED BY <2>1, <2>2 DEF RowsInv, Unnest
  <1>4. AnswerInv' /\ WalkInv'
    BY DEF IInv, AnswerInv, WalkInv, Unnest, walk, NoAnswer
  <1> QED BY <1>1, <1>3, <1>4 DEF IInv

-----------------------------------------------------------------------------
(* The walk. *)

LEMMA EndsInv == ASSUME IInv, NothingToWalk \/ SomeRoots PROVE IInv'
  <1>1. TypeOK'
    BY RcaType DEF IInv, RcaStep
  <1>2. UNCHANGED <<pairs, asof, passed>>
    BY DEF NothingToWalk, SomeRoots, query
  <1>3. RowsInv'
    BY <1>2 DEF IInv, RowsInv, NothingToWalk, SomeRoots
  <1>4. AnswerInv' /\ WalkInv'
    BY <1>2, GraphRests DEF IInv, AnswerInv, WalkInv, NothingToWalk, SomeRoots, NoAnswer
  <1> QED BY <1>1, <1>3, <1>4 DEF IInv

(* What the walk and its answer leave alone. *)
LEMMA WalkRests ==
  ASSUME IInv, RcaStep, pc \in {"roots", "walk"}
  PROVE  /\ TypeOK' /\ RowsInv'
         /\ UNCHANGED pairs
         /\ pc' # "done" => AnswerInv'
  <1>1. TypeOK'
    BY RcaType DEF IInv
  <1>2. UNCHANGED <<pairs, asof, passed>> /\ pc' \in {"roots", "walk", "done"}
    BY DEF RcaStep, NothingToWalk, SomeRoots, Walked, Walk, Skip, Visit, Answer, query
  <1>3. RowsInv'
    BY <1>2 DEF IInv, RowsInv
  <1>4. pc' # "done" => UNCHANGED answer
    BY DEF RcaStep, NothingToWalk, SomeRoots, Walked, Walk, Skip, Visit, Answer
  <1>5. pc' # "done" => AnswerInv'
    BY <1>2, <1>4, GraphRests DEF IInv, AnswerInv
  <1> QED BY <1>1, <1>2, <1>3, <1>5

LEMMA WalkStepInv == ASSUME IInv, NEW r \in Backends, Walk(r) PROVE IInv'
  <1>1. /\ TypeOK' /\ RowsInv' /\ UNCHANGED pairs /\ AnswerInv'
    BY WalkRests DEF RcaStep, Walk
  <1>2. \A p \in pairs : p[2] = r => p[1] \in Children(r)
    BY DEF Children
  <1>3. \A other \in SUBSET Backends : Closed(other, r) => Children(r) \subseteq other
    BY DEF Closed, Children
  <1>4. WalkInv'
    BY <1>1, <1>2, <1>3, GraphRests DEF IInv, WalkInv, Walk, Least
  <1> QED BY <1>1, <1>4 DEF IInv

LEMMA SkipInv == ASSUME IInv, NEW q \in Backends, Skip(q) PROVE IInv'
  <1>1. /\ TypeOK' /\ RowsInv' /\ UNCHANGED pairs /\ AnswerInv'
    BY WalkRests DEF RcaStep, Skip
  <1>2. seen' \cup stack' = seen \cup stack /\ UNCHANGED <<pc, todo, root, seen, victims>>
    BY DEF Skip
  <1>3. WalkInv'
    BY <1>1, <1>2, GraphRests DEF IInv, WalkInv, Least, Skip
  <1> QED BY <1>1, <1>3 DEF IInv

LEMMA VisitInv == ASSUME IInv, NEW q \in Backends, Visit(q) PROVE IInv'
  <1>1. /\ TypeOK' /\ RowsInv' /\ UNCHANGED pairs /\ AnswerInv'
    BY WalkRests DEF RcaStep, Visit
  <1>2. /\ seen' \cup stack' = seen \cup stack \cup Children(q)
        /\ seen' = seen \cup {q} /\ q \in stack
        /\ UNCHANGED <<pc, todo, root, victims>>
    BY DEF Visit
  <1>3. \A p \in pairs : p[2] \in seen' \cup {root} => p[1] \in seen' \cup stack'
    BY <1>2 DEF IInv, WalkInv, Visit, Children
  <1>4. ASSUME NEW other \in SUBSET Backends, Closed(other, root)
        PROVE  seen' \cup stack' \subseteq other
    <2>1. q \in other
      BY <1>4, <1>2 DEF IInv, WalkInv, Visit
    <2>2. Children(q) \subseteq other
      BY <1>4, <2>1 DEF Closed, Children
    <2> QED BY <1>2, <1>4, <2>2 DEF IInv, WalkInv, Visit
  <1>5. WalkInv'
    BY <1>1, <1>2, <1>3, <1>4, GraphRests DEF IInv, WalkInv, Least, Visit
  <1> QED BY <1>1, <1>5 DEF IInv

LEMMA WalkedInv == ASSUME IInv, Walked PROVE IInv'
  <1>1. /\ TypeOK' /\ RowsInv' /\ UNCHANGED pairs /\ AnswerInv'
    BY WalkRests DEF RcaStep, Walked
  <1>2. Least(seen, root)
    BY DEF IInv, WalkInv, Walked, Least, Closed
  <1>3. \A r \in Backends : victims'[r] = IF r = root THEN seen ELSE victims[r]
    BY DEF IInv, TypeOK, Walked
  <1>4. \A r \in Roots \ todo' : Least(victims'[r], r)
    BY <1>2, <1>3, GraphType DEF IInv, WalkInv, Walked
  <1>5. WalkInv'
    BY <1>1, <1>4, GraphRests DEF WalkInv, Least, Walked
  <1> QED BY <1>1, <1>5 DEF IInv

LEMMA AnswerStepInv ==
  ASSUME IInv, NEW top \in SUBSET Backends, NEW worst \in Backends, Answer(top, worst)
  PROVE  IInv'
  <1>1. /\ TypeOK' /\ RowsInv' /\ UNCHANGED pairs
    BY WalkRests DEF RcaStep, Answer
  <1>2. top \subseteq Roots
    BY DEF Answer, Tops
  <1>3. AnswerInv'
    BY <1>1, <1>2, GraphRests DEF AnswerInv, Answer
  <1>4. WalkInv'
    BY <1>1, GraphRests DEF IInv, WalkInv, Least, Answer, walk
  <1> QED BY <1>1, <1>3, <1>4 DEF IInv

LEMMA StepInv == IInv /\ [Next]_vars => IInv'
  <1> SUFFICES ASSUME IInv, [Next]_vars PROVE IInv'
    OBVIOUS
  <1>1. CASE UNCHANGED vars
    BY <1>1, GraphRests
       DEF vars, IInv, TypeOK, RowsInv, AnswerInv, WalkInv, Least
  <1>2. CASE Next
    BY <1>2, ChangeInv, WhereInv, UnnestInv, EndsInv, WalkStepInv, SkipInv, VisitInv,
       WalkedInv, AnswerStepInv
       DEF Next, QueryStep, RcaStep
  <1> QED BY <1>1, <1>2

LEMMA Inductive == Spec => []IInv
  BY InitInv, StepInv, PTL DEF Spec

-----------------------------------------------------------------------------
(* Type correctness of the analysis for any number of sessions.             *)
THEOREM ChainsTypeCorrect == Spec => []TypeOK
  <1>1. IInv => TypeOK
    BY DEF IInv
  <1> QED BY <1>1, Inductive, PTL

(* blocking_lock_chain_rca returns for every root exactly those that wait   *)
(* for it, directly or through others, whatever cycles the pairs have.      *)
THEOREM VictimsAreExact == Spec => []VictimsExact
  <1>1. IInv => VictimsExact
    BY DEF IInv, WalkInv, VictimsExact, Least
  <1> QED BY <1>1, Inductive, PTL

(* A deadlock that is suspected from pairs read one by one is one, if the   *)
(* blocked backends still wait for what their rows say.                     *)
THEOREM DeadlocksAreReal == Spec => []DeadlockIsReal
  <1>1. IInv => DeadlockIsReal
    <2> SUFFICES ASSUME IInv, answer.suspected,
                        \A b \in Blocked : HoldersOf(b) = asof[b]
                 PROVE  \E set \in SUBSET Backends : Deadlock(waits, set)
      BY DEF DeadlockIsReal
    <2>1. pairs # {} /\ Blocking \subseteq Blocked
      BY DEF IInv, AnswerInv, Roots
    <2>2. Blocked # {} /\ Blocked \subseteq Backends
      BY <2>1, GraphType DEF IInv, Blocked
    <2>3. ASSUME NEW b \in Blocked PROVE \E g \in Blocked : <<b, g>> \in waits
      <3>1. PICK p \in pairs : p[1] = b
        BY DEF Blocked
      <3>2. p = <<b, p[2]>> /\ b \in Backends /\ p[2] \in Backends
        BY <3>1, Vocabulary DEF IInv, TypeOK
      <3>3. p[2] \in Blocked
        BY <2>1 DEF Blocking
      <3>4. p[2] \in HoldersOf(b)
        BY <3>2 DEF IInv, RowsInv
      <3>5. <<b, p[2]>> \in waits
        BY <3>4 DEF HoldersOf, IInv, TypeOK, Waits
      <3> QED BY <3>3, <3>5
    <2> QED BY <2>2, <2>3 DEF Deadlock
  <1> QED BY <1>1, Inductive, PTL

(* A blocked backend that no root in an uncut answer accounts for waits, at *)
(* some remove, for a cycle.                                                *)
THEOREM EveryoneIsAccounted == Spec => []EveryoneAccounted
  <1>1. IInv => EveryoneAccounted
    <2> SUFFICES ASSUME IInv, pc = "done", NEW b \in Blocked,
                        \A r \in answer.roots : b \notin victims[r], ~ answer.truncated
                 PROVE  \E set \in SUBSET Backends : b \in set /\ Deadlock(pairs, set)
      BY DEF EveryoneAccounted
    <2> DEFINE Left == {c \in Blocked : \A r \in Roots : c \notin victims[r]}
    <2>1. answer.roots = Roots
      BY DEF IInv, AnswerInv, TypeOK
    <2>2. b \in Left /\ Left \in SUBSET Backends
      BY <2>1, GraphType DEF IInv
    <2>3. ASSUME NEW c \in Left PROVE \E g \in Left : <<c, g>> \in pairs
      <3>1. PICK p \in pairs : p[1] = c
        BY DEF Blocked
      <3>2. p = <<c, p[2]>> /\ p[2] \in Blocking
        BY <3>1, Vocabulary DEF IInv, TypeOK, Blocking
      <3>3. \A r \in Roots : p[2] # r /\ p[2] \notin victims[r]
        BY <3>1 DEF IInv, WalkInv, Least, Closed
      <3>4. p[2] \in Left
        BY <3>2, <3>3 DEF Roots
      <3> QED BY <3>2, <3>4
    <2> QED BY <2>2, <2>3 DEF Deadlock
  <1> QED BY <1>1, Inductive, PTL

(* When its row was read, a root that is named waited for no other backend; *)
(* a prepared transaction, which the join drops, is all it may have waited  *)
(* for.                                                                     *)
THEOREM RootsWaitForNoBackend == Spec => []RootsWaitForPreparedOnly
  <1>1. IInv => RootsWaitForPreparedOnly
    <2> SUFFICES ASSUME IInv, NEW r \in answer.roots, NEW g \in asof[r]
                 PROVE  g = Prepared
      BY DEF RootsWaitForPreparedOnly
    <2>1. r \in Roots /\ r \in Backends
      BY GraphType DEF IInv, AnswerInv
    <2>2. ASSUME g \in Backends PROVE r \in Blocked
      <3>1. <<r, g>> \in pairs
        BY <2>1, <2>2 DEF IInv, RowsInv
      <3> QED BY <3>1 DEF Blocked
    <2>3. g \in Holders
      BY <2>1 DEF IInv, TypeOK
    <2> QED BY <2>1, <2>2, <2>3 DEF Roots, Holders
  <1> QED BY <1>1, Inductive, PTL

-----------------------------------------------------------------------------
(* What is left to do: two steps for a row that has to be read; for a root, *)
(* a step that takes it up, one that gives its victims, and between them    *)
(* what is on the stack and what a pid that is not yet seen can push.       *)

Size == Cardinality(Backends)
ARoot == Size * (Size + 1) + Size + 2
Below == (Size - Cardinality(seen)) * (Size + 1) + Cardinality(stack)

StepsLeft ==
  CASE pc = "where"  -> Size * ARoot + 2 * Cardinality(todo) + 2
    [] pc = "unnest" -> Size * ARoot + 2 * Cardinality(todo) + 1
    [] pc = "roots"  -> Cardinality(todo) * ARoot + 1
    [] pc = "walk"   -> Cardinality(todo \ {root}) * ARoot + Below + 2
    [] pc = "done"   -> 0

RootInv == pc = "walk" => root \in todo

LEMMA RootIsInTodo == Spec => []RootInv
  <1>1. Init => RootInv
    BY DEF Init, RootInv
  <1>2. RootInv /\ [Next]_vars => RootInv'
    <2> SUFFICES ASSUME RootInv, [Next]_vars, pc' = "walk" PROVE root' \in todo'
      BY DEF RootInv
    <2>1. CASE pc # "walk"
      <3>1. PICK r \in Backends : Walk(r)
        BY <2>1 DEF Next, vars, QueryStep, RcaStep, Change, Where, Unnest, NothingToWalk,
               SomeRoots, Walked, Skip, Visit, Answer
      <3> QED BY <3>1 DEF Walk
    <2>2. CASE pc = "walk"
      <3>1. UNCHANGED <<todo, root>>
        BY <2>2 DEF Next, vars, QueryStep, RcaStep, Change, Where, Unnest, NothingToWalk,
               SomeRoots, Walked, Walk, Skip, Visit, Answer
      <3> QED BY <2>2, <3>1 DEF RootInv
    <2> QED BY <2>1, <2>2
  <1> QED BY <1>1, <1>2, PTL DEF Spec

LEMMA Counts ==
  ASSUME NEW set \in SUBSET Backends
  PROVE  /\ Cardinality(set) \in 0 .. Size /\ Size \in Nat
         /\ \A b \in set : Cardinality(set \ {b}) = Cardinality(set) - 1 /\ Cardinality(set) > 0
         /\ \A b \in Backends \ set : Cardinality(set \cup {b}) = Cardinality(set) + 1
  <1>1. IsFiniteSet(Backends) /\ IsFiniteSet(set) /\ Cardinality(set) <= Size
        /\ Cardinality(set) \in Nat /\ Size \in Nat
    BY BackendAssumption, FS_Subset, FS_CardinalityType DEF Size
  <1>2. \A b \in set : Cardinality(set) # 0
    BY <1>1, FS_EmptySet
  <1> QED BY <1>1, <1>2, FS_AddElement, FS_RemoveElement

LEMMA Products ==
  ASSUME NEW k \in Nat, NEW m \in Nat, NEW w \in Nat
  PROVE  /\ k * w \in Nat
         /\ (k + 1) * w = k * w + w
         /\ k <= m => k * w <= m * w
  <1>1. k * w \in Nat /\ (k + 1) * w = k * w + w
    OBVIOUS
  <1>2. ASSUME k <= m PROVE k * w <= m * w
    <2>1. m - k \in Nat /\ m * w = k * w + (m - k) * w
      BY <1>2
    <2>2. (m - k) * w \in Nat
      BY <2>1
    <2> QED BY <1>1, <2>1, <2>2
  <1> QED BY <1>1, <1>2

LEMMA Spans ==
  TypeOK =>
    /\ Size \in Nat /\ ARoot \in Nat
    /\ Below \in Nat /\ Below + 2 <= ARoot
    /\ \A set \in SUBSET Backends :
          /\ Cardinality(set) * ARoot \in Nat
          /\ Cardinality(set) * ARoot <= Size * ARoot
    /\ StepsLeft \in Nat
  <1> SUFFICES ASSUME TypeOK
               PROVE  /\ Size \in Nat /\ ARoot \in Nat
                      /\ Below \in Nat /\ Below + 2 <= ARoot
                      /\ \A set \in SUBSET Backends :
                            /\ Cardinality(set) * ARoot \in Nat
                            /\ Cardinality(set) * ARoot <= Size * ARoot
                      /\ StepsLeft \in Nat
    OBVIOUS
  <1> DEFINE unseen == Size - Cardinality(seen)
  <1>1. /\ Size \in Nat /\ Cardinality(todo) \in Nat
        /\ Cardinality(seen) \in 0 .. Size /\ Cardinality(stack) \in 0 .. Size
    BY Counts DEF TypeOK
  <1>2. unseen \in Nat /\ unseen <= Size
    BY <1>1
  <1>3. Size * (Size + 1) \in Nat /\ unseen * (Size + 1) \in Nat /\ unseen * (Size + 1) <= Size * (Size + 1)
    BY <1>1, <1>2, Products
  <1>4. ARoot \in Nat
    BY <1>1, <1>3 DEF ARoot
  <1>5. Below \in Nat /\ Below + 2 <= ARoot
    BY <1>1, <1>3 DEF Below, ARoot
  <1>6. ASSUME NEW set \in SUBSET Backends
        PROVE  Cardinality(set) * ARoot \in Nat /\ Cardinality(set) * ARoot <= Size * ARoot
    <2>1. Cardinality(set) \in Nat /\ Cardinality(set) <= Size
      BY Counts
    <2> QED BY <1>1, <1>4, <2>1, Products
  <1>7. todo \in SUBSET Backends /\ todo \ {root} \in SUBSET Backends /\ Size * ARoot \in Nat
    BY <1>1, <1>4, Products DEF TypeOK
  <1>8. StepsLeft \in Nat
    BY <1>1, <1>5, <1>6, <1>7 DEF StepsLeft, TypeOK
  <1> QED BY <1>1, <1>4, <1>5, <1>6, <1>8

LEMMA QueryDescends == ASSUME IInv, IInv', QueryStep PROVE StepsLeft' < StepsLeft
  <1>1. todo \in SUBSET Backends /\ Cardinality(todo) \in Nat /\ Size * ARoot \in Nat
    BY Spans, Counts, Products DEF IInv, TypeOK
  <1>2. ASSUME NEW b \in Backends, Where(b) PROVE StepsLeft' < StepsLeft
    <2>1. b \in todo /\ pc = "where" /\ StepsLeft = Size * ARoot + 2 * Cardinality(todo) + 2
      BY <1>2 DEF Where, StepsLeft
    <2>2. CASE todo' = todo \ {b} /\ pc' = "where"
      BY <1>1, <2>1, <2>2, Counts DEF StepsLeft, Size, ARoot
    <2>3. CASE todo' = todo /\ pc' = "unnest"
      BY <1>1, <2>1, <2>3 DEF StepsLeft, Size, ARoot
    <2> QED BY <1>2, <2>1, <2>2, <2>3 DEF Where
  <1>3. ASSUME Unnest PROVE StepsLeft' < StepsLeft
    <2>1. /\ passed \in todo /\ todo' = todo \ {passed} /\ pc' = "where" /\ pc = "unnest"
      BY <1>3 DEF Unnest, IInv, RowsInv
    <2> QED BY <1>1, <2>1, Counts DEF StepsLeft, Size, ARoot
  <1> QED BY <1>2, <1>3 DEF QueryStep

LEMMA RcaDescends == ASSUME IInv, IInv', RootInv, RcaStep PROVE StepsLeft' < StepsLeft
  <1>1. /\ TypeOK /\ Size \in Nat /\ ARoot \in Nat /\ Below \in Nat /\ Size * ARoot \in Nat
        /\ TypeOK' /\ Below' \in Nat /\ Below' + 2 <= ARoot
        /\ StepsLeft \in Nat
    <2>1. ARoot' = ARoot
      BY DEF ARoot, Size
    <2>2. TypeOK /\ TypeOK'
      BY DEF IInv
    <2>3. (Below \in Nat /\ Below + 2 <= ARoot)'
      BY <2>2, Spans, PTL
    <2> QED BY <2>1, <2>2, <2>3, Spans, Products
  <1>2. \A set \in SUBSET Backends :
          /\ Cardinality(set) \in 0 .. Size
          /\ Cardinality(set) * ARoot \in Nat /\ Cardinality(set) * ARoot <= Size * ARoot
    BY <1>1, Spans, Counts
  <1>3. ASSUME pc # "done", pc' = "done" PROVE StepsLeft' < StepsLeft
    <2>1. StepsLeft' = 0
      BY <1>3 DEF StepsLeft
    <2>2. /\ Cardinality(todo) \in Nat /\ Cardinality(todo) * ARoot \in Nat
          /\ Cardinality(todo \ {root}) * ARoot \in Nat
      BY <1>1, <1>2 DEF TypeOK
    <2>3. StepsLeft > 0
      BY <1>1, <1>3, <2>2 DEF StepsLeft, TypeOK
    <2> QED BY <1>1, <2>1, <2>3
  <1>4. ASSUME NothingToWalk PROVE StepsLeft' < StepsLeft
    BY <1>3, <1>4 DEF NothingToWalk
  <1>5. ASSUME NEW top, NEW worst, Answer(top, worst) PROVE StepsLeft' < StepsLeft
    BY <1>3, <1>5 DEF Answer
  <1>6. ASSUME SomeRoots PROVE StepsLeft' < StepsLeft
    <2>1. /\ StepsLeft = Size * ARoot + 2 * Cardinality({}) + 2
          /\ StepsLeft' = Cardinality(Roots) * ARoot + 1
      BY <1>6 DEF SomeRoots, StepsLeft, Size, ARoot
    <2>2. Cardinality({}) = 0 /\ Cardinality(Roots) * ARoot <= Size * ARoot
          /\ Cardinality(Roots) * ARoot \in Nat
      BY <1>1, <1>2, GraphType, FS_EmptySet
    <2> QED BY <1>1, <2>1, <2>2
  <1>7. ASSUME NEW r \in todo PROVE /\ Cardinality(todo) * ARoot = Cardinality(todo \ {r}) * ARoot + ARoot
                                    /\ Cardinality(todo \ {r}) * ARoot \in Nat
    <2>1. todo \in SUBSET Backends /\ Cardinality(todo \ {r}) = Cardinality(todo) - 1
          /\ Cardinality(todo) \in Nat /\ Cardinality(todo) > 0
      BY <1>1, Counts DEF TypeOK
    <2>2. Cardinality(todo \ {r}) \in Nat /\ Cardinality(todo) = Cardinality(todo \ {r}) + 1
      BY <2>1
    <2> QED BY <1>1, <2>2, Products
  <1>8. ASSUME NEW r \in Backends, Walk(r) PROVE StepsLeft' < StepsLeft
    <2>1. /\ StepsLeft = Cardinality(todo) * ARoot + 1 /\ r \in todo
          /\ StepsLeft' = Cardinality(todo \ {r}) * ARoot + Below' + 2
      BY <1>8 DEF Walk, StepsLeft, Size, ARoot
    <2>2. /\ Cardinality(todo) * ARoot = Cardinality(todo \ {r}) * ARoot + ARoot
          /\ Cardinality(todo \ {r}) * ARoot \in Nat
      BY <1>7, <2>1
    <2>3. \A a, x, w \in Nat : x + 2 <= w => a + x + 2 < a + w + 1
      OBVIOUS
    <2> QED BY <1>1, <2>1, <2>2, <2>3
  <1>9. ASSUME Walked PROVE StepsLeft' < StepsLeft
    <2>1. /\ StepsLeft = Cardinality(todo \ {root}) * ARoot + Below + 2
          /\ StepsLeft' = Cardinality(todo \ {root}) * ARoot + 1 /\ root \in todo
      BY <1>9 DEF Walked, StepsLeft, Size, ARoot, RootInv
    <2>2. Cardinality(todo \ {root}) * ARoot \in Nat
      BY <1>7, <2>1
    <2> QED BY <1>1, <2>1, <2>2
  <1>10. ASSUME pc = "walk", UNCHANGED <<pc, todo, root>>, Below' < Below PROVE StepsLeft' < StepsLeft
    <2>1. /\ StepsLeft = Cardinality(todo \ {root}) * ARoot + Below + 2 /\ root \in todo
          /\ StepsLeft' = Cardinality(todo \ {root}) * ARoot + Below' + 2
      BY <1>10 DEF StepsLeft, Size, ARoot, RootInv
    <2> QED BY <1>1, <1>7, <1>10, <2>1
  <1>11. /\ Cardinality(seen) \in 0 .. Size /\ Cardinality(stack) \in 0 .. Size
         /\ Cardinality(seen') \in 0 .. Size /\ Cardinality(stack') \in 0 .. Size
    BY <1>1, <1>2 DEF TypeOK
  <1>12. ASSUME NEW p \in Backends, Skip(p) PROVE StepsLeft' < StepsLeft
    <2>1. Cardinality(stack') = Cardinality(stack) - 1 /\ seen' = seen
      BY <1>1, <1>12, Counts DEF Skip, TypeOK
    <2>2. (Size - Cardinality(seen)) * (Size + 1) \in Nat
      BY <1>1, <1>11, Products
    <2>3. Below' < Below
      BY <1>11, <2>1, <2>2 DEF Below, Size
    <2> QED BY <1>10, <1>12, <2>3 DEF Skip
  <1>13. ASSUME NEW p \in Backends, Visit(p) PROVE StepsLeft' < StepsLeft
    <2>1. Cardinality(seen') = Cardinality(seen) + 1
      BY <1>1, <1>13, Counts DEF Visit, TypeOK
    <2> DEFINE unseen == Size - Cardinality(seen')
    <2>2. unseen \in Nat /\ Size - Cardinality(seen) = unseen + 1
      BY <1>1, <1>11, <2>1
    <2>3. unseen * (Size + 1) \in Nat /\ (unseen + 1) * (Size + 1) = unseen * (Size + 1) + (Size + 1)
      BY <1>1, <2>2, Products
    <2>4. /\ Below = (unseen + 1) * (Size + 1) + Cardinality(stack)
          /\ Below' = unseen * (Size + 1) + Cardinality(stack')
      BY <2>2 DEF Below, Size
    <2> HIDE DEF unseen
    <2>5. Below' < Below
      BY <1>1, <1>11, <2>3, <2>4
    <2> QED BY <1>10, <1>13, <2>5 DEF Visit
  <1> QED BY <1>4, <1>5, <1>6, <1>8, <1>9, <1>12, <1>13 DEF RcaStep

(* Every step of the query and of the analysis leaves fewer to do, from a   *)
(* finite count that the server's own changes cannot raise: whatever cycles *)
(* are in the pairs, the walk does not go round in them.                    *)
THEOREM StepsRunOut ==
  Spec => /\ [](StepsLeft \in Nat)
          /\ [][StepsLeft' <= StepsLeft /\ (QueryStep \/ RcaStep => StepsLeft' < StepsLeft)]_vars
  <1>1. IInv => StepsLeft \in Nat
    BY Spans DEF IInv
  <1>2. ASSUME IInv, IInv', RootInv, [Next]_vars
        PROVE  [StepsLeft' <= StepsLeft /\ (QueryStep \/ RcaStep => StepsLeft' < StepsLeft)]_vars
    <2>0. TypeOK /\ TypeOK'
      BY <1>2 DEF IInv
    <2>1. StepsLeft \in Nat /\ (StepsLeft \in Nat)'
      BY <2>0, Spans, PTL
    <2>2. QueryStep \/ RcaStep => StepsLeft' < StepsLeft
      BY <1>2, QueryDescends, RcaDescends
    <2>3. ASSUME NEW b \in Backends, NEW holders \in SUBSET Holders, Change(b, holders)
          PROVE  StepsLeft' = StepsLeft
      BY <2>3 DEF Change, walk, StepsLeft, Below, Size, ARoot
    <2> QED BY <1>2, <2>1, <2>2, <2>3 DEF Next
  <1> QED BY <1>1, <1>2, Inductive, RootIsInTodo, PTL DEF Spec

-----------------------------------------------------------------------------
(* TopReads: the reads. *)

(* A cut leaves rows out only when there are more than it may return, and   *)
(* none that ranks above what it returns.                                   *)
LEMMA TopCut ==
  ASSUME NEW rows, IsFiniteSet(rows), NEW rank, NEW n \in Nat, NEW top \in TopOf(rows, rank, n)
  PROVE  /\ top \subseteq rows /\ IsFiniteSet(top) /\ Cardinality(top) <= n
         /\ top = rows <=> Cardinality(rows) <= n
         /\ top # rows => Cardinality(top) = n
         /\ \A r \in top, q \in rows \ top : rank[q] <= rank[r]
  <1>1. /\ top \in SUBSET rows
        /\ Cardinality(top) = IF Cardinality(rows) < n THEN Cardinality(rows) ELSE n
        /\ \A r \in top, q \in rows \ top : rank[q] <= rank[r]
    BY DEF TopOf
  <1>2. /\ IsFiniteSet(top) /\ (Cardinality(rows) = Cardinality(top) => rows = top)
        /\ Cardinality(top) \in Nat /\ Cardinality(rows) \in Nat
    BY <1>1, FS_Subset, FS_CardinalityType
  <1> QED BY <1>1, <1>2

LEMMA OneOfEach ==
  ASSUME NEW rows, IsFiniteSet(rows), NEW rank, NEW top \in TopOf(rows, rank, 1), NEW r \in top, NEW q \in rows
  PROVE  q = r \/ rank[q] <= rank[r]
  <1>1. IsFiniteSet(top) /\ Cardinality(top) <= 1 /\ Cardinality(top) \in Nat
    BY TopCut, FS_CardinalityType
  <1>2. Cardinality(top) # 0
    BY <1>1, FS_EmptySet
  <1>3. PICK x : top = {x}
    BY <1>1, <1>2, FS_Singleton
  <1> QED BY <1>3, TopCut

LEMMA RequestedType ==
  ASSUME NEW limit \in Int
  PROVE  Requested(limit) \in Nat \ {0} /\ Requested(limit) <= RowCap
  BY CapAssumption DEF Requested

(* One row more than is returned is as good as all of them: the answer of a *)
(* read is an exact cut of the whole, and its flag says whether it is one.  *)
THEOREM OneMoreIsEnough ==
  ASSUME NEW rows, IsFiniteSet(rows), NEW rank \in [rows -> Int], NEW limit \in Int
  PROVE  Read(rows, rank, limit) \subseteq Envelopes(rows, rank, Requested(limit))
  <1> DEFINE n == Requested(limit)
  <1> SUFFICES ASSUME NEW read \in Read(rows, rank, limit) PROVE read \in Envelopes(rows, rank, n)
    OBVIOUS
  <1>1. n \in Nat /\ n + 1 \in Nat
    BY RequestedType
  <1>0. PICK fetched \in TopOf(rows, rank, n + 1) : read \in Envelopes(fetched, rank, n)
    BY DEF Read
  <1> HIDE DEF n
  <1>9. PICK kept \in TopOf(fetched, rank, n) :
          read = [rows |-> kept, limit |-> n, truncated |-> Cardinality(fetched) > n]
    BY <1>0 DEF Envelopes
  <1>2. /\ fetched \subseteq rows /\ IsFiniteSet(fetched) /\ Cardinality(fetched) <= n + 1
        /\ fetched = rows <=> Cardinality(rows) <= n + 1
        /\ fetched # rows => Cardinality(fetched) = n + 1
        /\ \A r \in fetched, q \in rows \ fetched : rank[q] <= rank[r]
    BY <1>1, TopCut
  <1>3. /\ kept \subseteq fetched /\ IsFiniteSet(kept) /\ Cardinality(kept) <= n
        /\ kept = fetched <=> Cardinality(fetched) <= n
        /\ kept # fetched => Cardinality(kept) = n
        /\ \A r \in kept, q \in fetched \ kept : rank[q] <= rank[r]
    BY <1>1, <1>2, TopCut
  <1>4. Cardinality(fetched) \in Nat /\ Cardinality(rows) \in Nat /\ Cardinality(kept) \in Nat
    BY <1>2, <1>3, FS_CardinalityType
  <1>5. Cardinality(fetched) > n <=> Cardinality(rows) > n
    BY <1>1, <1>2, <1>4
  <1>6. Cardinality(kept) = IF Cardinality(rows) < n THEN Cardinality(rows) ELSE n
    BY <1>1, <1>2, <1>3, <1>4
  <1>7. kept \in TopOf(rows, rank, n)
    BY <1>2, <1>3, <1>6 DEF TopOf
  <1> QED BY <1>5, <1>7, <1>9 DEF Envelopes

LEMMA ReadCut ==
  ASSUME NEW rows, IsFiniteSet(rows), NEW rank \in [rows -> Int], NEW limit \in Int,
         NEW read \in Read(rows, rank, limit)
  PROVE  /\ read.rows \subseteq rows /\ IsFiniteSet(read.rows)
         /\ read.truncated <=> read.rows # rows
         /\ \A r \in read.rows, q \in rows \ read.rows : rank[q] <= rank[r]
  <1>1. Requested(limit) \in Nat
    BY RequestedType
  <1>2. PICK kept \in TopOf(rows, rank, Requested(limit)) :
          read = [rows |-> kept, limit |-> Requested(limit),
                  truncated |-> Cardinality(rows) > Requested(limit)]
    BY OneMoreIsEnough DEF Envelopes
  <1>3. Cardinality(rows) \in Nat
    BY FS_CardinalityType
  <1>4. /\ kept \subseteq rows /\ IsFiniteSet(kept)
        /\ kept = rows <=> Cardinality(rows) <= Requested(limit)
        /\ \A r \in kept, q \in rows \ kept : rank[q] <= rank[r]
    BY <1>1, TopCut
  <1>5. read.rows = kept /\ (read.truncated <=> Cardinality(rows) > Requested(limit))
    BY <1>2
  <1> QED BY <1>1, <1>3, <1>4, <1>5

-----------------------------------------------------------------------------
(* The analyses over the reads. *)

LEMMA InputTypes ==
  /\ IsFiniteSet(Names)
  /\ \A x \in Tuples : x \in Nat
  /\ \A x \in Sizes : x \in Nat
  /\ \A x \in Limits : x \in Int
  BY Zenon, InputAssumption DEF InputAssumption

AskedInv ==
  \/ asked = [tool |-> "none"] /\ returned = {}
  \/ \E tables \in TableStats, limit \in Limits :
       /\ asked = [tool |-> "vacuum", tables |-> tables, limit |-> limit]
       /\ returned \in BloatAndVacuum(tables, limit)
  \/ \E times \in [Names -> Sizes], limit \in Limits :
       /\ asked = [tool |-> "slow query", times |-> times, limit |-> limit]
       /\ returned \in SlowQuery(times, limit)
  \/ \E indexes \in IndexStats, limit \in Limits :
       /\ asked = [tool |-> "indexes", indexes |-> indexes, limit |-> limit]
       /\ returned \in IndexBloat(indexes, limit)

(* The answer that is kept is one to the question that is kept with it.     *)
LEMMA AskedOf ==
  ASSUME AskedInv
  PROVE  /\ asked.tool = "vacuum" => \E tables \in TableStats, limit \in Limits :
              asked.tables = tables /\ returned \in BloatAndVacuum(tables, limit)
         /\ asked.tool = "slow query" => \E times \in [Names -> Sizes], limit \in Limits :
              asked.times = times /\ returned \in SlowQuery(times, limit)
         /\ asked.tool = "indexes" => \E indexes \in IndexStats, limit \in Limits :
              asked.indexes = indexes /\ returned \in IndexBloat(indexes, limit)
  <1>1. CASE asked = [tool |-> "none"]
    <2>1. asked.tool = "none"
      BY <1>1
    <2> QED BY <2>1
  <1>2. ASSUME NEW tables \in TableStats, NEW limit \in Limits,
               asked = [tool |-> "vacuum", tables |-> tables, limit |-> limit]
        PROVE  asked.tool = "vacuum" /\ asked.tables = tables
    BY <1>2
  <1>3. ASSUME NEW times \in [Names -> Sizes], NEW limit \in Limits,
               asked = [tool |-> "slow query", times |-> times, limit |-> limit]
        PROVE  asked.tool = "slow query" /\ asked.times = times
    BY <1>3
  <1>4. ASSUME NEW indexes \in IndexStats, NEW limit \in Limits,
               asked = [tool |-> "indexes", indexes |-> indexes, limit |-> limit]
        PROVE  asked.tool = "indexes" /\ asked.indexes = indexes
    BY <1>4
  <1>5. CASE \E tables \in TableStats, limit \in Limits :
               /\ asked = [tool |-> "vacuum", tables |-> tables, limit |-> limit]
               /\ returned \in BloatAndVacuum(tables, limit)
    BY <1>2, <1>5
  <1>6. CASE \E times \in [Names -> Sizes], limit \in Limits :
               /\ asked = [tool |-> "slow query", times |-> times, limit |-> limit]
               /\ returned \in SlowQuery(times, limit)
    BY <1>3, <1>6
  <1>7. CASE \E indexes \in IndexStats, limit \in Limits :
               /\ asked = [tool |-> "indexes", indexes |-> indexes, limit |-> limit]
               /\ returned \in IndexBloat(indexes, limit)
    BY <1>4, <1>7
  <1> QED BY <1>1, <1>5, <1>6, <1>7 DEF AskedInv

LEMMA AlwaysAsked == ReadSpec => []AskedInv
  <1>1. Idle => AskedInv
    BY DEF Idle, AskedInv
  <1>2. AskedInv /\ [Ask]_reads => AskedInv'
    <2> SUFFICES ASSUME AskedInv, [Ask]_reads PROVE AskedInv'
      OBVIOUS
    <2>1. CASE Ask
      BY <2>1 DEF Ask, AskVacuum, AskSlowQuery, AskIndexes, AskedInv
    <2>2. CASE UNCHANGED reads
      BY <2>2 DEF reads, AskedInv
    <2> QED BY <2>1, <2>2
  <1> QED BY <1>1, <1>2, PTL DEF ReadSpec

(* A table that needs a vacuum is left out only under a flag that says so,  *)
(* and only the source's own flag if that has returned no table with few    *)
(* dead tuples: for any number of tables, any statistics and any limit.     *)
THEOREM LeftOutAreSaid == ReadSpec => []LeftOutIsSaid
  <1>1. ASSUME NEW tables \in TableStats, NEW limit \in Limits,
               NEW answered \in BloatAndVacuum(tables, limit),
               NEW t \in Names, NeedsVacuum(tables[t]), t \notin answered.advised, ~ answered.truncated
        PROVE  /\ answered.source.truncated
               /\ \A u \in answered.source.rows : tables[u].dead >= DeadTupWarn
    <2> DEFINE dead == [u \in Names |-> tables[u].dead]
    <2>0. \A u \in Names : tables[u].dead \in Tuples /\ tables[u].dead \in Int
      BY InputTypes DEF TableStats
    <2>1. DOMAIN tables = Names /\ IsFiniteSet(Names) /\ limit \in Int
          /\ dead \in [Names -> Int] /\ \A u \in Names : dead[u] = tables[u].dead
      BY <2>0, InputTypes DEF TableStats
    <2>2. PICK source \in Read(Names, dead, limit) :
            \E advised \in TopOf({u \in source.rows : NeedsVacuum(tables[u])},
                                 [u \in {u \in source.rows : NeedsVacuum(tables[u])} |-> DeadPct(tables[u])],
                                 RankedCap) :
              answered = [source |-> source, advised |-> advised,
                          truncated |-> Cardinality({u \in source.rows : NeedsVacuum(tables[u])}) > RankedCap]
      BY <2>1 DEF BloatAndVacuum, TableBloat
    <2> DEFINE needy == {u \in source.rows : NeedsVacuum(tables[u])}
               pct == [u \in needy |-> DeadPct(tables[u])]
    <2>3. PICK advised \in TopOf(needy, pct, RankedCap) :
            answered = [source |-> source, advised |-> advised, truncated |-> Cardinality(needy) > RankedCap]
      BY <2>2
    <2> HIDE DEF dead
    <2>4. /\ source.rows \subseteq Names /\ IsFiniteSet(source.rows)
          /\ source.truncated <=> source.rows # Names
          /\ \A r \in source.rows, q \in Names \ source.rows : dead[q] <= dead[r]
      BY <2>1, <2>2, ReadCut
    <2>5. IsFiniteSet(needy) /\ Cardinality(needy) \in Nat /\ RankedCap \in Nat
      BY <2>4, FS_Subset, FS_CardinalityType, CapAssumption
    <2> HIDE DEF needy, pct
    <2>6. advised = needy
      <3>1. Cardinality(needy) <= RankedCap
        <4>1. answered.truncated <=> Cardinality(needy) > RankedCap
          BY <2>3
        <4> QED BY <1>1, <2>5, <4>1
      <3> QED BY <2>5, <3>1, TopCut
    <2>7. t \notin source.rows
      BY <1>1, <2>3, <2>6 DEF needy
    <2>8. tables[t].dead >= DeadTupWarn
      BY <1>1 DEF NeedsVacuum
    <2>9. \A u \in source.rows : tables[u].dead >= DeadTupWarn
      <3> SUFFICES ASSUME NEW u \in source.rows PROVE tables[u].dead >= DeadTupWarn
        OBVIOUS
      <3>1. dead[t] <= dead[u] /\ dead[t] = tables[t].dead /\ dead[u] = tables[u].dead
            /\ dead[t] \in Int /\ dead[u] \in Int /\ DeadTupWarn \in Int
        BY <2>1, <2>4, <2>7, WarnAssumption
      <3> QED BY <2>8, <3>1
    <2> QED BY <2>3, <2>4, <2>7, <2>9
  <1>2. AskedInv => LeftOutIsSaid
    <2> SUFFICES ASSUME AskedInv, asked.tool = "vacuum" PROVE LeftOutIsSaid
      BY DEF LeftOutIsSaid
    <2>1. PICK tables \in TableStats, limit \in Limits :
            asked.tables = tables /\ returned \in BloatAndVacuum(tables, limit)
      BY AskedOf
    <2> QED BY <1>1, <2>1 DEF LeftOutIsSaid
  <1> QED BY <1>2, AlwaysAsked, PTL

(* What an index exceeds its ideal by is at most its size. *)
LEMMA BloatBound ==
  ASSUME NEW indexes \in IndexStats, NEW i \in Names
  PROVE  Bloat(indexes[i]) \in Nat /\ Bloat(indexes[i]) <= indexes[i].pages /\ indexes[i].pages \in Nat
  <1> DEFINE tuples == IF indexes[i].tuples > 0 THEN indexes[i].tuples ELSE 0
             ideal == (tuples + EntriesPerPage - 1) \div EntriesPerPage + 1
  <1>0. indexes[i].pages \in Sizes /\ indexes[i].tuples \in Tuples \cup {-1}
    BY DEF IndexStats
  <1>1. indexes[i].pages \in Nat /\ indexes[i].tuples \in Int /\ EntriesPerPage \in Nat \ {0}
    BY <1>0, InputTypes, WarnAssumption
  <1>2. tuples + EntriesPerPage - 1 \in Nat
    BY <1>1
  <1> HIDE DEF tuples
  <1>3. (tuples + EntriesPerPage - 1) \div EntriesPerPage \in Nat
    BY <1>1, <1>2
  <1>4. ideal \in Nat
    BY <1>3
  <1>5. Bloat(indexes[i]) = IF indexes[i].pages > ideal THEN indexes[i].pages - ideal ELSE 0
    BY DEF Bloat, tuples
  <1> HIDE DEF ideal
  <1> QED BY <1>1, <1>4, <1>5

(* The slow query that is explained is the worst of all, and an index that  *)
(* a cut by size has left out exceeds its ideal by no more than the least   *)
(* size it kept: for any number of statements and indexes and any limit.    *)
THEOREM CutOffAreNoWorse == ReadSpec => []CutOffIsNoWorse
  <1>1. ASSUME NEW times \in [Names -> Sizes], NEW limit \in Limits, NEW worst \in SlowQuery(times, limit),
               NEW w \in worst, NEW q \in Names
        PROVE  times[q] <= times[w]
    <2>0. \A i \in Names : times[i] \in Int
      BY InputTypes
    <2>1. DOMAIN times = Names /\ IsFiniteSet(Names) /\ limit \in Int /\ times \in [Names -> Int]
      BY <2>0, InputTypes
    <2>2. PICK source \in Read(Names, times, limit) : worst \in TopOf(source.rows, times, 1)
      BY <2>1 DEF SlowQuery, TopQueries
    <2>3. /\ source.rows \subseteq Names /\ IsFiniteSet(source.rows)
          /\ \A r \in source.rows, i \in Names \ source.rows : times[i] <= times[r]
      BY <2>1, <2>2, ReadCut
    <2>4. w \in source.rows
      BY <2>2, <2>3, TopCut
    <2>5. CASE q \in source.rows
      <3>1. q = w \/ times[q] <= times[w]
        BY <2>2, <2>3, <2>5, OneOfEach
      <3> QED BY <2>0, <2>3, <2>4, <3>1
    <2> QED BY <2>3, <2>4, <2>5
  <1>2. ASSUME NEW indexes \in IndexStats, NEW limit \in Limits,
               NEW answered \in IndexBloat(indexes, limit), NEW w \in answered.first, NEW i \in Names,
               Bloat(indexes[i]) > Bloat(indexes[w])
        PROVE  /\ answered.source.truncated
               /\ \A j \in answered.source.rows : Bloat(indexes[w]) < indexes[j].pages
    <2> DEFINE pages == [j \in Names |-> indexes[j].pages]
    <2>1. DOMAIN indexes = Names /\ IsFiniteSet(Names) /\ limit \in Int
      BY InputTypes DEF IndexStats
    <2>2. pages \in [Names -> Int] /\ \A j \in Names : pages[j] = indexes[j].pages /\ pages[j] \in Int
      BY BloatBound
    <2>3. PICK source \in Read(Names, pages, limit) :
            \E first \in TopOf(source.rows, [j \in source.rows |-> Bloat(indexes[j])], 1) :
              answered = [source |-> source, first |-> first]
      BY <2>1 DEF IndexBloat
    <2> DEFINE bloat == [j \in source.rows |-> Bloat(indexes[j])]
    <2>4. PICK first \in TopOf(source.rows, bloat, 1) : answered = [source |-> source, first |-> first]
      BY <2>3
    <2> HIDE DEF pages
    <2>5. /\ source.rows \subseteq Names /\ IsFiniteSet(source.rows)
          /\ source.truncated <=> source.rows # Names
          /\ \A r \in source.rows, q \in Names \ source.rows : pages[q] <= pages[r]
      BY <2>1, <2>2, <2>3, ReadCut
    <2>6. \A j \in source.rows : bloat[j] = Bloat(indexes[j])
      OBVIOUS
    <2> HIDE DEF bloat
    <2>7. w \in first /\ w \in source.rows
      BY <2>4, <2>5, TopCut, <1>2
    <2>8. Bloat(indexes[i]) \in Nat /\ Bloat(indexes[w]) \in Nat /\ Bloat(indexes[i]) <= indexes[i].pages
      BY <2>5, <2>7, BloatBound
    <2>9. i \notin source.rows
      <3>1. ASSUME i \in source.rows PROVE i = w \/ Bloat(indexes[i]) <= Bloat(indexes[w])
        BY <2>4, <2>5, <2>6, <2>7, <3>1, OneOfEach
      <3> QED BY <1>2, <2>8, <3>1
    <2>10. \A j \in source.rows : Bloat(indexes[w]) < indexes[j].pages
      <3> SUFFICES ASSUME NEW j \in source.rows PROVE Bloat(indexes[w]) < indexes[j].pages
        OBVIOUS
      <3>1. pages[i] <= pages[j] /\ pages[i] = indexes[i].pages /\ pages[j] = indexes[j].pages
            /\ pages[i] \in Int /\ pages[j] \in Int
        BY <2>2, <2>5, <2>9
      <3> QED BY <1>2, <2>8, <3>1
    <2> QED BY <2>4, <2>5, <2>9, <2>10
  <1>3. AskedInv => CutOffIsNoWorse
    <2> SUFFICES ASSUME AskedInv PROVE CutOffIsNoWorse
      OBVIOUS
    <2>1. CASE asked.tool = "slow query"
      <3>1. PICK times \in [Names -> Sizes], limit \in Limits :
              asked.times = times /\ returned \in SlowQuery(times, limit)
        BY <2>1, AskedOf
      <3> QED BY <1>1, <2>1, <3>1 DEF CutOffIsNoWorse
    <2>2. CASE asked.tool = "indexes"
      <3>1. PICK indexes \in IndexStats, limit \in Limits :
              asked.indexes = indexes /\ returned \in IndexBloat(indexes, limit)
        BY <2>2, AskedOf
      <3> QED BY <1>2, <2>2, <3>1 DEF CutOffIsNoWorse
    <2> QED BY <2>1, <2>2 DEF CutOffIsNoWorse
  <1> QED BY <1>3, AlwaysAsked, PTL
=============================================================================
