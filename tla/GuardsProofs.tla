---------------------------- MODULE GuardsProofs ----------------------------
(***************************************************************************)
(* What the guards of a governed call guarantee for any number of threads, *)
(* fingerprints and patterns, any ceilings, windows and caps, and however  *)
(* the threads interleave with each other and with the clock.              *)
(*                                                                         *)
(* The budget: the counter equals the set of calls that passed (CountInv). *)
(* The runaway breaker: the calls that a window can still be asked about   *)
(* have a place each in it (WindowInv), although a stamp that came late    *)
(* may keep others behind it.  The rate limit: an arming younger than a    *)
(* day is still kept (ArmsInv).  The circuit breaker: the counter reaches  *)
(* back to the last success, and a tripped breaker is open (BreakInv); and *)
(* it is open for nothing else, as the caps count nothing else (ExactInv,  *)
(* CountedFired).                                                          *)
(***************************************************************************)
EXTENDS Guards, FiniteSetTheorems, SequenceTheorems, TLAPS

PlaceInv == \A t \in Threads : pc[t] = "report" => armed[t]

-----------------------------------------------------------------------------
(* The operators. *)

LEMMA Minimum ==
  ASSUME NEW S \in SUBSET Nat, S # {}
  PROVE  \E i \in S : \A j \in S : i <= j
  <1>1. PICK i \in S : \A j \in S : ~ (<<j, i>> \in OpToRel(<, Nat))
    BY WFMin, NatLessThanWellFounded
  <1>2. \A j \in S : ~ (j < i)
    BY <1>1 DEF OpToRel
  <1> QED BY <1>2

Young(window, at) == {i \in DOMAIN window : window[i] + RunawayWindow >= at}

(* What is kept is a suffix of the window, that no young stamp precedes.    *)
LEMMA KeptIsSuffix ==
  ASSUME NEW m \in Nat, NEW window \in Seq(0 .. m), NEW at \in 0 .. m
  PROVE  /\ Kept(window, at) \in Seq(0 .. m)
         /\ \E d \in 0 .. Len(window) :
              /\ Len(Kept(window, at)) = Len(window) - d
              /\ \A i \in 1 .. Len(window) - d : Kept(window, at)[i] = window[i + d]
              /\ \A i \in Young(window, at) : i > d
  <1> DEFINE young == Young(window, at)
             n == Len(window)
  <1>0. n \in Nat /\ DOMAIN window = 1 .. n /\ \A i \in 1 .. n : window[i] \in 0 .. m
    BY ElementOfSeq
  <1>1. CASE young = {}
    <2>1. Kept(window, at) = <<>>
      BY <1>1 DEF Kept, Young
    <2>2. <<>> \in Seq(0 .. m) /\ Len(<<>>) = n - n /\ n \in 0 .. n
      BY <1>0
    <2>3. \A i \in 1 .. n - n : Kept(window, at)[i] = window[i + n]
      BY <1>0
    <2> HIDE DEF n
    <2> QED BY <1>1, <2>1, <2>2, <2>3 DEF n
  <1>2. CASE young # {}
    <2>1. young \in SUBSET Nat
      BY <1>0 DEF Young
    <2>2. \E i \in young : \A j \in young : i <= j
      BY <2>1, <1>2, Minimum
    <2> DEFINE c == CHOOSE i \in young : \A j \in young : i <= j
    <2>3. c \in young /\ \A j \in young : c <= j
      BY <2>2
    <2>4. c \in 1 .. n
      BY <2>3, <1>0 DEF Young
    <2>5. Kept(window, at) = SubSeq(window, c, n)
      BY <1>2 DEF Kept, Young
    <2> HIDE DEF c, young, n
    <2>6. \A i \in c .. n : window[i] \in 0 .. m
      BY <1>0, <2>4
    <2>7. /\ SubSeq(window, c, n) \in Seq(0 .. m)
          /\ Len(SubSeq(window, c, n)) = IF c <= n THEN n - c + 1 ELSE 0
          /\ \A i \in 1 .. n - c + 1 : SubSeq(window, c, n)[i] = window[c + i - 1]
      BY <2>4, <2>6, <1>0, SubSeqProperties
    <2>8. Len(SubSeq(window, c, n)) = n - (c - 1) /\ c - 1 \in 0 .. n
      BY <2>7, <2>4, <1>0
    <2>9. \A i \in 1 .. n - (c - 1) : SubSeq(window, c, n)[i] = window[i + (c - 1)]
      BY <2>7, <2>4, <1>0
    <2>10. \A i \in young : i > c - 1
      BY <2>3, <2>4, <1>0 DEF Young, young
    <2> QED BY <2>5, <2>7, <2>8, <2>9, <2>10 DEF young, n
  <1> QED BY <1>1, <1>2

LEMMA KeyType ==
  ASSUME TypeOK, NEW t \in Threads
  PROVE  Key(t) \in Keys \cup {None}
  BY KeyAssumption DEF TypeOK, Key

-----------------------------------------------------------------------------
(* Typing. *)

(* What moves a thread moves no other, and the types of its fields suffice. *)
ThreadType ==
  /\ pc \in [Threads -> {"idle", "check", "match", "over", "report"}]
  /\ calls \in [Threads -> Nat] /\ \A t \in Threads : calls[t] <= MaxCalls[t]
  /\ print \in [Threads -> Prints]
  /\ stamp \in [Threads -> 0 .. now]
  /\ armed \in [Threads -> BOOLEAN]
  /\ \A t \in Threads : armed[t] => pc[t] \in {"over", "report"} /\ Key(t) # None

BudgetType ==
  /\ max_calls \in Ceilings /\ total_calls \in Nat /\ total_seconds \in Nat
  /\ windows \in [Prints -> Seq(0 .. now)]

PatternType ==
  /\ arms \in [Keys -> SUBSET [call : Threads \X Nat, at : 0 .. now]]
  /\ failures \in [Keys -> Nat]
  /\ disabled_until \in [Keys -> Nat]
  /\ reports \in [Keys -> Seq([success : BOOLEAN, at : 0 .. now])]

LEMMA TypeParts == TypeOK <=> now \in Moments /\ ThreadType /\ BudgetType /\ PatternType
  BY DEF TypeOK, ThreadType, BudgetType, PatternType

LEMMA InitType == Init => TypeOK /\ PlaceInv
  <1> SUFFICES ASSUME Init PROVE TypeOK /\ PlaceInv
    OBVIOUS
  <1>1. AnyPrint \in Prints
    BY PrintAssumption DEF AnyPrint
  <1>2. ThreadType /\ PlaceInv
    BY <1>1, BoundAssumption DEF Init, ThreadType, PlaceInv
  <1>3. BudgetType /\ PatternType /\ now \in Moments
    BY BoundAssumption DEF Init, BudgetType, PatternType, Moments
  <1> QED BY <1>2, <1>3, TypeParts

LEMMA TickType == ASSUME TypeOK, PlaceInv, Tick PROVE TypeOK' /\ PlaceInv'
  <1>1. now \in Nat /\ now' = now + 1 /\ now' \in Moments /\ 0 .. now \subseteq 0 .. now'
    BY BoundAssumption DEF TypeOK, Tick, Moments
  <1>2. ThreadType' /\ PlaceInv'
    BY <1>1 DEF Tick, TypeOK, ThreadType, thread, PlaceInv, Key
  <1>3. BudgetType'
    <2>1. \A p \in Prints : windows[p] \in Seq(0 .. now')
      BY <1>1, SeqMonotonic DEF TypeOK
    <2> QED BY <2>1 DEF Tick, TypeOK, BudgetType, budget
  <1>4. PatternType'
    <2>1. [success : BOOLEAN, at : 0 .. now] \subseteq [success : BOOLEAN, at : 0 .. now']
      BY <1>1
    <2>2. \A k \in Keys : reports[k] \in Seq([success : BOOLEAN, at : 0 .. now'])
      <3> DEFINE S == [success : BOOLEAN, at : 0 .. now]
                 T == [success : BOOLEAN, at : 0 .. now']
      <3>1. \A k \in Keys : reports[k] \in Seq(S)
        BY DEF TypeOK
      <3> HIDE DEF S, T
      <3>2. S \subseteq T
        BY <2>1 DEF S, T
      <3>3. \A k \in Keys : reports[k] \in Seq(T)
        BY <3>1, <3>2, SeqMonotonic
      <3> QED BY <3>3 DEF T
    <2>3. [call : Threads \X Nat, at : 0 .. now] \subseteq [call : Threads \X Nat, at : 0 .. now']
      BY <1>1
    <2>4. arms \in [Keys -> SUBSET [call : Threads \X Nat, at : 0 .. now']]
      BY <2>3 DEF TypeOK
    <2> QED BY <2>2, <2>4 DEF Tick, TypeOK, PatternType, pattern, breaker
  <1> QED BY <1>1, <1>2, <1>3, <1>4 DEF TypeOK, ThreadType, BudgetType, PatternType

LEMMA LeaveType ==
  ASSUME ThreadType, PlaceInv, now \in Nat, NEW t \in Threads, Leave(t), now' = now, calls' = calls
  PROVE  ThreadType' /\ PlaceInv'
  <1>1. AnyPrint \in Prints
    BY PrintAssumption DEF AnyPrint
  <1>2. /\ pc'[t] = "idle" /\ ~ armed'[t]
        /\ \A u \in Threads \ {t} : pc'[u] = pc[u] /\ print'[u] = print[u] /\ armed'[u] = armed[u]
    BY DEF Leave, Go, ThreadType
  <1>3. /\ pc' \in [Threads -> {"idle", "check", "match", "over", "report"}]
        /\ print' \in [Threads -> Prints] /\ stamp' \in [Threads -> 0 .. now']
        /\ armed' \in [Threads -> BOOLEAN]
        /\ calls' \in [Threads -> Nat] /\ \A u \in Threads : calls'[u] <= MaxCalls[u]
    BY <1>1 DEF Leave, Go, ThreadType
  <1>4. \A u \in Threads : armed'[u] => pc'[u] \in {"over", "report"} /\ KeyOf[print'[u]] # None
    BY <1>2 DEF ThreadType, Key
  <1>5. PlaceInv'
    BY <1>2 DEF PlaceInv
  <1> QED BY <1>3, <1>4, <1>5 DEF ThreadType, Key

(* A step of a thread, or of the operator, while the clock stands still.    *)
LEMMA StepType ==
  ASSUME TypeOK, PlaceInv, [Next]_vars, now' = now
  PROVE  TypeOK' /\ PlaceInv'
  <1> USE DEF thread, budget, breaker, pattern
  <1>0. now \in Nat /\ AnyPrint \in Prints
    BY PrintAssumption DEF TypeOK, Moments, AnyPrint
  <1>1. ThreadType' /\ PlaceInv'
    <2> SUFFICES ASSUME Next PROVE ThreadType' /\ PlaceInv'
      BY DEF vars, TypeOK, ThreadType, PlaceInv, Key
    <2> USE DEF TypeOK, ThreadType, PlaceInv, Go, Key
    <2>1. CASE Tick
      BY <2>1, <1>0 DEF Tick
    <2>2. ASSUME NEW ceiling \in Ceilings, RaiseCeiling(ceiling) PROVE ThreadType' /\ PlaceInv'
      BY <2>2 DEF RaiseCeiling
    <2>3. ASSUME NEW t \in Threads, NEW p \in Prints, Enter(t, p) PROVE ThreadType' /\ PlaceInv'
      <3>1. calls' \in [Threads -> Nat] /\ \A u \in Threads : calls'[u] <= MaxCalls[u]
        <4>1. MaxCalls[t] \in Nat /\ calls[t] \in Nat /\ calls[t] < MaxCalls[t]
          BY <2>3, BoundAssumption DEF Enter
        <4>2. calls[t] + 1 \in Nat /\ calls[t] + 1 <= MaxCalls[t]
          BY <4>1
        <4> QED BY <2>3, <4>2 DEF Enter
      <3>2. /\ pc' \in [Threads -> {"idle", "check", "match", "over", "report"}]
            /\ print' \in [Threads -> Prints] /\ stamp' \in [Threads -> 0 .. now']
            /\ armed' \in [Threads -> BOOLEAN]
        BY <2>3, <1>0 DEF Enter
      <3>3. ~ armed[t] /\ armed' = armed /\ \A u \in Threads \ {t} : pc'[u] = pc[u] /\ print'[u] = print[u]
        BY <2>3 DEF Enter
      <3>4. \A u \in Threads : armed'[u] => pc'[u] \in {"over", "report"} /\ KeyOf[print'[u]] # None
        BY <3>3
      <3>5. PlaceInv'
        BY <2>3, <3>3 DEF Enter
      <3> QED BY <3>1, <3>2, <3>4, <3>5
    <2>4. ASSUME NEW t \in Threads, RefuseCeiling(t) \/ RefuseRunaway(t) \/ Admit(t)
          PROVE  ThreadType' /\ PlaceInv'
      BY <2>4 DEF RefuseCeiling, RefuseRunaway, Admit
    <2>5. ASSUME NEW t \in Threads, MatchNothing(t) \/ MatchBroken(t) \/ MatchCapped(t) \/ Arm(t)
          PROVE  ThreadType' /\ PlaceInv'
      BY <2>5 DEF MatchNothing, MatchBroken, MatchCapped, Arm
    <2>6. ASSUME NEW t \in Threads, AddDuration(t) PROVE ThreadType' /\ PlaceInv'
      <3>1. CASE armed[t]
        BY <2>6, <3>1 DEF AddDuration
      <3>2. CASE ~ armed[t]
        BY <2>6, <3>2, <1>0, LeaveType DEF AddDuration
      <3> QED BY <3>1, <3>2
    <2>7. ASSUME NEW t \in Threads, ReportSuccess(t) \/ ReportFailure(t)
          PROVE  ThreadType' /\ PlaceInv'
      BY <2>7, <1>0, LeaveType DEF ReportSuccess, ReportFailure, Reported
    <2> QED BY <2>1, <2>2, <2>3, <2>4, <2>5, <2>6, <2>7 DEF Next, ThreadStep
  <1>2. BudgetType'
    <2> SUFFICES ASSUME Next PROVE BudgetType'
      BY DEF vars, TypeOK, BudgetType
    <2> USE DEF TypeOK, BudgetType
    <2>0. ASSUME NEW t \in Threads
          PROVE  /\ Kept(windows[print[t]], stamp[t]) \in Seq(0 .. now)
                 /\ Append(Kept(windows[print[t]], stamp[t]), stamp[t]) \in Seq(0 .. now)
      BY <1>0, KeptIsSuffix
    <2>1. CASE Tick
      BY <2>1, <1>0 DEF Tick
    <2>2. ASSUME NEW ceiling \in Ceilings, RaiseCeiling(ceiling) PROVE BudgetType'
      BY <2>2 DEF RaiseCeiling
    <2>3. ASSUME NEW t \in Threads, NEW p \in Prints, Enter(t, p) PROVE BudgetType'
      BY <2>3 DEF Enter
    <2>4. ASSUME NEW t \in Threads, RefuseCeiling(t) \/ RefuseRunaway(t) \/ Admit(t)
          PROVE  BudgetType'
      <3>1. CASE RefuseCeiling(t)
        BY <3>1 DEF RefuseCeiling
      <3>2. CASE RefuseRunaway(t)
        BY <3>2, <2>0 DEF RefuseRunaway
      <3>3. CASE Admit(t)
        <4>1. windows' \in [Prints -> Seq(0 .. now)]
          BY <3>3, <2>0 DEF Admit
        <4> QED BY <3>3, <4>1 DEF Admit
      <3> QED BY <2>4, <3>1, <3>2, <3>3
    <2>5. ASSUME NEW t \in Threads, MatchNothing(t) \/ MatchBroken(t) \/ MatchCapped(t) \/ Arm(t)
          PROVE  BudgetType'
      BY <2>5 DEF MatchNothing, MatchBroken, MatchCapped, Arm
    <2>6. ASSUME NEW t \in Threads, AddDuration(t) PROVE BudgetType'
      BY <2>6, <1>0 DEF AddDuration
    <2>7. ASSUME NEW t \in Threads, ReportSuccess(t) \/ ReportFailure(t) PROVE BudgetType'
      BY <2>7 DEF ReportSuccess, ReportFailure
    <2> QED BY <2>1, <2>2, <2>3, <2>4, <2>5, <2>6, <2>7 DEF Next, ThreadStep
  <1>3. PatternType'
    <2> SUFFICES ASSUME Next PROVE PatternType'
      BY DEF vars, TypeOK, PatternType
    <2> USE DEF TypeOK, PatternType
    <2>1. CASE Tick
      BY <2>1, <1>0 DEF Tick
    <2>2. ASSUME NEW ceiling \in Ceilings, RaiseCeiling(ceiling) PROVE PatternType'
      BY <2>2 DEF RaiseCeiling
    <2>3. ASSUME NEW t \in Threads, NEW p \in Prints, Enter(t, p) PROVE PatternType'
      BY <2>3 DEF Enter
    <2>4. ASSUME NEW t \in Threads, RefuseCeiling(t) \/ RefuseRunaway(t) \/ Admit(t)
          PROVE  PatternType'
      BY <2>4 DEF RefuseCeiling, RefuseRunaway, Admit
    <2>5. ASSUME NEW t \in Threads, MatchNothing(t) \/ MatchBroken(t) \/ MatchCapped(t)
          PROVE  PatternType'
      BY <2>5 DEF MatchNothing, MatchBroken, MatchCapped, Recent
    <2>6. ASSUME NEW t \in Threads, Arm(t) PROVE PatternType'
      <3>1. [call |-> Current(t), at |-> now] \in [call : Threads \X Nat, at : 0 .. now]
        BY <1>0 DEF Current
      <3> QED BY <2>6, <3>1, KeyType DEF Arm, Recent
    <2>7. ASSUME NEW t \in Threads, AddDuration(t) PROVE PatternType'
      BY <2>7 DEF AddDuration
    <2>8. ASSUME NEW t \in Threads, ReportSuccess(t) \/ ReportFailure(t) PROVE PatternType'
      <3>1. Key(t) \in Keys
        BY <2>8, KeyType DEF ReportSuccess, ReportFailure, PlaceInv
      <3> DEFINE R == [success : BOOLEAN, at : 0 .. now]
      <3>2. \A b \in BOOLEAN : Append(reports[Key(t)], [success |-> b, at |-> now]) \in Seq(R)
        <4>1. reports[Key(t)] \in Seq(R)
          BY <3>1
        <4>2. \A b \in BOOLEAN : [success |-> b, at |-> now] \in R
          BY <1>0
        <4> HIDE DEF R
        <4> QED BY <4>1, <4>2
      <3>3. reports' \in [Keys -> Seq(R)]
        BY <2>8, <3>1, <3>2 DEF ReportSuccess, ReportFailure, Reported
      <3>4. failures' \in [Keys -> Nat] /\ disabled_until' \in [Keys -> Nat]
        <4>1. CASE ReportSuccess(t)
          BY <4>1, <3>1 DEF ReportSuccess
        <4>2. CASE ReportFailure(t)
          <5>1. now + DisableFor \in Nat
            BY <1>0, LimitAssumption
          <5>2. failures' \in [Keys -> Nat]
            BY <4>2, <3>1 DEF ReportFailure
          <5>3. disabled_until' \in [Keys -> Nat]
            BY <4>2, <5>1, <3>1 DEF ReportFailure
          <5> QED BY <5>2, <5>3
        <4> QED BY <2>8, <4>1, <4>2
      <3> QED BY <2>8, <3>3, <3>4 DEF ReportSuccess, ReportFailure
    <2> QED BY <2>1, <2>2, <2>3, <2>4, <2>5, <2>6, <2>7, <2>8 DEF Next, ThreadStep
  <1> QED BY <1>1, <1>2, <1>3 DEF TypeOK, ThreadType, BudgetType, PatternType

LEMMA NextType ==
  ASSUME TypeOK, PlaceInv, [Next]_vars
  PROVE  TypeOK' /\ PlaceInv'
  <1>1. CASE Tick
    BY <1>1, TickType
  <1>2. CASE now' = now
    BY <1>2, StepType
  <1>3. Tick \/ now' = now
    BY DEF Next, ThreadStep, vars, RaiseCeiling, Enter, RefuseCeiling, RefuseRunaway, Admit,
           MatchNothing, MatchBroken, MatchCapped, Arm, AddDuration, ReportSuccess, ReportFailure
  <1> QED BY <1>1, <1>2, <1>3

(* Type correctness of the guards, for any threads, keys, limits, bounds.   *)
THEOREM GuardsTypeCorrect == Spec => []TypeOK
  <1>1. Init => TypeOK /\ PlaceInv
    BY InitType
  <1>2. (TypeOK /\ PlaceInv) /\ [Next]_vars => (TypeOK /\ PlaceInv)'
    BY NextType
  <1> QED BY <1>1, <1>2, PTL DEF Spec
-----------------------------------------------------------------------------
(* The budget: a call that has passed is one that its thread has started,   *)
(* and not the one that the thread is waiting to have checked.              *)
CountInv ==
  /\ IsFiniteSet(admitted)
  /\ \A a \in admitted :
       /\ a.call \in Threads \X Nat /\ a.call[2] <= calls[a.call[1]]
       /\ a.print \in Prints /\ a.started \in 0 .. a.at /\ a.at \in 0 .. now
  /\ \A t \in Threads : pc[t] = "check" => \A a \in admitted : a.call # Current(t)
  /\ total_calls = Cardinality(admitted)
  /\ max_calls # None => total_calls <= max_calls

TypeInv == TypeOK /\ PlaceInv

NewCall(t) ==
  [call |-> Current(t), print |-> print[t], started |-> stamp[t], at |-> now]

LEMMA InitCount == Init => CountInv
  <1> SUFFICES ASSUME Init PROVE CountInv
    OBVIOUS
  <1>1. IsFiniteSet(admitted) /\ Cardinality(admitted) = 0
    BY FS_EmptySet DEF Init
  <1>2. max_calls # None => 0 <= max_calls
    BY LimitAssumption DEF Init
  <1> QED BY <1>1, <1>2 DEF Init, CountInv

LEMMA AdmitCount ==
  ASSUME TypeInv, CountInv, NEW t \in Threads, Admit(t)
  PROVE  CountInv'
  <1>1. admitted' = admitted \cup {NewCall(t)} /\ NewCall(t) \notin admitted
    BY DEF Admit, NewCall, CountInv
  <1>2. /\ IsFiniteSet(admitted')
        /\ Cardinality(admitted') = Cardinality(admitted) + 1
    BY <1>1, FS_AddElement DEF CountInv
  <1>3. total_calls' = Cardinality(admitted')
    BY <1>2 DEF CountInv, Admit
  <1>4. ASSUME max_calls' # None PROVE total_calls' <= max_calls'
    <2>1. max_calls \in Nat /\ total_calls \in Nat /\ ~ (total_calls >= max_calls)
      BY <1>4, LimitAssumption DEF Admit, CeilingReached, TypeInv, TypeOK
    <2> QED BY <2>1 DEF Admit
  <1>5. /\ Current(t) \in Threads \X Nat /\ Current(t)[2] <= calls[Current(t)[1]]
        /\ print[t] \in Prints /\ stamp[t] \in 0 .. now /\ now \in 0 .. now
    BY DEF Current, TypeInv, TypeOK, Moments
  <1>6. \A a \in admitted' :
          /\ a.call \in Threads \X Nat /\ a.call[2] <= calls'[a.call[1]]
          /\ a.print \in Prints /\ a.started \in 0 .. a.at /\ a.at \in 0 .. now'
    <2>1. calls' = calls /\ now' = now
      BY DEF Admit, thread
    <2>2. \A a \in admitted :
            /\ a.call \in Threads \X Nat /\ a.call[2] <= calls[a.call[1]]
            /\ a.print \in Prints /\ a.started \in 0 .. a.at /\ a.at \in 0 .. now
      BY DEF CountInv
    <2>3. /\ NewCall(t).call = Current(t) /\ NewCall(t).print = print[t]
          /\ NewCall(t).started = stamp[t] /\ NewCall(t).at = now
      BY DEF NewCall
    <2> QED BY <1>1, <1>5, <2>1, <2>2, <2>3
  <1>7. ASSUME NEW u \in Threads, pc'[u] = "check", NEW a \in admitted'
        PROVE  a.call # Current(u)'
    <2>1. u # t /\ pc[u] = "check" /\ Current(u)' = Current(u) /\ Current(u) # Current(t)
      <3>1. pc' = [pc EXCEPT ![t] = "match"] /\ calls' = calls /\ pc \in [Threads -> {"idle", "check", "match", "over", "report"}]
        BY DEF Admit, Go, thread, TypeInv, TypeOK
      <3>2. u # t /\ pc[u] = "check"
        BY <1>7, <3>1
      <3> QED BY <3>1, <3>2 DEF Current
    <2> QED BY <1>1, <1>7, <2>1 DEF CountInv, NewCall
  <1> QED BY <1>2, <1>3, <1>4, <1>6, <1>7 DEF CountInv

LEMMA EnterCount ==
  ASSUME TypeInv, CountInv, NEW t \in Threads, NEW p \in Prints, Enter(t, p)
  PROVE  CountInv'
  <1>1. /\ calls'[t] = calls[t] + 1 /\ calls[t] \in Nat
        /\ \A u \in Threads \ {t} : calls'[u] = calls[u] /\ pc'[u] = pc[u]
        /\ \A u \in Threads : calls[u] \in Nat
    BY DEF Enter, Go, TypeInv, TypeOK
  <1>2. \A a \in admitted : a.call[2] <= calls'[a.call[1]]
    <2> TAKE a \in admitted
    <2>1. a.call[1] \in Threads /\ a.call[2] \in Nat /\ a.call[2] <= calls[a.call[1]]
      BY DEF CountInv
    <2> QED BY <1>1, <2>1
  <1>3. ASSUME NEW u \in Threads, pc'[u] = "check", NEW a \in admitted
        PROVE  a.call # Current(u)'
    <2>1. CASE u = t
      <3>1. a.call[1] \in Threads /\ a.call[2] \in Nat /\ a.call[2] <= calls[a.call[1]]
        BY DEF CountInv
      <3>2. Current(u)'[1] = t /\ Current(u)'[2] = calls[t] + 1
        BY <1>1, <2>1 DEF Current
      <3> QED BY <1>1, <3>1, <3>2
    <2>2. CASE u # t
      BY <1>1, <1>3, <2>2 DEF CountInv, Current
    <2> QED BY <2>1, <2>2
  <1> QED BY <1>2, <1>3 DEF CountInv, Enter, budget

LEMMA NextCount ==
  ASSUME TypeInv, CountInv, [Next]_vars
  PROVE  CountInv'
  <1> USE DEF thread, budget, CountInv, Current, Go
  <1>1. CASE UNCHANGED vars
    BY <1>1 DEF vars
  <1>2. CASE Tick
    BY <1>2 DEF Tick, TypeInv, TypeOK, Moments
  <1>3. ASSUME NEW ceiling \in Ceilings, RaiseCeiling(ceiling) PROVE CountInv'
    <2>1. ASSUME ceiling # None PROVE total_calls <= ceiling
      <3>1. max_calls \in Nat /\ ceiling \in Nat /\ max_calls < ceiling /\ total_calls <= max_calls
            /\ total_calls \in Nat
        BY <1>3, <2>1, LimitAssumption DEF RaiseCeiling, TypeInv, TypeOK
      <3> QED BY <3>1
    <2> QED BY <1>3, <2>1 DEF RaiseCeiling
  <1>4. ASSUME NEW t \in Threads, NEW p \in Prints, Enter(t, p) PROVE CountInv'
    BY <1>4, EnterCount
  <1>5. ASSUME NEW t \in Threads, Admit(t) PROVE CountInv'
    BY <1>5, AdmitCount
  <1>6. ASSUME NEW t \in Threads, ThreadStep(t), ~ Admit(t) PROVE CountInv'
    <2>1. UNCHANGED <<now, calls, max_calls, total_calls, admitted>>
      BY <1>6 DEF ThreadStep, RefuseCeiling, RefuseRunaway, MatchNothing, MatchBroken, MatchCapped,
                  Arm, AddDuration, ReportSuccess, ReportFailure
    <2>2. \A u \in Threads : pc'[u] = "check" => pc[u] = "check"
      BY <1>6 DEF ThreadStep, RefuseCeiling, RefuseRunaway, MatchNothing, MatchBroken, MatchCapped,
                  Arm, AddDuration, ReportSuccess, ReportFailure, Reported, Leave, TypeInv, TypeOK
    <2> QED BY <2>1, <2>2
  <1> QED BY <1>1, <1>2, <1>3, <1>4, <1>5, <1>6 DEF Next, ThreadStep

LEMMA TypeAlways == Spec => []TypeInv
  <1>1. Init => TypeInv
    BY InitType DEF TypeInv
  <1>2. TypeInv /\ [Next]_vars => TypeInv'
    BY NextType DEF TypeInv
  <1> QED BY <1>1, <1>2, PTL DEF Spec

LEMMA CountAlways == Spec => []CountInv
  <1> QED BY InitCount, NextCount, TypeAlways, PTL DEF Spec

(* However the threads interleave, the counter equals the calls that the    *)
(* budget let pass, and these never exceed a ceiling that is only raised.   *)
THEOREM CallsAreCounted == Spec => []CallsCounted
  <1>1. CountInv => CallsCounted
    BY DEF CountInv, CallsCounted
  <1> QED BY <1>1, CountAlways, PTL

-----------------------------------------------------------------------------
(* The circuit breaker. *)

Outcomes(m) == Seq([success : BOOLEAN, at : 0 .. m])

Trips(report, i) ==
  i >= Threshold /\ \A j \in (i - Threshold) + 1 .. i : ~ report[j].success

(* The counter reaches back to the last success; a breaker that the reports *)
(* trip is open for DisableFor from the one that did.                       *)
Sound(report, failed, until) ==
  /\ failed < Len(report) => report[Len(report) - failed].success
  /\ \A i \in DOMAIN report : Trips(report, i) => report[i].at + DisableFor <= until

BreakInv == \A k \in Keys : Sound(reports[k], failures[k], disabled_until[k])

(* What a report of this outcome leaves of the breaker.                     *)
LEMMA ReportKeeps ==
  ASSUME NEW m \in Nat, NEW r \in Outcomes(m),
         NEW f \in Nat, NEW d \in Nat, NEW success \in BOOLEAN, NEW e \in Nat,
         Sound(r, f, d),
         e = IF ~ success /\ f + 1 >= Threshold THEN m + DisableFor ELSE d,
         NEW q, q = Append(r, [success |-> success, at |-> m]),
         NEW g, g = IF success THEN 0 ELSE f + 1
  PROVE  Sound(q, g, e)
  <1> DEFINE n == Len(r)
  <1>1. /\ n \in Nat /\ DOMAIN r = 1 .. n /\ Len(q) = n + 1 /\ DOMAIN q = 1 .. n + 1
        /\ \A i \in 1 .. n : q[i] = r[i] /\ r[i].at \in 0 .. m /\ r[i].success \in BOOLEAN
        /\ q[n + 1] = [success |-> success, at |-> m]
    <2> DEFINE R == [success : BOOLEAN, at : 0 .. m]
               x == [success |-> success, at |-> m]
    <2>1. r \in Seq(R) /\ x \in R
      BY DEF Outcomes
    <2>2. \A y \in R : y.at \in 0 .. m /\ y.success \in BOOLEAN
      OBVIOUS
    <2> HIDE DEF R, x
    <2>3. n \in Nat /\ DOMAIN r = 1 .. n /\ \A i \in 1 .. n : r[i] \in R
      BY <2>1, ElementOfSeq
    <2>4. /\ Append(r, x) \in Seq(R) /\ Len(Append(r, x)) = n + 1
          /\ \A i \in 1 .. n : Append(r, x)[i] = r[i]
          /\ Append(r, x)[n + 1] = x
      BY <2>1, <2>3, AppendProperties
    <2>5. DOMAIN Append(r, x) = 1 .. n + 1
      BY <2>4
    <2> QED BY <2>2, <2>3, <2>4, <2>5 DEF x
  <1>2. Threshold \in Nat \ {0} /\ DisableFor \in Nat \ {0}
    BY LimitAssumption
  <1> HIDE DEF n
  <1>3. g < n + 1 => q[n + 1 - g].success
    <2>1. CASE success
      BY <2>1, <1>1
    <2>2. CASE ~ success
      <3>1. ASSUME f + 1 < n + 1 PROVE q[n - f].success
        <4>1. n - f \in 1 .. n /\ r[n - f].success
          BY <3>1, <1>1 DEF n, Sound
        <4> QED BY <4>1, <1>1
      <3>2. n + 1 - (f + 1) = n - f
        BY <1>1
      <3> QED BY <2>2, <3>1, <3>2
    <2> QED BY <2>1, <2>2
  <1>4. ASSUME NEW i \in 1 .. n, Trips(q, i) PROVE q[i].at + DisableFor <= e
    <2>1. Trips(r, i)
      BY <1>4, <1>1, <1>2 DEF Trips
    <2>2. r[i].at \in 0 .. m /\ i \in DOMAIN r
      BY <1>1
    <2>3. r[i].at + DisableFor <= d
      BY <2>1, <2>2 DEF Sound
    <2>4. r[i].at + DisableFor <= m + DisableFor
      BY <2>2, <1>2
    <2> QED BY <2>3, <2>4, <1>1
  <1>5. ASSUME Trips(q, n + 1) PROVE m + DisableFor <= e
    <2>1. ~ success
      BY <1>5, <1>1, <1>2 DEF Trips
    <2>2. f + 1 >= Threshold
      <3>1. SUFFICES ASSUME f + 1 < Threshold PROVE FALSE
        BY <1>2
      <3>2. n - f \in (n + 1 - Threshold) + 1 .. n /\ f < n
        BY <3>1, <1>5, <1>1, <1>2 DEF Trips
      <3>3. r[n - f].success /\ q[n - f] = r[n - f] /\ n - f \in (n + 1 - Threshold) + 1 .. n + 1
        <4>1. n + 1 >= Threshold
          BY <1>5 DEF Trips
        <4>2. n - f \in 1 .. n /\ n - f \in (n + 1 - Threshold) + 1 .. n + 1
          BY <4>1, <3>2, <1>1, <1>2
        <4>3. r[n - f].success
          BY <3>2 DEF n, Sound
        <4> QED BY <4>2, <4>3, <1>1
      <3>4. \A j \in (n + 1 - Threshold) + 1 .. n + 1 : ~ q[j].success
        BY <1>5, <1>1, <1>2 DEF Trips
      <3> QED BY <3>3, <3>4
    <2> QED BY <2>1, <2>2, <1>2
  <1>6. ASSUME NEW i \in DOMAIN q, Trips(q, i) PROVE q[i].at + DisableFor <= e
    BY <1>4, <1>5, <1>6, <1>1
  <1> QED BY <1>1, <1>3, <1>6 DEF Sound

LEMMA InitBreak == Init => BreakInv
  BY DEF Init, BreakInv, Sound

LEMMA ReportBreak ==
  ASSUME TypeInv, BreakInv, NEW t \in Threads, NEW success \in BOOLEAN,
         pc[t] = "report",
         failures' = [failures EXCEPT ![Key(t)] = IF success THEN 0 ELSE @ + 1],
         disabled_until' = IF ~ success /\ failures[Key(t)] + 1 >= Threshold
                           THEN [disabled_until EXCEPT ![Key(t)] = now + DisableFor]
                           ELSE disabled_until,
         reports' = [reports EXCEPT ![Key(t)] = Append(@, [success |-> success, at |-> now])]
  PROVE  BreakInv'
  <1> DEFINE k == Key(t)
  <1>1. k \in Keys
    BY KeyType DEF TypeInv, TypeOK, PlaceInv
  <1>2. /\ reports \in [Keys -> Outcomes(now)] /\ failures \in [Keys -> Nat] /\ now \in Nat
        /\ disabled_until \in [Keys -> Nat] /\ DisableFor \in Nat
    <2>1. reports \in [Keys -> Outcomes(now)]
      BY DEF TypeInv, TypeOK, Outcomes
    <2> QED BY <2>1, LimitAssumption DEF TypeInv, TypeOK, Moments
  <1>3. \A o \in Keys \ {k} :
          failures'[o] = failures[o] /\ reports'[o] = reports[o] /\ disabled_until'[o] = disabled_until[o]
    BY <1>2
  <1> DEFINE e == IF ~ success /\ failures[k] + 1 >= Threshold THEN now + DisableFor ELSE disabled_until[k]
  <1>4. /\ failures'[k] = IF success THEN 0 ELSE failures[k] + 1
        /\ reports'[k] = Append(reports[k], [success |-> success, at |-> now])
        /\ disabled_until'[k] = e /\ e \in Nat
    BY <1>1, <1>2
  <1>5. Sound(reports[k], failures[k], disabled_until[k])
    BY <1>1 DEF BreakInv
  <1>6. /\ reports[k] \in Outcomes(now)
        /\ failures[k] \in Nat /\ disabled_until[k] \in Nat
    BY <1>1, <1>2
  <1> HIDE DEF k, e
  <1>7. e = IF ~ success /\ failures[k] + 1 >= Threshold THEN now + DisableFor ELSE disabled_until[k]
    BY DEF e
  <1>8. Sound(reports'[k], failures'[k], disabled_until'[k])
    <2> DEFINE r == reports[k]
               f == failures[k]
               d == disabled_until[k]
               q == reports'[k]
               g == failures'[k]
    <2>1. now \in Nat /\ r \in Outcomes(now) /\ f \in Nat /\ d \in Nat /\ e \in Nat
      BY <1>2, <1>4, <1>6
    <2>2. /\ q = Append(r, [success |-> success, at |-> now])
          /\ g = IF success THEN 0 ELSE f + 1
          /\ e = IF ~ success /\ f + 1 >= Threshold THEN now + DisableFor ELSE d
      BY <1>4, <1>7
    <2>3. Sound(r, f, d)
      BY <1>5
    <2>4. disabled_until'[k] = e
      BY <1>4
    <2> HIDE DEF r, f, d, q, g
    <2>5. Sound(q, g, e)
      BY <2>1, <2>2, <2>3, ReportKeeps
    <2> QED BY <2>4, <2>5 DEF q, g
  <1> QED BY <1>3, <1>8 DEF BreakInv, Sound, Trips

LEMMA NextBreak ==
  ASSUME TypeInv, BreakInv, [Next]_vars
  PROVE  BreakInv'
  <1>1. CASE UNCHANGED breaker
    BY <1>1 DEF BreakInv, Sound, Trips, breaker
  <1>2. ASSUME NEW t \in Threads, ReportSuccess(t) PROVE BreakInv'
    BY <1>2, ReportBreak DEF ReportSuccess, Reported
  <1>3. ASSUME NEW t \in Threads, ReportFailure(t) PROVE BreakInv'
    BY <1>3, ReportBreak DEF ReportFailure, Reported
  <1>4. \/ UNCHANGED breaker
        \/ \E t \in Threads : ReportSuccess(t) \/ ReportFailure(t)
    BY DEF Next, ThreadStep, vars, Tick, RaiseCeiling, Enter, RefuseCeiling, RefuseRunaway, Admit,
           MatchNothing, MatchBroken, MatchCapped, Arm, AddDuration, pattern, breaker
  <1> QED BY <1>1, <1>2, <1>3, <1>4

LEMMA BreakAlways == Spec => []BreakInv
  <1> QED BY InitBreak, NextBreak, TypeAlways, PTL DEF Spec

(* A pattern does not fire within DisableFor of the report that completed   *)
(* Threshold failures in a row, whatever its earlier calls report later.    *)
THEOREM BreakerStaysOpen == Spec => BreakerHolds
  <1> DEFINE Fires == \A a \in armings' \ armings : ~ Tripped(a.key)
  <1>1. ASSUME TypeInv, BreakInv, [Next]_vars PROVE Fires
    <2>1. ASSUME NEW t \in Threads, Arm(t), NEW a \in armings' \ armings PROVE ~ Tripped(a.key)
      <3>1. a.key = Key(t) /\ Key(t) \in Keys /\ now >= disabled_until[Key(t)]
        BY <1>1, <2>1, KeyType DEF Arm, TypeInv
      <3>2. ASSUME NEW i \in DOMAIN reports[Key(t)], Trips(reports[Key(t)], i)
            PROVE  ~ (now < reports[Key(t)][i].at + DisableFor)
        <4>1. reports[Key(t)][i].at + DisableFor <= disabled_until[Key(t)]
          BY <1>1, <3>1, <3>2 DEF BreakInv, Sound
        <4>2. reports[Key(t)] \in Seq([success : BOOLEAN, at : 0 .. now])
          BY <1>1, <3>1 DEF TypeInv, TypeOK
        <4>3. reports[Key(t)][i] \in [success : BOOLEAN, at : 0 .. now]
          <5> DEFINE R == [success : BOOLEAN, at : 0 .. now]
          <5>1. reports[Key(t)] \in Seq(R)
            BY <4>2
          <5> HIDE DEF R
          <5>2. reports[Key(t)][i] \in R
            BY <5>1, <3>2, ElementOfSeq
          <5> QED BY <5>2 DEF R
        <4>4. reports[Key(t)][i].at \in Nat /\ disabled_until[Key(t)] \in Nat /\ now \in Nat
          BY <1>1, <4>3, <3>1 DEF TypeInv, TypeOK, Moments
        <4> QED BY <4>1, <4>4, <3>1, LimitAssumption
      <3> QED BY <3>1, <3>2 DEF Tripped, Trips
    <2>2. armings' = armings \/ \E t \in Threads : Arm(t)
      BY <1>1 DEF Next, ThreadStep, vars, Tick, RaiseCeiling, Enter, RefuseCeiling, RefuseRunaway,
             Admit, MatchNothing, MatchBroken, MatchCapped, AddDuration, ReportSuccess,
             ReportFailure, Reported, pattern, breaker
    <2> QED BY <2>1, <2>2
  <1>2. TypeInv /\ BreakInv /\ [Next]_vars => [Fires]_vars
    BY <1>1
  <1> QED BY <1>2, TypeAlways, BreakAlways, PTL DEF Spec, BreakerHolds

-----------------------------------------------------------------------------
(* The rate limits. *)

(* An arming is kept for a day. *)
ArmsInv ==
  /\ IsFiniteSet(armings)
  /\ armings \subseteq [call : Threads \X Nat, key : Keys, at : 0 .. now]
  /\ \A k \in Keys : IsFiniteSet(arms[k])
  /\ \A a \in armings : a.at + Day > now => [call |-> a.call, at |-> a.at] \in arms[a.key]

Within(k, long) == {a \in arms[k] : a.at + long > now}

NewArming(t) == [call |-> Current(t), key |-> Key(t), at |-> now]

LEMMA InitArms == Init => ArmsInv
  BY FS_EmptySet DEF Init, ArmsInv

LEMMA ArmArms ==
  ASSUME TypeInv, ArmsInv, NEW t \in Threads, Arm(t)
  PROVE  ArmsInv'
  <1> DEFINE k == Key(t)
             r == [call |-> Current(t), at |-> now]
             x == NewArming(t)
  <1>1. k \in Keys /\ Current(t) \in Threads \X Nat /\ now \in Nat /\ now' = now
    <2>1. Key(t) \in Keys
      BY KeyType DEF Arm, TypeInv
    <2>2. Current(t) \in Threads \X Nat /\ now \in Nat
      BY DEF TypeInv, TypeOK, Current, Moments
    <2> QED BY <2>1, <2>2 DEF Arm
  <1>2. armings' = armings \cup {x} /\ arms' = [arms EXCEPT ![k] = Recent(k) \cup {r}]
    BY DEF Arm, NewArming
  <1>3. IsFiniteSet(armings')
    BY <1>2, FS_AddElement DEF ArmsInv
  <1>4. armings' \subseteq [call : Threads \X Nat, key : Keys, at : 0 .. now']
    BY <1>1, <1>2 DEF ArmsInv, NewArming
  <1>5. \A o \in Keys \ {k} : arms'[o] = arms[o]
    BY <1>2 DEF TypeInv, TypeOK
  <1>6. arms'[k] = Recent(k) \cup {r}
    BY <1>1, <1>2 DEF TypeInv, TypeOK
  <1>7. IsFiniteSet(Recent(k) \cup {r})
    <2>1. IsFiniteSet(Recent(k))
      BY <1>1, FS_Subset DEF ArmsInv, Recent
    <2> QED BY <2>1, FS_AddElement
  <1>8. \A o \in Keys : IsFiniteSet(arms'[o])
    BY <1>5, <1>6, <1>7 DEF ArmsInv
  <1>9. ASSUME NEW a \in armings', a.at + Day > now'
        PROVE  [call |-> a.call, at |-> a.at] \in arms'[a.key]
    <2>1. CASE a = x
      <3>1. a.call = Current(t) /\ a.at = now /\ a.key = k
        BY <2>1 DEF NewArming
      <3> QED BY <3>1, <1>6
    <2>2. CASE a # x
      <3>1. a \in armings
        BY <1>2, <2>2
      <3>2. a.key \in Keys /\ [call |-> a.call, at |-> a.at] \in arms[a.key]
        BY <1>1, <1>9, <3>1 DEF ArmsInv
      <3>3. CASE a.key = k
        BY <1>1, <1>6, <1>9, <3>2, <3>3 DEF Recent
      <3> QED BY <1>5, <3>2, <3>3
    <2> QED BY <2>1, <2>2
  <1> QED BY <1>3, <1>4, <1>8, <1>9 DEF ArmsInv

LEMMA NextArms ==
  ASSUME TypeInv, ArmsInv, [Next]_vars
  PROVE  ArmsInv'
  <1>1. CASE UNCHANGED <<now, arms, armings>>
    BY <1>1 DEF ArmsInv
  <1>2. CASE Tick
    <2>1. now \in Nat /\ now' = now + 1 /\ UNCHANGED <<arms, armings>>
      BY <1>2 DEF Tick, pattern, TypeInv, TypeOK, Moments
    <2>2. armings' \subseteq [call : Threads \X Nat, key : Keys, at : 0 .. now']
      BY <2>1 DEF ArmsInv
    <2>3. \A a \in armings : a.at \in Nat /\ (a.at + Day > now' => a.at + Day > now)
      BY <2>1, LimitAssumption DEF ArmsInv
    <2> QED BY <2>1, <2>2, <2>3 DEF ArmsInv
  <1>3. ASSUME NEW t \in Threads, MatchCapped(t) PROVE ArmsInv'
    <2>1. Key(t) \in Keys /\ now \in Nat /\ UNCHANGED <<now, armings>>
      <3>1. Key(t) \in Keys
        BY <1>3, KeyType DEF MatchCapped, TypeInv
      <3> QED BY <1>3, <3>1 DEF MatchCapped, TypeInv, TypeOK, Moments
    <2>2. /\ arms'[Key(t)] = Recent(Key(t))
          /\ \A o \in Keys \ {Key(t)} : arms'[o] = arms[o]
      BY <1>3, <2>1 DEF MatchCapped, TypeInv, TypeOK
    <2>3. \A o \in Keys : IsFiniteSet(arms'[o])
      <3>1. IsFiniteSet(Recent(Key(t)))
        BY <2>1, FS_Subset DEF ArmsInv, Recent
      <3> QED BY <2>2, <3>1 DEF ArmsInv
    <2>4. ASSUME NEW a \in armings, a.at + Day > now
          PROVE  [call |-> a.call, at |-> a.at] \in arms'[a.key]
      <3>1. a.key \in Keys /\ [call |-> a.call, at |-> a.at] \in arms[a.key]
        BY <2>4 DEF ArmsInv
      <3>2. CASE a.key = Key(t)
        BY <2>2, <2>4, <3>1, <3>2 DEF Recent
      <3> QED BY <2>2, <3>1, <3>2
    <2> QED BY <2>1, <2>3, <2>4 DEF ArmsInv
  <1>4. ASSUME NEW t \in Threads, Arm(t) PROVE ArmsInv'
    BY <1>4, ArmArms
  <1>5. \/ UNCHANGED <<now, arms, armings>> \/ Tick
        \/ \E t \in Threads : MatchCapped(t) \/ Arm(t)
    BY DEF Next, ThreadStep, vars, RaiseCeiling, Enter, RefuseCeiling, RefuseRunaway, Admit,
           MatchNothing, MatchBroken, AddDuration, ReportSuccess, ReportFailure, pattern
  <1> QED BY <1>1, <1>2, <1>3, <1>4, <1>5

LEMMA ArmsAlways == Spec => []ArmsInv
  <1> QED BY InitArms, NextArms, TypeAlways, PTL DEF Spec

(* While a stretch that is no longer than a day lasts, the armings in it    *)
(* are among the moments that are counted.                                  *)
LEMMA FiredAreKept ==
  ASSUME TypeInv, ArmsInv, NEW k \in Keys, NEW from \in Nat, NEW long \in Nat, long <= Day,
         from <= now, now < from + long
  PROVE  /\ IsFiniteSet(FiredIn(k, from, long)) /\ IsFiniteSet(Within(k, long))
         /\ Cardinality(FiredIn(k, from, long)) <= Cardinality(Within(k, long))
  <1> DEFINE F == FiredIn(k, from, long)
             W == Within(k, long)
             f == [a \in F |-> [call |-> a.call, at |-> a.at]]
  <1>0. now \in Nat /\ Day \in Nat
    BY LimitAssumption DEF TypeInv, TypeOK, Moments
  <1>1. IsFiniteSet(W)
    BY FS_Subset DEF ArmsInv, Within
  <1>2. ASSUME NEW a \in F PROVE f[a] \in W
    <2>1. a \in armings /\ a.key = k /\ from <= a.at /\ a.at \in Nat
      BY DEF FiredIn, ArmsInv
    <2>2. a.at + long > now /\ a.at + Day > now
      BY <1>0, <2>1
    <2>3. [call |-> a.call, at |-> a.at] \in arms[k]
      BY <2>1, <2>2 DEF ArmsInv
    <2> QED BY <2>2, <2>3 DEF Within
  <1>3. ASSUME NEW a \in F, NEW b \in F, f[a] = f[b] PROVE a = b
    <2>1. /\ a \in [call : Threads \X Nat, key : Keys, at : 0 .. now]
          /\ b \in [call : Threads \X Nat, key : Keys, at : 0 .. now]
          /\ a.key = k /\ b.key = k
      BY DEF FiredIn, ArmsInv
    <2>2. [call |-> a.call, at |-> a.at] = [call |-> b.call, at |-> b.at]
      BY <1>3
    <2>3. a.call = b.call /\ a.at = b.at
      BY <2>2
    <2> QED BY <2>1, <2>3
  <1>4. f \in Injection(F, W)
    <2>1. f \in [F -> W]
      BY <1>2
    <2>2. \A a, b \in F : f[a] = f[b] => a = b
      BY <1>3
    <2> HIDE DEF f, F, W
    <2> QED BY <2>1, <2>2 DEF Injection, IsInjective
  <1> HIDE DEF F, W, f
  <1>5. IsFiniteSet(F) /\ Cardinality(F) <= Cardinality(W)
    BY <1>1, <1>4, FS_Injection
  <1> QED BY <1>1, <1>5 DEF F, W

(* An arming that the cap lets pass. *)
LEMMA ArmKeepsCap ==
  ASSUME TypeInv, ArmsInv, NEW t \in Threads, Arm(t), NEW long \in Nat, long <= Day,
         NEW max \in Nat, Cardinality(Within(Key(t), long)) < max,
         NEW k \in Keys, NEW from \in Nat, Cardinality(FiredIn(k, from, long)) <= max
  PROVE  Cardinality(FiredIn(k, from, long)') <= max
  <1> DEFINE x == NewArming(t)
  <1>1. now \in Nat /\ armings' = armings \cup {x} /\ x.at = now /\ x.key = Key(t)
    BY DEF Arm, NewArming, TypeInv, TypeOK, Moments
  <1> HIDE DEF x
  <1>2. CASE x.key = k /\ from <= now /\ now < from + long
    <2>1. FiredIn(k, from, long)' = FiredIn(k, from, long) \cup {x}
      BY <1>1, <1>2 DEF FiredIn
    <2>2. /\ IsFiniteSet(FiredIn(k, from, long)) /\ IsFiniteSet(Within(k, long))
          /\ Cardinality(FiredIn(k, from, long)) <= Cardinality(Within(k, long))
      BY <1>2, FiredAreKept
    <2>3. /\ Cardinality(FiredIn(k, from, long)) \in Nat
          /\ Cardinality(Within(k, long)) \in Nat
      BY <2>2, FS_CardinalityType
    <2>4. Cardinality(FiredIn(k, from, long) \cup {x}) <= Cardinality(FiredIn(k, from, long)) + 1
      <3> DEFINE F == FiredIn(k, from, long)
      <3>1. IsFiniteSet(F) /\ Cardinality(F) \in Nat
        BY <2>2, <2>3
      <3> HIDE DEF F
      <3>2. Cardinality(F \cup {x}) = IF x \in F THEN Cardinality(F) ELSE Cardinality(F) + 1
        BY <3>1, FS_AddElement
      <3>3. Cardinality(F \cup {x}) <= Cardinality(F) + 1
        BY <3>1, <3>2
      <3> QED BY <3>3 DEF F
    <2>5. Cardinality(FiredIn(k, from, long) \cup {x}) \in Nat
      BY <2>2, FS_AddElement, FS_CardinalityType
    <2> QED BY <1>1, <1>2, <2>1, <2>2, <2>3, <2>4, <2>5
  <1>3. CASE ~ (x.key = k /\ from <= now /\ now < from + long)
    <2>1. FiredIn(k, from, long)' = FiredIn(k, from, long)
      BY <1>1, <1>3 DEF FiredIn
    <2> QED BY <2>1
  <1> QED BY <1>2, <1>3

LEMMA InitRate == Init => RateLimited
  <1> SUFFICES ASSUME Init PROVE RateLimited
    OBVIOUS
  <1>1. \A k, from, long : FiredIn(k, from, long) = {}
    BY DEF Init, FiredIn
  <1> QED BY <1>1, FS_EmptySet, LimitAssumption DEF RateLimited

LEMMA NextRate ==
  ASSUME TypeInv, ArmsInv, RateLimited, [Next]_vars
  PROVE  RateLimited'
  <1>1. CASE armings' = armings
    BY <1>1 DEF RateLimited, FiredIn, Moments
  <1>2. ASSUME NEW t \in Threads, Arm(t) PROVE RateLimited'
    <2> SUFFICES ASSUME NEW k \in Keys, NEW from \in Moments
                 PROVE  /\ MaxPerHour > 0 => Cardinality(FiredIn(k, from, Hour)') <= MaxPerHour
                        /\ MaxPerDay > 0 => Cardinality(FiredIn(k, from, Day)') <= MaxPerDay
      BY DEF RateLimited, Moments, FiredIn
    <2>0. /\ from \in Nat /\ Hour \in Nat /\ Day \in Nat /\ Hour <= Day /\ Day <= Day
          /\ MaxPerHour \in Nat /\ MaxPerDay \in Nat
      BY LimitAssumption, BoundAssumption DEF Moments
    <2>1. Key(t) \in Keys /\ ~ Capped(Key(t))
      BY <1>2, KeyType DEF Arm, TypeInv
    <2>2. /\ IsFiniteSet(Within(Key(t), Hour)) /\ IsFiniteSet(Within(Key(t), Day))
      BY <2>1, FS_Subset DEF ArmsInv, Within
    <2>3. /\ Cardinality(Within(Key(t), Hour)) \in Nat /\ Cardinality(Within(Key(t), Day)) \in Nat
      BY <2>2, FS_CardinalityType
    <2>4. /\ MaxPerHour > 0 => ~ (Cardinality(Within(Key(t), Hour)) >= MaxPerHour)
          /\ MaxPerDay > 0 => ~ (Cardinality(Within(Key(t), Day)) >= MaxPerDay)
      BY <2>1 DEF Capped, InLastHour, Recent, Within
    <2>5. /\ MaxPerHour > 0 => Cardinality(FiredIn(k, from, Hour)) <= MaxPerHour
          /\ MaxPerDay > 0 => Cardinality(FiredIn(k, from, Day)) <= MaxPerDay
      BY DEF RateLimited
    <2>6. ASSUME MaxPerHour > 0 PROVE Cardinality(FiredIn(k, from, Hour)') <= MaxPerHour
      <3>1. Cardinality(Within(Key(t), Hour)) < MaxPerHour
        BY <2>0, <2>3, <2>4, <2>6
      <3> QED BY <1>2, <2>0, <2>5, <2>6, <3>1, ArmKeepsCap
    <2>7. ASSUME MaxPerDay > 0 PROVE Cardinality(FiredIn(k, from, Day)') <= MaxPerDay
      <3>1. Cardinality(Within(Key(t), Day)) < MaxPerDay
        BY <2>0, <2>3, <2>4, <2>7
      <3> QED BY <1>2, <2>0, <2>5, <2>7, <3>1, ArmKeepsCap
    <2> QED BY <2>6, <2>7
  <1>3. armings' = armings \/ \E t \in Threads : Arm(t)
    BY DEF Next, ThreadStep, vars, Tick, RaiseCeiling, Enter, RefuseCeiling, RefuseRunaway, Admit,
           MatchNothing, MatchBroken, MatchCapped, AddDuration, ReportSuccess, ReportFailure,
           Reported, pattern, breaker
  <1> QED BY <1>1, <1>2, <1>3

(* A pattern fires on a target no more than MaxPerHour times in any hour,   *)
(* nor MaxPerDay times in any day, whichever threads fire it.               *)
THEOREM FiringIsRateLimited == Spec => []RateLimited
  <1> QED BY InitRate, NextRate, TypeAlways, ArmsAlways, PTL DEF Spec

-----------------------------------------------------------------------------
(* The runaway breaker.  A call is live while a stretch in which it started *)
(* may still last; each has a place of its own in the window, so there are  *)
(* no more of them than the breaker counts.                                 *)

Live(p) == {a \in admitted : a.print = p /\ a.started + RunawayWindow >= now}

Placed(f, live, window) ==
  /\ f \in [live -> 1 .. Len(window)]
  /\ \A a, b \in live : f[a] = f[b] => a = b
  /\ \A a \in live : window[f[a]] = a.started

WindowInv == Watched => \A p \in Prints : \E f : Placed(f, Live(p), windows[p])

LEMMA FewerPlaced ==
  ASSUME NEW live, NEW less \in SUBSET live, NEW window, NEW f, Placed(f, live, window)
  PROVE  \E g : Placed(g, less, window)
  <1>1. Placed([a \in less |-> f[a]], less, window)
    BY DEF Placed
  <1> QED BY <1>1

(* Only stamps that nobody needs are dropped. *)
LEMMA KeptPlaced ==
  ASSUME NEW m \in Nat, NEW window \in Seq(0 .. m), NEW at \in 0 .. m, NEW live,
         \A a \in live : a.started + RunawayWindow >= at,
         NEW f, Placed(f, live, window)
  PROVE  \E g : Placed(g, live, Kept(window, at))
  <1>1. PICK d \in 0 .. Len(window) :
          /\ Len(Kept(window, at)) = Len(window) - d
          /\ \A i \in 1 .. Len(window) - d : Kept(window, at)[i] = window[i + d]
          /\ \A i \in Young(window, at) : i > d
    BY KeptIsSuffix
  <1>2. Len(window) \in Nat /\ DOMAIN window = 1 .. Len(window)
    OBVIOUS
  <1>3. \A a \in live : f[a] \in 1 .. Len(window) /\ f[a] > d
    BY <1>1, <1>2 DEF Placed, Young
  <1> DEFINE g == [a \in live |-> f[a] - d]
  <1>4. g \in [live -> 1 .. Len(Kept(window, at))]
    BY <1>1, <1>2, <1>3
  <1>5. \A a, b \in live : g[a] = g[b] => a = b
    BY <1>1, <1>2, <1>3 DEF Placed
  <1>6. ASSUME NEW a \in live PROVE Kept(window, at)[g[a]] = a.started
    <2>1. g[a] = f[a] - d /\ g[a] \in 1 .. Len(window) - d /\ g[a] + d = f[a]
      BY <1>1, <1>2, <1>3
    <2> QED BY <1>1, <2>1 DEF Placed
  <1> QED BY <1>4, <1>5, <1>6 DEF Placed

LEMMA AppendPlaced ==
  ASSUME NEW m \in Nat, NEW window \in Seq(0 .. m), NEW live, NEW x, x \notin live,
         x.started \in 0 .. m, NEW f, Placed(f, live, window)
  PROVE  \E g : Placed(g, live \cup {x}, Append(window, x.started))
  <1> DEFINE n == Len(window)
             q == Append(window, x.started)
             g == [a \in live \cup {x} |-> IF a = x THEN n + 1 ELSE f[a]]
  <1>1. n \in Nat /\ Len(q) = n + 1 /\ q[n + 1] = x.started /\ \A i \in 1 .. n : q[i] = window[i]
    BY AppendProperties
  <1>2. \A a \in live : f[a] \in 1 .. n
    BY DEF Placed
  <1> HIDE DEF n, q
  <1>3. g \in [live \cup {x} -> 1 .. Len(q)]
    BY <1>1, <1>2
  <1>4. ASSUME NEW a \in live \cup {x}, NEW b \in live \cup {x}, g[a] = g[b] PROVE a = b
    <2>1. (a = x => g[a] = n + 1) /\ (a # x => a \in live /\ g[a] = f[a])
      OBVIOUS
    <2>2. (b = x => g[b] = n + 1) /\ (b # x => b \in live /\ g[b] = f[b])
      OBVIOUS
    <2> QED BY <1>1, <1>2, <1>4, <2>1, <2>2 DEF Placed
  <1>5. ASSUME NEW a \in live \cup {x} PROVE q[g[a]] = a.started
    BY <1>1, <1>2 DEF Placed
  <1>6. Placed(g, live \cup {x}, q)
    BY <1>3, <1>4, <1>5 DEF Placed
  <1> QED BY <1>6 DEF q

LEMMA InitWindow == Init => WindowInv
  <1> SUFFICES ASSUME Init, NEW p \in Prints PROVE \E f : Placed(f, Live(p), windows[p])
    BY DEF WindowInv
  <1>1. Live(p) = {}
    BY DEF Init, Live
  <1>2. Placed([a \in {} |-> 0], {}, windows[p])
    BY DEF Placed
  <1> QED BY <1>1, <1>2

(* Where the fingerprint of a thread stands when its call is checked.       *)
LEMMA CheckedPlaced ==
  ASSUME TypeInv, CountInv, WindowInv, Watched, NEW t \in Threads
  PROVE  /\ Kept(windows[print[t]], stamp[t]) \in Seq(0 .. now)
         /\ \E g : Placed(g, Live(print[t]), Kept(windows[print[t]], stamp[t]))
  <1>1. /\ now \in Nat /\ print[t] \in Prints /\ stamp[t] \in 0 .. now
        /\ windows[print[t]] \in Seq(0 .. now) /\ RunawayWindow \in Nat
    BY LimitAssumption DEF TypeInv, TypeOK, Moments
  <1>2. PICK f : Placed(f, Live(print[t]), windows[print[t]])
    BY <1>1 DEF WindowInv
  <1>3. \A a \in Live(print[t]) : a.started + RunawayWindow >= stamp[t]
    BY <1>1 DEF Live, CountInv
  <1> QED BY <1>1, <1>2, <1>3, KeptPlaced, KeptIsSuffix

LEMMA AdmitWindow ==
  ASSUME TypeInv, CountInv, WindowInv, NEW t \in Threads, Admit(t)
  PROVE  WindowInv'
  <1> SUFFICES ASSUME Watched, NEW p \in Prints
               PROVE  \E f : Placed(f, Live(p)', windows'[p])
    BY DEF WindowInv, Watched, Placed
  <1> DEFINE x == NewCall(t)
  <1>1. /\ admitted' = admitted \cup {x} /\ x \notin admitted /\ now' = now
        /\ x.print = print[t] /\ x.started = stamp[t]
    BY DEF Admit, NewCall, CountInv
  <1> HIDE DEF x
  <1>2. /\ print[t] \in Prints /\ stamp[t] \in 0 .. now /\ now \in Nat
        /\ windows' = [windows EXCEPT ![print[t]] = Append(Kept(windows[print[t]], stamp[t]), stamp[t])]
    BY DEF Admit, TypeInv, TypeOK, Moments
  <1>3. CASE p = print[t]
    <2>1. windows'[p] = Append(Kept(windows[p], stamp[t]), stamp[t])
      BY <1>2, <1>3 DEF TypeInv, TypeOK
    <2>2. PICK g : Placed(g, Live(p), Kept(windows[p], stamp[t]))
      BY <1>3, CheckedPlaced
    <2>3. Kept(windows[p], stamp[t]) \in Seq(0 .. now)
      BY <1>3, CheckedPlaced
    <2>4. x \notin Live(p)
      BY <1>1 DEF Live
    <2>5. PICK h : Placed(h, Live(p) \cup {x}, Append(Kept(windows[p], stamp[t]), x.started))
      BY <1>1, <1>2, <2>2, <2>3, <2>4, AppendPlaced
    <2>6. Live(p)' \subseteq Live(p) \cup {x}
      BY <1>1 DEF Live
    <2>7. /\ Live(p)' \in SUBSET (Live(p) \cup {x})
          /\ windows'[p] = Append(Kept(windows[p], stamp[t]), x.started)
      BY <1>1, <2>1, <2>6
    <2> DEFINE after == Live(p)'
               placed == Live(p) \cup {x}
               window == Append(Kept(windows[p], stamp[t]), x.started)
    <2>8. after \in SUBSET placed /\ Placed(h, placed, window)
      BY <2>5, <2>7
    <2> HIDE DEF after, placed, window
    <2>9. \E f : Placed(f, after, window)
      BY <2>8, FewerPlaced
    <2> QED BY <2>7, <2>9 DEF after, window
  <1>4. CASE p # print[t]
    <2>1. windows'[p] = windows[p]
      BY <1>2, <1>4 DEF TypeInv, TypeOK
    <2>2. Live(p)' = Live(p)
      BY <1>1, <1>4 DEF Live
    <2> QED BY <2>1, <2>2 DEF WindowInv
  <1> QED BY <1>3, <1>4

LEMMA NextWindow ==
  ASSUME TypeInv, CountInv, WindowInv, [Next]_vars
  PROVE  WindowInv'
  <1>1. CASE UNCHANGED <<now, admitted, windows>>
    <2>1. \A p : Live(p)' = Live(p)
      BY <1>1 DEF Live
    <2> QED BY <1>1, <2>1 DEF WindowInv, Watched, Placed
  <1>2. CASE Tick
    <2> SUFFICES ASSUME Watched, NEW p \in Prints PROVE \E f : Placed(f, Live(p)', windows'[p])
      BY DEF WindowInv, Watched, Placed
    <2>1. now \in Nat /\ now' = now + 1 /\ admitted' = admitted /\ windows' = windows
      BY <1>2 DEF Tick, budget, TypeInv, TypeOK, Moments
    <2>2. Live(p)' \subseteq Live(p)
      BY <2>1, LimitAssumption DEF Live, CountInv
    <2> QED BY <2>1, <2>2, FewerPlaced DEF WindowInv
  <1>3. ASSUME NEW t \in Threads, RefuseRunaway(t) PROVE WindowInv'
    <2> SUFFICES ASSUME Watched, NEW p \in Prints PROVE \E f : Placed(f, Live(p)', windows'[p])
      BY DEF WindowInv, Watched, Placed
    <2>1. /\ Live(p)' = Live(p) /\ print[t] \in Prints
          /\ windows' = [windows EXCEPT ![print[t]] = Kept(windows[print[t]], stamp[t])]
      BY <1>3 DEF RefuseRunaway, Live, TypeInv, TypeOK
    <2>2. CASE p = print[t]
      <3>1. windows'[p] = Kept(windows[p], stamp[t])
        BY <2>1, <2>2 DEF TypeInv, TypeOK
      <3> QED BY <2>1, <2>2, <3>1, CheckedPlaced
    <2>3. CASE p # print[t]
      <3>1. windows'[p] = windows[p]
        BY <2>1, <2>3 DEF TypeInv, TypeOK
      <3> QED BY <2>1, <3>1 DEF WindowInv
    <2> QED BY <2>2, <2>3
  <1>4. ASSUME NEW t \in Threads, Admit(t) PROVE WindowInv'
    BY <1>4, AdmitWindow
  <1>5. \/ UNCHANGED <<now, admitted, windows>> \/ Tick
        \/ \E t \in Threads : RefuseRunaway(t) \/ Admit(t)
    BY DEF Next, ThreadStep, vars, RaiseCeiling, Enter, RefuseCeiling, MatchNothing, MatchBroken,
           MatchCapped, Arm, AddDuration, ReportSuccess, ReportFailure, budget
  <1> QED BY <1>1, <1>2, <1>3, <1>4, <1>5

LEMMA WindowAlways == Spec => []WindowInv
  <1> QED BY InitWindow, NextWindow, TypeAlways, CountAlways, PTL DEF Spec

LEMMA LiveAreFewer ==
  ASSUME NEW live, NEW m \in Nat, NEW window \in Seq(0 .. m), NEW f, Placed(f, live, window)
  PROVE  IsFiniteSet(live) /\ Cardinality(live) <= Len(window)
  <1>1. Len(window) \in Nat
    OBVIOUS
  <1>2. IsFiniteSet(1 .. Len(window)) /\ Cardinality(1 .. Len(window)) = Len(window)
    <2>1. 1 \in Int /\ Len(window) \in Int
      BY <1>1
    <2>2. /\ IsFiniteSet(1 .. Len(window))
          /\ Cardinality(1 .. Len(window)) = IF 1 > Len(window) THEN 0 ELSE Len(window) - 1 + 1
      BY <2>1, FS_Interval
    <2> QED BY <1>1, <2>2
  <1>3. f \in Injection(live, 1 .. Len(window))
    BY DEF Placed, Injection, IsInjective
  <1> QED BY <1>2, <1>3, FS_Injection

LEMMA AdmitKeepsBound ==
  ASSUME TypeInv, CountInv, WindowInv, Watched, NEW t \in Threads, Admit(t),
         NEW p \in Prints, NEW from \in Nat, Cardinality(PassedIn(p, from)) <= RunawayMax
  PROVE  Cardinality(PassedIn(p, from)') <= RunawayMax
  <1> DEFINE x == NewCall(t)
             P == PassedIn(p, from)
             L == Live(print[t])
             kept == Kept(windows[print[t]], stamp[t])
  <1>1. /\ admitted' = admitted \cup {x} /\ now \in Nat
        /\ x.print = print[t] /\ x.started = stamp[t] /\ x.at = now /\ stamp[t] \in Nat
    BY DEF Admit, NewCall, TypeInv, TypeOK, Moments
  <1>2. RunawayWindow \in Nat /\ RunawayMax \in Nat
    BY LimitAssumption
  <1> HIDE DEF x
  <1>3. CASE p = print[t] /\ from <= stamp[t] /\ now <= from + RunawayWindow
    <2>1. PassedIn(p, from)' = P \cup {x}
      BY <1>1, <1>3 DEF PassedIn
    <2>2. P \subseteq L
      BY <1>1, <1>2, <1>3 DEF PassedIn, Live, CountInv
    <2>3. /\ kept \in Seq(0 .. now)
          /\ \E g : Placed(g, L, kept)
      BY CheckedPlaced
    <2> HIDE DEF P, L, kept
    <2>4. IsFiniteSet(L) /\ Cardinality(L) <= Len(kept) /\ Len(kept) \in Nat
      BY <1>1, <2>3, LiveAreFewer
    <2>5. Len(kept) < RunawayMax
      BY DEF Admit, kept
    <2>6. IsFiniteSet(P) /\ Cardinality(P) <= Cardinality(L)
      BY <2>2, <2>4, FS_Subset
    <2>7. Cardinality(P) \in Nat /\ Cardinality(L) \in Nat
      BY <2>4, <2>6, FS_CardinalityType
    <2>8. Cardinality(P \cup {x}) = IF x \in P THEN Cardinality(P) ELSE Cardinality(P) + 1
      BY <2>6, FS_AddElement
    <2>9. Cardinality(P \cup {x}) <= RunawayMax
      BY <1>2, <2>4, <2>5, <2>6, <2>7, <2>8
    <2> QED BY <2>1, <2>9
  <1>4. CASE ~ (p = print[t] /\ from <= stamp[t] /\ now <= from + RunawayWindow)
    <2>1. PassedIn(p, from)' = PassedIn(p, from)
      BY <1>1, <1>4 DEF PassedIn
    <2> QED BY <2>1
  <1> QED BY <1>3, <1>4

LEMMA InitRunaway == Init => RunawayBounded
  <1> SUFFICES ASSUME Init PROVE RunawayBounded
    OBVIOUS
  <1>1. \A p, from : PassedIn(p, from) = {}
    BY DEF Init, PassedIn
  <1> QED BY <1>1, FS_EmptySet, LimitAssumption DEF RunawayBounded

LEMMA NextRunaway ==
  ASSUME TypeInv, CountInv, WindowInv, RunawayBounded, [Next]_vars
  PROVE  RunawayBounded'
  <1>1. CASE admitted' = admitted
    BY <1>1 DEF RunawayBounded, PassedIn, Moments, Watched
  <1>2. ASSUME NEW t \in Threads, Admit(t) PROVE RunawayBounded'
    <2> SUFFICES ASSUME Watched, NEW p \in Prints, NEW from \in Moments
                 PROVE  Cardinality(PassedIn(p, from)') <= RunawayMax
      BY DEF RunawayBounded, Watched, Moments, PassedIn
    <2>1. from \in Nat
      BY BoundAssumption DEF Moments
    <2>2. Cardinality(PassedIn(p, from)) <= RunawayMax
      BY DEF RunawayBounded
    <2> QED BY <1>2, <2>1, <2>2, AdmitKeepsBound
  <1>3. admitted' = admitted \/ \E t \in Threads : Admit(t)
    BY DEF Next, ThreadStep, vars, Tick, RaiseCeiling, Enter, RefuseCeiling, RefuseRunaway,
           MatchNothing, MatchBroken, MatchCapped, Arm, AddDuration, ReportSuccess, ReportFailure,
           budget
  <1> QED BY <1>1, <1>2, <1>3

(* No more than RunawayMax calls of one fingerprint start and pass within   *)
(* RunawayWindow of each other, however late a thread has itself checked.   *)
THEOREM RunawayIsBounded == Spec => []RunawayBounded
  <1> QED BY InitRunaway, NextRunaway, TypeAlways, CountAlways, WindowAlways, PTL DEF Spec

-----------------------------------------------------------------------------
(* The other way about: what the guards of a pattern refuse, they refuse    *)
(* for a reason that is still good at that moment.                          *)

(* The counter counts failures in a row, and a breaker that was opened is   *)
(* open until DisableFor after a report that trips it.                      *)
Exact(report, failed, until) ==
  /\ failed <= Len(report)
  /\ \A j \in (Len(report) - failed) + 1 .. Len(report) : ~ report[j].success
  /\ until # 0 => \E i \in DOMAIN report :
                    Trips(report, i) /\ until = report[i].at + DisableFor

ExactInv == \A k \in Keys : Exact(reports[k], failures[k], disabled_until[k])

LEMMA ReportExact ==
  ASSUME NEW m \in Nat, NEW r \in Outcomes(m),
         NEW f \in Nat, NEW d \in Nat, NEW success \in BOOLEAN, NEW e \in Nat,
         Exact(r, f, d),
         e = IF ~ success /\ f + 1 >= Threshold THEN m + DisableFor ELSE d,
         NEW q, q = Append(r, [success |-> success, at |-> m]),
         NEW g, g = IF success THEN 0 ELSE f + 1
  PROVE  Exact(q, g, e)
  <1> DEFINE n == Len(r)
  <1>1. /\ n \in Nat /\ DOMAIN r = 1 .. n /\ Len(q) = n + 1 /\ DOMAIN q = 1 .. n + 1
        /\ \A i \in 1 .. n : q[i] = r[i]
        /\ q[n + 1].success = success /\ q[n + 1].at = m
    <2> DEFINE R == [success : BOOLEAN, at : 0 .. m]
               x == [success |-> success, at |-> m]
    <2>1. r \in Seq(R) /\ x \in R /\ x.success = success /\ x.at = m
      BY DEF Outcomes
    <2> HIDE DEF R, x
    <2>2. n \in Nat /\ DOMAIN r = 1 .. n
      BY <2>1, ElementOfSeq
    <2>3. /\ Append(r, x) \in Seq(R) /\ Len(Append(r, x)) = n + 1
          /\ \A i \in 1 .. n : Append(r, x)[i] = r[i]
          /\ Append(r, x)[n + 1] = x
      BY <2>1, <2>2, AppendProperties
    <2>4. DOMAIN Append(r, x) = 1 .. n + 1
      BY <2>3
    <2> QED BY <2>1, <2>2, <2>3, <2>4 DEF x
  <1>2. Threshold \in Nat \ {0} /\ DisableFor \in Nat \ {0}
    BY LimitAssumption
  <1>3. f <= n /\ \A j \in (n - f) + 1 .. n : ~ r[j].success
    BY DEF Exact
  <1>4. d # 0 => \E i \in DOMAIN r : Trips(r, i) /\ d = r[i].at + DisableFor
    BY DEF Exact
  <1> HIDE DEF n
  <1>5. g <= n + 1 /\ \A j \in (n + 1 - g) + 1 .. n + 1 : ~ q[j].success
    <2>1. CASE success
      BY <2>1, <1>1
    <2>2. CASE ~ success
      <3>1. g = f + 1 /\ (n + 1 - g) + 1 = (n - f) + 1
        BY <2>2, <1>1
      <3>2. ASSUME NEW j \in (n - f) + 1 .. n + 1 PROVE ~ q[j].success
        BY <3>2, <2>2, <1>1, <1>3
      <3> QED BY <3>1, <3>2, <1>1, <1>3
    <2> QED BY <2>1, <2>2
  <1>6. ASSUME ~ success, f + 1 >= Threshold
        PROVE  Trips(q, n + 1) /\ e = q[n + 1].at + DisableFor
    <2>1. g = f + 1
      BY <1>6
    <2>2. ASSUME NEW j \in ((n + 1) - Threshold) + 1 .. n + 1 PROVE ~ q[j].success
      <3>1. j \in (n + 1 - g) + 1 .. n + 1
        BY <2>1, <1>1, <1>2, <1>6
      <3> QED BY <3>1, <1>5
    <2>3. n + 1 >= Threshold
      BY <1>1, <1>2, <1>3, <1>6
    <2>4. Trips(q, n + 1)
      BY <2>2, <2>3 DEF Trips
    <2> QED BY <2>4, <1>1, <1>6
  <1>7. ASSUME ~ (~ success /\ f + 1 >= Threshold), e # 0
        PROVE  \E i \in DOMAIN q : Trips(q, i) /\ e = q[i].at + DisableFor
    <2>1. PICK i \in DOMAIN r : Trips(r, i) /\ e = r[i].at + DisableFor
      BY <1>4, <1>7
    <2>2. i \in 1 .. n /\ q[i] = r[i] /\ i \in DOMAIN q
      BY <2>1, <1>1
    <2>3. Trips(q, i)
      BY <2>1, <2>2, <1>1, <1>2 DEF Trips
    <2> QED BY <2>1, <2>2, <2>3
  <1>8. e # 0 => \E i \in DOMAIN q : Trips(q, i) /\ e = q[i].at + DisableFor
    BY <1>1, <1>6, <1>7
  <1> QED BY <1>1, <1>5, <1>8 DEF Exact

LEMMA InitExact == Init => ExactInv
  <1> SUFFICES ASSUME Init, NEW k \in Keys PROVE Exact(reports[k], failures[k], disabled_until[k])
    BY DEF ExactInv
  <1>1. reports[k] = <<>> /\ failures[k] = 0 /\ disabled_until[k] = 0
    BY DEF Init
  <1> QED BY <1>1 DEF Exact

LEMMA ReportStepExact ==
  ASSUME TypeInv, ExactInv, NEW t \in Threads, NEW success \in BOOLEAN,
         pc[t] = "report",
         failures' = [failures EXCEPT ![Key(t)] = IF success THEN 0 ELSE @ + 1],
         disabled_until' = IF ~ success /\ failures[Key(t)] + 1 >= Threshold
                           THEN [disabled_until EXCEPT ![Key(t)] = now + DisableFor]
                           ELSE disabled_until,
         reports' = [reports EXCEPT ![Key(t)] = Append(@, [success |-> success, at |-> now])]
  PROVE  ExactInv'
  <1> DEFINE k == Key(t)
             r == reports[k]
             f == failures[k]
             d == disabled_until[k]
             e == IF ~ success /\ f + 1 >= Threshold THEN now + DisableFor ELSE d
             q == reports'[k]
             g == failures'[k]
  <1>1. k \in Keys
    BY KeyType DEF TypeInv, TypeOK, PlaceInv
  <1>2. /\ reports \in [Keys -> Outcomes(now)] /\ failures \in [Keys -> Nat] /\ now \in Nat
        /\ disabled_until \in [Keys -> Nat] /\ DisableFor \in Nat
    <2>1. reports \in [Keys -> Outcomes(now)]
      BY DEF TypeInv, TypeOK, Outcomes
    <2> QED BY <2>1, LimitAssumption DEF TypeInv, TypeOK, Moments
  <1>3. \A o \in Keys \ {k} :
          failures'[o] = failures[o] /\ reports'[o] = reports[o] /\ disabled_until'[o] = disabled_until[o]
    BY <1>2
  <1>4. /\ g = IF success THEN 0 ELSE f + 1
        /\ q = Append(r, [success |-> success, at |-> now])
        /\ disabled_until'[k] = e /\ e \in Nat
    BY <1>1, <1>2
  <1>5. Exact(r, f, d) /\ r \in Outcomes(now) /\ f \in Nat /\ d \in Nat
    BY <1>1, <1>2 DEF ExactInv
  <1>6. e = IF ~ success /\ f + 1 >= Threshold THEN now + DisableFor ELSE d
    OBVIOUS
  <1> HIDE DEF k, r, f, d, e, q, g
  <1>7. Exact(q, g, e)
    BY <1>2, <1>4, <1>5, <1>6, ReportExact
  <1> QED BY <1>3, <1>4, <1>7 DEF ExactInv, Exact, Trips, q, g, k

LEMMA NextExact ==
  ASSUME TypeInv, ExactInv, [Next]_vars
  PROVE  ExactInv'
  <1>1. CASE UNCHANGED breaker
    BY <1>1 DEF ExactInv, Exact, Trips, breaker
  <1>2. ASSUME NEW t \in Threads, ReportSuccess(t) PROVE ExactInv'
    BY <1>2, ReportStepExact DEF ReportSuccess, Reported
  <1>3. ASSUME NEW t \in Threads, ReportFailure(t) PROVE ExactInv'
    BY <1>3, ReportStepExact DEF ReportFailure, Reported
  <1>4. \/ UNCHANGED breaker
        \/ \E t \in Threads : ReportSuccess(t) \/ ReportFailure(t)
    BY DEF Next, ThreadStep, vars, Tick, RaiseCeiling, Enter, RefuseCeiling, RefuseRunaway, Admit,
           MatchNothing, MatchBroken, MatchCapped, Arm, AddDuration, pattern, breaker
  <1> QED BY <1>1, <1>2, <1>3, <1>4

(* Every moment that is counted is that of an arming.                       *)
CountedFired ==
  \A k \in Keys : \A a \in arms[k] : [call |-> a.call, key |-> k, at |-> a.at] \in armings

LEMMA NextCounted ==
  ASSUME TypeInv, CountedFired, [Next]_vars
  PROVE  CountedFired'
  <1>1. CASE UNCHANGED <<arms, armings>>
    BY <1>1 DEF CountedFired
  <1>2. ASSUME NEW t \in Threads, MatchCapped(t) \/ Arm(t) PROVE CountedFired'
    <2>1. Key(t) \in Keys
      BY <1>2, KeyType DEF MatchCapped, Arm, TypeInv
    <2>2. \A o \in Keys \ {Key(t)} : arms'[o] = arms[o]
      BY <1>2, <2>1 DEF MatchCapped, Arm, TypeInv, TypeOK
    <2>3. armings \subseteq armings'
      BY <1>2 DEF MatchCapped, Arm
    <2>4. \A a \in arms'[Key(t)] :
            a \in arms[Key(t)] \/ [call |-> a.call, key |-> Key(t), at |-> a.at] \in armings'
      BY <1>2, <2>1 DEF MatchCapped, Arm, Recent, TypeInv, TypeOK
    <2> QED BY <2>1, <2>2, <2>3, <2>4 DEF CountedFired
  <1>3. UNCHANGED <<arms, armings>> \/ \E t \in Threads : MatchCapped(t) \/ Arm(t)
    BY DEF Next, ThreadStep, vars, Tick, RaiseCeiling, Enter, RefuseCeiling, RefuseRunaway, Admit,
           MatchNothing, MatchBroken, AddDuration, ReportSuccess, ReportFailure, pattern
  <1> QED BY <1>1, <1>2, <1>3

FiredSince(k, long) == {a \in armings : a.key = k /\ a.at + long > now}

LEMMA CountedAreFired ==
  ASSUME TypeInv, ArmsInv, CountedFired, NEW k \in Keys, NEW long \in Nat
  PROVE  /\ Cardinality(Within(k, long)) <= Cardinality(FiredSince(k, long))
         /\ Cardinality(Within(k, long)) \in Nat /\ Cardinality(FiredSince(k, long)) \in Nat
  <1> DEFINE F == FiredSince(k, long)
             W == Within(k, long)
             f == [a \in W |-> [call |-> a.call, key |-> k, at |-> a.at]]
  <1>1. IsFiniteSet(F) /\ IsFiniteSet(W)
    BY FS_Subset DEF ArmsInv, FiredSince, Within
  <1>2. ASSUME NEW a \in W PROVE f[a] \in F
    BY DEF CountedFired, FiredSince, Within
  <1>3. ASSUME NEW a \in W, NEW b \in W, f[a] = f[b] PROVE a = b
    <2>1. /\ a \in [call : Threads \X Nat, at : 0 .. now]
          /\ b \in [call : Threads \X Nat, at : 0 .. now]
      BY DEF Within, TypeInv, TypeOK
    <2>2. [call |-> a.call, key |-> k, at |-> a.at] = [call |-> b.call, key |-> k, at |-> b.at]
      BY <1>3
    <2>3. a.call = b.call /\ a.at = b.at
      BY <2>2
    <2> QED BY <2>1, <2>3
  <1>4. f \in Injection(W, F)
    <2>1. f \in [W -> F]
      BY <1>2
    <2>2. \A a, b \in W : f[a] = f[b] => a = b
      BY <1>3
    <2> HIDE DEF f, F, W
    <2> QED BY <2>1, <2>2 DEF Injection, IsInjective
  <1> HIDE DEF F, W, f
  <1>5. Cardinality(W) <= Cardinality(F)
    BY <1>1, <1>4, FS_Injection
  <1> QED BY <1>1, <1>5, FS_CardinalityType DEF F, W

(* A cap that is used up by firings that are not over yet.                  *)
Spent(k) ==
  \/ MaxPerHour > 0 /\ Cardinality(FiredSince(k, Hour)) >= MaxPerHour
  \/ MaxPerDay > 0 /\ Cardinality(FiredSince(k, Day)) >= MaxPerDay

RefusesRightly ==
  \A t \in Threads :
    /\ MatchBroken(t) => Tripped(Key(t))
    /\ MatchCapped(t) => Spent(Key(t))

(* A pattern is held back only by Threshold failures in a row reported      *)
(* less than DisableFor ago, or by a cap that firings of the last hour or   *)
(* day use up: an old moment or failure that was counted holds nothing.     *)
THEOREM RefusalsAreRight == Spec => [][RefusesRightly]_vars
  <1>1. Spec => []ExactInv
    BY InitExact, NextExact, TypeAlways, PTL DEF Spec
  <1>2. Init => CountedFired
    BY DEF Init, CountedFired
  <1>3. Spec => []CountedFired
    BY <1>2, NextCounted, TypeAlways, PTL DEF Spec
  <1>4. ASSUME TypeInv, ExactInv, NEW t \in Threads, MatchBroken(t) PROVE Tripped(Key(t))
    <2>1. /\ Key(t) \in Keys /\ now < disabled_until[Key(t)] /\ now \in Nat
          /\ disabled_until[Key(t)] \in Nat
      <3>1. Key(t) \in Keys
        BY <1>4, KeyType DEF MatchBroken, TypeInv
      <3> QED BY <1>4, <3>1 DEF MatchBroken, TypeInv, TypeOK, Moments
    <2>2. PICK i \in DOMAIN reports[Key(t)] :
            /\ Trips(reports[Key(t)], i)
            /\ disabled_until[Key(t)] = reports[Key(t)][i].at + DisableFor
      BY <1>4, <2>1 DEF ExactInv, Exact
    <2> QED BY <2>1, <2>2 DEF Tripped, Trips
  <1>5. ASSUME TypeInv, ArmsInv, CountedFired, NEW t \in Threads, MatchCapped(t)
        PROVE  Spent(Key(t))
    <2>1. Key(t) \in Keys /\ Capped(Key(t))
      BY <1>5, KeyType DEF MatchCapped, TypeInv
    <2>2. /\ InLastHour(Key(t)) = Within(Key(t), Hour) /\ Recent(Key(t)) = Within(Key(t), Day)
          /\ Hour \in Nat /\ Day \in Nat /\ MaxPerHour \in Nat /\ MaxPerDay \in Nat
      BY LimitAssumption DEF InLastHour, Recent, Within
    <2>3. \A long \in {Hour, Day} :
            /\ Cardinality(Within(Key(t), long)) <= Cardinality(FiredSince(Key(t), long))
            /\ Cardinality(Within(Key(t), long)) \in Nat
            /\ Cardinality(FiredSince(Key(t), long)) \in Nat
      BY <1>5, <2>1, <2>2, CountedAreFired
    <2>4. \A w, f, m \in Nat : w <= f /\ w >= m => f >= m
      OBVIOUS
    <2> QED BY <2>1, <2>2, <2>3, <2>4 DEF Capped, Spent
  <1>6. TypeInv /\ ArmsInv /\ ExactInv /\ CountedFired /\ [Next]_vars => [RefusesRightly]_vars
    BY <1>4, <1>5 DEF RefusesRightly
  <1> QED BY <1>1, <1>3, <1>6, TypeAlways, ArmsAlways, PTL DEF Spec
=============================================================================
