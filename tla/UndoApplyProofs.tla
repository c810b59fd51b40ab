-------------------------- MODULE UndoApplyProofs --------------------------
(***************************************************************************)
(* What undo_apply guarantees for any number of appliers, tokens and       *)
(* targets.  The inductive invariant follows a token that is not in doubt: *)
(* at most one applier is running it (OneRunner); whoever has dispatched   *)
(* it has seen no run of it (FirstRun); and a run of it is on its way to   *)
(* the mark or marked (RunsMarked).                                        *)
(***************************************************************************)
EXTENDS UndoApply, TLAPS

Running(a, i) == pc[a] \in {"inner", "mark"} /\ job[a].token = i

OneRunner ==
  \A a, b \in Appliers :
    a # b /\ Running(a, job[a].token) /\ Running(b, job[a].token)
      => job[a].token \in doubt

FirstRun ==
  \A a \in Appliers :
    pc[a] = "inner" /\ job[a].token \notin doubt
      => \A run \in runs : run.token # job[a].token

RunsMarked ==
  \A run \in runs :
    \/ run.token \in doubt
    \/ store[run.token].status = "applied"
    \/ \E a \in Appliers : pc[a] = "mark" /\ job[a].token = run.token

MarkRan ==
  \A a \in Appliers :
    pc[a] = "mark" => \E run \in runs : run.token = job[a].token

RunsKnown == \A run \in runs : run.token \in DOMAIN store

NamedWhere == \A i \in DOMAIN store : store[i].named \in {None, store[i].where}

IInv == /\ TypeOK /\ OneRunner /\ FirstRun /\ RunsMarked /\ MarkRan
        /\ RunsKnown /\ NamedWhere
        /\ AppliedRan /\ OnceUnlessDoubt /\ RanAtOrigin

-----------------------------------------------------------------------------
(* Typing. *)

LEMMA InitType == Init => TypeOK
  <1> SUFFICES ASSUME Init PROVE TypeOK
    OBVIOUS
  <1>1. /\ NoJob \in JobType
        /\ NoAnswer \in [inner : {"none", "ok", "error", "unknown", "raised"}, exit : {0, 1, 2}]
    BY DEF NoJob, JobType, NoAnswer
  <1> QED BY <1>1, RecordedAssumption, BoundAssumption DEF Init, TypeOK

(* A caller that leaves undo_apply keeps the types of pc and job. *)
LEMMA LeaveType ==
  ASSUME TypeOK, NEW a \in Appliers, Leave(a)
  PROVE  /\ pc' \in [Appliers -> {"idle", "read", "inner", "mark"}]
         /\ job' \in [Appliers -> JobType]
         /\ \A b \in Appliers : pc'[b] # "idle" => b # a /\ pc[b] # "idle" /\ job'[b] = job[b]
  BY DEF Leave, Go, NoJob, JobType, TypeOK

(* Whatever answer an applier gives, answer keeps its type. *)
LEMMA AnswerType ==
  ASSUME TypeOK, NEW a \in Appliers, NEW inner \in {"none", "ok", "error", "unknown", "raised"},
         NEW exit \in {0, 1, 2}, Answer(a, inner, exit)
  PROVE  answer' \in [Appliers -> [inner : {"none", "ok", "error", "unknown", "raised"},
                                  exit : {0, 1, 2}]]
  BY DEF Answer, TypeOK

(* The inverse of a token in the store lands on a configured target. *)
LEMMA LandedType ==
  ASSUME TypeOK, NEW a \in Appliers, pc[a] # "idle"
  PROVE  /\ At(a) \in Targets
         /\ Chosen(a) \in Targets \cup {None}
         /\ Landed(a) => runs' \subseteq RunType
  <1>1. Tok(a) \in TokenType /\ job[a] \in JobType
    BY DEF TypeOK, Tok
  <1>2. /\ At(a) \in Targets
        /\ Chosen(a) \in Targets \cup {None}
    BY <1>1, DefaultAssumption DEF At, Chosen, TokenType, JobType
  <1>3. applies[a] \in Nat
    BY DEF TypeOK
  <1> QED BY <1>1, <1>2, <1>3 DEF Landed, RunType, JobType, TypeOK

(* The store never shrinks: tokens keep their targets, applied ones stay   *)
(* applied, and new ones are recorded with the target they were run on.    *)
StoreGrows ==
  /\ store' \in Seq(TokenType)
  /\ DOMAIN store \subseteq DOMAIN store'
  /\ \A i \in DOMAIN store :
       /\ store'[i].named = store[i].named /\ store'[i].where = store[i].where
       /\ store[i].status = "applied" => store'[i].status = "applied"

(* Recording the inverse of a token that is being run. *)
LEMMA RecordGrows ==
  ASSUME TypeOK, NEW a \in Appliers, pc[a] # "idle", RecordInverse(a)
  PROVE  /\ StoreGrows
         /\ \A i \in DOMAIN store : store'[i] = store[i]
         /\ \A i \in DOMAIN store' \ DOMAIN store :
              store'[i].status = "recorded" /\ store'[i].named \in {None, store'[i].where}
  <1> DEFINE new == [status |-> "recorded", named |-> Chosen(a), where |-> At(a)]
  <1>1. new \in TokenType /\ new.named \in {None, new.where} /\ new.status = "recorded"
    BY LandedType DEF TokenType, At
  <1>2. store \in Seq(TokenType)
    BY DEF TypeOK
  <1>3. CASE UNCHANGED store
    BY <1>2, <1>3 DEF StoreGrows
  <1>4. CASE store' = Append(store, new)
    <2> HIDE DEF new
    <2> QED BY <1>1, <1>2, <1>4 DEF StoreGrows
  <1> QED BY <1>3, <1>4 DEF RecordInverse

(* Marking a token. *)
LEMMA MarkGrows ==
  ASSUME TypeOK, NEW a \in Appliers, Mark(a)
  PROVE  /\ StoreGrows
         /\ DOMAIN store' = DOMAIN store
         /\ store'[job[a].token].status = "applied"
         /\ \A i \in DOMAIN store : i # job[a].token => store'[i] = store[i]
  <1> DEFINE n == job[a].token
             new == [store[n] EXCEPT !.status = "applied"]
  <1>1. /\ store \in Seq(TokenType) /\ n \in DOMAIN store
        /\ \A i \in DOMAIN store : store[i] \in TokenType
    BY DEF TypeOK, Mark
  <1>2. /\ new \in TokenType /\ new.status = "applied"
        /\ new.named = store[n].named /\ new.where = store[n].where
    BY <1>1 DEF TokenType
  <1>3. store' = [store EXCEPT ![n] = new]
    BY DEF Mark
  <1> HIDE DEF n, new
  <1>4. /\ store' \in Seq(TokenType) /\ DOMAIN store' = DOMAIN store
        /\ store'[n] = new
        /\ \A i \in DOMAIN store : i # n => store'[i] = store[i]
    BY <1>1, <1>2, <1>3
  <1>5. \A i \in DOMAIN store :
          /\ store'[i].named = store[i].named /\ store'[i].where = store[i].where
          /\ store[i].status = "applied" => store'[i].status = "applied"
    BY <1>2, <1>4, Zenon
  <1> QED BY <1>2, <1>4, <1>5, Zenon DEF StoreGrows, n

-----------------------------------------------------------------------------
(* An applier that gives up, in any of the ways but a successful mark: it  *)
(* leaves its token as it is, in doubt if the inverse may have run.        *)
Abandons(a) ==
  /\ pc[a] # "idle" /\ Leave(a)
  /\ UNCHANGED applies
  /\ runs' = runs \/ (Landed(a) /\ pc[a] = "inner" /\ job[a].token \in doubt')
  /\ doubt' \in {doubt, doubt \cup {job[a].token}}
  /\ pc[a] = "mark" => job[a].token \in doubt'
  /\ UNCHANGED store \/ RecordInverse(a)

LEMMA AbandonSteps ==
  ASSUME NEW a \in Appliers,
         \/ Refuse(a) \/ AlreadyApplied(a) \/ Preview(a) \/ InnerFails(a) \/ InnerLost(a)
         \/ InnerRefused(a) \/ InnerUnaudited(a) \/ MarkFails(a) \/ Crash(a)
  PROVE  Abandons(a)
  <1>1. ASSUME Refuse(a) \/ AlreadyApplied(a) \/ Preview(a) \/ InnerFails(a) \/ InnerRefused(a)
        PROVE  Abandons(a)
    BY <1>1 DEF Refuse, AlreadyApplied, Preview, InnerFails, InnerRefused, Abandons
  <1>2. ASSUME InnerLost(a) \/ InnerUnaudited(a) \/ MarkFails(a) PROVE Abandons(a)
    BY <1>2 DEF InnerLost, InnerUnaudited, MarkFails, Doubt, Abandons
  <1>3. ASSUME Crash(a) PROVE Abandons(a)
    BY <1>3 DEF Crash, Doubt, Abandons
  <1> QED BY <1>1, <1>2, <1>3

LEMMA AbandonAnswers ==
  ASSUME TypeOK, NEW a \in Appliers,
         \/ Refuse(a) \/ AlreadyApplied(a) \/ Preview(a) \/ InnerFails(a) \/ InnerLost(a)
         \/ InnerRefused(a) \/ InnerUnaudited(a) \/ MarkFails(a) \/ Crash(a)
  PROVE  answer' \in [Appliers -> [inner : {"none", "ok", "error", "unknown", "raised"},
                                  exit : {0, 1, 2}]]
  <1>1. CASE \E inner \in {"none", "ok", "error", "unknown", "raised"}, exit \in {0, 1, 2} :
               Answer(a, inner, exit)
    BY <1>1, AnswerType
  <1>2. CASE UNCHANGED answer
    BY <1>2 DEF TypeOK
  <1> QED BY <1>1, <1>2 DEF Refuse, AlreadyApplied, Preview, InnerFails, InnerLost,
                          InnerRefused, InnerUnaudited, MarkFails, Crash, Return

(* What an abandoning applier leaves in the store. *)
LEMMA AbandonStore ==
  ASSUME TypeOK, NEW a \in Appliers, Abandons(a)
  PROVE  /\ StoreGrows
         /\ \A i \in DOMAIN store : store'[i] = store[i]
         /\ \A i \in DOMAIN store' \ DOMAIN store :
              store'[i].status = "recorded" /\ store'[i].named \in {None, store'[i].where}
  <1>1. CASE UNCHANGED store
    <2>1. RecordInverse(a)
      BY <1>1, Zenon DEF RecordInverse
    <2> QED BY <2>1, RecordGrows, Zenon DEF Abandons
  <1>2. CASE RecordInverse(a)
    BY <1>2, RecordGrows, Zenon DEF Abandons
  <1> QED BY <1>1, <1>2 DEF Abandons

LEMMA TypeStep == ASSUME TypeOK, [Next]_vars PROVE TypeOK'
  <1>1. ASSUME NEW a \in Appliers, NEW i \in DOMAIN store, NEW target \in Targets \cup {None},
               NEW dry_run \in BOOLEAN, Apply(a, i, target, dry_run)
        PROVE  TypeOK'
    <2>1. [token |-> i, target |-> target, dry_run |-> dry_run] \in JobType
      BY DEF JobType, TypeOK
    <2>2. /\ job' \in [Appliers -> JobType]
          /\ pc' \in [Appliers -> {"idle", "read", "inner", "mark"}]
          /\ \A b \in Appliers : pc'[b] # "idle" => job'[b].token \in DOMAIN store
      BY <1>1, <2>1 DEF Apply, Go, TypeOK
    <2>3. applies' \in [Appliers -> Nat] /\ \A b \in Appliers : applies'[b] <= MaxApplies[b]
      <3>1. applies[a] < MaxApplies[a] /\ applies' = [applies EXCEPT ![a] = @ + 1]
        BY <1>1 DEF Apply
      <3>2. applies \in [Appliers -> Nat] /\ \A b \in Appliers : applies[b] <= MaxApplies[b]
        BY DEF TypeOK
      <3> QED BY <3>1, <3>2, BoundAssumption
    <2>4. NoAnswer \in [inner : {"none", "ok", "error", "unknown", "raised"}, exit : {0, 1, 2}]
      BY DEF NoAnswer
    <2> QED BY <1>1, <2>2, <2>3, <2>4 DEF Apply, TypeOK
  <1>2. ASSUME NEW a \in Appliers, Dispatch(a) PROVE TypeOK'
    BY <1>2 DEF Dispatch, Go, TypeOK
  <1>3. ASSUME NEW a \in Appliers, InnerReturns(a) PROVE TypeOK'
    <2>1. runs' \subseteq RunType /\ StoreGrows
      BY <1>3, LandedType, RecordGrows DEF InnerReturns
    <2> QED BY <1>3, <2>1 DEF InnerReturns, Go, StoreGrows, TypeOK
  <1>4. ASSUME NEW a \in Appliers, Mark(a) PROVE TypeOK'
    <2>1. StoreGrows /\ DOMAIN store' = DOMAIN store
      BY <1>4, MarkGrows
    <2>2. answer' \in [Appliers -> [inner : {"none", "ok", "error", "unknown", "raised"},
                                   exit : {0, 1, 2}]]
      BY <1>4, AnswerType DEF Mark, Return
    <2> QED BY <1>4, <2>1, <2>2, LeaveType DEF Mark, StoreGrows, TypeOK
  <1>5. ASSUME NEW a \in Appliers, Abandons(a),
               answer' \in [Appliers -> [inner : {"none", "ok", "error", "unknown", "raised"},
                                        exit : {0, 1, 2}]]
        PROVE  TypeOK'
    <2>1. StoreGrows
      BY <1>5, AbandonStore
    <2>2. runs' \subseteq RunType
      BY <1>5, LandedType DEF Abandons, TypeOK
    <2>3. doubt' \subseteq DOMAIN store'
      BY <1>5, <2>1 DEF Abandons, StoreGrows, TypeOK
    <2>4. /\ pc' \in [Appliers -> {"idle", "read", "inner", "mark"}]
          /\ job' \in [Appliers -> JobType]
          /\ \A b \in Appliers : pc'[b] # "idle" => job'[b].token \in DOMAIN store'
      BY <1>5, <2>1, LeaveType DEF Abandons, StoreGrows, TypeOK
    <2> QED BY <1>5, <2>1, <2>2, <2>3, <2>4 DEF Abandons, StoreGrows, TypeOK
  <1>6. CASE UNCHANGED vars
    BY <1>6 DEF vars, TypeOK
  <1> QED BY <1>1, <1>2, <1>3, <1>4, <1>5, <1>6, AbandonSteps, AbandonAnswers DEF Next, Step

(* Every variable keeps to its type. *)
THEOREM UndoTypeCorrect == Spec => []TypeOK
  <1> QED BY InitType, TypeStep, PTL DEF Spec
-----------------------------------------------------------------------------
(* The invariant. *)

LEMMA InitInv == Init => IInv
  <1> SUFFICES ASSUME Init PROVE IInv
    OBVIOUS
  <1>1. TypeOK
    BY InitType
  <1>2. /\ \A a \in Appliers : pc[a] = "idle"
        /\ runs = {} /\ store = Recorded
    BY DEF Init
  <1> QED BY <1>1, <1>2, RecordedAssumption
          DEF IInv, OneRunner, FirstRun, RunsMarked, MarkRan, RunsKnown, NamedWhere,
              AppliedRan, OnceUnlessDoubt, RanAtOrigin, Running

(* A landing adds one run, of the applier's token, at the right target; it  *)
(* is a second run of the token only if that is in doubt.                   *)
LEMMA NewRun ==
  ASSUME IInv, NEW a \in Appliers, pc[a] = "inner", Landed(a), StoreGrows
  PROVE  /\ \A run \in runs' : run \in runs \/ run.token = job[a].token
         /\ \E run \in runs' : run.token = job[a].token
         /\ runs \subseteq runs'
         /\ RunsKnown' /\ RanAtOrigin'
         /\ doubt' = doubt => OnceUnlessDoubt'
         /\ job[a].token \in doubt' /\ doubt \subseteq doubt' => OnceUnlessDoubt'
  <1> DEFINE new == [token |-> job[a].token, at |-> At(a),
                     asked |-> job[a].target, by |-> <<a, applies[a]>>]
  <1>1. /\ new.token = job[a].token /\ new.at = At(a) /\ new.asked = job[a].target
        /\ runs' = runs \cup {new}
    BY DEF Landed
  <1>2. job[a].token \in DOMAIN store
    BY DEF IInv, TypeOK
  <1>3. /\ Tok(a) = store[job[a].token]
        /\ Tok(a).named \in {None, Tok(a).where}
    BY <1>2 DEF IInv, NamedWhere, Tok
  <1>4. job[a].target = None /\ Tok(a).named # None => At(a) = Tok(a).where
    BY <1>3 DEF At, Chosen
  <1> HIDE DEF new
  <1>5. RunsKnown'
    BY <1>1, <1>2 DEF IInv, RunsKnown, StoreGrows
  <1>6. RanAtOrigin'
    <2> SUFFICES ASSUME NEW run \in runs'
                 PROVE  run.asked = None /\ store'[run.token].named # None
                          => run.at = store'[run.token].where
      BY DEF RanAtOrigin
    <2>1. CASE run = new
      BY <1>1, <1>2, <1>3, <1>4, <2>1 DEF StoreGrows
    <2>2. CASE run \in runs
      BY <2>2 DEF IInv, RunsKnown, RanAtOrigin, StoreGrows
    <2> QED BY <1>1, <2>1, <2>2
  <1>7. doubt' = doubt => OnceUnlessDoubt'
    BY <1>1 DEF IInv, FirstRun, OnceUnlessDoubt
  <1>8. job[a].token \in doubt' /\ doubt \subseteq doubt' => OnceUnlessDoubt'
    BY <1>1 DEF IInv, OnceUnlessDoubt
  <1> QED BY <1>1, <1>5, <1>6, <1>7, <1>8

(* With the runs unchanged, the properties about runs survive any growth.   *)
LEMMA SameRuns ==
  ASSUME IInv, UNCHANGED runs, StoreGrows, doubt \subseteq doubt'
  PROVE  RunsKnown' /\ RanAtOrigin' /\ OnceUnlessDoubt'
  <1>1. RunsKnown'
    BY DEF IInv, RunsKnown, StoreGrows
  <1>2. RanAtOrigin'
    <2> SUFFICES ASSUME NEW run \in runs
                 PROVE  run.asked = None /\ store'[run.token].named # None
                          => run.at = store'[run.token].where
      BY DEF RanAtOrigin
    <2> QED BY DEF IInv, RunsKnown, RanAtOrigin, StoreGrows
  <1>3. OnceUnlessDoubt'
    BY DEF IInv, OnceUnlessDoubt
  <1> QED BY <1>1, <1>2, <1>3

(* New tokens are recorded, old ones keep what they say of their targets.   *)
LEMMA StoreProps ==
  ASSUME IInv, StoreGrows, runs \subseteq runs',
         \A i \in DOMAIN store : store'[i].status = "applied" =>
            store[i].status = "applied" \/ \E run \in runs' : run.token = i,
         \A i \in DOMAIN store' \ DOMAIN store :
            store'[i].status = "recorded" /\ store'[i].named \in {None, store'[i].where}
  PROVE  NamedWhere' /\ AppliedRan'
  <1>1. NamedWhere'
    BY DEF IInv, NamedWhere, StoreGrows
  <1>2. AppliedRan'
    BY DEF IInv, AppliedRan, StoreGrows
  <1> QED BY <1>1, <1>2
LEMMA ApplyInv ==
  ASSUME IInv, NEW a \in Appliers, NEW i \in DOMAIN store,
         NEW target \in Targets \cup {None}, NEW dry_run \in BOOLEAN,
         Apply(a, i, target, dry_run)
  PROVE  IInv'
  <1>1. TypeOK /\ TypeOK'
    BY TypeStep DEF IInv, Next
  <1>2. UNCHANGED <<store, runs, doubt>>
    BY DEF Apply
  <1>3. \A b \in Appliers :
          pc'[b] \in {"inner", "mark"} \/ pc[b] \in {"inner", "mark"}
            => pc'[b] = pc[b] /\ job'[b] = job[b]
    BY <1>1 DEF Apply, Go, TypeOK
  <1>4. OneRunner'
    BY <1>2, <1>3 DEF IInv, OneRunner, Running
  <1>5. FirstRun' /\ MarkRan'
    BY <1>2, <1>3 DEF IInv, FirstRun, MarkRan
  <1>6. RunsMarked'
    BY <1>2, <1>3 DEF IInv, RunsMarked
  <1> QED BY <1>1, <1>2, <1>4, <1>5, <1>6
          DEF IInv, RunsKnown, NamedWhere, AppliedRan, OnceUnlessDoubt, RanAtOrigin

LEMMA DispatchInv ==
  ASSUME IInv, NEW a \in Appliers, Dispatch(a)
  PROVE  IInv'
  <1>1. TypeOK /\ TypeOK'
    BY TypeStep DEF IInv, Next, Step
  <1>2. /\ UNCHANGED <<store, runs, job>>
        /\ doubt \subseteq doubt'
        /\ Contended(a) => job[a].token \in doubt'
        /\ pc[a] = "read" /\ pc'[a] = "inner"
        /\ \A b \in Appliers : b # a => pc'[b] = pc[b]
        /\ store[job[a].token].status # "applied"
    BY <1>1 DEF Dispatch, Go, Tok, TypeOK
  <1>3. OneRunner'
    <2> SUFFICES ASSUME NEW b \in Appliers, NEW d \in Appliers, b # d,
                        Running(b, job[b].token)', Running(d, job[b].token)'
                 PROVE  job[b].token \in doubt'
      BY <1>2 DEF OneRunner, Running
    <2>1. CASE b # a /\ d # a
      BY <1>2, <2>1 DEF IInv, OneRunner, Running
    <2>2. CASE b = a \/ d = a
      BY <1>2, <2>2 DEF Contended, Running
    <2> QED BY <2>1, <2>2
  <1>4. FirstRun'
    <2> SUFFICES ASSUME NEW b \in Appliers, pc'[b] = "inner", job[b].token \notin doubt',
                        NEW run \in runs
                 PROVE  run.token # job[b].token
      BY <1>2 DEF FirstRun
    <2>1. CASE b = a
      BY <1>2, <2>1 DEF IInv, RunsMarked, Contended
    <2>2. CASE b # a
      BY <1>2, <2>2 DEF IInv, FirstRun
    <2> QED BY <2>1, <2>2
  <1>5. RunsMarked' /\ MarkRan'
    BY <1>2 DEF IInv, RunsMarked, MarkRan
  <1>6. RunsKnown' /\ RanAtOrigin' /\ OnceUnlessDoubt' /\ NamedWhere' /\ AppliedRan'
    BY <1>2 DEF IInv, RunsKnown, RanAtOrigin, OnceUnlessDoubt, NamedWhere, AppliedRan
  <1> QED BY <1>1, <1>3, <1>4, <1>5, <1>6 DEF IInv

LEMMA ReturnsInv ==
  ASSUME IInv, NEW a \in Appliers, InnerReturns(a)
  PROVE  IInv'
  <1>1. TypeOK /\ TypeOK'
    BY TypeStep DEF IInv, Next, Step
  <1>2. /\ UNCHANGED <<job, doubt>>
        /\ pc[a] = "inner" /\ pc'[a] = "mark"
        /\ \A b \in Appliers : b # a => pc'[b] = pc[b]
        /\ Landed(a) /\ RecordInverse(a)
    BY <1>1 DEF InnerReturns, Go, TypeOK
  <1>3. /\ StoreGrows
        /\ \A i \in DOMAIN store : store'[i] = store[i]
        /\ \A i \in DOMAIN store' \ DOMAIN store :
             store'[i].status = "recorded" /\ store'[i].named \in {None, store'[i].where}
    BY <1>1, <1>2, RecordGrows
  <1>4. /\ \A run \in runs' : run \in runs \/ run.token = job[a].token
        /\ \E run \in runs' : run.token = job[a].token
        /\ runs \subseteq runs'
        /\ RunsKnown' /\ RanAtOrigin' /\ OnceUnlessDoubt'
    BY <1>2, <1>3, NewRun
  <1>5. OneRunner'
    BY <1>2 DEF IInv, OneRunner, Running
  <1>6. FirstRun'
    BY <1>2, <1>4 DEF IInv, FirstRun, OneRunner, Running
  <1>7. RunsMarked' /\ MarkRan'
    BY <1>2, <1>3, <1>4 DEF IInv, RunsMarked, MarkRan, StoreGrows, RunsKnown
  <1>8. NamedWhere' /\ AppliedRan'
    BY <1>3, <1>4, StoreProps
  <1> QED BY <1>1, <1>4, <1>5, <1>6, <1>7, <1>8 DEF IInv

LEMMA MarkInv ==
  ASSUME IInv, NEW a \in Appliers, Mark(a)
  PROVE  IInv'
  <1>1. TypeOK /\ TypeOK'
    BY TypeStep DEF IInv, Next, Step
  <1>2. /\ UNCHANGED <<runs, doubt>> /\ pc[a] = "mark"
        /\ \A b \in Appliers : pc'[b] # "idle" => b # a /\ pc[b] # "idle" /\ job'[b] = job[b]
        /\ \A b \in Appliers : b # a => pc'[b] = pc[b] /\ job'[b] = job[b]
    BY <1>1, LeaveType DEF Mark, Leave, Go, TypeOK
  <1>3. /\ StoreGrows
        /\ DOMAIN store' = DOMAIN store
        /\ store'[job[a].token].status = "applied"
        /\ \A i \in DOMAIN store : i # job[a].token => store'[i] = store[i]
    BY <1>1, MarkGrows
  <1>4. RunsKnown' /\ RanAtOrigin' /\ OnceUnlessDoubt'
    BY <1>2, <1>3, SameRuns
  <1>5. OneRunner'
    BY <1>2 DEF IInv, OneRunner, Running
  <1>6. FirstRun' /\ MarkRan'
    BY <1>2 DEF IInv, FirstRun, MarkRan
  <1>7. RunsMarked'
    BY <1>2, <1>3 DEF IInv, RunsMarked, StoreGrows, RunsKnown
  <1>8. NamedWhere' /\ AppliedRan'
    <2>1. \E run \in runs : run.token = job[a].token
      BY <1>2 DEF IInv, MarkRan
    <2> QED BY <1>2, <1>3, <2>1, StoreProps
  <1> QED BY <1>1, <1>4, <1>5, <1>6, <1>7, <1>8 DEF IInv

LEMMA AbandonInv ==
  ASSUME IInv, TypeOK', NEW a \in Appliers, Abandons(a)
  PROVE  IInv'
  <1>1. TypeOK
    BY DEF IInv
  <1>2. /\ doubt \subseteq doubt'
        /\ \A b \in Appliers : pc'[b] # "idle" => b # a /\ pc[b] # "idle" /\ job'[b] = job[b]
        /\ \A b \in Appliers : b # a => pc'[b] = pc[b] /\ job'[b] = job[b]
    BY <1>1, LeaveType DEF Abandons, Leave, Go, TypeOK
  <1>3. /\ StoreGrows
        /\ \A i \in DOMAIN store : store'[i] = store[i]
        /\ \A i \in DOMAIN store' \ DOMAIN store :
             store'[i].status = "recorded" /\ store'[i].named \in {None, store'[i].where}
    BY <1>1, AbandonStore
  <1>4. /\ \A run \in runs' : run \in runs \/ (run.token = job[a].token /\ job[a].token \in doubt')
        /\ runs \subseteq runs'
    BY DEF Abandons, Landed
  <1>5. RunsKnown' /\ RanAtOrigin' /\ OnceUnlessDoubt'
    <2>1. CASE runs' = runs
      BY <1>2, <1>3, <2>1, SameRuns
    <2>2. CASE Landed(a) /\ pc[a] = "inner" /\ job[a].token \in doubt'
      BY <1>2, <1>3, <2>2, NewRun
    <2> QED BY <2>1, <2>2 DEF Abandons
  <1>6. OneRunner'
    BY <1>2 DEF IInv, OneRunner, Running
  <1>7. FirstRun' /\ MarkRan'
    BY <1>2, <1>4 DEF IInv, FirstRun, MarkRan
  <1>8. RunsMarked'
    BY <1>2, <1>3, <1>4 DEF IInv, RunsMarked, RunsKnown, StoreGrows, Abandons
  <1>9. NamedWhere' /\ AppliedRan'
    BY <1>3, <1>4, StoreProps
  <1> QED BY <1>5, <1>6, <1>7, <1>8, <1>9 DEF IInv

LEMMA StepInv == ASSUME IInv, [Next]_vars PROVE IInv'
  <1>1. TypeOK'
    BY TypeStep DEF IInv
  <1>2. CASE UNCHANGED vars
    BY <1>1, <1>2
       DEF vars, IInv, OneRunner, FirstRun, RunsMarked, MarkRan, RunsKnown, NamedWhere,
           AppliedRan, OnceUnlessDoubt, RanAtOrigin, Running
  <1>3. ASSUME NEW a \in Appliers, Step(a) PROVE IInv'
    BY <1>1, <1>3, DispatchInv, ReturnsInv, MarkInv, AbandonSteps, AbandonInv DEF Step
  <1> QED BY <1>2, <1>3, ApplyInv DEF Next

(* "Applied" is never a claim about an inverse that did not run.            *)
THEOREM AppliedTokensRan == Spec => []AppliedRan
  <1>1. IInv => AppliedRan
    BY DEF IInv
  <1> QED BY <1>1, InitInv, StepInv, PTL DEF Spec

(* A second run of a token needs an earlier one that was concurrent, or     *)
(* that ended without its applier learning or saving how.                   *)
THEOREM TokensRunOnce == Spec => []OnceUnlessDoubt
  <1>1. IInv => OnceUnlessDoubt
    BY DEF IInv
  <1> QED BY <1>1, InitInv, StepInv, PTL DEF Spec

(* Inverses run where the writes they undo ran, unless told otherwise.      *)
THEOREM InversesRunAtOrigin == Spec => []RanAtOrigin
  <1>1. IInv => RanAtOrigin
    BY DEF IInv
  <1> QED BY <1>1, InitInv, StepInv, PTL DEF Spec

-----------------------------------------------------------------------------
(* What an applied token is good for.                                       *)

(* An applied token that is not in doubt has one run, neither more nor less. *)
RanOnce ==
  \A i \in DOMAIN store :
    store[i].status = "applied" /\ i \notin doubt =>
      \E run \in runs : \A again \in runs : again.token = i <=> again = run

(* One that was marked, and whose inverse nobody runs, was dealt with, even *)
(* where an earlier run of it is in doubt.                                  *)
Settled(i) == store[i].status = "applied" /\ \A a \in Appliers : ~ Running(a, i)

SettledStay ==
  \A i \in DOMAIN store : Settled(i) =>
    /\ i \in DOMAIN store' /\ Settled(i)'
    /\ \A run \in runs' : run.token = i => run \in runs

(* "Applied" means run exactly once, unless the token is in doubt.          *)
THEOREM AppliedRanOnce == Spec => []RanOnce
  <1>1. AppliedRan /\ OnceUnlessDoubt => RanOnce
    BY DEF AppliedRan, OnceUnlessDoubt, RanOnce
  <1> QED BY <1>1, AppliedTokensRan, TokensRunOnce, PTL

(* An applier that is past its check runs one token until it leaves.        *)
LEMMA RunningOn ==
  ASSUME TypeOK, [Next]_vars
  PROVE  /\ StoreGrows
         /\ \A a \in Appliers, i \in DOMAIN store :
              Running(a, i)' => Running(a, i) \/ store[i].status = "recorded"
         /\ \A run \in runs' : run \in runs \/ \E a \in Appliers : Running(a, run.token)
  <1> DEFINE Goal == /\ StoreGrows
                     /\ \A a \in Appliers, i \in DOMAIN store :
                          Running(a, i)' => Running(a, i) \/ store[i].status = "recorded"
                     /\ \A run \in runs' : run \in runs \/ \E a \in Appliers : Running(a, run.token)
  <1>1. UNCHANGED store => StoreGrows
    BY DEF StoreGrows, TypeOK
  <1>2. ASSUME UNCHANGED vars PROVE Goal
    BY <1>1, <1>2 DEF vars, Running
  <1>3. ASSUME NEW a \in Appliers, NEW i \in DOMAIN store, NEW target \in Targets \cup {None},
               NEW dry_run \in BOOLEAN, Apply(a, i, target, dry_run)
        PROVE  Goal
    <2>1. pc'[a] = "read" /\ UNCHANGED <<store, runs>>
          /\ \A b \in Appliers \ {a} : pc'[b] = pc[b] /\ job'[b] = job[b]
      BY <1>3 DEF Apply, Go, TypeOK
    <2> QED BY <1>1, <2>1 DEF Running
  <1>4. ASSUME NEW a \in Appliers, Dispatch(a) PROVE Goal
    <2>1. /\ UNCHANGED <<store, runs, job>> /\ store[job[a].token].status = "recorded"
          /\ \A b \in Appliers \ {a} : pc'[b] = pc[b]
      BY <1>4 DEF Dispatch, Go, Tok, TypeOK
    <2> QED BY <1>1, <2>1 DEF Running
  <1>5. ASSUME NEW a \in Appliers, InnerReturns(a) PROVE Goal
    <2>1. /\ pc[a] = "inner" /\ pc' = [pc EXCEPT ![a] = "mark"] /\ UNCHANGED job
          /\ Landed(a) /\ RecordInverse(a)
      BY <1>5 DEF InnerReturns, Go
    <2>2. StoreGrows
      BY <2>1, RecordGrows
    <2>3. \A b \in Appliers, i \in DOMAIN store : Running(b, i)' => Running(b, i)
      BY <2>1 DEF Running, TypeOK
    <2>4. \A run \in runs' : run \in runs \/ Running(a, run.token)
      BY <2>1 DEF Running, Landed
    <2> QED BY <2>2, <2>3, <2>4
  <1>6. ASSUME NEW a \in Appliers, Mark(a) PROVE Goal
    <2>1. StoreGrows
      BY <1>6, MarkGrows
    <2>2. Leave(a) /\ UNCHANGED runs
      BY <1>6 DEF Mark
    <2> QED BY <2>1, <2>2, LeaveType DEF Running, Leave, Go, TypeOK
  <1>7. ASSUME NEW a \in Appliers, Abandons(a) PROVE Goal
    <2>1. StoreGrows
      BY <1>7, AbandonStore
    <2>2. Leave(a) /\ (runs' = runs \/ (Landed(a) /\ pc[a] = "inner"))
      BY <1>7 DEF Abandons
    <2>3. \A run \in runs' : run \in runs \/ Running(a, run.token)
      BY <2>2 DEF Running, Landed
    <2>4. \A b \in Appliers, i \in DOMAIN store : Running(b, i)' => Running(b, i)
      BY <2>2 DEF Running, Leave, Go, TypeOK
    <2> QED BY <2>1, <2>3, <2>4
  <1>8. ASSUME NEW a \in Appliers, Step(a) PROVE Goal
    BY <1>4, <1>5, <1>6, <1>7, <1>8, AbandonSteps DEF Step
  <1> HIDE DEF Goal
  <1>9. Goal
    BY <1>2, <1>3, <1>8 DEF Next
  <1> QED BY <1>9 DEF Goal

(* Nobody who applies it again, whoever they are and whatever they have     *)
(* read, runs it once more: a status read before the mark is the only way.  *)
THEOREM SettledForGood == Spec => [][SettledStay]_vars
  <1>1. TypeOK /\ [Next]_vars => [SettledStay]_vars
    <2> SUFFICES ASSUME TypeOK, [Next]_vars, NEW i \in DOMAIN store, Settled(i)
                 PROVE  /\ i \in DOMAIN store' /\ Settled(i)'
                        /\ \A run \in runs' : run.token = i => run \in runs
      BY DEF SettledStay
    <2>1. i \in DOMAIN store' /\ store'[i].status = "applied"
      BY RunningOn DEF StoreGrows, Settled
    <2>2. \A a \in Appliers : ~ Running(a, i)'
      BY RunningOn DEF Settled
    <2>3. \A run \in runs' : run.token = i => run \in runs
      BY RunningOn DEF Settled
    <2> QED BY <2>1, <2>2, <2>3 DEF Settled
  <1> QED BY <1>1, UndoTypeCorrect, PTL DEF Spec
=============================================================================
