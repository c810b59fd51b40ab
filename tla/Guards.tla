------------------------------- MODULE Guards -------------------------------
(***************************************************************************)
(* The guards that a governed call passes in _pre_check and reports to in  *)
(* _finalize, as the threads of one process share them: the budget and the *)
(* runaway breaker of governance/budget.py, and the rate limits and the    *)
(* circuit breaker of an armable pattern (governance/patterns.py).         *)
(*                                                                         *)
(* Each holds a lock of its own, but the budget reads the clock before it  *)
(* waits for its lock, and a call reports its outcome long after it armed. *)
(***************************************************************************)
EXTENDS Naturals, Sequences, FiniteSets

CONSTANTS
  Threads,         \* the threads that make calls
  Prints,          \* fingerprints: (tool, redacted params)
  Keys,            \* the (pattern, target) pairs with counters
  KeyOf,           \* the pair that a call of a fingerprint consults
  None,            \* no ceiling, no pattern
  Ceilings,        \* the values that POSTGRES_MAX_TOOL_CALLS is given
  MaxToolSeconds,  \* POSTGRES_MAX_TOOL_SECONDS
  RunawayMax,      \* POSTGRES_RUNAWAY_MAX, 0 disables
  RunawayWindow,   \* POSTGRES_RUNAWAY_WINDOW_SEC, 0 disables
  Hour, Day,       \* the two windows of the rate limit
  MaxPerHour,      \* 0: no cap
  MaxPerDay,       \* 0: no cap
  Threshold,       \* circuit_threshold
  DisableFor,      \* circuit_disable_seconds
  MaxCalls,        \* bound: calls of each thread
  MaxTime          \* bound: the last moment of the clock

ASSUME PrintAssumption == Prints # {}
ASSUME KeyAssumption == KeyOf \in [Prints -> Keys \cup {None}] /\ None \notin Keys
ASSUME LimitAssumption ==
  /\ Ceilings \subseteq Nat \cup {None} /\ Ceilings # {} /\ MaxToolSeconds \in Nat \cup {None}
  /\ RunawayMax \in Nat /\ RunawayWindow \in Nat
  /\ Hour \in Nat /\ Day \in Nat /\ Hour <= Day
  /\ MaxPerHour \in Nat /\ MaxPerDay \in Nat
  /\ Threshold \in Nat \ {0} /\ DisableFor \in Nat \ {0}
ASSUME BoundAssumption == MaxCalls \in [Threads -> Nat] /\ MaxTime \in Nat

VARIABLES
  now,             \* the clock
  pc,              \* where each thread is in its call
  calls,           \* calls started by each thread
  print,           \* the fingerprint of its call
  stamp,           \* the moment its call started, and read the clock
  armed,           \* did its call arm the pattern
  max_calls,       \* POSTGRES_MAX_TOOL_CALLS, read anew by every check
  total_calls,     \* _State.total_calls
  total_seconds,   \* _State.total_seconds
  windows,         \* _State.windows: the moments of each fingerprint
  arms,            \* _Counters.arm_timestamps, each with the call that it is of
  failures,        \* _Counters.consecutive_failures
  disabled_until,  \* _Counters.disabled_until
  admitted,        \* history: the calls the budget let pass, and when
  armings,         \* history: the calls that armed a pattern, and when
  reports          \* history: the outcomes reported for each pattern

vars == <<now, pc, calls, print, stamp, armed, max_calls, total_calls, total_seconds,
          windows, arms, failures, disabled_until, admitted, armings, reports>>
thread == <<calls, print, stamp>>
budget == <<max_calls, total_calls, total_seconds, windows, admitted>>
breaker == <<failures, disabled_until, reports>>
pattern == <<arms, breaker, armings>>

Current(t) == <<t, calls[t]>>
Go(t, place) == pc' = [pc EXCEPT ![t] = place]
AnyPrint == CHOOSE p \in Prints : TRUE

(* Faulty: the pattern stays armed for the next call. *)
LeaveArmed(t) ==
  /\ Go(t, "idle")
  /\ print' = [print EXCEPT ![t] = AnyPrint]
  /\ stamp' = [stamp EXCEPT ![t] = 0]
  /\ UNCHANGED armed

(* The wrapper returns, and its _CallState is gone. *)
Leave(t) ==
  /\ Go(t, "idle")
  /\ print' = [print EXCEPT ![t] = AnyPrint]
  /\ stamp' = [stamp EXCEPT ![t] = 0]
  /\ armed' = [armed EXCEPT ![t] = FALSE]

Init ==
  /\ now = 0
  /\ pc = [t \in Threads |-> "idle"]
  /\ calls = [t \in Threads |-> 0]
  /\ print = [t \in Threads |-> AnyPrint]
  /\ stamp = [t \in Threads |-> 0]
  /\ armed = [t \in Threads |-> FALSE]
  /\ max_calls \in Ceilings
  /\ total_calls = 0
  /\ total_seconds = 0
  /\ windows = [p \in Prints |-> <<>>]
  /\ arms = [k \in Keys |-> {}]
  /\ failures = [k \in Keys |-> 0]
  /\ disabled_until = [k \in Keys |-> 0]
  /\ admitted = {}
  /\ armings = {}
  /\ reports = [k \in Keys |-> <<>>]

-----------------------------------------------------------------------------
Tick ==
  /\ now < MaxTime
  /\ now' = now + 1
  /\ UNCHANGED <<pc, thread, armed, budget, pattern>>

(* The operator raises the ceiling, or lifts it, without a restart. *)
RaiseCeiling(ceiling) ==
  /\ max_calls # None /\ ceiling # max_calls
  /\ ceiling # None => ceiling > max_calls
  /\ max_calls' = ceiling
  /\ UNCHANGED <<now, pc, thread, armed, total_calls, total_seconds, windows, admitted, pattern>>

(* _CallState, and the first line of check_and_record, outside the lock. *)
Enter(t, p) ==
  /\ pc[t] = "idle" /\ calls[t] < MaxCalls[t]
  /\ calls' = [calls EXCEPT ![t] = @ + 1]
  /\ print' = [print EXCEPT ![t] = p]
  /\ stamp' = [stamp EXCEPT ![t] = now]
  /\ Go(t, "check")
  /\ UNCHANGED <<now, armed, budget, pattern>>

(* The budget, under its lock. *)

(* Faulty: off by one. *)
CeilingPassed ==
  \/ max_calls # None /\ total_calls > max_calls
  \/ MaxToolSeconds # None /\ total_seconds >= MaxToolSeconds

CeilingReached ==
  \/ max_calls # None /\ total_calls >= max_calls
  \/ MaxToolSeconds # None /\ total_seconds >= MaxToolSeconds

Watched == RunawayMax > 0 /\ RunawayWindow > 0

(* Faulty: drop a stamp at the cutoff. *)
KeptStrictly(window, at) ==
  LET young == {i \in DOMAIN window : window[i] + RunawayWindow > at}
  IN  IF young = {} THEN <<>>
      ELSE SubSeq(window, CHOOSE i \in young : \A j \in young : i <= j, Len(window))

(* The stamps that are dropped from the left: those before the cutoff, up   *)
(* to the first that is not.  A stamp that came late may hide behind it.    *)
Kept(window, at) ==
  LET young == {i \in DOMAIN window : window[i] + RunawayWindow >= at}
  IN  IF young = {} THEN <<>>
      ELSE SubSeq(window, CHOOSE i \in young : \A j \in young : i <= j, Len(window))

RefuseCeiling(t) ==
  /\ pc[t] = "check" /\ CeilingReached
  /\ Go(t, "over")
  /\ UNCHANGED <<now, thread, armed, budget, pattern>>

RefuseRunaway(t) ==
  /\ pc[t] = "check" /\ ~ CeilingReached /\ Watched
  /\ LET kept == Kept(windows[print[t]], stamp[t]) IN
       /\ Len(kept) >= RunawayMax
       /\ windows' = [windows EXCEPT ![print[t]] = kept]
  /\ Go(t, "over")
  /\ UNCHANGED <<now, thread, armed, max_calls, total_calls, total_seconds, admitted, pattern>>

Admit(t) ==
  /\ pc[t] = "check" /\ ~ CeilingReached
  /\ LET kept == Kept(windows[print[t]], stamp[t]) IN
       /\ Watched => Len(kept) < RunawayMax
       /\ windows' = IF Watched THEN [windows EXCEPT ![print[t]] = Append(kept, stamp[t])]
                     ELSE windows
  /\ total_calls' = total_calls + 1
  /\ admitted' = admitted \cup {[call |-> Current(t), print |-> print[t],
                                started |-> stamp[t], at |-> now]}
  /\ Go(t, "match")
  /\ UNCHANGED <<now, thread, armed, max_calls, total_seconds, pattern>>

-----------------------------------------------------------------------------
(* The first armable pattern of the action, under the engine's lock.        *)

Key(t) == KeyOf[print[t]]

MatchNothing(t) ==
  /\ pc[t] = "match" /\ Key(t) = None
  /\ Go(t, "over")
  /\ UNCHANGED <<now, thread, armed, budget, pattern>>

MatchBroken(t) ==
  /\ pc[t] = "match" /\ Key(t) # None
  /\ now < disabled_until[Key(t)]
  /\ Go(t, "over")
  /\ UNCHANGED <<now, thread, armed, budget, pattern>>

InLastHour(k) == {a \in arms[k] : a.at + Hour > now}

(* Faulty: keep an hour of moments only. *)
RecentHourly(k) == InLastHour(k)

Recent(k) == {a \in arms[k] : a.at + Day > now}

Capped(k) ==
  \/ MaxPerHour > 0 /\ Cardinality(InLastHour(k)) >= MaxPerHour
  \/ MaxPerDay > 0 /\ Cardinality(Recent(k)) >= MaxPerDay

MatchCapped(t) ==
  /\ pc[t] = "match" /\ Key(t) # None
  /\ now >= disabled_until[Key(t)] /\ Capped(Key(t))
  /\ arms' = [arms EXCEPT ![Key(t)] = Recent(Key(t))]
  /\ Go(t, "over")
  /\ UNCHANGED <<now, thread, armed, budget, breaker, armings>>

Arm(t) ==
  /\ pc[t] = "match" /\ Key(t) # None
  /\ now >= disabled_until[Key(t)] /\ ~ Capped(Key(t))
  /\ arms' = [arms EXCEPT ![Key(t)] = Recent(Key(t)) \cup {[call |-> Current(t), at |-> now]}]
  /\ armings' = armings \cup {[call |-> Current(t), key |-> Key(t), at |-> now]}
  /\ armed' = [armed EXCEPT ![t] = TRUE]
  /\ Go(t, "over")
  /\ UNCHANGED <<now, thread, budget, breaker>>

-----------------------------------------------------------------------------
(* The tool body takes its time; then _finalize: add_duration, also of a    *)
(* call that was refused, and report_outcome of a call that armed a pattern. *)
AddDuration(t) ==
  /\ pc[t] = "over"
  /\ total_seconds' = total_seconds + (now - stamp[t])
  /\ IF armed[t] THEN Go(t, "report") /\ UNCHANGED <<print, stamp, armed>> ELSE Leave(t)
  /\ UNCHANGED <<now, calls, max_calls, total_calls, windows, admitted, pattern>>

Reported(t, success) ==
  /\ reports' = [reports EXCEPT ![Key(t)] = Append(@, [success |-> success, at |-> now])]
  /\ Leave(t)

(* A success clears the failures, not a breaker that is already open. *)
ReportSuccess(t) ==
  /\ pc[t] = "report"
  /\ failures' = [failures EXCEPT ![Key(t)] = 0]
  /\ Reported(t, TRUE)
  /\ UNCHANGED <<now, calls, budget, arms, armings, disabled_until>>

(* Faulty: off by one. *)
ReportFailureLate(t) ==
  /\ pc[t] = "report"
  /\ failures' = [failures EXCEPT ![Key(t)] = @ + 1]
  /\ disabled_until' = IF failures[Key(t)] + 1 > Threshold
                       THEN [disabled_until EXCEPT ![Key(t)] = now + DisableFor]
                       ELSE disabled_until
  /\ Reported(t, FALSE)
  /\ UNCHANGED <<now, calls, budget, arms, armings>>

ReportFailure(t) ==
  /\ pc[t] = "report"
  /\ failures' = [failures EXCEPT ![Key(t)] = @ + 1]
  /\ disabled_until' = IF failures[Key(t)] + 1 >= Threshold
                       THEN [disabled_until EXCEPT ![Key(t)] = now + DisableFor]
                       ELSE disabled_until
  /\ Reported(t, FALSE)
  /\ UNCHANGED <<now, calls, budget, arms, armings>>

-----------------------------------------------------------------------------
ThreadStep(t) ==
  \/ RefuseCeiling(t) \/ RefuseRunaway(t) \/ Admit(t)
  \/ MatchNothing(t) \/ MatchBroken(t) \/ MatchCapped(t) \/ Arm(t)
  \/ AddDuration(t) \/ ReportSuccess(t) \/ ReportFailure(t)

Next ==
  \/ Tick
  \/ \E ceiling \in Ceilings : RaiseCeiling(ceiling)
  \/ \E t \in Threads, p \in Prints : Enter(t, p)
  \/ \E t \in Threads : ThreadStep(t)

Spec == Init /\ [][Next]_vars
-----------------------------------------------------------------------------
Moments == 0 .. MaxTime

TypeOK ==
  /\ now \in Moments
  /\ pc \in [Threads -> {"idle", "check", "match", "over", "report"}]
  /\ calls \in [Threads -> Nat] /\ \A t \in Threads : calls[t] <= MaxCalls[t]
  /\ print \in [Threads -> Prints]
  /\ stamp \in [Threads -> 0 .. now]
  /\ armed \in [Threads -> BOOLEAN]
  /\ \A t \in Threads : armed[t] => pc[t] \in {"over", "report"} /\ Key(t) # None
  /\ max_calls \in Ceilings /\ total_calls \in Nat /\ total_seconds \in Nat
  /\ windows \in [Prints -> Seq(0 .. now)]
  /\ arms \in [Keys -> SUBSET [call : Threads \X Nat, at : 0 .. now]]
  /\ failures \in [Keys -> Nat]
  /\ disabled_until \in [Keys -> Nat]
  /\ reports \in [Keys -> Seq([success : BOOLEAN, at : 0 .. now])]

(* Every call that the budget let pass is counted once, however threads     *)
(* interleave, and never more of them than a ceiling that is only raised.   *)
CallsCounted ==
  /\ total_calls = Cardinality(admitted)
  /\ max_calls # None => Cardinality(admitted) <= max_calls

(* In no stretch of RunawayWindow does the breaker let more than RunawayMax *)
(* calls of one fingerprint start and pass; a call that read the clock      *)
(* before the stretch and passes in it, late, makes one more of its thread. *)
PassedIn(p, from) ==
  {a \in admitted : a.print = p /\ from <= a.started /\ a.at <= from + RunawayWindow}

RunawayBounded ==
  Watched => \A p \in Prints, from \in Moments :
               Cardinality(PassedIn(p, from)) <= RunawayMax

(* A pattern fires at most MaxPerHour times in any hour, and MaxPerDay      *)
(* times in any day, on a target.                                           *)
FiredIn(k, from, long) ==
  {a \in armings : a.key = k /\ from <= a.at /\ a.at < from + long}

RateLimited ==
  \A k \in Keys, from \in Moments :
    /\ MaxPerHour > 0 => Cardinality(FiredIn(k, from, Hour)) <= MaxPerHour
    /\ MaxPerDay > 0 => Cardinality(FiredIn(k, from, Day)) <= MaxPerDay

(* Once the last Threshold outcomes reported of a pattern are failures it   *)
(* does not fire for DisableFor, whatever calls that had fired before it    *)
(* report afterwards.                                                       *)
Tripped(k) ==
  \E i \in DOMAIN reports[k] :
    /\ i >= Threshold
    /\ \A j \in (i - Threshold) + 1 .. i : ~ reports[k][j].success
    /\ now < reports[k][i].at + DisableFor

BreakerHolds == [][\A a \in armings' \ armings : ~ Tripped(a.key)]_vars
=============================================================================
