----------------------------- MODULE UndoApply -----------------------------
(***************************************************************************)
(* Applying undo tokens: undo_apply of mcp_server/tools/undo.py over the   *)
(* store of governance/undo.py, by an MCP server and by CLI invocations    *)
(* that share the store.  undo_apply reads the token, runs its inverse as  *)
(* a governed call of its own, and only then marks the token; between any  *)
(* two of these steps another applier may run, a response may be lost, or  *)
(* the process may die.  An inverse that runs records a token in its turn. *)
(*                                                                         *)
(* The inner governed call is taken at its outcomes (see GovernedCall).    *)
(***************************************************************************)
EXTENDS Naturals, Sequences

CONSTANTS
  Appliers,   \* the processes that apply tokens
  Targets,    \* the configured targets
  Default,    \* the first target in the configuration each process loaded
  None,       \* no target given
  Recorded,   \* the tokens the store starts with
  MaxTokens,  \* bound: tokens in the store
  MaxApplies  \* bound: undo_apply calls of each applier

(* named: the target in orig_params, where the write ran when it is given; *)
(* where (history): where the original write ran.                          *)
TokenType == [status : {"recorded", "applied"}, named : Targets \cup {None},
              where : Targets]

ASSUME DefaultAssumption == Default \in [Appliers -> Targets] /\ None \notin Targets
ASSUME RecordedAssumption ==
  /\ Recorded \in Seq(TokenType)
  /\ \A i \in DOMAIN Recorded :
       /\ Recorded[i].status = "recorded"
       /\ Recorded[i].named \in {None, Recorded[i].where}
ASSUME BoundAssumption == MaxTokens \in Nat /\ MaxApplies \in [Appliers -> Nat]

VARIABLES
  pc,       \* where each applier is in undo_apply
  applies,  \* undo_apply calls started by each applier
  job,      \* its arguments: the token, the explicit target, dry_run
  store,    \* undo.db
  runs,     \* history: each landing of an inverse, the token and the target
  doubt,    \* history: tokens whose run was concurrent, or ended unresolved
  answer    \* of the last undo_apply: what the inner call returned, the exit status

vars == <<pc, applies, job, store, runs, doubt, answer>>

JobType == [token : Nat, target : Targets \cup {None}, dry_run : BOOLEAN]
NoAnswer == [inner |-> "none", exit |-> 0]
NoJob == [token |-> 0, target |-> None, dry_run |-> FALSE]
RunType == [token : Nat, at : Targets, asked : Targets \cup {None}, by : Appliers \X Nat]

Init ==
  /\ pc = [a \in Appliers |-> "idle"]
  /\ applies = [a \in Appliers |-> 0]
  /\ job = [a \in Appliers |-> NoJob]
  /\ store = Recorded
  /\ runs = {}
  /\ doubt = {}
  /\ answer = [a \in Appliers |-> NoAnswer]

-----------------------------------------------------------------------------
Tok(a) == store[job[a].token]
Go(a, place) == pc' = [pc EXCEPT ![a] = place]

Leave(a) == Go(a, "idle") /\ job' = [job EXCEPT ![a] = NoJob]

Answer(a, inner, exit) == answer' = [answer EXCEPT ![a] = [inner |-> inner, exit |-> exit]]

(* undo_apply returns a dict with no "error" of its own, which cli checked() *)
(* lets pass; only the finish_write of undo_apply itself may still raise.   *)
Return(a, inner) == \E exit \in {0, 1} : Answer(a, inner, exit)

Doubt(a) == doubt' = doubt \cup {job[a].token}

Apply(a, i, target, dry_run) ==
  /\ pc[a] = "idle" /\ applies[a] < MaxApplies[a]
  /\ applies' = [applies EXCEPT ![a] = @ + 1]
  /\ job' = [job EXCEPT ![a] = [token |-> i, target |-> target, dry_run |-> dry_run]]
  /\ answer' = [answer EXCEPT ![a] = NoAnswer]
  /\ Go(a, "read")
  /\ UNCHANGED <<store, runs, doubt>>

(* The outer call is refused by the budget or the audit gate, the store is  *)
(* not available, or the token cannot be replayed.                          *)
Refuse(a) ==
  /\ pc[a] = "read"
  /\ Answer(a, "none", 1)
  /\ Leave(a)
  /\ UNCHANGED <<applies, store, runs, doubt>>

AlreadyApplied(a) ==
  /\ pc[a] = "read" /\ Tok(a).status # "recorded"
  /\ Answer(a, "none", 1)
  /\ Leave(a)
  /\ UNCHANGED <<applies, store, runs, doubt>>

Preview(a) ==
  /\ pc[a] = "read" /\ Tok(a).status = "recorded" /\ job[a].dry_run
  /\ Answer(a, "none", 0)
  /\ Leave(a)
  /\ UNCHANGED <<applies, store, runs, doubt>>

(* Another applier is running the inverse of this token at this moment.     *)
Contended(a) ==
  \E b \in Appliers \ {a} : pc[b] \in {"inner", "mark"} /\ job[b].token = job[a].token

(* Faulty: do not look at the status. *)
DispatchUnchecked(a) ==
  /\ pc[a] = "read" /\ ~ job[a].dry_run
  /\ Go(a, "inner")
  /\ doubt' = IF Contended(a) THEN doubt \cup {job[a].token} ELSE doubt
  /\ UNCHANGED <<applies, job, store, runs, answer>>

Dispatch(a) ==
  /\ pc[a] = "read" /\ Tok(a).status = "recorded" /\ ~ job[a].dry_run
  /\ Go(a, "inner")
  /\ doubt' = IF Contended(a) THEN doubt \cup {job[a].token} ELSE doubt
  /\ UNCHANGED <<applies, job, store, runs, answer>>

-----------------------------------------------------------------------------
(* fn(...): the inverse, a governed call with its own audit row and token.  *)

(* Faulty: ignore where the write ran. *)
ChosenCallers(a) == job[a].target

(* _origin_target: an explicit target wins over that of the original write. *)
Chosen(a) == IF job[a].target # None THEN job[a].target ELSE Tok(a).named

(* Faulty: no default target. *)
AtUnresolved(a) == Chosen(a)

(* ConnectionManager.connect: no target is the default of this process.     *)
At(a) == IF Chosen(a) # None THEN Chosen(a) ELSE Default[a]

Landed(a) == runs' = runs \cup {[token |-> job[a].token, at |-> At(a),
                                 asked |-> job[a].target, by |-> <<a, applies[a]>>]}

(* _record_undo of the inner call: its token, unless the store refuses.     *)
RecordInverse(a) ==
  \/ UNCHANGED store
  \/ /\ Len(store) < MaxTokens
     /\ store' = Append(store, [status |-> "recorded", named |-> Chosen(a), where |-> At(a)])

InnerReturns(a) ==
  /\ pc[a] = "inner"
  /\ Landed(a)
  /\ RecordInverse(a)
  /\ Go(a, "mark")
  /\ UNCHANGED <<applies, job, doubt, answer>>

(* Faulty: mark the token whatever the inverse returned. *)
InnerFailsMarked(a) ==
  /\ pc[a] = "inner"
  /\ store' = [store EXCEPT ![job[a].token].status = "applied"]
  /\ Return(a, "error")
  /\ Leave(a)
  /\ UNCHANGED <<applies, runs, doubt>>

(* An error dict: the token stays recorded. *)
InnerFails(a) ==
  /\ pc[a] = "inner"
  /\ Return(a, "error")
  /\ Leave(a)
  /\ UNCHANGED <<applies, store, runs, doubt>>

InnerLost(a) ==
  /\ pc[a] = "inner"
  /\ Landed(a) \/ UNCHANGED runs
  /\ Doubt(a)
  /\ Return(a, "unknown")
  /\ Leave(a)
  /\ UNCHANGED <<applies, store>>

(* BudgetExceeded or AuditUnavailable before the statement, or              *)
(* AuditUnavailable from finish_write after it: tool_errors flattens both.  *)
InnerRefused(a) ==
  /\ pc[a] = "inner"
  /\ Answer(a, "raised", 1)
  /\ Leave(a)
  /\ UNCHANGED <<applies, store, runs, doubt>>

InnerUnaudited(a) ==
  /\ pc[a] = "inner"
  /\ Landed(a)
  /\ RecordInverse(a)
  /\ Doubt(a)
  /\ Answer(a, "raised", 1)
  /\ Leave(a)
  /\ UNCHANGED applies

(* store.mark, when the result carries no error. *)
Mark(a) ==
  /\ pc[a] = "mark"
  /\ store' = [store EXCEPT ![job[a].token].status = "applied"]
  /\ Return(a, "ok")
  /\ Leave(a)
  /\ UNCHANGED <<applies, runs, doubt>>

(* The UPDATE of mark raises: an error after the inverse ran. *)
MarkFails(a) ==
  /\ pc[a] = "mark"
  /\ Doubt(a)
  /\ Answer(a, "ok", 1)
  /\ Leave(a)
  /\ UNCHANGED <<applies, store, runs>>

Crash(a) ==
  /\ pc[a] # "idle"
  /\ \/ pc[a] = "inner" /\ Landed(a)
     \/ UNCHANGED runs
  /\ IF pc[a] \in {"inner", "mark"} THEN Doubt(a) ELSE UNCHANGED doubt
  /\ Leave(a)
  /\ UNCHANGED <<applies, store, answer>>

-----------------------------------------------------------------------------
Step(a) ==
  \/ Refuse(a) \/ AlreadyApplied(a) \/ Preview(a) \/ Dispatch(a)
  \/ InnerReturns(a) \/ InnerFails(a) \/ InnerLost(a) \/ InnerRefused(a)
  \/ InnerUnaudited(a) \/ Mark(a) \/ MarkFails(a) \/ Crash(a)

Next ==
  \/ \E a \in Appliers, i \in DOMAIN store, target \in Targets \cup {None},
       dry_run \in BOOLEAN : Apply(a, i, target, dry_run)
  \/ \E a \in Appliers : Step(a)

Spec == Init /\ [][Next]_vars
-----------------------------------------------------------------------------
TypeOK ==
  /\ pc \in [Appliers -> {"idle", "read", "inner", "mark"}]
  /\ applies \in [Appliers -> Nat] /\ \A a \in Appliers : applies[a] <= MaxApplies[a]
  /\ job \in [Appliers -> JobType]
  /\ \A a \in Appliers : pc[a] # "idle" => job[a].token \in DOMAIN store
  /\ store \in Seq(TokenType)
  /\ runs \subseteq RunType
  /\ doubt \subseteq DOMAIN store
  /\ answer \in [Appliers -> [inner : {"none", "ok", "error", "unknown", "raised"},
                            exit : {0, 1, 2}]]

(* A token is marked applied only after its inverse took effect.            *)
AppliedRan ==
  \A i \in DOMAIN store :
    store[i].status = "applied" => \E run \in runs : run.token = i

(* The inverse of a token runs twice only when an earlier run was still     *)
(* under way, or ended without its applier learning or saving how.          *)
OnceUnlessDoubt ==
  \A run, again \in runs :
    run.token = again.token /\ run # again => run.token \in doubt

(* Stronger, and not so: "A token can only be applied once."                *)
AppliedOnce ==
  \A run, again \in runs : run.token = again.token => run = again

(* Unless the caller names a target, the inverse of a write that named its  *)
(* target runs where that write ran, through redo chains too.               *)
RanAtOrigin ==
  \A run \in runs :
    LET token == store[run.token] IN
      run.asked = None /\ token.named # None => run.at = token.where

(* cli undo apply exits with 0 only when the inverse succeeded (or was not  *)
(* to be run): a failed or undetermined write is never a silent success.    *)
ExitReflectsInverse ==
  \A a \in Appliers : answer[a].exit = 0 => answer[a].inner \in {"none", "ok"}
=============================================================================
