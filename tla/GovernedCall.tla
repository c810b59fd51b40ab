---------------------------- MODULE GovernedCall ----------------------------
(***************************************************************************)
(* The life of a governed call in one process: the wrapper of              *)
(* governance/decorators.py around a tool of mcp_server/tools, the shared  *)
(* connection of connection.py under it, the marker and the before-state   *)
(* of governance/outcome.py, the undo token, and the audit row that says   *)
(* how the call ended.  Threads make calls concurrently; the connection    *)
(* dies at any moment and stays cached; explain_query runs a transaction   *)
(* on it that whoever else sends a statement shares; storage fails; a      *)
(* caller may be interrupted (Ctrl-C).                                     *)
(*                                                                         *)
(* The audit engine is taken at its interface (AuditLog has its inside), a *)
(* budget refusal may come at any call, and an undo callable may decline.  *)
(***************************************************************************)
EXTENDS Naturals

CONSTANTS
  Threads,     \* the threads that make calls
  Tools,       \* the governed tools that occur
  Interrupts,  \* may a caller be interrupted (BaseException)
  MaxCalls,    \* bound: calls of each thread
  None         \* no call

(* A tool: is its risk above "low"; does its statement go through execute   *)
(* (TRUE) or scalar; does it read before it writes; does it stash the       *)
(* before-state; does it have an undo callable; is it explain_query with    *)
(* analyze, in a transaction of its own; and is its statement undone by the *)
(* rollback of a transaction, refused inside one, or out of its reach.      *)
ToolType == [writes : BOOLEAN, executes : BOOLEAN, reads : BOOLEAN,
             captures : BOOLEAN, undo : BOOLEAN, explains : BOOLEAN,
             inside : {"undone", "refused", "stays"}]

ASSUME ToolAssumption == Tools \subseteq ToolType /\ Tools # {}
ASSUME UndoAssumption ==
  \A tool \in Tools : (tool.undo => tool.writes) /\ (tool.explains => ~ tool.writes)
ASSUME BoundAssumption == MaxCalls \in [Threads -> Nat] /\ Interrupts \in BOOLEAN
ASSUME NoneAssumption == None \notin Threads \X Nat

VARIABLES
  pc,       \* where each thread is in the wrapper
  calls,    \* calls started by each thread
  state,    \* the _CallState of each thread's call
  prior,    \* the ContextVar of outcome.py: whose before-state it holds
  link,     \* the cached PgConnection: absent, live or dead
  txn,      \* the transaction open on it: none, open or failed
  within,   \* the writes that took effect in that transaction
  blocked,  \* AuditEngine._write_blocked
  rows,     \* the audit row of each call, its status "none" without a row
  told,     \* how the caller learns that the call ended
  tokens,   \* the undo tokens recorded
  effects,  \* history: calls whose statement took effect on the server
  undone    \* history: those whose effect a rollback took back

vars == <<pc, calls, state, prior, link, txn, within, blocked, rows, told, tokens,
          effects, undone>>
session == <<link, txn, within, undone>>
records == <<blocked, rows, told, tokens>>
outside == <<session, records, effects>>

Calls == UNION {{t} \X (1 .. MaxCalls[t]) : t \in Threads}
Current(t) == <<t, calls[t]>>
Go(t, place) == pc' = [pc EXCEPT ![t] = place]

Places == {"idle", "check", "run", "body", "send", "explain", "rollback", "annotate", "final"}
Verdicts == {"ok", "error", "unknown", "budget_exceeded"}
Results == {"none", "payload", "preview", "error", "unknown"}

StateType == [tool : Tools, dry_run : BOOLEAN, status : Verdicts,
              result : Results, intent : BOOLEAN]
Fresh(tool, dry_run) == [tool |-> tool, dry_run |-> dry_run, status |-> "ok",
                         result |-> "none", intent |-> FALSE]

NoCall == Fresh(CHOOSE tool \in Tools : TRUE, FALSE)

(* A row says how the call ended and whether it was a real write.           *)
Row(status, write) == [status |-> status, write |-> write]
RowType == [status : Verdicts \cup {"none", "pending"}, write : BOOLEAN]

Token(call, verified, before) ==
  [call |-> call, effect_verified |-> verified, before |-> before]

(* The tool returns its result to _annotate_result. *)
Return(t, result) ==
  /\ state' = [state EXCEPT ![t].result = result]
  /\ Go(t, "annotate")

(* An exception that the tool body did not flatten ends the call. *)
Raise(t, status) ==
  /\ state' = [state EXCEPT ![t].status = status, ![t].result = "error"]
  /\ Go(t, "final")

Init ==
  /\ pc = [t \in Threads |-> "idle"]
  /\ calls = [t \in Threads |-> 0]
  /\ state = [t \in Threads |-> NoCall]
  /\ prior = [t \in Threads |-> None]
  /\ link = "absent"
  /\ txn = "none"
  /\ within = {}
  /\ blocked = FALSE
  /\ rows = [call \in Calls |-> Row("none", FALSE)]
  /\ told = [call \in Calls |-> "none"]
  /\ tokens = {}
  /\ effects = {}
  /\ undone = {}

-----------------------------------------------------------------------------
(* Faulty: the ContextVar is not cleared. *)
CallKeepingPrior(t, tool, dry_run) ==
  /\ pc[t] = "idle" /\ calls[t] < MaxCalls[t]
  /\ dry_run => tool.writes
  /\ calls' = [calls EXCEPT ![t] = @ + 1]
  /\ state' = [state EXCEPT ![t] = Fresh(tool, dry_run)]
  /\ Go(t, "check")
  /\ UNCHANGED <<prior, outside>>

(* _CallState: a call starts with no before-state of an earlier one; only   *)
(* the writes take dry_run.                                                 *)
Call(t, tool, dry_run) ==
  /\ pc[t] = "idle" /\ calls[t] < MaxCalls[t]
  /\ dry_run => tool.writes
  /\ calls' = [calls EXCEPT ![t] = @ + 1]
  /\ state' = [state EXCEPT ![t] = Fresh(tool, dry_run)]
  /\ prior' = [prior EXCEPT ![t] = None]
  /\ Go(t, "check")
  /\ UNCHANGED outside

(* _pre_check: the budget guard stops the call. *)
Refuse(t) ==
  /\ pc[t] = "check"
  /\ Raise(t, "budget_exceeded")
  /\ UNCHANGED <<calls, prior, outside>>

(* _begin_write: reads and previews need no intent; a write does. *)
NeedsIntent(t) == state[t].tool.writes /\ ~ state[t].dry_run

BeginNothing(t) ==
  /\ pc[t] = "check" /\ ~ NeedsIntent(t)
  /\ Go(t, "run")
  /\ UNCHANGED <<calls, state, prior, outside>>

BeginWrite(t) ==
  /\ pc[t] = "check" /\ NeedsIntent(t) /\ ~ blocked
  /\ rows' = [rows EXCEPT ![Current(t)] = Row("pending", TRUE)]
  /\ state' = [state EXCEPT ![t].intent = TRUE]
  /\ Go(t, "run")
  /\ UNCHANGED <<calls, prior, session, blocked, told, tokens, effects>>

(* Faulty: the storage failed, and the write goes on without its intent. *)
BeginFailOpen(t) ==
  /\ pc[t] = "check" /\ NeedsIntent(t)
  /\ blocked' = TRUE
  /\ Go(t, "run")
  /\ UNCHANGED <<calls, state, prior, session, rows, told, tokens, effects>>

(* AuditUnavailable: the gate was shut, or storage failed and shuts it. *)
BeginUnavailable(t) ==
  /\ pc[t] = "check" /\ NeedsIntent(t)
  /\ blocked' = TRUE
  /\ Raise(t, "error")
  /\ UNCHANGED <<calls, prior, session, rows, told, tokens, effects>>

-----------------------------------------------------------------------------
(* The tool body, inside tool_errors: whatever it raises becomes a result.  *)

(* ConnectionManager.connect: a cached connection is never looked at again. *)
Connect(t) ==
  /\ pc[t] = "run"
  /\ \/ link # "absent" /\ Go(t, "body") /\ UNCHANGED <<state, link>>
     \/ link = "absent" /\ link' = "live" /\ Go(t, "body") /\ UNCHANGED state
     \/ link = "absent" /\ Return(t, "error") /\ UNCHANGED link
  /\ UNCHANGED <<calls, prior, txn, within, undone, records, effects>>

(* A guard or a validation refuses, or the read before the write fails.     *)
Preflight(t) ==
  /\ pc[t] = "body"
  /\ Return(t, "error")
  /\ UNCHANGED <<calls, prior, outside>>

Preview(t) ==
  /\ pc[t] = "body" /\ state[t].dry_run
  /\ Return(t, "preview")
  /\ UNCHANGED <<calls, prior, outside>>

(* capture_prior_state *)
Stash(t) == prior' = [prior EXCEPT ![t] = Current(t)]

(* The before-state is read, and stashed, before the statement is sent.     *)
Prepare(t) ==
  /\ pc[t] = "body" /\ ~ state[t].dry_run /\ ~ state[t].tool.explains
  /\ state[t].tool.reads => link = "live" /\ txn # "failed"
  /\ IF state[t].tool.captures THEN Stash(t) ELSE UNCHANGED prior
  /\ Go(t, "send")
  /\ UNCHANGED <<calls, state, outside>>

(* A low-risk tool changes nothing on the server. *)
Lands(t) == effects' = IF state[t].tool.writes THEN effects \cup {Current(t)} ELSE effects

(* Faulty: a lost response is a plain error. *)
LostAsError(t) == "error"

(* What becomes of a psycopg.OperationalError: execute raises               *)
(* PgConnectionLostError, which tool_errors marks; query, under scalar,     *)
(* raises a plain PgError.                                                  *)
Lost(t) == IF state[t].tool.executes THEN "unknown" ELSE "error"

(* In a transaction that explain_query has open, the statement joins it.    *)
Runnable(t) ==
  /\ link = "live" /\ txn # "failed"
  /\ txn = "open" => state[t].tool.inside # "refused"

Joins(t) == within' = IF txn = "open" /\ state[t].tool.writes /\ state[t].tool.inside = "undone"
                      THEN within \cup {Current(t)} ELSE within

Succeed(t) ==
  /\ pc[t] = "send" /\ Runnable(t)
  /\ Lands(t)
  /\ Joins(t)
  /\ Return(t, "payload")
  /\ UNCHANGED <<calls, prior, link, txn, undone, records>>

(* The server answers with an error, an operational one (a cancelled        *)
(* statement, a lock timeout) included: nothing happened, and an open       *)
(* transaction has failed.                                                  *)
Abort == txn' = IF txn = "open" THEN "failed" ELSE txn

Reject(t) ==
  /\ pc[t] = "send" /\ link = "live"
  /\ \E result \in {"error", Lost(t)} : Return(t, result)
  /\ Abort
  /\ UNCHANGED <<calls, prior, link, within, undone, records, effects>>

(* The session ends, and the server rolls back what was open in it.         *)
SessionEnds ==
  /\ link' = "dead"
  /\ txn' = "none"
  /\ undone' = undone \cup within
  /\ within' = {}

(* The link dies under the statement, before or after it took effect; what  *)
(* it did in a transaction goes with the session.                           *)
LoseResponse(t) ==
  /\ pc[t] = "send" /\ link = "live"
  /\ SessionEnds
  /\ \/ UNCHANGED effects
     \/ /\ Runnable(t) /\ Lands(t)
        /\ txn = "open" => state[t].tool.inside = "stays"
  /\ Return(t, Lost(t))
  /\ UNCHANGED <<calls, prior, records>>

(* On the dead connection that is still cached nothing is sent at all.      *)
SendNothing(t) ==
  /\ pc[t] = "send" /\ link = "dead"
  /\ Return(t, Lost(t))
  /\ UNCHANGED <<calls, prior, outside>>

(* The server restarts, or another thread's statement met a dying link.     *)
LinkDies ==
  /\ link = "live"
  /\ SessionEnds
  /\ UNCHANGED <<pc, calls, state, prior, records, effects>>

(* explain_query with analyze: BEGIN, the EXPLAIN, and ROLLBACK whatever    *)
(* came of it, as three statements on the connection that all threads use.  *)
(* A BEGIN inside a transaction is only a warning.                          *)
Explaining(t) == pc[t] = "body" /\ state[t].tool.explains

BeginExplain(t) ==
  /\ Explaining(t) /\ link = "live" /\ txn # "failed"
  /\ txn' = "open"
  /\ Go(t, "explain")
  /\ UNCHANGED <<calls, state, prior, link, within, undone, records, effects>>

Explain(t) ==
  /\ pc[t] = "explain"
  /\ Go(t, "rollback")
  /\ \/ /\ link = "live" /\ txn # "failed"
        /\ state' = [state EXCEPT ![t].result = "payload"]
        /\ UNCHANGED txn
     \/ /\ state' = [state EXCEPT ![t].result = "error"]
        /\ Abort
  /\ UNCHANGED <<calls, prior, link, within, undone, records, effects>>

Rollback(t) ==
  /\ pc[t] = "rollback" /\ link = "live"
  /\ txn' = "none"
  /\ undone' = undone \cup within
  /\ within' = {}
  /\ Go(t, "annotate")
  /\ UNCHANGED <<calls, state, prior, link, records, effects>>

(* The BEGIN or the ROLLBACK meets the dead connection, through execute.    *)
ExplainLost(t) ==
  /\ Explaining(t) \/ pc[t] = "rollback"
  /\ link = "dead"
  /\ Return(t, "unknown")
  /\ UNCHANGED <<calls, prior, outside>>

-----------------------------------------------------------------------------
(* _annotate_result and _record_undo.                                       *)

RecordUndo(t, token) == tokens' \in {tokens, tokens \cup {token}}

(* No undo callable, a preview, a definite failure: no inverse. *)
AnnotateNothing(t) ==
  /\ pc[t] = "annotate"
  /\ ~ state[t].tool.undo \/ state[t].dry_run \/ state[t].result = "error"
  /\ Go(t, "final")
  /\ UNCHANGED <<calls, state, prior, outside>>

AnnotateConfirmed(t) ==
  /\ pc[t] = "annotate" /\ state[t].tool.undo /\ ~ state[t].dry_run
  /\ state[t].result = "payload"
  /\ RecordUndo(t, Token(Current(t), TRUE, Current(t)))
  /\ Go(t, "final")
  /\ UNCHANGED <<calls, state, prior, session, blocked, rows, told, effects>>

(* Undetermined: an inverse only from the before-state that was stashed.    *)
AnnotateUnknown(t) ==
  /\ pc[t] = "annotate" /\ state[t].tool.undo /\ ~ state[t].dry_run
  /\ state[t].result = "unknown"
  /\ prior' = [prior EXCEPT ![t] = None]
  /\ IF prior[t] = None THEN UNCHANGED tokens
     ELSE RecordUndo(t, Token(Current(t), FALSE, prior[t]))
  /\ Go(t, "final")
  /\ UNCHANGED <<calls, state, session, blocked, rows, told, effects>>

(* Ctrl-C: BaseException passes every "except Exception" to the finally;    *)
(* a statement under way may or may not have taken effect.                  *)
Interrupt(t) ==
  /\ Interrupts
  /\ pc[t] \in {"check", "run", "body", "send"}
  /\ \/ UNCHANGED <<effects, within>>
     \/ pc[t] = "send" /\ Runnable(t) /\ Lands(t) /\ Joins(t)
  /\ Go(t, "final")
  /\ UNCHANGED <<calls, state, prior, link, txn, undone, records>>

-----------------------------------------------------------------------------
(* _finalize: undetermined is judged before failed.                         *)
Verdict(s) ==
  IF s.status # "ok" THEN s.status
  ELSE CASE s.result = "unknown" -> "unknown"
         [] s.result = "error" -> "error"
         [] OTHER -> "ok"

(* Faulty: error is judged before unknown. *)
CheckedErrorFirst(s) ==
  IF s.status # "ok" \/ s.result = "none" THEN "raised"
  ELSE IF s.result \in {"error", "unknown"} THEN "error" ELSE "ok"

(* Faulty: print the result and exit 0. *)
CheckedNever(s) == IF s.status # "ok" THEN "raised" ELSE "ok"

(* Faulty: pass the result on unjudged. *)
CheckedRaw(s) == s.result

(* What the caller sees: cli checked() judges the result it is given; an    *)
(* exception, an interrupt included, reaches it as one.                     *)
Checked(s) ==
  IF s.status # "ok" \/ s.result = "none" THEN "raised"
  ELSE CASE s.result = "unknown" -> "unknown"
         [] s.result = "error" -> "error"
         [] OTHER -> "ok"

(* The wrapper returns, and its _CallState is gone. *)
Leave(t) == Go(t, "idle") /\ state' = [state EXCEPT ![t] = NoCall]

Answer(t, how) == told' = [told EXCEPT ![Current(t)] = how]

Audit(t) == rows' = [rows EXCEPT ![Current(t)] = Row(Verdict(state[t]), NeedsIntent(t))]

(* finish_write resolves the intent; log writes the only row of a call      *)
(* that has none, or drops it silently when storage fails.                  *)
Finalize(t) ==
  /\ pc[t] = "final"
  /\ \/ Audit(t)
     \/ ~ state[t].intent /\ UNCHANGED rows
  /\ Answer(t, Checked(state[t]))
  /\ Leave(t)
  /\ UNCHANGED <<calls, prior, session, blocked, tokens, effects>>

(* finish_write raises AuditUnavailable out of the finally.                 *)
FinalizeFails(t) ==
  /\ pc[t] = "final" /\ state[t].intent
  /\ blocked' = TRUE
  /\ Answer(t, "raised")
  /\ Leave(t)
  /\ UNCHANGED <<calls, prior, session, rows, tokens, effects>>

-----------------------------------------------------------------------------
ThreadStep(t) ==
  \/ Refuse(t) \/ BeginNothing(t) \/ BeginWrite(t) \/ BeginUnavailable(t)
  \/ Connect(t) \/ Preflight(t) \/ Preview(t) \/ Prepare(t)
  \/ Succeed(t) \/ Reject(t) \/ LoseResponse(t) \/ SendNothing(t)
  \/ BeginExplain(t) \/ Explain(t) \/ Rollback(t) \/ ExplainLost(t)
  \/ AnnotateNothing(t) \/ AnnotateConfirmed(t) \/ AnnotateUnknown(t)
  \/ Finalize(t) \/ FinalizeFails(t)

Next ==
  \/ \E t \in Threads, tool \in Tools, dry_run \in BOOLEAN : Call(t, tool, dry_run)
  \/ \E t \in Threads : ThreadStep(t) \/ Interrupt(t)
  \/ LinkDies

Spec == Init /\ [][Next]_vars
-----------------------------------------------------------------------------
TypeOK ==
  /\ pc \in [Threads -> Places]
  /\ calls \in [Threads -> Nat] /\ \A t \in Threads : calls[t] <= MaxCalls[t]
  /\ state \in [Threads -> StateType]
  /\ prior \in [Threads -> Calls \cup {None}]
  /\ link \in {"absent", "live", "dead"} /\ txn \in {"none", "open", "failed"}
  /\ within \subseteq Calls
  /\ blocked \in BOOLEAN
  /\ rows \in [Calls -> RowType]
  /\ told \in [Calls -> {"none", "ok", "error", "unknown", "raised"}]
  /\ tokens \subseteq [call : Calls, effect_verified : BOOLEAN, before : Calls]
  /\ effects \subseteq Calls /\ undone \subseteq Calls

(* A call that changed the server has the audit row of a write, and that    *)
(* row never reports a failure or a refusal: it is pending, ok or unknown.  *)
EffectsAudited ==
  \A call \in effects :
    rows[call].write /\ rows[call].status \in {"pending", "ok", "unknown"}

(* A write that its caller is told succeeded did take effect on the server. *)
SuccessIsReal ==
  \A call \in Calls :
    rows[call].write /\ told[call] = "ok" => call \in effects

(* A write that the trail reports as ok did take effect on the server.      *)
OkMeansDone ==
  \A call \in Calls :
    rows[call].write /\ rows[call].status = "ok" => call \in effects

(* "Run it inside a transaction that is ROLLED BACK so no side effect can   *)
(* persist -- this is what keeps explain_query a genuine [READ]": it takes  *)
(* back nothing that another call wrote and was told had succeeded.         *)
ExplainOnlyReads ==
  \A call \in undone : told[call] # "ok"

(* An undo token belongs to a real write that may have happened, a verified *)
(* one to a write that did and an unverified one to an undetermined write,  *)
(* and it restores the before-state of that write and of no other call.     *)
TokensSound ==
  \A token \in tokens :
    LET row == rows[token.call] IN
      /\ row.write
      /\ row.status \in {"pending", IF token.effect_verified THEN "ok" ELSE "unknown"}
      /\ token.effect_verified => token.call \in effects
      /\ token.before = token.call

(* The exit status a script sees and the audit row never disagree.          *)
AnswersAgree ==
  \A call \in Calls :
    told[call] \in {"ok", "error", "unknown"} =>
      rows[call].status \in {told[call]} \cup (IF rows[call].write THEN {} ELSE {"none"})

(* Every step of the wrapper is one the abstract trail allows: a write      *)
(* reaches the server only while its own intent is open, and a row that was *)
(* closed is not touched again, whoever else shares the connection.         *)
TrailNow == {[call |-> call, status |-> rows[call].status] :
               call \in {call \in Calls : rows[call].status # "none"}}

Trail == INSTANCE AuditTrail WITH
           Calls <- Calls, Closed <- Verdicts, trail <- TrailNow, effects <- effects

ImplementsTrail == Trail!Spec
=============================================================================
