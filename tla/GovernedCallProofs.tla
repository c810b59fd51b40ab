------------------------- MODULE GovernedCallProofs -------------------------
(***************************************************************************)
(* What a governed call guarantees for any tools, any number of threads on *)
(* one connection, with or without interrupts.  A thread touches only what *)
(* belongs to its own call (Moves); what is known of a call under way      *)
(* (Own) is what judges it once it has ended (Judged).  What an interrupt  *)
(* does to a row (RowsInv) and who may share a transaction (TxnInv) are    *)
(* apart, since each needs a premise of its own.                           *)
(***************************************************************************)
EXTENDS GovernedCall, TLAPS

(* Every write sends its statement through execute; terminate_backend and   *)
(* cancel_query do not, and without them EffectsAudited holds.              *)
WritesExecute == \A tool \in Tools : tool.writes => tool.executes

Before == {"check", "run", "body", "send"}
Begun == {"run", "body", "send", "explain", "rollback", "annotate"}

(* A call that its thread is in. *)
Own(t) ==
  LET s == state[t]
      c == Current(t)
  IN  /\ c \in Calls /\ told[c] = "none"
      /\ rows[c] = IF s.intent THEN Row("pending", TRUE) ELSE Row("none", FALSE)
      /\ s.intent => NeedsIntent(t)
      /\ s.dry_run => s.tool.writes
      /\ prior[t] \in {None, c}
      /\ pc[t] # "final" => s.status = "ok"
      /\ pc[t] = "check" => ~ s.intent
      /\ pc[t] \in Begun => (s.intent <=> NeedsIntent(t))
      /\ pc[t] \in Before => s.result = "none" /\ c \notin effects
      /\ pc[t] = "send" => ~ s.dry_run
      /\ pc[t] \in {"explain", "rollback"} => s.tool.explains
      /\ c \in effects => s.intent /\ s.status = "ok" /\ (WritesExecute => s.result # "error")
      /\ s.result = "preview" => s.dry_run
      /\ s.result = "payload" => (s.intent <=> NeedsIntent(t)) /\ (s.intent => c \in effects)
      /\ \A token \in tokens : token.call = c =>
           /\ pc[t] = "final" /\ s.intent /\ s.status = "ok" /\ token.before = c
           /\ s.result = IF token.effect_verified THEN "payload" ELSE "unknown"

(* A call that nobody has started. *)
Blank(call) ==
  /\ rows[call] = Row("none", FALSE) /\ told[call] = "none" /\ call \notin effects
  /\ \A token \in tokens : token.call # call

Judged(call) ==
  LET row == rows[call] IN
    /\ call \in effects =>
         row.write /\ (WritesExecute => row.status \in {"pending", "ok", "unknown"})
    /\ row.write /\ told[call] = "ok" => call \in effects
    /\ told[call] \in {"ok", "error", "unknown"} =>
         row.status \in {told[call]} \cup (IF row.write THEN {} ELSE {"none"})
    /\ \A token \in tokens : token.call = call =>
         /\ row.write /\ token.before = call
         /\ row.status \in {"pending", IF token.effect_verified THEN "ok" ELSE "unknown"}
         /\ token.effect_verified => call \in effects

IInv ==
  /\ \A t \in Threads : pc[t] # "idle" => Own(t)
  /\ \A call \in Calls : call[2] > calls[call[1]] => Blank(call)
  /\ \A call \in Calls : Judged(call)

-----------------------------------------------------------------------------
(* Typing. *)

LEMMA CallsType ==
  /\ \A call \in Calls : call = <<call[1], call[2]>> /\ call[1] \in Threads /\ call[2] \in Nat \ {0}
                         /\ call[2] <= MaxCalls[call[1]]
  /\ \A t \in Threads, n \in Nat \ {0} : n <= MaxCalls[t] => <<t, n>> \in Calls
  /\ \A t \in Threads : MaxCalls[t] \in Nat
  /\ None \notin Calls
  <1>1. \A t \in Threads : MaxCalls[t] \in Nat
    BY BoundAssumption
  <1>2. ASSUME NEW call \in Calls
        PROVE  /\ call = <<call[1], call[2]>> /\ call[1] \in Threads /\ call[2] \in Nat \ {0}
               /\ call[2] <= MaxCalls[call[1]]
    <2>1. PICK t \in Threads : call \in {t} \X (1 .. MaxCalls[t])
      BY DEF Calls
    <2> QED BY <1>1, <2>1
  <1>3. \A t \in Threads, n \in Nat \ {0} : n <= MaxCalls[t] => <<t, n>> \in Calls
    BY <1>1 DEF Calls
  <1>4. None \notin Calls
    BY <1>2, NoneAssumption
  <1> QED BY <1>1, <1>2, <1>3, <1>4

LEMMA ToolIs ==
  /\ NoCall \in StateType /\ \A tool \in Tools, dry_run \in BOOLEAN : Fresh(tool, dry_run) \in StateType
  /\ \A tool \in Tools : /\ tool.writes \in BOOLEAN /\ tool.executes \in BOOLEAN /\ tool.undo \in BOOLEAN
                         /\ tool.explains \in BOOLEAN
  <1>1. (CHOOSE tool \in Tools : TRUE) \in Tools
    BY ToolAssumption
  <1>2. \A tool \in Tools, dry_run \in BOOLEAN : Fresh(tool, dry_run) \in StateType
    BY DEF Fresh, StateType, Verdicts, Results
  <1>3. NoCall \in StateType
    BY <1>1, <1>2 DEF NoCall
  <1> QED BY <1>2, <1>3, ToolAssumption DEF ToolType

LEMMA InitInv == Init => TypeOK /\ IInv
  <1> SUFFICES ASSUME Init PROVE TypeOK /\ IInv
    OBVIOUS
  <1>1. TypeOK
    <2>1. state \in [Threads -> StateType] /\ prior \in [Threads -> Calls \cup {None}]
      BY ToolIs DEF Init
    <2>2. rows \in [Calls -> RowType] /\ told \in [Calls -> {"none", "ok", "error", "unknown", "raised"}]
      BY DEF Init, Row, RowType
    <2>3. calls \in [Threads -> Nat] /\ \A t \in Threads : calls[t] <= MaxCalls[t]
      BY CallsType DEF Init
    <2> QED BY <2>1, <2>2, <2>3 DEF Init, TypeOK, Places
  <1>2. \A call \in Calls : Blank(call) /\ Judged(call)
    BY DEF Init, Blank, Judged, Row
  <1> QED BY <1>1, <1>2 DEF Init, IInv

(* A thread in a call is in one of the Calls. *)
InCall == \A t \in Threads : pc[t] # "idle" => Current(t) \in Calls

ThreadType ==
  /\ pc \in [Threads -> Places] /\ state \in [Threads -> StateType]
  /\ prior \in [Threads -> Calls \cup {None}]
  /\ calls \in [Threads -> Nat] /\ \A t \in Threads : calls[t] <= MaxCalls[t]

SessionType ==
  /\ link \in {"absent", "live", "dead"} /\ txn \in {"none", "open", "failed"}
  /\ within \subseteq Calls /\ effects \subseteq Calls /\ undone \subseteq Calls

RecordType ==
  /\ blocked \in BOOLEAN /\ rows \in [Calls -> RowType]
  /\ told \in [Calls -> {"none", "ok", "error", "unknown", "raised"}]
  /\ tokens \subseteq [call : Calls, effect_verified : BOOLEAN, before : Calls]

LEMMA TypeParts == TypeOK <=> ThreadType /\ SessionType /\ RecordType
  BY DEF TypeOK, ThreadType, SessionType, RecordType

LEMMA StateEdits ==
  ASSUME NEW s \in StateType
  PROVE  /\ \A result \in Results : [s EXCEPT !.result = result] \in StateType
         /\ \A status \in Verdicts : [s EXCEPT !.status = status, !.result = "error"] \in StateType
         /\ [s EXCEPT !.intent = TRUE] \in StateType
  BY DEF StateType, Results

LEMMA ThreadTyped ==
  ASSUME TypeOK, InCall, Next
  PROVE  ThreadType'
  <1> USE DEF ThreadType, Go, Places, Leave
  <1>0. /\ ThreadType /\ NoCall \in StateType
        /\ \A t \in Threads : state[t] \in StateType
    BY ToolIs DEF TypeOK
  <1>1. ASSUME NEW t \in Threads, NEW tool \in Tools, NEW dry_run \in BOOLEAN, Call(t, tool, dry_run)
        PROVE  ThreadType'
    <2>1. Fresh(tool, dry_run) \in StateType
      BY ToolIs
    <2>2. calls[t] + 1 \in Nat /\ calls[t] + 1 <= MaxCalls[t]
      BY <1>0, <1>1, CallsType DEF Call
    <2> QED BY <1>0, <1>1, <2>1, <2>2 DEF Call
  <1>2. ASSUME NEW t \in Threads, NEW result \in Results, Return(t, result),
               UNCHANGED calls, prior' = prior
        PROVE  ThreadType'
    BY <1>0, <1>2, StateEdits DEF Return
  <1>3. ASSUME NEW t \in Threads, NEW status \in Verdicts, Raise(t, status),
               UNCHANGED calls, prior' = prior
        PROVE  ThreadType'
    BY <1>0, <1>3, StateEdits DEF Raise
  <1>4. ASSUME NEW t \in Threads, Refuse(t) \/ BeginUnavailable(t) PROVE ThreadType'
    <2>1. "error" \in Verdicts /\ "budget_exceeded" \in Verdicts
      BY DEF Verdicts
    <2> QED BY <1>3, <1>4, <2>1 DEF Refuse, BeginUnavailable, outside, session, records
  <1>5. ASSUME NEW t \in Threads, BeginNothing(t) \/ BeginWrite(t) PROVE ThreadType'
    BY <1>0, <1>5, StateEdits DEF BeginNothing, BeginWrite
  <1>6. ASSUME NEW t \in Threads,
               Connect(t) \/ Preflight(t) \/ Preview(t) \/ Succeed(t) \/ Reject(t)
                 \/ LoseResponse(t) \/ SendNothing(t) \/ ExplainLost(t)
        PROVE  ThreadType'
    <2>1. /\ {"payload", "preview", "error", "unknown"} \subseteq Results
          /\ Lost(t) \in Results
      BY DEF Results, Lost
    <2>2. CASE \E result \in Results : Return(t, result) /\ UNCHANGED calls /\ prior' = prior
      BY <1>2, <2>2
    <2>3. CASE Connect(t)
      BY <1>0, <2>1, <2>2, <2>3 DEF Connect
    <2> QED BY <1>6, <2>1, <2>2, <2>3 DEF Preflight, Preview, Succeed, Reject, LoseResponse, SendNothing,
                                          ExplainLost
  <1>7. ASSUME NEW t \in Threads, Prepare(t) PROVE ThreadType'
    BY <1>0, <1>7 DEF Prepare, Stash, InCall
  <1>8. ASSUME NEW t \in Threads, BeginExplain(t) \/ Explain(t) \/ Rollback(t) PROVE ThreadType'
    <2>1. "payload" \in Results /\ "error" \in Results
      BY DEF Results
    <2>2. CASE BeginExplain(t) \/ Rollback(t)
      BY <1>0, <2>2 DEF BeginExplain, Rollback
    <2>3. CASE Explain(t)
      <3>1. PICK result \in Results : state' = [state EXCEPT ![t].result = result]
        BY <2>1, <2>3 DEF Explain
      <3>2. state' \in [Threads -> StateType]
        BY <1>0, <3>1, StateEdits
      <3> QED BY <1>0, <2>3, <3>2 DEF Explain
    <2> QED BY <1>8, <2>2, <2>3
  <1>9. ASSUME NEW t \in Threads, AnnotateNothing(t) \/ AnnotateConfirmed(t) \/ AnnotateUnknown(t)
        PROVE  ThreadType'
    BY <1>0, <1>9 DEF AnnotateNothing, AnnotateConfirmed, AnnotateUnknown
  <1>10. ASSUME NEW t \in Threads, Finalize(t) \/ FinalizeFails(t) \/ Interrupt(t) PROVE ThreadType'
    BY <1>0, <1>10 DEF Finalize, FinalizeFails, Interrupt
  <1>11. CASE LinkDies
    BY <1>0, <1>11 DEF LinkDies
  <1> QED BY <1>1, <1>4, <1>5, <1>6, <1>7, <1>8, <1>9, <1>10, <1>11 DEF Next, ThreadStep

LEMMA SessionTyped ==
  ASSUME TypeOK, InCall, Next
  PROVE  SessionType'
  <1> USE DEF SessionType, SessionEnds, Abort, Lands, Joins, outside, session
  <1>0. SessionType
    BY DEF TypeOK
  <1>1. ASSUME NEW t \in Threads, pc[t] # "idle" PROVE Current(t) \in Calls
    BY <1>1 DEF InCall
  <1>2. ASSUME NEW t \in Threads, Succeed(t) \/ Reject(t) \/ LoseResponse(t) PROVE SessionType'
    BY <1>0, <1>1, <1>2 DEF Succeed, Reject, LoseResponse
  <1>3. ASSUME NEW t \in Threads, Interrupt(t) PROVE SessionType'
    BY <1>0, <1>1, <1>3 DEF Interrupt
  <1>4. ASSUME NEW t \in Threads, Connect(t) \/ BeginExplain(t) \/ Explain(t) \/ Rollback(t) PROVE SessionType'
    BY <1>0, <1>4 DEF Connect, BeginExplain, Explain, Rollback
  <1>5. CASE LinkDies
    BY <1>0, <1>5 DEF LinkDies
  <1>6. CASE UNCHANGED <<session, effects>>
    BY <1>0, <1>6
  <1>7. ASSUME NEW t \in Threads,
               Refuse(t) \/ BeginNothing(t) \/ BeginWrite(t) \/ BeginUnavailable(t) \/ Preflight(t)
                 \/ Preview(t) \/ Prepare(t) \/ SendNothing(t) \/ ExplainLost(t) \/ AnnotateNothing(t)
                 \/ AnnotateConfirmed(t) \/ AnnotateUnknown(t) \/ Finalize(t) \/ FinalizeFails(t)
        PROVE  UNCHANGED <<session, effects>>
    BY <1>7 DEF Refuse, BeginNothing, BeginWrite, BeginUnavailable, Preflight, Preview, Prepare,
                SendNothing, ExplainLost, AnnotateNothing, AnnotateConfirmed, AnnotateUnknown,
                Finalize, FinalizeFails
  <1>8. ASSUME NEW t \in Threads, NEW tool \in Tools, NEW dry_run \in BOOLEAN, Call(t, tool, dry_run)
        PROVE  UNCHANGED <<session, effects>>
    BY <1>8 DEF Call
  <1> QED BY <1>2, <1>3, <1>4, <1>5, <1>6, <1>7, <1>8 DEF Next, ThreadStep

LEMMA EndTypes ==
  /\ \A s \in StateType : /\ Verdict(s) \in Verdicts
                          /\ Checked(s) \in {"ok", "error", "unknown", "raised"}
  /\ \A t \in Threads : state[t] \in StateType => NeedsIntent(t) \in BOOLEAN
  /\ \A status \in Verdicts \cup {"none", "pending"}, write \in BOOLEAN : Row(status, write) \in RowType
  <1>1. \A s \in StateType : Verdict(s) \in Verdicts
    BY DEF StateType, Verdict, Verdicts
  <1>2. \A s \in StateType : Checked(s) \in {"ok", "error", "unknown", "raised"}
    BY DEF Checked
  <1>3. \A t \in Threads : state[t] \in StateType => NeedsIntent(t) \in BOOLEAN
    BY DEF NeedsIntent
  <1>4. \A status \in Verdicts \cup {"none", "pending"}, write \in BOOLEAN : Row(status, write) \in RowType
    BY DEF Row, RowType
  <1> QED BY <1>1, <1>2, <1>3, <1>4

LEMMA RecordTyped ==
  ASSUME TypeOK, InCall, \A t \in Threads : prior[t] \in {None, Current(t)} \/ pc[t] = "idle", Next
  PROVE  RecordType'
  <1> USE DEF RecordType, outside, records
  <1>0. RecordType
    BY DEF TypeOK
  <1>1. ASSUME NEW t \in Threads, pc[t] # "idle" PROVE Current(t) \in Calls
    BY <1>1 DEF InCall
  <1>2. ASSUME NEW t \in Threads, BeginWrite(t) \/ BeginUnavailable(t) PROVE RecordType'
    <2>1. Row("pending", TRUE) \in RowType
      BY EndTypes
    <2> QED BY <1>0, <1>2, <2>1 DEF BeginWrite, BeginUnavailable
  <1>3. ASSUME NEW t \in Threads, AnnotateConfirmed(t) \/ AnnotateUnknown(t) PROVE RecordType'
    <2>1. Current(t) \in Calls
      BY <1>1, <1>3 DEF AnnotateConfirmed, AnnotateUnknown
    <2>2. \A verified \in BOOLEAN : Token(Current(t), verified, Current(t))
                                      \in [call : Calls, effect_verified : BOOLEAN, before : Calls]
      BY <2>1 DEF Token
    <2>3. CASE AnnotateConfirmed(t)
      BY <1>0, <2>2, <2>3 DEF AnnotateConfirmed, RecordUndo
    <2>4. CASE AnnotateUnknown(t)
      <3>1. prior[t] # None => prior[t] = Current(t)
        BY <2>4 DEF AnnotateUnknown
      <3>2. tokens' \in {tokens, tokens \cup {Token(Current(t), FALSE, Current(t))}}
        BY <2>4, <3>1 DEF AnnotateUnknown, RecordUndo
      <3> QED BY <1>0, <2>2, <2>4, <3>2 DEF AnnotateUnknown
    <2> QED BY <1>3, <2>3, <2>4
  <1>4. ASSUME NEW t \in Threads, Finalize(t) PROVE RecordType'
    <2>1. Row(Verdict(state[t]), NeedsIntent(t)) \in RowType /\ Checked(state[t]) \in {"ok", "error", "unknown", "raised"}
      BY EndTypes DEF TypeOK
    <2> QED BY <1>0, <1>4, <2>1 DEF Finalize, Audit, Answer
  <1>5. ASSUME NEW t \in Threads, FinalizeFails(t) PROVE RecordType'
    BY <1>0, <1>5 DEF FinalizeFails, Answer
  <1>6. CASE UNCHANGED records
    BY <1>0, <1>6
  <1>7. ASSUME NEW t \in Threads,
               Refuse(t) \/ BeginNothing(t) \/ Connect(t) \/ Preflight(t) \/ Preview(t) \/ Prepare(t)
                 \/ Succeed(t) \/ Reject(t) \/ LoseResponse(t) \/ SendNothing(t) \/ BeginExplain(t)
                 \/ Explain(t) \/ Rollback(t) \/ ExplainLost(t) \/ AnnotateNothing(t) \/ Interrupt(t)
        PROVE  UNCHANGED records
    BY <1>7 DEF Refuse, BeginNothing, Connect, Preflight, Preview, Prepare, Succeed, Reject, LoseResponse,
                SendNothing, BeginExplain, Explain, Rollback, ExplainLost, AnnotateNothing, Interrupt
  <1>8. ASSUME NEW t \in Threads, NEW tool \in Tools, NEW dry_run \in BOOLEAN, Call(t, tool, dry_run)
        PROVE  UNCHANGED records
    BY <1>8 DEF Call
  <1>9. CASE LinkDies
    BY <1>6, <1>9 DEF LinkDies
  <1> QED BY <1>2, <1>3, <1>4, <1>5, <1>6, <1>7, <1>8, <1>9 DEF Next, ThreadStep

LEMMA NextType ==
  ASSUME TypeOK, IInv, [Next]_vars
  PROVE  TypeOK'
  <1>1. InCall /\ \A t \in Threads : prior[t] \in {None, Current(t)} \/ pc[t] = "idle"
    BY DEF IInv, Own, InCall
  <1>2. CASE Next
    BY <1>1, <1>2, ThreadTyped, SessionTyped, RecordTyped
       DEF TypeOK, ThreadType, SessionType, RecordType
  <1>3. CASE UNCHANGED vars
    BY <1>3 DEF vars, TypeOK
  <1> QED BY <1>2, <1>3

-----------------------------------------------------------------------------
(* What a thread touches. *)

Moves(t) ==
  /\ \A u \in Threads \ {t} :
       pc'[u] = pc[u] /\ calls'[u] = calls[u] /\ state'[u] = state[u] /\ prior'[u] = prior[u]
  /\ calls'[t] \in {calls[t], calls[t] + 1}
  /\ \A call \in Calls \ {Current(t)'} :
       rows'[call] = rows[call] /\ told'[call] = told[call] /\ (call \in effects' <=> call \in effects)
  /\ tokens \subseteq tokens' /\ \A token \in tokens' \ tokens : token.call = Current(t)'

LEMMA Frame ==
  ASSUME TypeOK, IInv, NEW t \in Threads, Moves(t),
         pc'[t] # "idle" => Own(t)', Current(t)' \in Calls, Judged(Current(t))'
  PROVE  IInv'
  <1>0. \A u \in Threads : calls[u] \in Nat
    BY DEF TypeOK
  <1>1. \A token \in tokens' : token \in tokens \/ token.call = Current(t)'
    BY DEF Moves
  <1>2. \A u \in Threads \ {t} : Current(u)' = Current(u) /\ Current(u) # Current(t)'
    BY DEF Moves, Current
  <1>3. ASSUME NEW u \in Threads, pc'[u] # "idle" PROVE Own(u)'
    <2>1. CASE u = t
      BY <1>3, <2>1
    <2>2. CASE u # t
      <3>1. Own(u) /\ Current(u) \in Calls
        BY <1>3, <2>2 DEF IInv, Moves, Own
      <3>2. /\ pc'[u] = pc[u] /\ state'[u] = state[u] /\ prior'[u] = prior[u]
            /\ rows'[Current(u)] = rows[Current(u)] /\ told'[Current(u)] = told[Current(u)]
            /\ (Current(u) \in effects' <=> Current(u) \in effects)
        BY <1>2, <2>2, <3>1 DEF Moves
      <3>3. \A token \in tokens' : token.call = Current(u) => token \in tokens
        BY <1>1, <1>2, <2>2
      <3> QED BY <1>2, <2>2, <3>1, <3>2, <3>3 DEF Own, NeedsIntent
    <2> QED BY <2>1, <2>2
  <1>4. ASSUME NEW call \in Calls, call[2] > calls'[call[1]] PROVE Blank(call)'
    <2>1. call # Current(t)' /\ call[1] \in Threads /\ call[2] \in Nat
      BY <1>4, <1>0, CallsType DEF Current, Moves
    <2>2. call[2] > calls[call[1]]
      BY <1>0, <1>4, <2>1 DEF Moves
    <2>3. Blank(call)
      BY <2>2 DEF IInv
    <2> QED BY <1>1, <2>1, <2>3 DEF Blank, Moves
  <1>5. ASSUME NEW call \in Calls PROVE Judged(call)'
    <2>1. CASE call = Current(t)'
      BY <2>1 DEF Judged
    <2>2. CASE call # Current(t)'
      <3>1. Judged(call)
        BY DEF IInv
      <3>2. /\ rows'[call] = rows[call] /\ told'[call] = told[call]
            /\ (call \in effects' <=> call \in effects)
            /\ \A token \in tokens' : token.call = call => token \in tokens
        BY <1>1, <2>2 DEF Moves
      <3> QED BY <3>1, <3>2 DEF Judged
    <2> QED BY <2>1, <2>2
  <1> QED BY <1>3, <1>4, <1>5 DEF IInv

(* What holds of a call under way judges it. *)
LEMMA OwnJudged ==
  ASSUME TypeOK', NEW t \in Threads, Own(t)'
  PROVE  Judged(Current(t))' /\ Current(t)' \in Calls
  <1>1. /\ rows'[Current(t)'] = IF state'[t].intent THEN Row("pending", TRUE) ELSE Row("none", FALSE)
        /\ told'[Current(t)'] = "none" /\ Current(t)' \in Calls
        /\ Current(t)' \in effects' => state'[t].intent
    BY DEF Own
  <1>2. ASSUME NEW token \in tokens', token.call = Current(t)'
        PROVE  /\ state'[t].intent /\ token.before = Current(t)'
               /\ token.effect_verified => Current(t)' \in effects'
    BY <1>2 DEF Own
  <1> QED BY <1>1, <1>2 DEF Judged, Row

(* The fields of a state after an edit. *)
SameTool(t) == state'[t].tool = state[t].tool /\ state'[t].dry_run = state[t].dry_run

LEMMA Edits ==
  ASSUME TypeOK, NEW t \in Threads
  PROVE  /\ \A place : Go(t, place) => pc'[t] = place /\ \A u \in Threads \ {t} : pc'[u] = pc[u]
         /\ \A result : Return(t, result) =>
              /\ pc'[t] = "annotate" /\ state'[t].result = result /\ SameTool(t)
              /\ state'[t].intent = state[t].intent /\ state'[t].status = state[t].status
              /\ \A u \in Threads \ {t} : pc'[u] = pc[u] /\ state'[u] = state[u]
         /\ \A status : Raise(t, status) =>
              /\ pc'[t] = "final" /\ state'[t].result = "error" /\ SameTool(t)
              /\ state'[t].intent = state[t].intent /\ state'[t].status = status
              /\ \A u \in Threads \ {t} : pc'[u] = pc[u] /\ state'[u] = state[u]
  <1>1. state[t] \in StateType /\ state \in [Threads -> StateType] /\ pc \in [Threads -> Places]
    BY DEF TypeOK
  <1> USE DEF SameTool
  <1>2. \A place : Go(t, place) => pc'[t] = place /\ \A u \in Threads \ {t} : pc'[u] = pc[u]
    BY <1>1 DEF Go
  <1>3. ASSUME NEW result, Return(t, result)
        PROVE  /\ pc'[t] = "annotate" /\ state'[t].result = result /\ SameTool(t)
               /\ state'[t].intent = state[t].intent /\ state'[t].status = state[t].status
               /\ \A u \in Threads \ {t} : pc'[u] = pc[u] /\ state'[u] = state[u]
    BY <1>1, <1>2, <1>3 DEF Return, StateType
  <1>4. ASSUME NEW status, Raise(t, status)
        PROVE  /\ pc'[t] = "final" /\ state'[t].result = "error" /\ SameTool(t)
               /\ state'[t].intent = state[t].intent /\ state'[t].status = status
               /\ \A u \in Threads \ {t} : pc'[u] = pc[u] /\ state'[u] = state[u]
    BY <1>1, <1>2, <1>4 DEF Raise, StateType
  <1> QED BY <1>2, <1>3, <1>4

-----------------------------------------------------------------------------
(* What each step makes of its call. *)

LEMMA CallOwns ==
  ASSUME TypeOK, IInv, NEW t \in Threads, NEW tool \in Tools, NEW dry_run \in BOOLEAN, Call(t, tool, dry_run)
  PROVE  Moves(t) /\ Own(t)'
  <1>1. calls[t] \in Nat /\ calls[t] + 1 <= MaxCalls[t] /\ calls'[t] = calls[t] + 1
    BY CallsType DEF Call, TypeOK
  <1>2. Current(t)' = <<t, calls[t] + 1>> /\ Current(t)' \in Calls
    BY <1>1, CallsType DEF Current
  <1>3. Blank(Current(t)')
    BY <1>1, <1>2 DEF IInv
  <1>4. UNCHANGED <<rows, told, tokens, effects>> /\ pc'[t] = "check"
    BY Edits DEF Call, outside, records
  <1>5. state'[t] = Fresh(tool, dry_run) /\ prior'[t] = None
    BY DEF Call, TypeOK
  <1>6. Moves(t)
    BY <1>1, <1>4, Edits DEF Moves, Call, TypeOK
  <1>7. dry_run => tool.writes
    BY DEF Call
  <1>8. /\ state'[t].tool = tool /\ state'[t].dry_run = dry_run /\ state'[t].status = "ok"
        /\ state'[t].result = "none" /\ ~ state'[t].intent
    BY <1>5 DEF Fresh
  <1>9. Own(t)'
    <2>1. /\ rows'[Current(t)'] = Row("none", FALSE) /\ told'[Current(t)'] = "none"
          /\ Current(t)' \notin effects' /\ \A token \in tokens' : token.call # Current(t)'
      BY <1>3, <1>4 DEF Blank
    <2> QED BY <1>2, <1>4, <1>5, <1>7, <1>8, <2>1 DEF Own, Begun, Before
  <1> QED BY <1>6, <1>9

(* A step that leaves the records alone, and the effects. *)
LEMMA QuietMoves ==
  ASSUME TypeOK, NEW t \in Threads, UNCHANGED <<calls, rows, told, tokens, effects>>,
         \A u \in Threads \ {t} : pc'[u] = pc[u] /\ state'[u] = state[u] /\ prior'[u] = prior[u]
  PROVE  Moves(t) /\ Current(t)' = Current(t)
  BY DEF Moves, Current

LEMMA CheckOwns ==
  ASSUME TypeOK, IInv, NEW t \in Threads, Refuse(t) \/ BeginNothing(t) \/ BeginUnavailable(t)
  PROVE  Moves(t) /\ Own(t)'
  <1>1. Own(t) /\ pc[t] = "check"
    BY DEF Refuse, BeginNothing, BeginUnavailable, IInv
  <1>2. UNCHANGED <<calls, rows, told, tokens, effects, prior>>
    BY DEF Refuse, BeginNothing, BeginUnavailable, outside, records
  <1>3. CASE BeginNothing(t)
    <2>1. pc'[t] = "run" /\ state' = state /\ \A u \in Threads \ {t} : pc'[u] = pc[u]
      BY <1>3, Edits DEF BeginNothing
    <2>2. Moves(t) /\ Current(t)' = Current(t)
      BY <1>2, <2>1, QuietMoves
    <2> QED BY <1>1, <1>2, <1>3, <2>1, <2>2 DEF Own, NeedsIntent, BeginNothing, Begun, Before
  <1>4. CASE Refuse(t) \/ BeginUnavailable(t)
    <2>1. PICK status : Raise(t, status)
      BY <1>4 DEF Refuse, BeginUnavailable
    <2>2. /\ pc'[t] = "final" /\ state'[t].result = "error" /\ SameTool(t)
          /\ state'[t].intent = state[t].intent
          /\ \A u \in Threads \ {t} : pc'[u] = pc[u] /\ state'[u] = state[u]
      BY <2>1, Edits
    <2>3. Moves(t) /\ Current(t)' = Current(t)
      BY <1>2, <2>2, QuietMoves
    <2> QED BY <1>1, <1>2, <2>2, <2>3 DEF Own, NeedsIntent, SameTool, Begun, Before
  <1> QED BY <1>3, <1>4

LEMMA BeginOwns ==
  ASSUME TypeOK, IInv, NEW t \in Threads, BeginWrite(t)
  PROVE  Moves(t) /\ Own(t)'
  <1>1. Own(t) /\ pc[t] = "check" /\ NeedsIntent(t)
    BY DEF BeginWrite, IInv
  <1>2. UNCHANGED <<calls, told, tokens, effects, prior>> /\ Current(t)' = Current(t)
    BY DEF BeginWrite, Current
  <1>3. /\ pc'[t] = "run" /\ \A u \in Threads \ {t} : pc'[u] = pc[u] /\ state'[u] = state[u]
        /\ state'[t].intent = TRUE /\ SameTool(t)
        /\ state'[t].result = state[t].result /\ state'[t].status = state[t].status
    <2>1. state[t] \in StateType /\ state \in [Threads -> StateType]
      BY DEF TypeOK
    <2>2. state'[t] = [state[t] EXCEPT !.intent = TRUE] /\ \A u \in Threads \ {t} : state'[u] = state[u]
      BY <2>1 DEF BeginWrite
    <2>3. pc'[t] = "run" /\ \A u \in Threads \ {t} : pc'[u] = pc[u]
      BY Edits DEF BeginWrite
    <2> QED BY <2>1, <2>2, <2>3 DEF StateType, SameTool
  <1>4. Current(t) \in Calls /\ rows' = [rows EXCEPT ![Current(t)] = Row("pending", TRUE)]
    BY <1>1 DEF BeginWrite, Own
  <1>5. /\ rows'[Current(t)] = Row("pending", TRUE)
        /\ \A call \in Calls \ {Current(t)} : rows'[call] = rows[call]
    BY <1>4 DEF TypeOK
  <1>6. Moves(t)
    BY <1>2, <1>3, <1>5 DEF Moves
  <1>7. Own(t)'
    BY <1>1, <1>2, <1>3, <1>4, <1>5 DEF Own, NeedsIntent, SameTool, Begun, Before
  <1> QED BY <1>6, <1>7

(* A step of the body that returns a result, or goes on. *)
LEMMA BodyOwns ==
  ASSUME TypeOK, IInv, NEW t \in Threads,
         Connect(t) \/ Preflight(t) \/ Preview(t) \/ SendNothing(t) \/ Reject(t) \/ ExplainLost(t)
  PROVE  Moves(t) /\ Own(t)'
  <1>1. Own(t) /\ pc[t] \in {"run", "body", "send", "rollback"}
    BY DEF Connect, Preflight, Preview, SendNothing, Reject, ExplainLost, Explaining, IInv
  <1>2. UNCHANGED <<calls, rows, told, tokens, effects, prior>>
    BY DEF Connect, Preflight, Preview, SendNothing, Reject, ExplainLost, outside, records
  <1>3. CASE \E result \in {"error", "unknown", "preview"} :
               Return(t, result) /\ (result = "preview" => state[t].dry_run)
    <2>1. PICK result \in {"error", "unknown", "preview"} :
                 Return(t, result) /\ (result = "preview" => state[t].dry_run)
      BY <1>3
    <2>2. /\ pc'[t] = "annotate" /\ state'[t].result = result /\ SameTool(t)
          /\ state'[t].intent = state[t].intent /\ state'[t].status = state[t].status
          /\ \A u \in Threads \ {t} : pc'[u] = pc[u] /\ state'[u] = state[u]
      BY <2>1, Edits
    <2>3. Moves(t) /\ Current(t)' = Current(t)
      BY <1>2, <2>2, QuietMoves
    <2>4. Current(t) \notin effects
      BY <1>1, ToolIs, UndoAssumption DEF Own, NeedsIntent, TypeOK, StateType, Before
    <2> QED BY <1>1, <1>2, <2>1, <2>2, <2>3, <2>4 DEF Own, NeedsIntent, SameTool, Begun, Before
  <1>4. CASE Go(t, "body") /\ state' = state /\ pc[t] = "run"
    <2>1. pc'[t] = "body" /\ \A u \in Threads \ {t} : pc'[u] = pc[u]
      BY <1>4, Edits
    <2>2. Moves(t) /\ Current(t)' = Current(t)
      BY <1>2, <1>4, <2>1, QuietMoves
    <2> QED BY <1>1, <1>2, <1>4, <2>1, <2>2 DEF Own, NeedsIntent, Begun, Before
  <1> QED BY <1>3, <1>4 DEF Connect, Preflight, Preview, SendNothing, Reject, ExplainLost, Lost

LEMMA PrepareOwns ==
  ASSUME TypeOK, IInv, NEW t \in Threads, Prepare(t)
  PROVE  Moves(t) /\ Own(t)'
  <1>1. Own(t) /\ pc[t] = "body" /\ ~ state[t].dry_run
    BY DEF Prepare, IInv
  <1>2. UNCHANGED <<calls, rows, told, tokens, effects, state>>
    BY DEF Prepare, outside, records
  <1>3. pc'[t] = "send" /\ \A u \in Threads \ {t} : pc'[u] = pc[u]
    BY Edits DEF Prepare
  <1>4. /\ prior'[t] \in {prior[t], Current(t)}
        /\ \A u \in Threads \ {t} : prior'[u] = prior[u]
    BY DEF Prepare, Stash, TypeOK
  <1>5. Moves(t) /\ Current(t)' = Current(t)
    BY <1>2, <1>3, <1>4, QuietMoves
  <1> QED BY <1>1, <1>2, <1>3, <1>4, <1>5 DEF Own, NeedsIntent, Begun, Before

(* The statement reached the server, and its effect may be a call's own.    *)
LEMMA LandsMoves ==
  ASSUME TypeOK, NEW t \in Threads, UNCHANGED <<calls, rows, told, tokens>>,
         effects' = effects \/ Lands(t),
         \A u \in Threads \ {t} : pc'[u] = pc[u] /\ state'[u] = state[u] /\ prior'[u] = prior[u]
  PROVE  /\ Moves(t) /\ Current(t)' = Current(t)
         /\ Current(t) \in effects' => Current(t) \in effects \/ state[t].tool.writes
  BY DEF Moves, Current, Lands

LEMMA SucceedOwns ==
  ASSUME TypeOK, IInv, NEW t \in Threads, Succeed(t)
  PROVE  Moves(t) /\ Own(t)'
  <1>1. Own(t) /\ pc[t] = "send" /\ Lands(t)
    BY DEF Succeed, IInv
  <1>2. UNCHANGED <<calls, rows, told, tokens, prior>>
    BY DEF Succeed, records
  <1>3. /\ pc'[t] = "annotate" /\ state'[t].result = "payload" /\ SameTool(t)
        /\ state'[t].intent = state[t].intent /\ state'[t].status = state[t].status
        /\ \A u \in Threads \ {t} : pc'[u] = pc[u] /\ state'[u] = state[u]
    BY Edits DEF Succeed
  <1>4. /\ Moves(t) /\ Current(t)' = Current(t)
        /\ Current(t) \in effects' => Current(t) \in effects \/ state[t].tool.writes
    BY <1>1, <1>2, <1>3, LandsMoves
  <1>5. state[t].intent => Current(t) \in effects'
    BY <1>1 DEF Lands, Own, NeedsIntent
  <1> QED BY <1>1, <1>2, <1>3, <1>4, <1>5 DEF Own, NeedsIntent, SameTool, Begun, Before

LEMMA LoseOwns ==
  ASSUME TypeOK, IInv, NEW t \in Threads, LoseResponse(t)
  PROVE  Moves(t) /\ Own(t)'
  <1>1. Own(t) /\ pc[t] = "send" /\ (effects' = effects \/ Lands(t))
    BY DEF LoseResponse, IInv
  <1>2. UNCHANGED <<calls, rows, told, tokens, prior>>
    BY DEF LoseResponse, records
  <1>3. /\ pc'[t] = "annotate" /\ state'[t].result = Lost(t) /\ SameTool(t)
        /\ state'[t].intent = state[t].intent /\ state'[t].status = state[t].status
        /\ \A u \in Threads \ {t} : pc'[u] = pc[u] /\ state'[u] = state[u]
    BY Edits DEF LoseResponse
  <1>4. /\ Moves(t) /\ Current(t)' = Current(t)
        /\ Current(t) \in effects' => Current(t) \in effects \/ state[t].tool.writes
    BY <1>1, <1>2, <1>3, LandsMoves
  <1>5. Lost(t) \in {"unknown", "error"} /\ (WritesExecute /\ state[t].tool.writes => Lost(t) = "unknown")
    BY DEF Lost, WritesExecute, TypeOK, StateType
  <1> QED BY <1>1, <1>2, <1>3, <1>4, <1>5 DEF Own, NeedsIntent, SameTool, Begun, Before

LEMMA InterruptOwns ==
  ASSUME TypeOK, IInv, NEW t \in Threads, Interrupt(t)
  PROVE  Moves(t) /\ Own(t)'
  <1>1. /\ Own(t) /\ pc[t] \in Before /\ (effects' = effects \/ Lands(t))
        /\ pc[t] # "send" => effects' = effects
    BY DEF Interrupt, IInv, Before
  <1>2. UNCHANGED <<calls, rows, told, tokens, prior, state>>
    BY DEF Interrupt, records
  <1>3. pc'[t] = "final" /\ \A u \in Threads \ {t} : pc'[u] = pc[u]
    BY Edits DEF Interrupt
  <1>4. /\ Moves(t) /\ Current(t)' = Current(t)
        /\ Current(t) \in effects' => Current(t) \in effects \/ state[t].tool.writes
    BY <1>1, <1>2, <1>3, LandsMoves
  <1> QED BY <1>1, <1>2, <1>3, <1>4 DEF Own, NeedsIntent, Begun, Before

(* A call of explain_query writes nothing, whatever becomes of it. *)
LEMMA ExplainOwns ==
  ASSUME TypeOK, IInv, NEW t \in Threads, BeginExplain(t) \/ Explain(t) \/ Rollback(t)
  PROVE  Moves(t) /\ Own(t)'
  <1>1. /\ Own(t) /\ pc[t] \in {"body", "explain", "rollback"}
        /\ state[t].tool.explains /\ ~ state[t].tool.writes
    BY UndoAssumption DEF BeginExplain, Explain, Rollback, Explaining, IInv, Own, TypeOK, StateType
  <1>2. UNCHANGED <<calls, rows, told, tokens, effects, prior>>
    BY DEF BeginExplain, Explain, Rollback, records
  <1>3. /\ pc'[t] \in {"explain", "rollback", "annotate"} /\ SameTool(t)
        /\ state'[t].result \in {state[t].result, "payload", "error"}
        /\ state'[t].intent = state[t].intent /\ state'[t].status = state[t].status
        /\ \A u \in Threads \ {t} : pc'[u] = pc[u] /\ state'[u] = state[u]
    <2>1. state[t] \in StateType /\ state \in [Threads -> StateType]
      BY DEF TypeOK
    <2>2. CASE BeginExplain(t) \/ Rollback(t)
      BY <2>2, Edits DEF BeginExplain, Rollback, SameTool
    <2>3. CASE Explain(t)
      <3>1. PICK result \in {"payload", "error"} : state' = [state EXCEPT ![t].result = result]
        BY <2>3 DEF Explain
      <3>2. /\ state'[t] = [state[t] EXCEPT !.result = result]
            /\ \A u \in Threads \ {t} : state'[u] = state[u]
        BY <2>1, <3>1
      <3>3. pc'[t] = "rollback" /\ \A u \in Threads \ {t} : pc'[u] = pc[u]
        BY <2>3, Edits DEF Explain
      <3> QED BY <2>1, <3>2, <3>3 DEF StateType, SameTool
    <2> QED BY <2>2, <2>3
  <1>4. Moves(t) /\ Current(t)' = Current(t)
    BY <1>2, <1>3, QuietMoves
  <1>5. ~ state[t].intent /\ Current(t) \notin effects
    BY <1>1 DEF Own, NeedsIntent
  <1> QED BY <1>1, <1>2, <1>3, <1>4, <1>5 DEF Own, NeedsIntent, SameTool, Begun, Before

LEMMA AnnotateOwns ==
  ASSUME TypeOK, IInv, NEW t \in Threads,
         AnnotateNothing(t) \/ AnnotateConfirmed(t) \/ AnnotateUnknown(t)
  PROVE  Moves(t) /\ Own(t)'
  <1>1. Own(t) /\ pc[t] = "annotate"
    BY DEF AnnotateNothing, AnnotateConfirmed, AnnotateUnknown, IInv
  <1>2. UNCHANGED <<calls, rows, told, effects, state>> /\ Current(t)' = Current(t)
    BY DEF AnnotateNothing, AnnotateConfirmed, AnnotateUnknown, outside, records, Current
  <1>3. pc'[t] = "final" /\ \A u \in Threads \ {t} : pc'[u] = pc[u]
    BY Edits DEF AnnotateNothing, AnnotateConfirmed, AnnotateUnknown
  <1>4. prior'[t] \in {None, prior[t]} /\ \A u \in Threads \ {t} : prior'[u] = prior[u]
    BY DEF AnnotateNothing, AnnotateConfirmed, AnnotateUnknown, TypeOK
  <1>5. /\ tokens \subseteq tokens'
        /\ \A token \in tokens' \ tokens :
             /\ state[t].tool.undo /\ ~ state[t].dry_run
             /\ token.call = Current(t) /\ token.before = Current(t)
             /\ state[t].result = IF token.effect_verified THEN "payload" ELSE "unknown"
    <2>1. CASE AnnotateNothing(t)
      BY <2>1 DEF AnnotateNothing, outside, records
    <2>2. CASE AnnotateConfirmed(t)
      BY <2>2 DEF AnnotateConfirmed, RecordUndo, Token
    <2>3. CASE AnnotateUnknown(t)
      <3>1. prior[t] # None => prior[t] = Current(t)
        BY <1>1 DEF Own
      <3> QED BY <2>3, <3>1 DEF AnnotateUnknown, RecordUndo, Token
    <2> QED BY <2>1, <2>2, <2>3
  <1>6. Moves(t)
    BY <1>2, <1>3, <1>4, <1>5 DEF Moves
  <1>7. state[t].tool.undo /\ ~ state[t].dry_run => state[t].intent
    BY <1>1, UndoAssumption DEF Own, NeedsIntent, Begun, TypeOK, StateType
  <1>8. \A token \in tokens' : token.call = Current(t) => token \notin tokens
    BY <1>1 DEF Own
  <1> QED BY <1>1, <1>2, <1>3, <1>4, <1>5, <1>6, <1>7, <1>8 DEF Own, NeedsIntent, Begun, Before

(* The wrapper returns, and the call is judged by its row. *)
LEMMA FinalJudged ==
  ASSUME TypeOK, IInv, NEW t \in Threads, Finalize(t) \/ FinalizeFails(t)
  PROVE  Moves(t) /\ pc'[t] = "idle" /\ Current(t)' \in Calls /\ Judged(Current(t))'
  <1> DEFINE s == state[t]
             c == Current(t)
  <1>1. Own(t) /\ pc[t] = "final" /\ c \in Calls /\ s \in StateType
    BY DEF Finalize, FinalizeFails, IInv, Own, TypeOK
  <1>2. UNCHANGED <<calls, prior, tokens, effects>> /\ Current(t)' = c
    BY DEF Finalize, FinalizeFails, Current
  <1>3. pc'[t] = "idle" /\ \A u \in Threads \ {t} : pc'[u] = pc[u] /\ state'[u] = state[u]
    BY Edits DEF Finalize, FinalizeFails, Leave, TypeOK
  <1>4. /\ rows'[c] \in {rows[c], Row(Verdict(s), NeedsIntent(t))}
        /\ \A call \in Calls \ {c} : rows'[call] = rows[call] /\ told'[call] = told[call]
    BY <1>1 DEF Finalize, FinalizeFails, Audit, Answer, TypeOK
  <1>5. Moves(t)
    BY <1>2, <1>3, <1>4 DEF Moves
  <1>6. CASE FinalizeFails(t)
    <2>1. rows'[c] = Row("pending", TRUE) /\ told'[c] = "raised"
      BY <1>1, <1>6 DEF FinalizeFails, Answer, Own, TypeOK
    <2>2. Row("pending", TRUE).write /\ Row("pending", TRUE).status = "pending"
      BY DEF Row
    <2>3. \A token \in tokens : token.call = c =>
            token.before = c /\ (token.effect_verified => c \in effects)
      BY <1>1 DEF Own
    <2> QED BY <1>2, <1>3, <1>5, <1>1, <2>1, <2>2, <2>3 DEF Judged
  <1>7. CASE Finalize(t)
    <2>1. told'[c] = Checked(s)
      BY <1>1, <1>7 DEF Finalize, Answer, TypeOK
    <2>2. /\ \/ rows'[c] = Row(Verdict(s), NeedsIntent(t))
             \/ ~ s.intent /\ rows'[c] = Row("none", FALSE)
      BY <1>1, <1>7 DEF Finalize, Audit, Own, TypeOK
    <2>3. /\ s.intent => NeedsIntent(t)
          /\ c \in effects => s.intent /\ s.status = "ok" /\ (WritesExecute => s.result # "error")
          /\ s.result = "payload" /\ NeedsIntent(t) => c \in effects
          /\ s.result = "preview" => ~ NeedsIntent(t)
          /\ \A token \in tokens : token.call = c =>
               /\ s.intent /\ s.status = "ok" /\ token.before = c
               /\ s.result = IF token.effect_verified THEN "payload" ELSE "unknown"
      BY <1>1 DEF Own, NeedsIntent
    <2>4. Row(Verdict(s), NeedsIntent(t)).status = Verdict(s)
          /\ Row(Verdict(s), NeedsIntent(t)).write = NeedsIntent(t)
          /\ Row("none", FALSE).status = "none" /\ Row("none", FALSE).write = FALSE
      BY DEF Row
    <2>5. c \in effects => rows'[c].write /\ (WritesExecute => rows'[c].status \in {"pending", "ok", "unknown"})
      <3>1. ASSUME c \in effects PROVE rows'[c] = Row(Verdict(s), NeedsIntent(t)) /\ NeedsIntent(t)
        BY <2>2, <2>3, <3>1
      <3>2. ASSUME c \in effects, WritesExecute PROVE Verdict(s) \in {"ok", "unknown"}
        BY <2>3, <3>2 DEF Verdict
      <3> QED BY <2>4, <3>1, <3>2
    <2>6. rows'[c].write /\ told'[c] = "ok" => c \in effects
      <3>1. ASSUME rows'[c].write PROVE NeedsIntent(t)
        BY <2>2, <2>4, <3>1
      <3>2. ASSUME told'[c] = "ok" PROVE s.result \in {"payload", "preview"}
        BY <1>1, <2>1, <3>2 DEF Checked, StateType, Results
      <3> QED BY <2>3, <3>1, <3>2
    <2>7. told'[c] \in {"ok", "error", "unknown"} =>
            rows'[c].status \in {told'[c]} \cup (IF rows'[c].write THEN {} ELSE {"none"})
      <3>1. ASSUME told'[c] \in {"ok", "error", "unknown"} PROVE Verdict(s) = told'[c]
        <4>1. s.status = "ok" /\ s.result # "none"
          <5>1. ASSUME s.status # "ok" \/ s.result = "none" PROVE Checked(s) = "raised"
            BY <5>1, <1>1 DEF Checked, StateType, Verdicts, Results
          <5> QED BY <2>1, <3>1, <5>1
        <4>2. Checked(s) = Verdict(s)
          BY <4>1 DEF Checked, Verdict
        <4> QED BY <2>1, <4>2
      <3> QED BY <2>2, <2>4, <3>1
    <2>8. ASSUME NEW token \in tokens, token.call = c
          PROVE  /\ rows'[c].write /\ token.before = c
                 /\ rows'[c].status \in {"pending", IF token.effect_verified THEN "ok" ELSE "unknown"}
                 /\ token.effect_verified => c \in effects
      <3>1. /\ rows'[c] = Row(Verdict(s), NeedsIntent(t)) /\ NeedsIntent(t)
            /\ s.status = "ok" /\ token.before = c
            /\ s.result = IF token.effect_verified THEN "payload" ELSE "unknown"
        BY <2>2, <2>3, <2>8
      <3>2. Verdict(s) = IF token.effect_verified THEN "ok" ELSE "unknown"
        BY <3>1 DEF Verdict
      <3> QED BY <2>3, <2>4, <3>1, <3>2
    <2> HIDE DEF s, c
    <2> QED BY <1>1, <1>2, <1>3, <1>5, <2>5, <2>6, <2>7, <2>8 DEF Judged
  <1> QED BY <1>6, <1>7

-----------------------------------------------------------------------------
Mine == <<pc, calls, state, prior, rows, told, tokens, effects>>

LEMMA OthersKeep == ASSUME IInv, UNCHANGED Mine PROVE IInv'
  <1> USE DEF Mine
  <1>1. ASSUME NEW t \in Threads, pc'[t] # "idle" PROVE Own(t)'
    <2>1. Own(t)
      BY <1>1 DEF IInv
    <2> QED BY <2>1 DEF Own, NeedsIntent, Current
  <1>2. \A call \in Calls : Judged(call)'
    BY DEF IInv, Judged
  <1>3. \A call \in Calls : call[2] > calls'[call[1]] => Blank(call)'
    BY DEF IInv, Blank
  <1> QED BY <1>1, <1>2, <1>3 DEF IInv

LEMMA NextInv ==
  ASSUME TypeOK, IInv, [Next]_vars
  PROVE  TypeOK' /\ IInv'
  <1>1. TypeOK'
    BY NextType
  <1>2. ASSUME NEW t \in Threads, Moves(t), Own(t)' PROVE IInv'
    BY <1>1, <1>2, OwnJudged, Frame
  <1>3. ASSUME NEW t \in Threads, ThreadStep(t) \/ Interrupt(t) PROVE IInv'
    <2>1. CASE Finalize(t) \/ FinalizeFails(t)
      BY <2>1, FinalJudged, Frame
    <2>2. CASE ~ (Finalize(t) \/ FinalizeFails(t))
      <3>1. Moves(t) /\ Own(t)'
        BY <1>3, <2>2, CheckOwns, BeginOwns, BodyOwns, PrepareOwns, SucceedOwns, LoseOwns, ExplainOwns,
           AnnotateOwns, InterruptOwns DEF ThreadStep
      <3> QED BY <1>2, <3>1
    <2> QED BY <2>1, <2>2
  <1>4. ASSUME NEW t \in Threads, NEW tool \in Tools, NEW dry_run \in BOOLEAN, Call(t, tool, dry_run)
        PROVE  IInv'
    BY <1>2, <1>4, CallOwns
  <1>5. CASE LinkDies
    <2>1. UNCHANGED Mine
      BY <1>5 DEF LinkDies, records, Mine
    <2> QED BY <1>1, <2>1, OthersKeep
  <1>6. CASE UNCHANGED vars
    <2>1. UNCHANGED Mine
      BY <1>6 DEF vars, Mine
    <2> QED BY <1>1, <2>1, OthersKeep
  <1> QED BY <1>1, <1>3, <1>4, <1>5, <1>6 DEF Next

LEMMA Always == Spec => [](TypeOK /\ IInv)
  <1> QED BY InitInv, NextInv, PTL DEF Spec

(* Type correctness of the governed call, for any tools, threads, bounds.   *)
THEOREM CallTypeCorrect == Spec => []TypeOK
  <1> QED BY Always, PTL

(* Where every write sends its statement through execute, a call that       *)
(* changed the server has the audit row of a write, never one that reports  *)
(* a failure: however links die, storage fails and callers are interrupted. *)
THEOREM EffectsAreAudited == ASSUME WritesExecute PROVE Spec => []EffectsAudited
  <1>1. TypeOK /\ IInv => EffectsAudited
    BY DEF IInv, Judged, EffectsAudited, TypeOK
  <1> QED BY <1>1, Always, PTL

(* A write whose caller is told of a success did take effect.               *)
THEOREM SuccessesAreReal == Spec => []SuccessIsReal
  <1>1. IInv => SuccessIsReal
    BY DEF IInv, Judged, SuccessIsReal
  <1> QED BY <1>1, Always, PTL

(* An undo token is of a real write, verified only if that took effect, and *)
(* restores what stood before it and before no other call.                  *)
THEOREM TokensAreSound == Spec => []TokensSound
  <1>1. ASSUME TypeOK, IInv, NEW token \in tokens
        PROVE  /\ rows[token.call].write /\ token.before = token.call
               /\ rows[token.call].status \in {"pending", IF token.effect_verified THEN "ok" ELSE "unknown"}
               /\ token.effect_verified => token.call \in effects
    <2>1. token.call \in Calls
      BY <1>1 DEF TypeOK
    <2>2. Judged(token.call)
      BY <1>1, <2>1 DEF IInv
    <2> QED BY <2>2 DEF Judged
  <1>2. TypeOK /\ IInv => TokensSound
    BY <1>1 DEF TokensSound
  <1> QED BY <1>2, Always, PTL

(* What the caller is told and what the audit row says never disagree.      *)
THEOREM AnswersDoAgree == Spec => []AnswersAgree
  <1>1. IInv => AnswersAgree
    BY DEF IInv, Judged, AnswersAgree
  <1> QED BY <1>1, Always, PTL

-----------------------------------------------------------------------------
(* What the rows are worth, and what an interrupt does to them: a call that *)
(* ends without one has a result, and one that has none raises.             *)

Ending == {"rollback", "annotate", "final"}

EndsWell(t) == pc[t] \in Ending /\ state[t].status = "ok" => state[t].result # "none"

RowSays(call) ==
  rows[call].write =>
    /\ rows[call].status # "none"
    /\ rows[call].status = "ok" => call \in effects \/ (Interrupts /\ told[call] = "raised")

RowsInv ==
  /\ ~ Interrupts => \A t \in Threads : EndsWell(t)
  /\ \A call \in Calls : RowSays(call)

LEMMA OthersSay ==
  ASSUME NEW t \in Threads, Moves(t), \A call \in Calls : RowSays(call), RowSays(Current(t))'
  PROVE  \A call \in Calls : RowSays(call)'
  <1> SUFFICES ASSUME NEW call \in Calls, call # Current(t)' PROVE RowSays(call)'
    BY DEF RowSays
  <1>1. rows'[call] = rows[call] /\ told'[call] = told[call] /\ (call \in effects' <=> call \in effects)
    BY DEF Moves
  <1> QED BY <1>1 DEF RowSays

LEMMA FinalSays ==
  ASSUME TypeOK, IInv, RowsInv, NEW t \in Threads, Finalize(t) \/ FinalizeFails(t)
  PROVE  RowSays(Current(t))'
  <1> DEFINE s == state[t]
             c == Current(t)
  <1>1. Own(t) /\ pc[t] = "final" /\ c \in Calls /\ s \in StateType
    BY DEF Finalize, FinalizeFails, IInv, Own, TypeOK
  <1>2. UNCHANGED effects /\ Current(t)' = c
    BY DEF Finalize, FinalizeFails, Current
  <1>3. CASE FinalizeFails(t)
    <2>1. rows'[c] = Row("pending", TRUE)
      BY <1>1, <1>3 DEF FinalizeFails, Own, TypeOK
    <2> QED BY <1>2, <2>1 DEF RowSays, Row
  <1>4. CASE Finalize(t)
    <2>1. told'[c] = Checked(s)
      BY <1>1, <1>4 DEF Finalize, Answer, TypeOK
    <2>2. \/ rows'[c] = Row(Verdict(s), NeedsIntent(t))
          \/ rows'[c] = Row("none", FALSE)
      BY <1>1, <1>4 DEF Finalize, Audit, Own, TypeOK
    <2>3. Verdict(s) # "none"
      BY <1>1 DEF Verdict, StateType, Verdicts
    <2>4. ASSUME NeedsIntent(t), Verdict(s) = "ok"
          PROVE  c \in effects \/ (Interrupts /\ Checked(s) = "raised")
      <3>1. s.status = "ok" /\ s.result \in {"none", "payload", "preview"}
        BY <1>1, <2>4 DEF Verdict, StateType, Results
      <3>2. s.result # "preview" /\ (s.result = "payload" => c \in effects)
        BY <1>1, <2>4 DEF Own, NeedsIntent
      <3>3. ASSUME s.result = "none" PROVE Interrupts
        <4>1. ~ EndsWell(t)
          BY <1>1, <3>1, <3>3 DEF EndsWell, Ending
        <4> QED BY <4>1 DEF RowsInv
      <3>4. s.result = "none" => Checked(s) = "raised"
        BY DEF Checked
      <3> QED BY <3>1, <3>2, <3>3, <3>4
    <2> HIDE DEF s, c
    <2>5. Row(Verdict(s), NeedsIntent(t)).status = Verdict(s)
          /\ Row(Verdict(s), NeedsIntent(t)).write = NeedsIntent(t)
          /\ Row("none", FALSE).write = FALSE
      BY DEF Row
    <2> QED BY <1>2, <2>1, <2>2, <2>3, <2>4, <2>5 DEF RowSays
  <1> QED BY <1>3, <1>4

(* Without interrupts, nothing but a result brings a call to its end. *)
LEMMA StepEnds ==
  ASSUME TypeOK, IInv, \A u \in Threads : EndsWell(u), NEW t \in Threads, ThreadStep(t)
  PROVE  \A u \in Threads : EndsWell(u)'
  <1>1. ASSUME pc'[t] \in Ending /\ state'[t].status = "ok" => state'[t].result # "none",
               \A u \in Threads \ {t} : pc'[u] = pc[u] /\ state'[u] = state[u]
        PROVE  \A u \in Threads : EndsWell(u)'
    BY <1>1 DEF EndsWell
  <1>2. ASSUME NEW result, Return(t, result), result # "none" PROVE \A u \in Threads : EndsWell(u)'
    BY <1>1, <1>2, Edits
  <1>3. ASSUME NEW status, Raise(t, status) PROVE \A u \in Threads : EndsWell(u)'
    BY <1>1, <1>3, Edits
  <1>4. ASSUME NEW place, Go(t, place), place \notin Ending, \A u \in Threads \ {t} : state'[u] = state[u]
        PROVE  \A u \in Threads : EndsWell(u)'
    BY <1>1, <1>4, Edits
  <1>5. ASSUME NEW place, Go(t, place), UNCHANGED state, pc[t] \in Ending
        PROVE  \A u \in Threads : EndsWell(u)'
    <2>1. \A u \in Threads \ {t} : pc'[u] = pc[u]
      BY <1>5, Edits
    <2>2. EndsWell(t)
      OBVIOUS
    <2> QED BY <1>5, <2>1, <2>2 DEF EndsWell
  <1>6. CASE Refuse(t) \/ BeginUnavailable(t)
    BY <1>3, <1>6 DEF Refuse, BeginUnavailable
  <1>7. CASE BeginNothing(t) \/ Prepare(t) \/ BeginExplain(t)
    BY <1>4, <1>7 DEF BeginNothing, Prepare, BeginExplain, Ending, outside
  <1>8. CASE BeginWrite(t)
    <2>1. \A u \in Threads \ {t} : state'[u] = state[u]
      BY <1>8 DEF BeginWrite, TypeOK
    <2> QED BY <1>4, <1>8, <2>1 DEF BeginWrite, Ending
  <1>9. CASE Connect(t) \/ Preflight(t) \/ Preview(t) \/ SendNothing(t) \/ Reject(t) \/ ExplainLost(t)
              \/ Succeed(t) \/ LoseResponse(t)
    <2>1. \/ Go(t, "body") /\ UNCHANGED state
          \/ \E result \in {"error", "unknown", "preview", "payload"} : Return(t, result)
      BY <1>9 DEF Connect, Preflight, Preview, SendNothing, Reject, ExplainLost, Succeed, LoseResponse, Lost
    <2> QED BY <1>2, <1>4, <2>1 DEF Ending
  <1>10. CASE Explain(t)
    <2>1. PICK result \in {"payload", "error"} : state' = [state EXCEPT ![t].result = result]
      BY <1>10 DEF Explain
    <2>2. state'[t].result = result /\ \A u \in Threads \ {t} : state'[u] = state[u]
      BY <2>1 DEF TypeOK, StateType
    <2>3. \A u \in Threads \ {t} : pc'[u] = pc[u]
      BY <1>10, Edits DEF Explain
    <2> QED BY <1>1, <2>1, <2>2, <2>3
  <1>11. CASE Rollback(t) \/ AnnotateNothing(t) \/ AnnotateConfirmed(t) \/ AnnotateUnknown(t)
    <2>1. UNCHANGED state /\ pc[t] \in Ending /\ \E place : Go(t, place)
      BY <1>11 DEF Rollback, AnnotateNothing, AnnotateConfirmed, AnnotateUnknown, Ending
    <2> QED BY <1>5, <2>1
  <1>12. CASE Finalize(t) \/ FinalizeFails(t)
    <2>1. Go(t, "idle") /\ \A u \in Threads \ {t} : state'[u] = state[u]
      BY <1>12 DEF Finalize, FinalizeFails, Leave, TypeOK
    <2> QED BY <1>4, <2>1 DEF Ending
  <1> QED BY <1>6, <1>7, <1>8, <1>9, <1>10, <1>11, <1>12 DEF ThreadStep

LEMMA RowsNext ==
  ASSUME TypeOK, IInv, TypeOK', IInv', RowsInv, [Next]_vars
  PROVE  RowsInv'
  <1>1. ASSUME NEW t \in Threads, Moves(t), Own(t)' PROVE \A call \in Calls : RowSays(call)'
    <2>1. RowSays(Current(t))'
      <3>1. rows'[Current(t)'] = IF state'[t].intent THEN Row("pending", TRUE) ELSE Row("none", FALSE)
        BY <1>1 DEF Own
      <3> QED BY <3>1 DEF Row, RowSays
    <2> QED BY <1>1, <2>1, OthersSay DEF RowsInv
  <1>2. ASSUME NEW t \in Threads, ThreadStep(t) \/ Interrupt(t)
        PROVE  \A call \in Calls : RowSays(call)'
    <2>1. CASE Finalize(t) \/ FinalizeFails(t)
      BY <2>1, FinalJudged, FinalSays, OthersSay DEF RowsInv
    <2>2. CASE ~ (Finalize(t) \/ FinalizeFails(t))
      <3>1. Moves(t) /\ Own(t)'
        BY <1>2, <2>2, CheckOwns, BeginOwns, BodyOwns, PrepareOwns, SucceedOwns, LoseOwns, ExplainOwns,
           AnnotateOwns, InterruptOwns DEF ThreadStep
      <3> QED BY <1>1, <3>1
    <2> QED BY <2>1, <2>2
  <1>3. ASSUME NEW t \in Threads, ThreadStep(t) \/ Interrupt(t), ~ Interrupts
        PROVE  \A u \in Threads : EndsWell(u)'
    BY <1>3, StepEnds DEF RowsInv, Interrupt
  <1>4. ASSUME NEW t \in Threads, NEW tool \in Tools, NEW dry_run \in BOOLEAN, Call(t, tool, dry_run)
        PROVE  RowsInv'
    <2>1. \A u \in Threads \ {t} : pc'[u] = pc[u] /\ state'[u] = state[u]
      BY <1>4, Edits DEF Call, TypeOK
    <2>2. pc'[t] = "check"
      BY <1>4, Edits DEF Call
    <2> QED BY <1>1, <1>4, <2>1, <2>2, CallOwns DEF RowsInv, EndsWell, Ending
  <1>5. ASSUME UNCHANGED <<pc, state, rows, told, effects>> PROVE RowsInv'
    BY <1>5 DEF RowsInv, EndsWell, RowSays
  <1>6. CASE LinkDies
    BY <1>5, <1>6 DEF LinkDies, records
  <1>7. CASE UNCHANGED vars
    BY <1>5, <1>7 DEF vars
  <1> QED BY <1>2, <1>3, <1>4, <1>6, <1>7 DEF Next, RowsInv

LEMMA AlwaysRows == Spec => []RowsInv
  <1>1. Init => RowsInv
    BY DEF Init, RowsInv, EndsWell, Ending, RowSays, Row
  <1>2. RowsInv /\ TypeOK /\ IInv /\ (TypeOK /\ IInv)' /\ [Next]_vars => RowsInv'
    BY RowsNext
  <1> QED BY <1>1, <1>2, Always, PTL DEF Spec

OkOrRaised ==
  \A call \in Calls :
    rows[call].write /\ rows[call].status = "ok" => call \in effects \/ told[call] = "raised"

(* A caller is never in the dark about a write that was never carried out:  *)
(* whoever gets an ok row for one that did not reach the server got an      *)
(* exception with it.  A write that got there may still be taken back, when *)
(* explain_query rolls its own transaction back: ExplainReadsApart.         *)
THEOREM FalseOkIsRaised == Spec => []OkOrRaised
  <1>1. RowsInv => OkOrRaised
    BY DEF RowsInv, RowSays, OkOrRaised
  <1> QED BY <1>1, AlwaysRows, PTL

(* With interrupts, a call whose statement was carried out, whether or not  *)
(* a rollback took it back, has a row that says it was a write, and an ok   *)
(* row of a statement that was not is of a call whose caller has met the    *)
(* interrupt.                                                               *)
EffectsLeaveRows ==
  /\ \A call \in effects : rows[call].write /\ rows[call].status # "none"
  /\ \A call \in Calls :
       rows[call].write /\ rows[call].status = "ok" => call \in effects \/ told[call] = "raised"

THEOREM EffectsDoLeaveRows == Spec => []EffectsLeaveRows
  <1>1. TypeOK /\ IInv /\ RowsInv => EffectsLeaveRows
    BY DEF TypeOK, IInv, Judged, RowsInv, RowSays, EffectsLeaveRows
  <1> QED BY <1>1, Always, AlwaysRows, PTL

-----------------------------------------------------------------------------
(* What it takes for explain_query to take back another call's work: a      *)
(* second thread on the connection, a tool that explains, and a write whose *)
(* statement a transaction takes in.                                        *)

NothingJoins ==
  \/ \A t, u \in Threads : t = u
  \/ \A tool \in Tools : ~ tool.explains
  \/ \A tool \in Tools : tool.writes => tool.inside # "undone"

InExplain == {"explain", "rollback"}

TxnInv ==
  /\ within = {} /\ undone = {}
  /\ link # "live" => txn = "none"
  /\ txn # "none" => \E t \in Threads : pc[t] \in InExplain

LEMMA JoinsNothing ==
  ASSUME NothingJoins, TypeOK, IInv, TxnInv, NEW t \in Threads, pc[t] = "send", Joins(t)
  PROVE  within' = {}
  <1> SUFFICES ASSUME txn = "open", state[t].tool.writes, state[t].tool.inside = "undone" PROVE FALSE
    BY DEF Joins, TxnInv
  <1>1. PICK u \in Threads : pc[u] \in InExplain
    BY DEF TxnInv
  <1>2. state[u].tool.explains /\ state[u].tool \in Tools /\ state[t].tool \in Tools
    BY <1>1 DEF IInv, Own, InExplain, TypeOK, StateType
  <1>3. u # t
    BY <1>1 DEF InExplain
  <1> QED BY <1>2, <1>3 DEF NothingJoins

LEMMA TxnNext ==
  ASSUME NothingJoins, TypeOK, IInv, TxnInv, [Next]_vars
  PROVE  TxnInv'
  <1>1. ASSUME UNCHANGED session, \A u \in Threads : pc[u] \in InExplain => pc'[u] \in InExplain
        PROVE  TxnInv'
    BY <1>1 DEF TxnInv, session
  <1>2. ASSUME NEW t \in Threads, pc[t] \notin InExplain, UNCHANGED session,
               \A u \in Threads \ {t} : pc'[u] = pc[u]
        PROVE  TxnInv'
    BY <1>1, <1>2
  <1>3. ASSUME NEW t \in Threads, NEW tool \in Tools, NEW dry_run \in BOOLEAN, Call(t, tool, dry_run)
        PROVE  TxnInv'
    BY <1>2, <1>3, Edits DEF Call, outside, InExplain
  <1>4. ASSUME NEW t \in Threads,
               \/ Refuse(t) \/ BeginNothing(t) \/ BeginWrite(t) \/ BeginUnavailable(t) \/ Preflight(t)
               \/ Preview(t) \/ Prepare(t) \/ SendNothing(t) \/ AnnotateNothing(t) \/ AnnotateConfirmed(t)
               \/ AnnotateUnknown(t) \/ Finalize(t) \/ FinalizeFails(t)
        PROVE  TxnInv'
    <2>1. pc[t] \notin InExplain /\ UNCHANGED session
      BY <1>4 DEF Refuse, BeginNothing, BeginWrite, BeginUnavailable, Preflight, Preview, Prepare,
             SendNothing, AnnotateNothing, AnnotateConfirmed, AnnotateUnknown, Finalize, FinalizeFails,
             outside, InExplain
    <2>2. \A u \in Threads \ {t} : pc'[u] = pc[u]
      <3>1. \/ \E place : Go(t, place) \/ \E result : Return(t, result)
            \/ \E status : Raise(t, status)
        BY <1>4 DEF Refuse, BeginNothing, BeginWrite, BeginUnavailable, Preflight, Preview, Prepare,
               SendNothing, AnnotateNothing, AnnotateConfirmed, AnnotateUnknown, Finalize, FinalizeFails,
               Leave
      <3> QED BY <3>1, Edits
    <2> QED BY <1>2, <2>1, <2>2
  <1>5. ASSUME NEW t \in Threads, Connect(t) PROVE TxnInv'
    <2>1. /\ pc[t] = "run" /\ UNCHANGED <<txn, within, undone>> /\ link' \in {link, "live"}
          /\ \A u \in Threads \ {t} : pc'[u] = pc[u]
      BY <1>5, Edits DEF Connect
    <2> QED BY <2>1 DEF TxnInv, InExplain
  <1>6. ASSUME NEW t \in Threads, Succeed(t) PROVE TxnInv'
    <2>1. /\ pc[t] = "send" /\ Joins(t) /\ UNCHANGED <<link, txn, undone>>
          /\ \A u \in Threads \ {t} : pc'[u] = pc[u]
      BY <1>6, Edits DEF Succeed
    <2> QED BY <2>1, JoinsNothing DEF TxnInv, InExplain
  <1>7. ASSUME NEW t \in Threads, Interrupt(t) PROVE TxnInv'
    <2>1. /\ pc[t] \notin InExplain /\ UNCHANGED <<link, txn, undone>>
          /\ \/ within' = within
             \/ pc[t] = "send" /\ Joins(t)
          /\ \A u \in Threads \ {t} : pc'[u] = pc[u]
      BY <1>7, Edits DEF Interrupt, InExplain
    <2> QED BY <2>1, JoinsNothing DEF TxnInv, InExplain
  <1>8. ASSUME NEW t \in Threads, Reject(t) PROVE TxnInv'
    <2>1. /\ pc[t] = "send" /\ link = "live" /\ UNCHANGED <<link, within, undone>>
          /\ txn = "none" => txn' = "none"
          /\ \A u \in Threads \ {t} : pc'[u] = pc[u]
      BY <1>8, Edits DEF Reject, Abort
    <2> QED BY <2>1 DEF TxnInv, InExplain
  <1>9. ASSUME SessionEnds PROVE TxnInv'
    BY <1>9 DEF SessionEnds, TxnInv
  <1>10. ASSUME NEW t \in Threads, BeginExplain(t) \/ Explain(t) PROVE TxnInv'
    <2>1. /\ pc'[t] \in InExplain /\ UNCHANGED <<link, within, undone>>
          /\ link = "live" \/ txn' = txn \/ txn # "none"
          /\ txn' = txn \/ txn' # "none"
      BY <1>10, Edits DEF BeginExplain, Explain, Abort, InExplain
    <2> QED BY <2>1 DEF TxnInv
  <1>11. ASSUME NEW t \in Threads, Rollback(t) PROVE TxnInv'
    BY <1>11 DEF Rollback, TxnInv
  <1>12. ASSUME NEW t \in Threads, ExplainLost(t) PROVE TxnInv'
    <2>1. link = "dead" /\ UNCHANGED session
      BY <1>12 DEF ExplainLost, outside
    <2> QED BY <2>1 DEF TxnInv, session
  <1>13. CASE UNCHANGED vars
    BY <1>1, <1>13 DEF vars, session
  <1> QED BY <1>3, <1>4, <1>5, <1>6, <1>7, <1>8, <1>9, <1>10, <1>11, <1>12, <1>13
          DEF Next, ThreadStep, LoseResponse, LinkDies

LEMMA TxnAlways == ASSUME NothingJoins PROVE Spec => []TxnInv
  <1>1. Init => TxnInv
    BY DEF Init, TxnInv
  <1>2. TxnInv /\ TypeOK /\ IInv /\ [Next]_vars => TxnInv'
    BY TxnNext
  <1> QED BY <1>1, <1>2, Always, PTL DEF Spec

(* Nothing that a call has written is ever rolled back where calls come     *)
(* from one thread, or none explains with analyze, or every write is one    *)
(* that a transaction refuses or does not reach: the three together are     *)
(* what explain_query needs to undo a write that was told to have succeeded.*)
THEOREM ExplainReadsApart == ASSUME NothingJoins PROVE Spec => []ExplainOnlyReads
  <1>1. TxnInv => ExplainOnlyReads
    BY DEF TxnInv, ExplainOnlyReads
  <1> QED BY <1>1, TxnAlways, PTL

(* An ok row of a write is true of the server: its statement was carried    *)
(* out and no rollback has taken it back.  It takes both that nobody        *)
(* interrupts a call and that no write joins the transaction of             *)
(* explain_query: the runs interrupted_write and explain_rollback show what *)
(* each does without.                                                       *)
OkWritesLast ==
  \A call \in Calls :
    rows[call].write /\ rows[call].status = "ok" => call \in effects \ undone

THEOREM OkIsTrueUninterrupted == ASSUME ~ Interrupts, NothingJoins PROVE Spec => []OkWritesLast
  <1>1. RowsInv /\ TxnInv => OkWritesLast
    BY DEF RowsInv, RowSays, TxnInv, OkWritesLast
  <1> QED BY <1>1, AlwaysRows, TxnAlways, PTL

-----------------------------------------------------------------------------
(* The refinement. A statement lands under the intent of its own call, and  *)
(* the wrapper opens and closes the row of its own call only.               *)

LEMMA SameTrail ==
  ASSUME UNCHANGED <<rows, effects>>
  PROVE  UNCHANGED <<TrailNow, effects>>
  BY DEF TrailNow

(* A row is written: its entry takes the place of the one that stood there. *)
LEMMA RowWritten ==
  ASSUME TypeOK, NEW call \in Calls, NEW status \in Verdicts \cup {"pending"}, NEW write \in BOOLEAN,
         rows' = [rows EXCEPT ![call] = Row(status, write)]
  PROVE  /\ rows[call].status = "none" =>
              TrailNow' = TrailNow \cup {Trail!Entry(call, status)} /\ ~ Trail!HasRow(call)
         /\ rows[call].status = "pending" =>
              /\ Trail!Entry(call, "pending") \in TrailNow
              /\ TrailNow' = (TrailNow \ {Trail!Entry(call, "pending")}) \cup {Trail!Entry(call, status)}
  <1> DEFINE E(c, v) == [call |-> c, status |-> v]
  <1>1. rows'[call].status = status /\ status # "none"
    BY DEF TypeOK, Row, Verdicts
  <1>2. \A c \in Calls \ {call} : rows'[c] = rows[c]
    BY DEF TypeOK
  <1>3. \A e : e \in TrailNow <=> \E c \in Calls : rows[c].status # "none" /\ e = E(c, rows[c].status)
    BY DEF TrailNow
  <1>4. \A e : e \in TrailNow' <=> \E c \in Calls : rows'[c].status # "none" /\ e = E(c, rows'[c].status)
    BY DEF TrailNow
  <1>5. \A c, d, v, w : E(c, v) = E(d, w) <=> c = d /\ v = w
    <2> SUFFICES ASSUME NEW c, NEW d, NEW v, NEW w, E(c, v) = E(d, w) PROVE c = d /\ v = w
      OBVIOUS
    <2>1. E(c, v).call = c /\ E(d, w).call = d /\ E(c, v).status = v /\ E(d, w).status = w
      OBVIOUS
    <2> QED BY <2>1
  <1>6. \A e \in TrailNow : e.call = call => e = E(call, rows[call].status) /\ rows[call].status # "none"
    BY <1>3
  <1>7. \A c, v : Trail!Entry(c, v) = E(c, v)
    BY DEF Trail!Entry
  <1>8. \A e : e \in TrailNow' <=> e = E(call, status) \/ (e \in TrailNow /\ e # E(call, rows[call].status))
    <2> HIDE DEF E
    <2> QED BY <1>1, <1>2, <1>3, <1>4, <1>5
  <1>9. ASSUME rows[call].status = "none"
        PROVE  TrailNow' = TrailNow \cup {Trail!Entry(call, status)} /\ ~ Trail!HasRow(call)
    <2>1. \A e \in TrailNow : e.call # call
      BY <1>6, <1>9
    <2>2. E(call, "none") \notin TrailNow
      BY <2>1
    <2> HIDE DEF E
    <2> QED BY <1>7, <1>8, <1>9, <2>1, <2>2 DEF Trail!HasRow
  <1>10. ASSUME rows[call].status = "pending"
         PROVE  /\ Trail!Entry(call, "pending") \in TrailNow
                /\ TrailNow' = (TrailNow \ {Trail!Entry(call, "pending")}) \cup {Trail!Entry(call, status)}
    <2>1. E(call, "pending") \in TrailNow
      BY <1>3, <1>10
    <2> HIDE DEF E
    <2> QED BY <1>7, <1>8, <1>10, <2>1
  <1> QED BY <1>9, <1>10

LEMMA LandsInTrail ==
  ASSUME TypeOK, IInv, NEW t \in Threads, pc[t] = "send", Lands(t), UNCHANGED rows
  PROVE  Trail!Next \/ UNCHANGED <<TrailNow, effects>>
  <1>1. TrailNow' = TrailNow
    BY DEF TrailNow
  <1>2. CASE ~ state[t].tool.writes
    BY <1>1, <1>2 DEF Lands
  <1>3. CASE state[t].tool.writes
    <2>1. Current(t) \in Calls /\ rows[Current(t)] = Row("pending", TRUE)
      BY <1>3 DEF IInv, Own, NeedsIntent, Begun
    <2>2. Trail!Entry(Current(t), "pending") \in TrailNow
      BY <2>1 DEF TrailNow, Trail!Entry, Row
    <2>3. effects' = effects \cup {Current(t)}
      BY <1>3 DEF Lands
    <2>4. Trail!TakeEffect(Current(t))
      BY <1>1, <2>2, <2>3 DEF Trail!TakeEffect
    <2> QED BY <2>1, <2>4 DEF Trail!Next
  <1> QED BY <1>2, <1>3

LEMMA TrailNext ==
  ASSUME TypeOK, IInv, [Next]_vars
  PROVE  [Trail!Next]_<<TrailNow, effects>>
  <1> SUFFICES Trail!Next \/ UNCHANGED <<TrailNow, effects>>
    OBVIOUS
  <1>1. ASSUME NEW t \in Threads, Succeed(t) \/ LoseResponse(t) \/ Interrupt(t)
        PROVE  Trail!Next \/ UNCHANGED <<TrailNow, effects>>
    <2>1. UNCHANGED rows /\ (UNCHANGED effects \/ (pc[t] = "send" /\ Lands(t)))
      BY <1>1 DEF Succeed, LoseResponse, Interrupt, records
    <2> QED BY <2>1, SameTrail, LandsInTrail
  <1>2. ASSUME NEW t \in Threads, BeginWrite(t) PROVE Trail!Next
    <2>1. /\ Current(t) \in Calls /\ rows[Current(t)] = Row("none", FALSE)
          /\ rows' = [rows EXCEPT ![Current(t)] = Row("pending", TRUE)] /\ UNCHANGED effects
      BY <1>2 DEF BeginWrite, IInv, Own
    <2>2. Row("none", FALSE).status = "none"
      BY DEF Row
    <2>3. /\ TrailNow' = TrailNow \cup {Trail!Entry(Current(t), "pending")}
          /\ ~ Trail!HasRow(Current(t))
      BY <2>1, <2>2, RowWritten
    <2>4. Trail!Open(Current(t), "pending")
      BY <2>1, <2>3 DEF Trail!Open
    <2> QED BY <2>1, <2>4 DEF Trail!Next
  <1>3. ASSUME NEW t \in Threads, Finalize(t) PROVE Trail!Next \/ UNCHANGED <<TrailNow, effects>>
    <2>1. CASE UNCHANGED rows
      BY <1>3, <2>1, SameTrail DEF Finalize
    <2>2. CASE Audit(t)
      <3> DEFINE c == Current(t)
                 status == Verdict(state[t])
      <3>1. c \in Calls /\ rows[c] \in {Row("pending", TRUE), Row("none", FALSE)} /\ UNCHANGED effects
        BY <1>3 DEF Finalize, IInv, Own
      <3>2. status \in Verdicts /\ NeedsIntent(t) \in BOOLEAN
        BY EndTypes DEF TypeOK
      <3>3. rows[c].status \in {"pending", "none"}
        BY <3>1 DEF Row
      <3>4. rows' = [rows EXCEPT ![c] = Row(status, NeedsIntent(t))]
        BY <2>2 DEF Audit
      <3> HIDE DEF c, status
      <3>5. CASE rows[c].status = "none"
        <4>1. Trail!Open(c, status)
          BY <3>1, <3>2, <3>4, <3>5, RowWritten DEF Trail!Open
        <4> QED BY <3>1, <3>2, <4>1 DEF Trail!Next
      <3>6. CASE rows[c].status = "pending"
        <4>1. Trail!Close(c, status)
          BY <3>1, <3>2, <3>4, <3>6, RowWritten DEF Trail!Close
        <4> QED BY <3>1, <3>2, <4>1 DEF Trail!Next
      <3> QED BY <3>3, <3>5, <3>6
    <2> QED BY <1>3, <2>1, <2>2 DEF Finalize
  <1>4. ASSUME NEW t \in Threads,
               Refuse(t) \/ BeginNothing(t) \/ BeginUnavailable(t) \/ Connect(t) \/ Preflight(t)
                 \/ Preview(t) \/ Prepare(t) \/ Reject(t) \/ SendNothing(t) \/ BeginExplain(t)
                 \/ Explain(t) \/ Rollback(t) \/ ExplainLost(t) \/ AnnotateNothing(t)
                 \/ AnnotateConfirmed(t) \/ AnnotateUnknown(t) \/ FinalizeFails(t)
        PROVE  UNCHANGED <<rows, effects>>
    BY <1>4 DEF Refuse, BeginNothing, BeginUnavailable, Connect, Preflight, Preview, Prepare, Reject,
                SendNothing, BeginExplain, Explain, Rollback, ExplainLost, AnnotateNothing,
                AnnotateConfirmed, AnnotateUnknown, FinalizeFails, outside, records
  <1>5. ASSUME NEW t \in Threads, NEW tool \in Tools, NEW dry_run \in BOOLEAN, Call(t, tool, dry_run)
        PROVE  UNCHANGED <<rows, effects>>
    BY <1>5 DEF Call, outside, records
  <1>6. CASE LinkDies
    BY <1>6, SameTrail DEF LinkDies, records
  <1>7. CASE UNCHANGED vars
    BY <1>7, SameTrail DEF vars
  <1> QED BY <1>1, <1>2, <1>3, <1>4, <1>5, <1>6, <1>7, SameTrail DEF Next, ThreadStep

(* The governed calls of a process, taken together, are a behaviour of the  *)
(* abstract audit trail: effects only under an open intent of their own,    *)
(* closed rows final, for any tools, threads, failures and interrupts.      *)
THEOREM CallsImplementTrail == Spec => ImplementsTrail
  <1>1. Init => Trail!Init
    BY DEF Init, Trail!Init, TrailNow, Row
  <1> QED BY <1>1, TrailNext, Always, PTL DEF Spec, ImplementsTrail, Trail!Spec
=============================================================================
