-------------------------- MODULE MCGovernedCall --------------------------
(* The tools of GovernedCall for TLC, by the way their statement is sent.  *)
EXTENDS GovernedCall, TLC

CONSTANTS t1, t2

(* mcp_server/tools/remediation.py: update_setting, create_index; a write  *)
(* that uses capture_prior_state; a read; terminate_backend; explain_query. *)
UpdateSetting == [writes |-> TRUE, executes |-> TRUE, reads |-> TRUE, captures |-> FALSE,
                  undo |-> TRUE, explains |-> FALSE, inside |-> "refused"]
CreateIndex == [UpdateSetting EXCEPT !.reads = FALSE, !.inside = "undone"]
Capturing == [UpdateSetting EXCEPT !.captures = TRUE]
ReadTool == [UpdateSetting EXCEPT !.writes = FALSE, !.executes = FALSE, !.reads = FALSE,
                                  !.undo = FALSE, !.inside = "stays"]
Terminate == [ReadTool EXCEPT !.writes = TRUE, !.reads = TRUE]
ExplainQuery == [ReadTool EXCEPT !.explains = TRUE]

ExecutedTools == {CreateIndex, Capturing, ReadTool, ExplainQuery}
ScalarTools == {Terminate}
IndexAndExplain == {CreateIndex, ExplainQuery}

TwoAndOne == t1 :> 2 @@ t2 :> 1
OneCall == [t \in Threads |-> 1]
===========================================================================
