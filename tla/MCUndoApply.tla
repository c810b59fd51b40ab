---------------------------- MODULE MCUndoApply ----------------------------
(* Two appliers over two targets: an MCP server and a CLI whose            *)
(* configuration has another first target.                                 *)
EXTENDS UndoApply, TLC

CONSTANTS server, cli, primary, standby

Firsts == server :> primary @@ cli :> standby

Named == [status |-> "recorded", named |-> primary, where |-> primary]
Unnamed == [status |-> "recorded", named |-> None, where |-> primary]
TwoTokens == <<Named, Unnamed>>
OneToken == <<Named>>

TwoAndOne == server :> 2 @@ cli :> 1
OneEach == [a \in Appliers |-> 1]
============================================================================
