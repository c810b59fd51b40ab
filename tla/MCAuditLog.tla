---------------------------- MODULE MCAuditLog ----------------------------
(* AuditLog for TLC: one process with two threads (an MCP server) beside   *)
(* another process (a CLI invocation), one audited call each.              *)
EXTENDS AuditLog, TLC

CONSTANTS c1, c2, c3, p1, p2

TwoThreads == c1 :> p1 @@ c2 :> p1 @@ c3 :> p2
OneEach == [c \in Callers |-> 1]
===========================================================================
