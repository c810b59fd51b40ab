----------------------------- MODULE MCAnalyses -----------------------------
(* The three analyses for TLC: wait-for graphs of four sessions and a       *)
(* prepared transaction, and servers of three tables, statements, indexes.  *)
(* The reads share nothing with the chains: they are asked once a chain     *)
(* analysis of a server where nobody waited has returned.                   *)
EXTENDS LockChains, TopReads

MCInit == Init /\ Idle

MCNext ==
  \/ Next /\ UNCHANGED reads
  \/ pc = "done" /\ waits = {} /\ changes = 0 /\ Ask /\ UNCHANGED vars

MCSpec == MCInit /\ [][MCNext]_<<vars, reads>> /\ WF_vars(QueryStep \/ RcaStep)
=============================================================================
