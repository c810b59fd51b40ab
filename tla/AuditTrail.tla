----------------------------- MODULE AuditTrail -----------------------------
(***************************************************************************)
(* What the audit log promises to a reader of the trail, whatever files,   *)
(* locks and processes implement it:                                       *)
(*   - a write takes effect upstream only while a durable intent row of    *)
(*     that very call is open;                                             *)
(*   - a row, once closed, keeps its status for as long as it is kept;     *)
(*   - only closed rows ever leave the trail (archive retention).          *)
(* AuditLog implements this specification.                                 *)
(***************************************************************************)
CONSTANTS
  Calls,      \* the identities of governed calls
  Closed      \* the statuses of a row that is not a pending intent

VARIABLES
  trail,      \* the rows that exist, in the live file or in an archive
  effects     \* the calls whose write has taken effect upstream

Entry(call, status) == [call |-> call, status |-> status]

TrailRows == [call : Calls, status : Closed \cup {"pending"}]

HasRow(call) == \E row \in trail : row.call = call

Init == trail = {} /\ effects = {}

(* A durable intent, or the single row of a call that needs none. *)
Open(call, status) ==
  /\ ~ HasRow(call)
  /\ trail' = trail \cup {Entry(call, status)}
  /\ UNCHANGED effects

(* The write of a call reaches the database. *)
TakeEffect(call) ==
  /\ Entry(call, "pending") \in trail
  /\ effects' = effects \cup {call}
  /\ UNCHANGED trail

(* The intent is resolved, by its owner or by the operator. *)
Close(call, status) ==
  /\ Entry(call, "pending") \in trail
  /\ trail' = (trail \ {Entry(call, "pending")}) \cup {Entry(call, status)}
  /\ UNCHANGED effects

(* Retention drops rows, never an open intent. *)
Forget ==
  /\ trail' \subseteq trail
  /\ \A row \in trail \ trail' : row.status # "pending"
  /\ UNCHANGED effects

Next ==
  \/ \E call \in Calls, status \in Closed \cup {"pending"} : Open(call, status)
  \/ \E call \in Calls : TakeEffect(call)
  \/ \E call \in Calls, status \in Closed : Close(call, status)
  \/ Forget

Spec == Init /\ [][Next]_<<trail, effects>>
=============================================================================
