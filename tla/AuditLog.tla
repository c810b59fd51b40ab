------------------------------ MODULE AuditLog ------------------------------
(***************************************************************************)
(* The audit engine of postgres_aiops/governance/audit.py as several       *)
(* processes (an MCP server, CLI invocations) and several threads of each  *)
(* use it: one SQLite file, the rotation guard (a thread lock plus flock), *)
(* durable write intents, rotation into archives, storage failures, and    *)
(* processes that die between any two steps.                               *)
(*                                                                         *)
(* The id of a row is its place in the live file: AUTOINCREMENT starts     *)
(* again at 1 in the file that a rotation creates.                         *)
(***************************************************************************)
EXTENDS Naturals, Sequences

CONSTANTS
  Callers,      \* the threads that make governed calls
  Procs,        \* the processes they run in
  ProcOf,       \* the process of each caller
  None,         \* no holder
  Statuses,     \* the outcomes finish_write may record, opaque to the engine
  HasFcntl,     \* POSIX: the guard spans processes (FALSE: Windows)
  MaxRows,      \* _MAX_DB_SIZE_BYTES, counted in rows
  MaxArchives,  \* _MAX_ARCHIVES
  MaxCalls      \* bound: audited calls of each caller

ASSUME ProcAssumption == ProcOf \in [Callers -> Procs]
ASSUME NoneAssumption == None \notin Callers
ASSUME StatusAssumption == "unknown" \in Statuses /\ "pending" \notin Statuses
ASSUME LimitAssumption == /\ MaxRows \in Nat \ {0}
                          /\ MaxArchives \in Nat \ {0}
                          /\ MaxCalls \in [Callers -> Nat]
                          /\ HasFcntl \in BOOLEAN

VARIABLES
  pc,        \* where each caller is in begin_write, log or finish_write
  calls,     \* how many audited calls each caller has started
  strict,    \* is the current call a write (begin_write) or a read (log)
  intent,    \* the row id begin_write returned
  up,        \* is the process running
  ok,        \* AuditEngine._ok of each process
  blocked,   \* AuditEngine._write_blocked of each process
  holder,    \* who holds the rotation guard of each process
  table,     \* the live file exists and has its audit_log table
  db,        \* the rows of the live file
  archives,  \* the rotated files, oldest first
  effects,   \* history: calls whose write took effect upstream
  orphans    \* history: calls left pending by an earlier life of their process

vars == <<pc, calls, strict, intent, up, ok, blocked, holder,
          table, db, archives, effects, orphans>>

engine == <<ok, blocked>>
files == <<table, db, archives>>
history == <<effects, orphans>>

Calls == UNION {{c} \X (1 .. MaxCalls[c]) : c \in Callers}

(* Faulty: the INSERT leaves the status out. *)
RowWithoutStatus(call, status) == [call |-> call, status |-> "", by |-> call]

(* A row: the call it is about, its status, and (history) who wrote that. *)
Row(call, status) == [call |-> call, status |-> status, by |-> call]
Rows == [call : Calls, status : Statuses \cup {"pending", "read"},
         by : Calls \cup {None}]

Places == {"idle", "want", "locked", "checked", "renamed", "insert",
           "upstream", "finish"}
Guarded == {"locked", "checked", "renamed", "insert"}

Proc(c) == ProcOf[c]
Current(c) == <<c, calls[c]>>
InProgress(call) == pc[call[1]] # "idle" /\ calls[call[1]] = call[2]
Go(c, place) == pc' = [pc EXCEPT ![c] = place]
Block(p) == blocked' = [blocked EXCEPT ![p] = TRUE]
Release(c) == holder' = [holder EXCEPT ![Proc(c)] = None]

(* A caller that returns or dies keeps none of its locals. *)
Leave(S) ==
  /\ pc' = [c \in Callers |-> IF c \in S THEN "idle" ELSE pc[c]]
  /\ strict' = [c \in Callers |-> IF c \in S THEN FALSE ELSE strict[c]]
  /\ intent' = [c \in Callers |-> IF c \in S THEN 0 ELSE intent[c]]

Init ==
  /\ pc = [c \in Callers |-> "idle"]
  /\ calls = [c \in Callers |-> 0]
  /\ strict = [c \in Callers |-> FALSE]
  /\ intent = [c \in Callers |-> 0]
  /\ up = [p \in Procs |-> FALSE]
  /\ ok = [p \in Procs |-> FALSE]
  /\ blocked = [p \in Procs |-> FALSE]
  /\ holder = [p \in Procs |-> None]
  /\ table = FALSE
  /\ db = <<>>
  /\ archives = <<>>
  /\ effects = {}
  /\ orphans = {}

-----------------------------------------------------------------------------
PendingCalls == {db[i].call : i \in {j \in DOMAIN db : db[j].status = "pending"}}

HasPending == PendingCalls # {}

(* Process life: AuditEngine.__init__ runs _init_db without the guard.     *)

Start(p) ==
  /\ ~ up[p]
  /\ up' = [up EXCEPT ![p] = TRUE]
  /\ orphans' = {call \in PendingCalls : Proc(call[1]) = p \/ call \in orphans}
  /\ \/ ok' = [ok EXCEPT ![p] = TRUE] /\ table' = TRUE
     \/ UNCHANGED <<ok, table>>
  /\ UNCHANGED <<pc, calls, strict, intent, blocked, holder, db, archives, effects>>

(* The kernel drops the flock of a process that dies. *)
Crash(p) ==
  /\ up[p]
  /\ up' = [up EXCEPT ![p] = FALSE]
  /\ ok' = [ok EXCEPT ![p] = FALSE]
  /\ blocked' = [blocked EXCEPT ![p] = FALSE]
  /\ holder' = [holder EXCEPT ![p] = None]
  /\ Leave({c \in Callers : Proc(c) = p})
  /\ UNCHANGED <<calls, files, history>>

-----------------------------------------------------------------------------
(* Entry: begin_write checks _write_blocked outside the guard, then both   *)
(* it and log look at _ok.                                                 *)

Enter(c, write) ==
  /\ pc[c] = "idle" /\ up[Proc(c)] /\ ok[Proc(c)] /\ calls[c] < MaxCalls[c]
  /\ Go(c, "want")
  /\ calls' = [calls EXCEPT ![c] = @ + 1]
  /\ strict' = [strict EXCEPT ![c] = write]
  /\ UNCHANGED <<intent, up, engine, holder, files, history>>

BeginWrite(c) == ~ blocked[Proc(c)] /\ Enter(c, TRUE)

LogRead(c) == Enter(c, FALSE)

(* A write with no storage at all is refused and shuts the process's gate. *)
BeginUnavailable(c) ==
  /\ pc[c] = "idle" /\ up[Proc(c)] /\ ~ ok[Proc(c)]
  /\ Block(Proc(c))
  /\ UNCHANGED <<pc, calls, strict, intent, up, ok, holder, files, history>>

-----------------------------------------------------------------------------
(* The guarded section of log: _maybe_rotate, then the INSERT.             *)

(* Faulty: no lock. *)
EnterGuardUnlocked(c) ==
  /\ pc[c] = "want"
  /\ holder' = [holder EXCEPT ![Proc(c)] = c]
  /\ Go(c, "locked")
  /\ UNCHANGED <<calls, strict, intent, up, engine, files, history>>

EnterGuard(c) ==
  /\ pc[c] = "want"
  /\ holder[Proc(c)] = None
  /\ HasFcntl => \A p \in Procs : holder[p] = None
  /\ holder' = [holder EXCEPT ![Proc(c)] = c]
  /\ Go(c, "locked")
  /\ UNCHANGED <<calls, strict, intent, up, engine, files, history>>

(* Faulty: rotate without looking for pending rows. *)
MustRotateAnyPending == table /\ Len(db) >= MaxRows

MustRotate == table /\ Len(db) >= MaxRows /\ ~ HasPending

SkipRotation(c) ==
  /\ pc[c] = "locked" /\ ~ MustRotate
  /\ Go(c, "insert")
  /\ UNCHANGED <<calls, strict, intent, up, engine, holder, files, history>>

CheckRotation(c) ==
  /\ pc[c] = "locked" /\ MustRotate
  /\ Go(c, "checked")
  /\ UNCHANGED <<calls, strict, intent, up, engine, holder, files, history>>

(* Every exception of _maybe_rotate is swallowed, at whatever step it is. *)
RotationFails(c) ==
  /\ pc[c] \in {"checked", "renamed"}
  /\ Go(c, "insert")
  /\ UNCHANGED <<calls, strict, intent, up, engine, holder, files, history>>

Rename(c) ==
  /\ pc[c] = "checked" /\ table
  /\ archives' = Append(archives, db)
  /\ db' = <<>>
  /\ table' = FALSE
  /\ Go(c, "renamed")
  /\ UNCHANGED <<calls, strict, intent, up, engine, holder, history>>

(* _cleanup_archives *)
Newest(fs) == IF Len(fs) <= MaxArchives THEN fs
              ELSE SubSeq(fs, (Len(fs) - MaxArchives) + 1, Len(fs))

(* _init_db of the fresh file, then _cleanup_archives. *)
Reinit(c) ==
  /\ pc[c] = "renamed"
  /\ table' = TRUE
  /\ archives' = Newest(archives)
  /\ Go(c, "insert")
  /\ UNCHANGED <<calls, strict, intent, up, engine, holder, db, history>>

Insert(c) ==
  /\ pc[c] = "insert" /\ table
  /\ db' = Append(db, Row(Current(c), IF strict[c] THEN "pending" ELSE "read"))
  /\ IF strict[c]
     THEN /\ intent' = [intent EXCEPT ![c] = Len(db) + 1]
          /\ Go(c, "upstream")
          /\ UNCHANGED strict
     ELSE Leave({c})
  /\ Release(c)
  /\ UNCHANGED <<calls, up, engine, table, archives, history>>

(* The guard raised (its file cannot be opened or locked: the thread lock   *)
(* is this caller's by then), or the INSERT did: no row; a refused write    *)
(* blocks writes.                                                           *)
CanFail(c) == \/ pc[c] = "want" /\ holder[Proc(c)] = None
              \/ pc[c] = "insert"

(* Faulty: the guard is not released on an exception. *)
LogFailsHoldingGuard(c) ==
  /\ CanFail(c)
  /\ Leave({c})
  /\ blocked' = [blocked EXCEPT ![Proc(c)] = @ \/ strict[c]]
  /\ UNCHANGED <<calls, up, ok, holder, files, history>>

LogFails(c) ==
  /\ CanFail(c)
  /\ Leave({c})
  /\ blocked' = [blocked EXCEPT ![Proc(c)] = @ \/ strict[c]]
  /\ IF pc[c] = "insert" THEN Release(c) ELSE UNCHANGED holder
  /\ UNCHANGED <<calls, up, ok, files, history>>

-----------------------------------------------------------------------------
(* The governed call between begin_write and finish_write.                 *)

(* The write runs; whether it took effect is free. *)
Execute(c) ==
  /\ pc[c] = "upstream"
  /\ effects' \in {effects, effects \cup {Current(c)}}
  /\ Go(c, "finish")
  /\ UNCHANGED <<calls, strict, intent, up, engine, holder, files, orphans>>

Resolve(i, status, who) ==
  /\ i \in DOMAIN db /\ db[i].status = "pending"
  /\ db' = [db EXCEPT ![i].status = status, ![i].by = who]

FinishWrite(c) ==
  /\ pc[c] = "finish" /\ table
  /\ \E s \in Statuses : Resolve(intent[c], s, Current(c))
  /\ Leave({c})
  /\ UNCHANGED <<calls, up, engine, holder, table, archives, history>>

(* Faulty: go on writing. *)
FinishFailsOpen(c) ==
  /\ pc[c] = "finish"
  /\ Leave({c})
  /\ UNCHANGED <<calls, up, engine, holder, files, history>>

(* The UPDATE raised, or found no pending row of that id. *)
FinishFails(c) ==
  /\ pc[c] = "finish"
  /\ Block(Proc(c))
  /\ Leave({c})
  /\ UNCHANGED <<calls, up, ok, holder, files, history>>

(* Faulty: resolve an intent whose call is still running. *)
ReconcileUnchecked(i) ==
  /\ table
  /\ Resolve(i, "unknown", None)
  /\ UNCHANGED <<pc, calls, strict, intent, up, engine, holder, table, archives, history>>

(* reconcile_pending, by an operator who did check that the call is over. *)
Reconcile(i) ==
  /\ table
  /\ Resolve(i, "unknown", None)
  /\ ~ InProgress(db[i].call)
  /\ UNCHANGED <<pc, calls, strict, intent, up, engine, holder, table, archives, history>>

-----------------------------------------------------------------------------
CallerStep(c) ==
  \/ EnterGuard(c) \/ SkipRotation(c) \/ CheckRotation(c) \/ RotationFails(c)
  \/ Rename(c) \/ Reinit(c) \/ Insert(c) \/ LogFails(c)
  \/ Execute(c) \/ FinishWrite(c) \/ FinishFails(c)

Next ==
  \/ \E p \in Procs : Start(p) \/ Crash(p)
  \/ \E c \in Callers : BeginWrite(c) \/ LogRead(c) \/ BeginUnavailable(c)
  \/ \E c \in Callers : CallerStep(c)
  \/ \E i \in DOMAIN db : Reconcile(i)

Spec == Init /\ [][Next]_vars

(* A caller inside the engine is scheduled again and its I/O returns, with  *)
(* success or with an error; no process need start, and no call be made.    *)
Fairness == \A c \in Callers : WF_vars(CallerStep(c))

FairSpec == Spec /\ Fairness
-----------------------------------------------------------------------------
TypeOK ==
  /\ pc \in [Callers -> Places]
  /\ calls \in [Callers -> Nat]
  /\ \A c \in Callers : calls[c] <= MaxCalls[c] /\ (pc[c] # "idle" => calls[c] > 0)
  /\ strict \in [Callers -> BOOLEAN]
  /\ intent \in [Callers -> Nat]
  /\ up \in [Procs -> BOOLEAN]
  /\ ok \in [Procs -> BOOLEAN]
  /\ blocked \in [Procs -> BOOLEAN]
  /\ holder \in [Procs -> Callers \cup {None}]
  /\ table \in BOOLEAN
  /\ db \in Seq(Rows)
  /\ archives \in Seq(Seq(Rows))
  /\ effects \in SUBSET Calls
  /\ orphans \in SUBSET Calls

(* Between begin_write and finish_write the row that the caller's intent id *)
(* names is in the live file, is its own and is pending: no other process   *)
(* rotated it away, resolved it, or had its id reused for another call.     *)
IntentHeld ==
  \A c \in Callers :
    pc[c] \in {"upstream", "finish"} =>
      /\ intent[c] \in DOMAIN db
      /\ db[intent[c]] = Row(Current(c), "pending")

(* What a row says of a call was written by that call, or by the operator   *)
(* as "unknown": no finish_write ever resolves the row of another call.     *)
OwnWord(row) == row.by = row.call \/ (row.by = None /\ row.status = "unknown")

StatusIsOwners ==
  /\ \A i \in DOMAIN db : OwnWord(db[i])
  /\ \A k \in DOMAIN archives : \A i \in DOMAIN archives[k] : OwnWord(archives[k][i])

(* While the log has a pending intent that a call of a live process left    *)
(* behind, no write of that process gets past its gate: whatever is still   *)
(* sent is of a call that was past it when the intent leaked, for the check *)
(* of _write_blocked is far ahead of the statement (audit.py:232).          *)
Leaked(p) == {call \in PendingCalls :
                Proc(call[1]) = p /\ call \notin orphans /\ ~ InProgress(call)}

Admitted(p) == {Current(c) : c \in {d \in Callers : Proc(d) = p /\ pc[d] # "idle" /\ strict[d]}}

LeakShutsGate ==
  [][\A p \in Procs : up[p] /\ Leaked(p) # {} =>
       /\ Admitted(p)' \subseteq Admitted(p)
       /\ \A call \in effects' \ effects : Proc(call[1]) = p => call \in Admitted(p)]_vars

(* Every step of the engine is one the abstract trail allows: effects only  *)
(* under an open intent of their own, closed rows final, nothing forgotten  *)
(* but closed rows.                                                         *)
RowsOf(file) ==
  {[call |-> file[i].call, status |-> file[i].status] : i \in DOMAIN file}
TrailNow == RowsOf(db) \cup UNION {RowsOf(archives[k]) : k \in DOMAIN archives}

Trail == INSTANCE AuditTrail WITH
           Calls <- Calls, Closed <- Statuses \cup {"read"},
           trail <- TrailNow, effects <- effects

ImplementsTrail == Trail!Spec

(* Whoever enters the engine leaves it: a failure, a crash or a rotation    *)
(* never leaves the guard taken with the others waiting for it.             *)
CallReturns == \A c \in Callers : pc[c] # "idle" ~> pc[c] = "idle"
=============================================================================
