--------------------------- MODULE AuditLogProofs ---------------------------
(***************************************************************************)
(* Proofs about AuditLog for any number of processes and callers and any   *)
(* limits: its typing, that an intent is held until its own call resolves  *)
(* it, and that the engine implements AuditTrail. The last two need a      *)
(* guard that spans the processes there are: with fcntl it spans any, and  *)
(* without it the thread lock spans the one of a lone MCP server.          *)
(***************************************************************************)
EXTENDS AuditLog, TLAPS

GuardSpans == HasFcntl \/ \A p, q \in Procs : p = q

(* Retention only drops files from the front.                              *)
LEMMA NewestIsSuffix ==
  ASSUME NEW S, NEW fs \in Seq(S)
  PROVE  /\ Newest(fs) \in Seq(S)
         /\ \A k \in DOMAIN Newest(fs) : \E j \in DOMAIN fs : Newest(fs)[k] = fs[j]
<1> DEFINE cut == Len(fs) - MaxArchives
<1>1. CASE Len(fs) <= MaxArchives
  BY <1>1 DEF Newest
<1>2. CASE ~ (Len(fs) <= MaxArchives)
  <2>1. cut \in Nat /\ cut + 1 \in 1 .. Len(fs) + 1 /\ cut >= 1
    BY <1>2, LimitAssumption
  <2>2. Newest(fs) = SubSeq(fs, cut + 1, Len(fs))
    BY <1>2 DEF Newest
  <2>3. Newest(fs) \in Seq(S)
    BY <2>1, <2>2
  <2>4. Len(Newest(fs)) = MaxArchives
    BY <2>1, <2>2, LimitAssumption
  <2>5. ASSUME NEW k \in DOMAIN Newest(fs)
        PROVE  \E j \in DOMAIN fs : Newest(fs)[k] = fs[j]
    <3>1. k \in 1 .. MaxArchives
      BY <2>3, <2>4
    <3>2. Newest(fs)[k] = fs[cut + k]
      BY <3>1, <2>1, <2>2, LimitAssumption
    <3>3. cut + k \in DOMAIN fs
      BY <3>1, <2>1, LimitAssumption
    <3> QED BY <3>2, <3>3
  <2> QED BY <2>3, <2>5
<1> QED BY <1>1, <1>2

-----------------------------------------------------------------------------
LEMMA TypeInit == Init => TypeOK
<1> SUFFICES ASSUME Init PROVE TypeOK
  OBVIOUS
<1>1. /\ pc \in [Callers -> Places]
      /\ calls \in [Callers -> Nat]
      /\ \A c \in Callers : calls[c] <= MaxCalls[c] /\ (pc[c] # "idle" => calls[c] > 0)
      /\ intent \in [Callers -> Nat]
  BY LimitAssumption DEF Init, Places
<1>2. db \in Seq(Rows) /\ archives \in Seq(Seq(Rows))
  BY DEF Init
<1>3. /\ strict \in [Callers -> BOOLEAN]
      /\ up \in [Procs -> BOOLEAN] /\ ok \in [Procs -> BOOLEAN]
      /\ blocked \in [Procs -> BOOLEAN]
      /\ table \in BOOLEAN
  BY DEF Init
<1>4. /\ holder \in [Procs -> Callers \cup {None}]
      /\ effects \in SUBSET Calls /\ orphans \in SUBSET Calls
  BY DEF Init
<1> QED BY <1>1, <1>2, <1>3, <1>4 DEF TypeOK

LEMMA CurrentIsCall ==
  ASSUME TypeOK, NEW c \in Callers, pc[c] # "idle"
  PROVE  Current(c) \in Calls
BY LimitAssumption DEF TypeOK, Current, Calls

LEMMA RowIsRow ==
  ASSUME NEW call \in Calls, NEW status \in Statuses \cup {"pending", "read"}
  PROVE  Row(call, status) \in Rows
BY DEF Row, Rows

LEMMA ProcIsProc == \A c \in Callers : Proc(c) \in Procs
BY ProcAssumption DEF Proc

(* The part of TypeOK about where the callers are. *)
PlacesOK ==
  /\ pc \in [Callers -> Places]
  /\ calls \in [Callers -> Nat]
  /\ \A c \in Callers : calls[c] <= MaxCalls[c] /\ (pc[c] # "idle" => calls[c] > 0)

LEMMA TypePlaces == TypeOK => PlacesOK
BY DEF TypeOK, PlacesOK

LEMMA GoType ==
  ASSUME PlacesOK, NEW c \in Callers, NEW place \in Places, Go(c, place),
         pc[c] # "idle", UNCHANGED calls
  PROVE  PlacesOK'
BY DEF PlacesOK, Go

LEMMA RowTypes ==
  ASSUME TypeOK
  PROVE  /\ db \in Seq(Rows)
         /\ \A i \in DOMAIN db : db[i] \in Rows /\ db[i].call \in Calls
<1>1. db \in Seq(Rows)
  BY DEF TypeOK
<1>2. \A i \in DOMAIN db : db[i] \in Rows
  BY <1>1
<1> QED BY <1>1, <1>2 DEF Rows

LEMMA LeaveType ==
  ASSUME TypeOK, NEW S, Leave(S), UNCHANGED calls
  PROVE  /\ PlacesOK'
         /\ strict' \in [Callers -> BOOLEAN]
         /\ intent' \in [Callers -> Nat]
<1>1. PlacesOK'
  BY TypePlaces DEF PlacesOK, Leave, Places
<1>2. strict' \in [Callers -> BOOLEAN]
  BY Zenon DEF TypeOK, Leave
<1>3. intent' \in [Callers -> Nat]
  BY DEF TypeOK, Leave
<1> QED BY <1>1, <1>2, <1>3

LEMMA ResolveType ==
  ASSUME TypeOK, NEW i, NEW status \in Statuses, NEW who \in Calls \cup {None},
         Resolve(i, status, who)
  PROVE  db' \in Seq(Rows)
<1>1. i \in 1 .. Len(db) /\ db \in Seq(Rows) /\ db[i] \in Rows
  BY DEF Resolve, TypeOK
<1>2. [db[i] EXCEPT !.status = status, !.by = who] \in Rows
  BY <1>1 DEF Rows
<1>3. db' = [db EXCEPT ![i] = [db[i] EXCEPT !.status = status, !.by = who]]
  BY DEF Resolve
<1> QED BY <1>1, <1>2, <1>3

LEMMA TypeNext == TypeOK /\ [Next]_vars => TypeOK'
<1> SUFFICES ASSUME TypeOK, [Next]_vars PROVE TypeOK'
  OBVIOUS
<1> USE ProcIsProc
<1>1. ASSUME NEW p \in Procs, Start(p) PROVE TypeOK'
  <2>1. orphans' \in SUBSET Calls
    <3>1. orphans' \subseteq PendingCalls
      BY <1>1, Zenon DEF Start
    <3> QED BY <3>1, RowTypes DEF PendingCalls
  <2>2. up' \in [Procs -> BOOLEAN] /\ ok' \in [Procs -> BOOLEAN] /\ table' \in BOOLEAN
    BY <1>1, Zenon DEF Start, TypeOK
  <2> QED BY <1>1, <2>1, <2>2 DEF Start, TypeOK
<1>2. ASSUME NEW p \in Procs, Crash(p) PROVE TypeOK'
  <2>1. /\ up' \in [Procs -> BOOLEAN] /\ ok' \in [Procs -> BOOLEAN]
        /\ blocked' \in [Procs -> BOOLEAN]
    BY <1>2, Zenon DEF Crash, TypeOK
  <2>2. holder' \in [Procs -> Callers \cup {None}]
    BY <1>2 DEF Crash, TypeOK
  <2>3. Leave({c \in Callers : Proc(c) = p}) /\ UNCHANGED calls
    BY <1>2 DEF Crash
  <2>4. /\ PlacesOK' /\ strict' \in [Callers -> BOOLEAN] /\ intent' \in [Callers -> Nat]
    BY <2>3, LeaveType
  <2> QED BY <1>2, <2>1, <2>2, <2>4 DEF Crash, PlacesOK, TypeOK, files, history
<1>3. ASSUME NEW c \in Callers, NEW write \in BOOLEAN, Enter(c, write) PROVE TypeOK'
  <2>1. strict' \in [Callers -> BOOLEAN]
    BY <1>3, Zenon DEF Enter, TypeOK
  <2>2. PlacesOK'
    <3>1. /\ calls[c] < MaxCalls[c]
          /\ calls' = [calls EXCEPT ![c] = @ + 1]
          /\ pc' = [pc EXCEPT ![c] = "want"]
      BY <1>3, Zenon DEF Enter, Go
    <3> QED BY <3>1, TypePlaces, LimitAssumption DEF PlacesOK, Places
  <2> QED BY <1>3, <2>1, <2>2 DEF Enter, PlacesOK, TypeOK, engine, files, history
<1>4. ASSUME NEW c \in Callers, BeginUnavailable(c) PROVE TypeOK'
  <2>1. blocked' \in [Procs -> BOOLEAN]
    BY <1>4, Zenon DEF BeginUnavailable, Block, TypeOK
  <2> QED BY <1>4, <2>1 DEF BeginUnavailable, TypeOK, files, history
<1>5. ASSUME NEW c \in Callers, EnterGuard(c) PROVE TypeOK'
  <2>1. PlacesOK'
    BY <1>5, TypePlaces, GoType DEF EnterGuard, Places
  <2>2. holder' \in [Procs -> Callers \cup {None}]
    BY <1>5 DEF EnterGuard, TypeOK
  <2> QED BY <1>5, <2>1, <2>2
          DEF EnterGuard, PlacesOK, TypeOK, engine, files, history
<1>6. ASSUME NEW c \in Callers, SkipRotation(c) \/ CheckRotation(c) \/ RotationFails(c)
      PROVE TypeOK'
  <2>1. /\ Go(c, "insert") \/ Go(c, "checked")
        /\ pc[c] # "idle"
        /\ UNCHANGED <<calls, strict, intent, up, ok, blocked, holder, table, db,
                       archives, effects, orphans>>
    BY <1>6 DEF SkipRotation, CheckRotation, RotationFails, engine, files, history
  <2>2. PlacesOK'
    BY <2>1, TypePlaces, GoType DEF Places
  <2> QED BY <2>1, <2>2 DEF PlacesOK, TypeOK
<1>7. ASSUME NEW c \in Callers, Rename(c) PROVE TypeOK'
  <2>1. PlacesOK'
    BY <1>7, TypePlaces, GoType DEF Rename, Places
  <2>2. db' \in Seq(Rows) /\ archives' \in Seq(Seq(Rows)) /\ table' \in BOOLEAN
    <3> DEFINE Files == Seq(Rows)
    <3>1. archives \in Seq(Files) /\ db \in Files
      BY DEF TypeOK
    <3>2. <<>> \in Files
      OBVIOUS
    <3> HIDE DEF Files
    <3>3. Append(archives, db) \in Seq(Files)
      BY <3>1
    <3>4. archives' = Append(archives, db) /\ db' = <<>> /\ table' = FALSE
      BY <1>7, Zenon DEF Rename
    <3>5. db' \in Files /\ archives' \in Seq(Files) /\ table' \in BOOLEAN
      BY <3>2, <3>3, <3>4
    <3> QED BY <3>5 DEF Files
  <2> QED BY <1>7, <2>1, <2>2 DEF Rename, PlacesOK, TypeOK, engine, history
<1>8. ASSUME NEW c \in Callers, Reinit(c) PROVE TypeOK'
  <2>1. PlacesOK'
    BY <1>8, TypePlaces, GoType DEF Reinit, Places
  <2>2. archives' \in Seq(Seq(Rows)) /\ table' \in BOOLEAN
    BY <1>8, NewestIsSuffix DEF Reinit, TypeOK
  <2> QED BY <1>8, <2>1, <2>2 DEF Reinit, PlacesOK, TypeOK, engine, history
<1>9. ASSUME NEW c \in Callers, Insert(c) PROVE TypeOK'
  <2>1. db' \in Seq(Rows)
    <3>1. Current(c) \in Calls
      BY <1>9, CurrentIsCall DEF Insert
    <3>2. PICK status \in {"pending", "read"} : db' = Append(db, Row(Current(c), status))
      BY <1>9 DEF Insert
    <3> QED BY <3>1, <3>2, RowIsRow, RowTypes
  <2>2. PlacesOK' /\ strict' \in [Callers -> BOOLEAN] /\ intent' \in [Callers -> Nat]
    <3>1. CASE strict[c]
      <4>1. /\ Go(c, "upstream") /\ pc[c] # "idle"
            /\ intent' = [intent EXCEPT ![c] = Len(db) + 1]
            /\ strict' = strict /\ calls' = calls
        BY <1>9, <3>1 DEF Insert
      <4> QED BY <4>1, TypePlaces, GoType, RowTypes DEF TypeOK, Places
    <3>2. CASE ~ strict[c]
      BY <1>9, <3>2, LeaveType DEF Insert
    <3> QED BY <3>1, <3>2
  <2>3. holder' \in [Procs -> Callers \cup {None}]
    BY <1>9 DEF Insert, Release, TypeOK
  <2> QED BY <1>9, <2>1, <2>2, <2>3 DEF Insert, PlacesOK, TypeOK, engine, history
<1>10. ASSUME NEW c \in Callers, LogFails(c) PROVE TypeOK'
  <2>1. PlacesOK' /\ strict' \in [Callers -> BOOLEAN] /\ intent' \in [Callers -> Nat]
    BY <1>10, LeaveType DEF LogFails
  <2>2. blocked' \in [Procs -> BOOLEAN]
    BY <1>10, Zenon DEF LogFails, TypeOK
  <2>3. holder' \in [Procs -> Callers \cup {None}]
    BY <1>10 DEF LogFails, Release, TypeOK
  <2> QED BY <1>10, <2>1, <2>2, <2>3 DEF LogFails, PlacesOK, TypeOK, files, history
<1>11. ASSUME NEW c \in Callers, Execute(c) PROVE TypeOK'
  <2>1. PlacesOK' /\ effects' \in SUBSET Calls
    <3>1. Current(c) \in Calls /\ effects \in SUBSET Calls
      BY <1>11, CurrentIsCall DEF Execute, TypeOK
    <3>2. effects' \in {effects, effects \cup {Current(c)}}
      BY <1>11 DEF Execute
    <3>3. PlacesOK'
      BY <1>11, TypePlaces, GoType DEF Execute, Places
    <3> QED BY <3>1, <3>2, <3>3
  <2> QED BY <1>11, <2>1 DEF Execute, PlacesOK, TypeOK, engine, files
<1>12. ASSUME NEW c \in Callers, FinishWrite(c) PROVE TypeOK'
  <2>1. db' \in Seq(Rows)
    BY <1>12, CurrentIsCall, ResolveType DEF FinishWrite
  <2>2. PlacesOK' /\ strict' \in [Callers -> BOOLEAN] /\ intent' \in [Callers -> Nat]
    BY <1>12, LeaveType DEF FinishWrite
  <2> QED BY <1>12, <2>1, <2>2 DEF FinishWrite, PlacesOK, TypeOK, engine, history
<1>13. ASSUME NEW c \in Callers, FinishFails(c) PROVE TypeOK'
  <2>1. PlacesOK' /\ strict' \in [Callers -> BOOLEAN] /\ intent' \in [Callers -> Nat]
    BY <1>13, LeaveType DEF FinishFails
  <2>2. blocked' \in [Procs -> BOOLEAN]
    BY <1>13, Zenon DEF FinishFails, Block, TypeOK
  <2> QED BY <1>13, <2>1, <2>2 DEF FinishFails, PlacesOK, TypeOK, files, history
<1>14. ASSUME NEW i \in DOMAIN db, Reconcile(i) PROVE TypeOK'
  <2>1. db' \in Seq(Rows)
    BY <1>14, ResolveType, StatusAssumption DEF Reconcile
  <2> QED BY <1>14, <2>1 DEF Reconcile, TypeOK, engine, history
<1>15. CASE UNCHANGED vars
  BY <1>15 DEF vars, TypeOK
<1> QED BY <1>1, <1>2, <1>3, <1>4, <1>5, <1>6, <1>7, <1>8, <1>9, <1>10, <1>11,
           <1>12, <1>13, <1>14, <1>15 DEF Next, CallerStep, BeginWrite, LogRead

(* Every variable keeps its type, whatever interleaving, failure or crash.  *)
THEOREM TypeCorrect == Spec => []TypeOK
BY TypeInit, TypeNext, PTL DEF Spec

-----------------------------------------------------------------------------
(***************************************************************************)
(* The inductive invariant. IntentHeld alone is not inductive: a Rename    *)
(* step could take pending rows away unless the renamer's check of the     *)
(* file (NoneChecked) is still true, and it is because only the holder of  *)
(* the guard inserts (GuardHeld, OneInside).                               *)
(***************************************************************************)
GuardHeld == \A c \in Callers : pc[c] \in Guarded => holder[Proc(c)] = c

OneInside == \A c, d \in Callers : pc[c] \in Guarded /\ pc[d] \in Guarded => c = d

NoneChecked ==
  \A c \in Callers : pc[c] = "checked" => \A i \in DOMAIN db : db[i].status # "pending"

IntentInv == TypeOK /\ GuardHeld /\ OneInside /\ NoneChecked /\ IntentHeld

LEMMA LeavePlace ==
  ASSUME TypeOK, NEW S, Leave(S), NEW d \in Callers
  PROVE  /\ pc'[d] \in {pc[d], "idle"}
         /\ pc'[d] # "idle" => d \notin S
         /\ pc'[d] # "idle" => intent'[d] = intent[d]
BY DEF TypeOK, Leave

(* A step that moves one caller by Go leaves every other where it was.      *)
LEMMA GoPlace ==
  ASSUME TypeOK, NEW c \in Callers, NEW place, Go(c, place), NEW d \in Callers
  PROVE  pc'[d] = IF d = c THEN place ELSE pc[d]
BY DEF TypeOK, Go

(* Which callers a step may bring inside the guard: one that was inside, or *)
(* the one that has just taken a free guard.                                *)
LEMMA GuardNext ==
  ASSUME GuardSpans, IntentInv, [Next]_vars
  PROVE  GuardHeld' /\ OneInside'
<1> USE ProcIsProc, NoneAssumption DEF IntentInv
<1>1. ASSUME NEW p \in Procs, Start(p) PROVE GuardHeld' /\ OneInside'
  BY <1>1 DEF Start, GuardHeld, OneInside
<1>2. ASSUME NEW p \in Procs, Crash(p) PROVE GuardHeld' /\ OneInside'
  <2>1. holder' = [holder EXCEPT ![p] = None] /\ Leave({c \in Callers : Proc(c) = p})
    BY <1>2 DEF Crash
  <2>2. \A d \in Callers : pc'[d] \in Guarded => pc[d] \in Guarded /\ Proc(d) # p
    BY <2>1, LeavePlace DEF Guarded
  <2> QED BY <2>1, <2>2 DEF GuardHeld, OneInside, TypeOK
<1>3. ASSUME NEW c \in Callers, EnterGuard(c) PROVE GuardHeld' /\ OneInside'
  <2>1. /\ \A p \in Procs : holder[p] = None
        /\ holder' = [holder EXCEPT ![Proc(c)] = c]
    BY <1>3 DEF EnterGuard, GuardSpans
  <2>2. \A d \in Callers : pc[d] \notin Guarded
    BY <2>1 DEF GuardHeld
  <2>3. \A d \in Callers : pc'[d] \in Guarded => d = c
    BY <2>2, <1>3, GoPlace DEF EnterGuard
  <2> QED BY <2>1, <2>3 DEF GuardHeld, OneInside, TypeOK
<1>4. ASSUME NEW c \in Callers,
             Insert(c) \/ LogFails(c)
      PROVE  GuardHeld' /\ OneInside'
  <2>1. \A d \in Callers : pc'[d] \in Guarded => pc[d] \in Guarded /\ d # c
    <3>1. CASE Leave({c})
      BY <3>1, LeavePlace DEF Guarded
    <3>2. CASE Go(c, "upstream")
      BY <3>2, GoPlace DEF Guarded
    <3> QED BY <1>4, <3>1, <3>2 DEF Insert, LogFails
  <2>2. \/ UNCHANGED holder
        \/ pc[c] \in Guarded /\ holder' = [holder EXCEPT ![Proc(c)] = None]
    BY <1>4 DEF Insert, LogFails, Release, Guarded
  <2>3. \A d \in Callers : d # c /\ pc[d] \in Guarded => holder'[Proc(d)] = holder[Proc(d)]
    BY <2>2 DEF GuardHeld, OneInside, TypeOK
  <2> QED BY <2>1, <2>3 DEF GuardHeld, OneInside
<1>5. ASSUME NEW c \in Callers,
             \/ SkipRotation(c) \/ CheckRotation(c) \/ RotationFails(c)
             \/ Rename(c) \/ Reinit(c)
      PROVE  GuardHeld' /\ OneInside'
  <2>1. /\ pc[c] \in Guarded /\ UNCHANGED holder
        /\ Go(c, "insert") \/ Go(c, "checked") \/ Go(c, "renamed")
    BY <1>5 DEF SkipRotation, CheckRotation, RotationFails, Rename, Reinit, Guarded
  <2>2. \A d \in Callers : pc'[d] \in Guarded => pc[d] \in Guarded
    BY <2>1, GoPlace
  <2> QED BY <2>1, <2>2 DEF GuardHeld, OneInside
<1>6. ASSUME UNCHANGED holder,
             \A d \in Callers : pc'[d] \in Guarded => pc[d] \in Guarded
      PROVE  GuardHeld' /\ OneInside'
  BY <1>6 DEF GuardHeld, OneInside
<1>7. ASSUME NEW c \in Callers, NEW write \in BOOLEAN, Enter(c, write)
      PROVE  GuardHeld' /\ OneInside'
  <2>1. Go(c, "want") /\ UNCHANGED holder
    BY <1>7 DEF Enter
  <2> QED BY <2>1, <1>6, GoPlace DEF Guarded
<1>8. ASSUME NEW c \in Callers,
             BeginUnavailable(c) \/ Execute(c) \/ FinishWrite(c) \/ FinishFails(c)
      PROVE  GuardHeld' /\ OneInside'
  <2>1. UNCHANGED holder /\ (Leave({c}) \/ Go(c, "finish") \/ UNCHANGED pc)
    BY <1>8 DEF BeginUnavailable, Execute, FinishWrite, FinishFails
  <2>2. \A d \in Callers : pc'[d] \in Guarded => pc[d] \in Guarded
    BY <2>1, GoPlace, LeavePlace DEF Guarded
  <2> QED BY <2>1, <2>2, <1>6
<1>9. ASSUME NEW i \in DOMAIN db, Reconcile(i) PROVE GuardHeld' /\ OneInside'
  BY <1>9, <1>6 DEF Reconcile
<1>10. CASE UNCHANGED vars
  BY <1>10, <1>6 DEF vars
<1> QED BY <1>1, <1>2, <1>3, <1>4, <1>5, <1>7, <1>8, <1>9, <1>10
        DEF Next, CallerStep, BeginWrite, LogRead

(* The callers between begin_write and finish_write, and their rows.        *)
Running == {"upstream", "finish"}

LEMMA HeldRow ==
  ASSUME IntentHeld, NEW c \in Callers, pc[c] \in Running
  PROVE  /\ intent[c] \in DOMAIN db
         /\ db[intent[c]].call = Current(c)
         /\ db[intent[c]].status = "pending"
<1>1. /\ intent[c] \in DOMAIN db
      /\ db[intent[c]] = Row(Current(c), "pending")
  BY DEF IntentHeld, Running
<1>2. Row(Current(c), "pending").call = Current(c)
  BY DEF Row
<1>3. Row(Current(c), "pending").status = "pending"
  BY DEF Row
<1> QED BY <1>1, <1>2, <1>3

LEMMA IntentNext ==
  ASSUME GuardSpans, IntentInv, [Next]_vars
  PROVE  NoneChecked' /\ IntentHeld'
<1> USE DEF IntentInv, Running
<1>1. ASSUME UNCHANGED <<db, calls>>,
             \A d \in Callers : pc'[d] \in Running => pc[d] \in Running
                                                     /\ intent'[d] = intent[d],
             \A d \in Callers : pc'[d] = "checked" => pc[d] = "checked"
      PROVE  NoneChecked' /\ IntentHeld'
  BY <1>1 DEF NoneChecked, IntentHeld, Current
<1>2. ASSUME NEW p \in Procs, Start(p) PROVE NoneChecked' /\ IntentHeld'
  BY <1>2, <1>1 DEF Start
<1>3. ASSUME NEW p \in Procs, Crash(p) PROVE NoneChecked' /\ IntentHeld'
  BY <1>3, <1>1, LeavePlace DEF Crash, files
<1>4. ASSUME NEW c \in Callers, NEW write \in BOOLEAN, Enter(c, write)
      PROVE  NoneChecked' /\ IntentHeld'
  <2>1. /\ Go(c, "want") /\ UNCHANGED <<db, intent>>
        /\ pc[c] = "idle" /\ calls' = [calls EXCEPT ![c] = @ + 1]
    BY <1>4 DEF Enter, files
  <2>2. \A d \in Callers : pc'[d] \in Running \cup {"checked"} =>
                             d # c /\ pc'[d] = pc[d] /\ calls'[d] = calls[d]
    BY <2>1, GoPlace DEF TypeOK
  <2> QED BY <2>1, <2>2 DEF NoneChecked, IntentHeld, Current
<1>5. ASSUME NEW c \in Callers,
             \/ EnterGuard(c) \/ SkipRotation(c) \/ RotationFails(c) \/ Reinit(c)
      PROVE  NoneChecked' /\ IntentHeld'
  <2>1. /\ Go(c, "locked") \/ Go(c, "insert")
        /\ UNCHANGED <<db, calls, intent>>
    BY <1>5 DEF EnterGuard, SkipRotation, RotationFails, Reinit, files
  <2> QED BY <2>1, <1>1, GoPlace
<1>6. ASSUME NEW c \in Callers, CheckRotation(c) PROVE NoneChecked' /\ IntentHeld'
  <2>1. Go(c, "checked") /\ UNCHANGED <<db, calls, intent>> /\ ~ HasPending
    BY <1>6 DEF CheckRotation, MustRotate, files
  <2>2. \A i \in DOMAIN db : db[i].status # "pending"
    BY <2>1 DEF HasPending, PendingCalls
  <2> QED BY <2>1, <2>2, GoPlace DEF NoneChecked, IntentHeld, Current
<1>7. ASSUME NEW c \in Callers, Rename(c) PROVE NoneChecked' /\ IntentHeld'
  <2>1. Go(c, "renamed") /\ db' = <<>> /\ pc[c] = "checked"
    BY <1>7 DEF Rename
  <2>2. \A i \in DOMAIN db : db[i].status # "pending"
    BY <2>1 DEF NoneChecked
  <2>3. \A d \in Callers : pc[d] \notin Running
    BY <2>2, HeldRow
  <2>4. \A d \in Callers : pc'[d] \notin Running
    BY <2>1, <2>3, GoPlace
  <2> QED BY <2>1, <2>4 DEF NoneChecked, IntentHeld
<1>8. ASSUME NEW c \in Callers, Insert(c) PROVE NoneChecked' /\ IntentHeld'
  <2> DEFINE n == Len(db) + 1
  <2>1. PICK row : /\ db' = Append(db, row)
                   /\ strict[c] => row = Row(Current(c), "pending")
    BY <1>8 DEF Insert
  <2>2. /\ db \in Seq(Rows) /\ DOMAIN db' = 1 .. n /\ n \in Nat /\ db'[n] = row
        /\ \A i \in DOMAIN db : i \in DOMAIN db' /\ db'[i] = db[i]
    BY <2>1, RowTypes
  <2>3. \A d \in Callers : pc'[d] # "checked"
    <3>1. \A d \in Callers : d # c => pc[d] \notin Guarded
      BY <1>8 DEF Insert, OneInside, Guarded
    <3> QED BY <1>8, <3>1, LeavePlace, GoPlace DEF Insert, Guarded
  <2>4. ASSUME NEW d \in Callers, pc'[d] \in Running
        PROVE  intent'[d] \in DOMAIN db' /\ db'[intent'[d]] = Row(Current(d), "pending")'
    <3>1. Current(d)' = Current(d)
      BY <1>8 DEF Insert, Current
    <3>2. CASE d = c
      <4>1. strict[c] /\ intent'[c] = n
        BY <1>8, <2>4, <3>2, LeavePlace DEF Insert, TypeOK
      <4> QED BY <4>1, <3>1, <3>2, <2>1, <2>2 DEF Row
    <3>3. CASE d # c
      <4>1. pc[d] \in Running /\ intent'[d] = intent[d]
        BY <1>8, <2>4, <3>3, LeavePlace, GoPlace DEF Insert, TypeOK, Leave
      <4> QED BY <4>1, <3>1, <2>2 DEF IntentHeld, Row
    <3> QED BY <3>2, <3>3
  <2> QED BY <2>3, <2>4 DEF NoneChecked, IntentHeld
<1>9. ASSUME NEW c \in Callers, Execute(c) PROVE NoneChecked' /\ IntentHeld'
  <2>1. /\ pc[c] = "upstream" /\ Go(c, "finish") /\ UNCHANGED <<db, calls, intent>>
    BY <1>9 DEF Execute, files
  <2> QED BY <2>1, <1>1, GoPlace
<1>10. ASSUME NEW c \in Callers, BeginUnavailable(c) \/ LogFails(c) \/ FinishFails(c)
       PROVE  NoneChecked' /\ IntentHeld'
  <2>1. /\ UNCHANGED <<db, calls>>
        /\ Leave({c}) \/ UNCHANGED <<pc, intent>>
    BY <1>10 DEF BeginUnavailable, LogFails, FinishFails, files
  <2> QED BY <2>1, <1>1, LeavePlace
<1>11. ASSUME NEW i, NEW status \in Statuses, NEW who, Resolve(i, status, who),
              UNCHANGED calls,
              \A d \in Callers : pc'[d] \in Running =>
                /\ pc[d] \in Running /\ intent'[d] = intent[d]
                /\ db[i].call # Current(d),
              \A d \in Callers : pc'[d] = "checked" => pc[d] = "checked"
       PROVE  NoneChecked' /\ IntentHeld'
  <2>1. /\ i \in DOMAIN db /\ db[i].status = "pending"
        /\ db' = [db EXCEPT ![i] = [db[i] EXCEPT !.status = status, !.by = who]]
    BY <1>11 DEF Resolve
  <2>2. \A j \in DOMAIN db : j # i => j \in DOMAIN db' /\ db'[j] = db[j]
    BY <2>1, RowTypes
  <2>3. \A d \in Callers : pc'[d] # "checked"
    BY <1>11, <2>1 DEF NoneChecked
  <2>4. \A d \in Callers : pc'[d] \in Running => intent[d] # i
    BY <1>11, HeldRow
  <2> QED BY <1>11, <2>2, <2>3, <2>4 DEF NoneChecked, IntentHeld, Current
<1>12. ASSUME NEW c \in Callers, FinishWrite(c) PROVE NoneChecked' /\ IntentHeld'
  <2>1. PICK s \in Statuses : Resolve(intent[c], s, Current(c))
    BY <1>12 DEF FinishWrite
  <2>2. Leave({c}) /\ UNCHANGED calls /\ pc[c] \in Running
    BY <1>12 DEF FinishWrite
  <2>3. db[intent[c]].call = Current(c)
    BY <2>2, HeldRow
  <2>4. \A d \in Callers : pc'[d] \in Running =>
           /\ pc[d] \in Running /\ intent'[d] = intent[d]
           /\ db[intent[c]].call # Current(d)
    BY <2>2, <2>3, LeavePlace DEF Current, Running
  <2>5. \A d \in Callers : pc'[d] = "checked" => pc[d] = "checked"
    BY <2>2, LeavePlace
  <2>6. UNCHANGED calls
    BY <2>2
  <2> HIDE DEF Running
  <2> QED BY <2>1, <2>4, <2>5, <2>6, <1>11
<1>13. ASSUME NEW i \in DOMAIN db, Reconcile(i) PROVE NoneChecked' /\ IntentHeld'
  <2>1. /\ Resolve(i, "unknown", None) /\ ~ InProgress(db[i].call)
        /\ UNCHANGED <<pc, intent, calls>>
    BY <1>13 DEF Reconcile
  <2>2. \A d \in Callers : pc'[d] \in Running => db[i].call # Current(d)
    BY <2>1 DEF InProgress, Current
  <2> QED BY <2>1, <2>2, <1>11, StatusAssumption
<1>14. CASE UNCHANGED vars
  BY <1>14, <1>1 DEF vars
<1> QED BY <1>2, <1>3, <1>4, <1>5, <1>6, <1>7, <1>8, <1>9, <1>10, <1>12, <1>13, <1>14
        DEF Next, CallerStep, BeginWrite, LogRead

LEMMA IntentInit == Init => IntentInv
<1> SUFFICES ASSUME Init PROVE IntentInv
  OBVIOUS
<1>1. \A c \in Callers : pc[c] = "idle"
  BY DEF Init
<1> QED BY <1>1, TypeInit
        DEF IntentInv, GuardHeld, OneInside, NoneChecked, IntentHeld, Guarded

LEMMA SpecIntentInv == ASSUME GuardSpans PROVE Spec => []IntentInv
<1>1. IntentInv /\ [Next]_vars => IntentInv'
  BY TypeNext, GuardNext, IntentNext DEF IntentInv
<1> QED BY <1>1, IntentInit, PTL DEF Spec

(* Where the guard spans the processes, a write's intent stays in the live  *)
(* file, pending and its own, from begin_write to finish_write: rotation by *)
(* any other caller leaves it, and its row id is not given to another.      *)
THEOREM IntentIsHeld == ASSUME GuardSpans PROVE Spec => []IntentHeld
<1>1. IntentInv => IntentHeld
  BY DEF IntentInv
<1> QED BY <1>1, SpecIntentInv, PTL

LEMMA StatusNext ==
  ASSUME IntentInv, StatusIsOwners, [Next]_vars
  PROVE  StatusIsOwners'
<1> USE DEF IntentInv
<1>1. ASSUME UNCHANGED <<db, archives>> PROVE StatusIsOwners'
  BY <1>1 DEF StatusIsOwners
<1>2. ASSUME NEW c \in Callers, Rename(c) PROVE StatusIsOwners'
  <2> DEFINE n == Len(archives) + 1
  <2>1. archives' = Append(archives, db) /\ db' = <<>>
    BY <1>2 DEF Rename
  <2>2. /\ DOMAIN archives' = DOMAIN archives \cup {n}
        /\ archives'[n] = db
        /\ \A k \in DOMAIN archives : archives'[k] = archives[k]
    <3> DEFINE F == Seq(Rows)
    <3>1. archives \in Seq(F)
      BY DEF TypeOK
    <3> HIDE DEF F
    <3> QED BY <2>1, <3>1
  <2> QED BY <2>1, <2>2 DEF StatusIsOwners
<1>3. ASSUME NEW c \in Callers, Reinit(c) PROVE StatusIsOwners'
  <2>1. archives' = Newest(archives) /\ db' = db
    BY <1>3 DEF Reinit
  <2>2. \A k \in DOMAIN archives' : \E j \in DOMAIN archives : archives'[k] = archives[j]
    BY <2>1, NewestIsSuffix DEF TypeOK
  <2> QED BY <2>1, <2>2, Zenon DEF StatusIsOwners
<1>4. ASSUME NEW c \in Callers, Insert(c) PROVE StatusIsOwners'
  <2>1. PICK status : db' = Append(db, Row(Current(c), status))
    BY <1>4 DEF Insert
  <2>2. OwnWord(Row(Current(c), status))
    BY DEF OwnWord, Row
  <2>3. \A i \in DOMAIN db' : \/ i \in DOMAIN db /\ db'[i] = db[i]
                              \/ db'[i] = Row(Current(c), status)
    BY <2>1, RowTypes
  <2>4. UNCHANGED archives
    BY <1>4 DEF Insert
  <2> QED BY <2>2, <2>3, <2>4, Zenon DEF StatusIsOwners
<1>5. ASSUME NEW i, NEW status \in Statuses, NEW who, Resolve(i, status, who),
             UNCHANGED archives,
             who = db[i].call \/ (who = None /\ status = "unknown")
      PROVE  StatusIsOwners'
  <2>1. /\ i \in DOMAIN db
        /\ db' = [db EXCEPT ![i] = [db[i] EXCEPT !.status = status, !.by = who]]
    BY <1>5 DEF Resolve
  <2>2. db \in Seq(Rows) /\ db[i] \in Rows
    BY <2>1, RowTypes
  <2>3. DOMAIN db' = DOMAIN db /\ OwnWord(db'[i])
    BY <1>5, <2>1, <2>2 DEF OwnWord, Rows
  <2>4. \A j \in DOMAIN db : j # i => db'[j] = db[j]
    BY <2>1, <2>2
  <2> QED BY <1>5, <2>3, <2>4, Zenon DEF StatusIsOwners
<1>6. ASSUME NEW c \in Callers, FinishWrite(c) PROVE StatusIsOwners'
  <2>1. PICK s \in Statuses : Resolve(intent[c], s, Current(c))
    BY <1>6 DEF FinishWrite
  <2>2. db[intent[c]].call = Current(c) /\ UNCHANGED archives
    BY <1>6, HeldRow DEF FinishWrite, Running
  <2> QED BY <2>1, <2>2, <1>5
<1>7. ASSUME NEW i \in DOMAIN db, Reconcile(i) PROVE StatusIsOwners'
  BY <1>7, <1>5, StatusAssumption DEF Reconcile
<1>8. ASSUME NEW p \in Procs, Start(p) \/ Crash(p) PROVE StatusIsOwners'
  BY <1>8, <1>1 DEF Start, Crash, files
<1>9. ASSUME NEW c \in Callers,
             \/ Enter(c, TRUE) \/ Enter(c, FALSE) \/ BeginUnavailable(c)
             \/ EnterGuard(c) \/ SkipRotation(c) \/ CheckRotation(c)
             \/ RotationFails(c) \/ LogFails(c) \/ Execute(c) \/ FinishFails(c)
      PROVE  StatusIsOwners'
  BY <1>9, <1>1 DEF Enter, BeginUnavailable, EnterGuard, SkipRotation, CheckRotation,
               RotationFails, LogFails, Execute, FinishFails, files
<1>10. CASE UNCHANGED vars
  BY <1>10, <1>1 DEF vars
<1> QED BY <1>2, <1>3, <1>4, <1>6, <1>7, <1>8, <1>9, <1>10
        DEF Next, CallerStep, BeginWrite, LogRead

(* Where the guard spans the processes, what a row says of a call is that   *)
(* call's own report, or the operator's "unknown", in the live file and in  *)
(* every archive.                                                           *)
THEOREM StatusIsTheOwners == ASSUME GuardSpans PROVE Spec => []StatusIsOwners
<1>1. Init => StatusIsOwners
  BY DEF Init, StatusIsOwners
<1>2. IntentInv /\ StatusIsOwners /\ [Next]_vars => StatusIsOwners'
  BY StatusNext
<1> QED BY <1>1, <1>2, SpecIntentInv, PTL DEF Spec

-----------------------------------------------------------------------------
(***************************************************************************)
(* The refinement. A step of the engine maps to a step of AuditTrail       *)
(* because a call has at most one row (Fresh, UniqueLive) and archives     *)
(* hold no pending row (ArchivedClosed).                                   *)
(***************************************************************************)
Said(row) == [call |-> row.call, status |-> row.status]

Archived == UNION {RowsOf(archives[k]) : k \in DOMAIN archives}

Past == \A t \in TrailNow : t.call[1] \in Callers /\ t.call[2] <= calls[t.call[1]]

Fresh ==
  \A c \in Callers : pc[c] \in {"want"} \cup Guarded =>
    \A t \in TrailNow : t.call # Current(c)

UniqueLive == \A i, j \in DOMAIN db : db[i].call = db[j].call => i = j

ArchivedClosed == \A t \in Archived : t.status # "pending"

RowsInv == IntentInv /\ Past /\ Fresh /\ UniqueLive /\ ArchivedClosed

LEMMA RowsOfSays == \A file : RowsOf(file) = {Said(file[i]) : i \in DOMAIN file}
BY DEF RowsOf, Said

LEMMA RowsOfAppend ==
  ASSUME NEW file \in Seq(Rows), NEW row
  PROVE  RowsOf(Append(file, row)) = RowsOf(file) \cup {Said(row)}
<1> DEFINE n == Len(file) + 1
<1>1. /\ DOMAIN Append(file, row) = DOMAIN file \cup {n}
      /\ Append(file, row)[n] = row
      /\ \A i \in DOMAIN file : Append(file, row)[i] = file[i]
  OBVIOUS
<1> HIDE DEF n
<1> QED BY <1>1, RowsOfSays, Zenon

LEMMA ArchivedAppend ==
  ASSUME TypeOK, archives' = Append(archives, db)
  PROVE  Archived' = Archived \cup RowsOf(db)
<1> DEFINE n == Len(archives) + 1
           files0 == Seq(Rows)
<1>1. archives \in Seq(files0)
  BY DEF TypeOK
<1> HIDE DEF files0
<1>2. /\ DOMAIN archives' = DOMAIN archives \cup {n}
      /\ archives'[n] = db
      /\ \A k \in DOMAIN archives : archives'[k] = archives[k]
  BY <1>1
<1> HIDE DEF n
<1>3. Archived' = UNION {RowsOf(archives'[k]) : k \in DOMAIN archives'}
  BY DEF Archived, RowsOf
<1>4. /\ RowsOf(archives'[n]) = RowsOf(db)
      /\ \A k \in DOMAIN archives : RowsOf(archives'[k]) = RowsOf(archives[k])
  BY <1>2
<1>5. {RowsOf(archives'[k]) : k \in DOMAIN archives'}
        = {RowsOf(archives[k]) : k \in DOMAIN archives} \cup {RowsOf(db)}
  BY <1>2, <1>4
<1> QED BY <1>3, <1>5 DEF Archived

LEMMA TrailSplit == TrailNow = RowsOf(db) \cup Archived
BY DEF TrailNow, Archived

(* Rotation moves rows without losing or changing one. *)
LEMMA TrailRename ==
  ASSUME TypeOK, NEW c \in Callers, Rename(c)
  PROVE  TrailNow' = TrailNow
<1>1. archives' = Append(archives, db) /\ db' = <<>>
  BY DEF Rename
<1>2. RowsOf(db)' = {}
  BY <1>1 DEF RowsOf
<1>3. TrailNow' = RowsOf(db)' \cup Archived'
  BY DEF TrailNow, Archived
<1> QED BY <1>1, <1>2, <1>3, ArchivedAppend, TrailSplit

(* Retention drops archived rows only. *)
LEMMA TrailReinit ==
  ASSUME TypeOK, NEW c \in Callers, Reinit(c)
  PROVE  Archived' \subseteq Archived /\ RowsOf(db)' = RowsOf(db)
<1>1. archives' = Newest(archives) /\ db' = db
  BY DEF Reinit
<1>2. \A k \in DOMAIN archives' : \E j \in DOMAIN archives : archives'[k] = archives[j]
  BY <1>1, NewestIsSuffix DEF TypeOK
<1>3. Archived' = UNION {RowsOf(archives'[k]) : k \in DOMAIN archives'}
  BY DEF Archived, RowsOf
<1>4. Archived' \subseteq Archived
  BY <1>2, <1>3, Zenon DEF Archived
<1> QED BY <1>1, <1>4 DEF RowsOf

LEMMA TrailInsert ==
  ASSUME TypeOK, NEW c \in Callers, Insert(c)
  PROVE  \E status \in {"pending", "read"} :
           /\ TrailNow' = TrailNow \cup {[call |-> Current(c), status |-> status]}
           /\ db' = Append(db, Row(Current(c), status))
           /\ Archived' = Archived
<1>1. PICK status \in {"pending", "read"} : db' = Append(db, Row(Current(c), status))
  BY DEF Insert
<1>2. Archived' = Archived
  BY DEF Insert, Archived, RowsOf
<1>3. RowsOf(db)' = RowsOf(db) \cup {Said(Row(Current(c), status))}
  <2>1. RowsOf(db)' = RowsOf(Append(db, Row(Current(c), status)))
    BY <1>1 DEF RowsOf
  <2> QED BY <2>1, RowsOfAppend, RowTypes
<1>4. Said(Row(Current(c), status)) = [call |-> Current(c), status |-> status]
  BY DEF Said, Row
<1>5. TrailNow' = RowsOf(db)' \cup Archived'
  BY DEF TrailNow, Archived
<1> QED BY <1>1, <1>2, <1>3, <1>4, <1>5, TrailSplit

LEMMA TrailResolve ==
  ASSUME RowsInv, NEW i, NEW status \in Statuses, NEW who,
         Resolve(i, status, who), UNCHANGED archives
  PROVE  /\ [call |-> db[i].call, status |-> "pending"] \in TrailNow
         /\ TrailNow' = (TrailNow \ {[call |-> db[i].call, status |-> "pending"]})
                          \cup {[call |-> db[i].call, status |-> status]}
         /\ Archived' = Archived
<1> DEFINE old == [call |-> db[i].call, status |-> "pending"]
           new == [call |-> db[i].call, status |-> status]
<1>1. /\ i \in DOMAIN db /\ db[i].status = "pending"
      /\ db' = [db EXCEPT ![i] = [db[i] EXCEPT !.status = status, !.by = who]]
  BY DEF Resolve
<1>2. db \in Seq(Rows) /\ db[i] \in Rows
  BY <1>1, RowTypes DEF RowsInv, IntentInv
<1>3. Said(db[i]) = old
  BY <1>1 DEF Said
<1>4. DOMAIN db' = DOMAIN db /\ Said(db'[i]) = new
  BY <1>1, <1>2 DEF Said, Rows
<1>5. \A j \in DOMAIN db : j # i => db'[j] = db[j] /\ Said(db[j]) # old
  BY <1>1, <1>2 DEF Said, RowsInv, UniqueLive
<1>6. Archived' = Archived
  BY DEF Archived, RowsOf
<1>7. old \notin Archived
  BY DEF RowsInv, ArchivedClosed
<1>8. RowsOf(db)' = {Said(db'[j]) : j \in DOMAIN db'}
  BY DEF RowsOf, Said
<1> HIDE DEF old, new
<1>9. RowsOf(db)' = (RowsOf(db) \ {old}) \cup {new}
  BY <1>1, <1>3, <1>4, <1>5, <1>8, RowsOfSays, Zenon
<1>10. old \in RowsOf(db)
  BY <1>1, <1>3, RowsOfSays, Zenon
<1>11. TrailNow' = RowsOf(db)' \cup Archived'
  BY DEF TrailNow, Archived
<1> QED BY <1>6, <1>7, <1>9, <1>10, <1>11, TrailSplit DEF old, new

(* The steps that touch no file. *)
LEMMA TrailSame ==
  ASSUME UNCHANGED <<db, archives>>
  PROVE  TrailNow' = TrailNow /\ Archived' = Archived
BY DEF TrailNow, Archived, RowsOf

LEMMA RowsNext ==
  ASSUME GuardSpans, RowsInv, [Next]_vars, IntentInv'
  PROVE  RowsInv'
<1> DEFINE Inside == {"want"} \cup Guarded
<1> SUFFICES Past' /\ Fresh' /\ UniqueLive' /\ ArchivedClosed'
  BY DEF RowsInv
<1> USE DEF RowsInv, IntentInv
<1>1. ASSUME TrailNow' \subseteq TrailNow, Archived' \subseteq Archived,
             UNCHANGED <<db, calls>>,
             \A d \in Callers : pc'[d] \in Inside => pc[d] \in Inside
      PROVE  Past' /\ Fresh' /\ UniqueLive' /\ ArchivedClosed'
  BY <1>1 DEF Past, Fresh, UniqueLive, ArchivedClosed, Current
<1>2. ASSUME NEW c \in Callers, NEW write \in BOOLEAN, Enter(c, write)
      PROVE  Past' /\ Fresh' /\ UniqueLive' /\ ArchivedClosed'
  <2>1. /\ Go(c, "want") /\ UNCHANGED <<db, archives>>
        /\ calls' = [calls EXCEPT ![c] = @ + 1]
    BY <1>2 DEF Enter, files
  <2>2. TrailNow' = TrailNow /\ Archived' = Archived
    BY <2>1, TrailSame
  <2>3. calls \in [Callers -> Nat]
    BY DEF TypeOK
  <2>4. \A t \in TrailNow : t.call[2] \in Nat
    <3>1. \A row \in Rows : row.call[2] \in Nat
      BY LimitAssumption DEF Rows, Calls
    <3>2. \A t \in RowsOf(db) : t.call[2] \in Nat
      BY <3>1, RowTypes DEF RowsOf
    <3>3. \A k \in DOMAIN archives : \A i \in DOMAIN archives[k] : archives[k][i] \in Rows
      <4>1. \A k \in DOMAIN archives : archives[k] \in Seq(Rows)
        BY DEF TypeOK
      <4> QED BY <4>1
    <3>4. \A t \in Archived : t.call[2] \in Nat
      BY <3>1, <3>3 DEF Archived, RowsOf
    <3> QED BY <3>2, <3>4, TrailSplit
  <2>5. Past'
    BY <2>1, <2>2, <2>3, <2>4 DEF Past
  <2>6. Fresh'
    <3> SUFFICES ASSUME NEW d \in Callers, pc'[d] \in Inside, NEW t \in TrailNow
                 PROVE  t.call # Current(d)'
      BY <2>2 DEF Fresh
    <3>1. CASE d = c
      <4>1. t.call[1] = c => t.call[2] <= calls[c]
        BY DEF Past
      <4>2. Current(c)' = <<c, calls[c] + 1>>
        BY <2>1, <2>3 DEF Current
      <4> QED BY <3>1, <4>1, <4>2, <2>3, <2>4
    <3>2. CASE d # c
      <4>1. pc[d] \in Inside /\ Current(d)' = Current(d)
        BY <2>1, <2>3, <3>2, GoPlace DEF Current
      <4> QED BY <4>1 DEF Fresh
    <3> QED BY <3>1, <3>2
  <2> QED BY <2>1, <2>2, <2>5, <2>6 DEF UniqueLive, ArchivedClosed
<1>3. ASSUME NEW p \in Procs, Start(p) \/ Crash(p)
      PROVE  Past' /\ Fresh' /\ UniqueLive' /\ ArchivedClosed'
  <2>1. /\ UNCHANGED <<db, archives, calls>>
        /\ UNCHANGED pc \/ Leave({c \in Callers : Proc(c) = p})
    BY <1>3 DEF Start, Crash, files
  <2>2. \A d \in Callers : pc'[d] \in Inside => pc[d] \in Inside
    BY <2>1, LeavePlace DEF Guarded
  <2> QED BY <2>1, <2>2, <1>1, TrailSame
<1>4. ASSUME NEW c \in Callers,
             \/ BeginUnavailable(c) \/ EnterGuard(c) \/ SkipRotation(c)
             \/ CheckRotation(c) \/ RotationFails(c) \/ LogFails(c)
             \/ Execute(c) \/ FinishFails(c)
      PROVE  Past' /\ Fresh' /\ UniqueLive' /\ ArchivedClosed'
  <2>1. UNCHANGED <<db, archives, calls>>
    BY <1>4 DEF BeginUnavailable, EnterGuard, SkipRotation, CheckRotation,
                RotationFails, LogFails, Execute, FinishFails, files
  <2>2. \/ UNCHANGED pc \/ Leave({c}) \/ Go(c, "finish")
        \/ pc[c] \in Inside /\ (Go(c, "locked") \/ Go(c, "insert") \/ Go(c, "checked"))
    BY <1>4 DEF BeginUnavailable, EnterGuard, SkipRotation, CheckRotation,
                RotationFails, LogFails, Execute, FinishFails, Guarded
  <2>3. \A d \in Callers : pc'[d] \in Inside => pc[d] \in Inside
    BY <2>2, GoPlace, LeavePlace DEF Guarded
  <2> QED BY <2>1, <2>3, <1>1, TrailSame
<1>5. ASSUME NEW c \in Callers, Rename(c)
      PROVE  Past' /\ Fresh' /\ UniqueLive' /\ ArchivedClosed'
  <2>1. /\ Go(c, "renamed") /\ pc[c] = "checked" /\ db' = <<>> /\ UNCHANGED calls
        /\ archives' = Append(archives, db)
    BY <1>5 DEF Rename
  <2>2. TrailNow' = TrailNow
    BY <1>5, TrailRename
  <2>3. \A t \in RowsOf(db) : t.status # "pending"
    BY <2>1 DEF NoneChecked, RowsOf
  <2>4. ArchivedClosed'
    BY <2>1, <2>3, ArchivedAppend DEF ArchivedClosed
  <2>5. \A d \in Callers : pc'[d] \in Inside => pc[d] \in Inside
    BY <2>1, GoPlace DEF Guarded
  <2>6. Fresh' /\ Past'
    BY <2>1, <2>2, <2>5 DEF Fresh, Past, Current
  <2>7. UniqueLive'
    BY <2>1 DEF UniqueLive
  <2> QED BY <2>4, <2>6, <2>7
<1>6. ASSUME NEW c \in Callers, Reinit(c)
      PROVE  Past' /\ Fresh' /\ UniqueLive' /\ ArchivedClosed'
  <2>1. UNCHANGED <<db, calls>> /\ Go(c, "insert") /\ pc[c] \in Inside
    BY <1>6 DEF Reinit, Guarded
  <2>2. Archived' \subseteq Archived /\ TrailNow' \subseteq TrailNow
    <3>1. TrailNow' = RowsOf(db)' \cup Archived'
      BY DEF TrailNow, Archived
    <3> QED BY <3>1, <1>6, TrailReinit, TrailSplit
  <2>3. \A d \in Callers : pc'[d] \in Inside => pc[d] \in Inside
    BY <2>1, GoPlace
  <2> QED BY <2>1, <2>2, <2>3, <1>1
<1>7. ASSUME NEW c \in Callers, Insert(c)
      PROVE  Past' /\ Fresh' /\ UniqueLive' /\ ArchivedClosed'
  <2>1. PICK status \in {"pending", "read"} :
          /\ TrailNow' = TrailNow \cup {[call |-> Current(c), status |-> status]}
          /\ db' = Append(db, Row(Current(c), status))
          /\ Archived' = Archived
    BY <1>7, TrailInsert
  <2>2. /\ UNCHANGED calls /\ pc[c] = "insert"
        /\ Go(c, "upstream") \/ Leave({c})
    BY <1>7 DEF Insert
  <2>3. Past'
    BY <2>1, <2>2 DEF Past, Current, TypeOK
  <2>4. \A d \in Callers : pc'[d] \in Inside => pc[d] \in Inside /\ d # c
    BY <2>2, GoPlace, LeavePlace DEF Guarded
  <2>5. Fresh'
    BY <2>1, <2>2, <2>4 DEF Fresh, Current
  <2>6. UniqueLive'
    <3>1. \A i \in DOMAIN db : db[i].call # Current(c)
      <4>1. \A i \in DOMAIN db : Said(db[i]) \in TrailNow /\ Said(db[i]).call = db[i].call
        BY DEF TrailNow, RowsOf, Said
      <4> QED BY <4>1, <2>2 DEF Fresh, Guarded
    <3>2. /\ DOMAIN db' = DOMAIN db \cup {Len(db) + 1}
          /\ db'[Len(db) + 1].call = Current(c)
          /\ \A i \in DOMAIN db : db'[i] = db[i]
      BY <2>1, RowTypes DEF Row
    <3> QED BY <3>1, <3>2 DEF UniqueLive
  <2> QED BY <2>1, <2>3, <2>5, <2>6 DEF ArchivedClosed
<1>8. ASSUME NEW i, NEW status \in Statuses, NEW who, Resolve(i, status, who),
             UNCHANGED <<archives, calls>>,
             \A d \in Callers : pc'[d] \in Inside => pc[d] \in Inside
      PROVE  Past' /\ Fresh' /\ UniqueLive' /\ ArchivedClosed'
  <2>1. /\ [call |-> db[i].call, status |-> "pending"] \in TrailNow
        /\ TrailNow' = (TrailNow \ {[call |-> db[i].call, status |-> "pending"]})
                         \cup {[call |-> db[i].call, status |-> status]}
        /\ Archived' = Archived
    BY <1>8, TrailResolve
  <2>2. \A t \in TrailNow' : \E u \in TrailNow : t.call = u.call
    BY <2>1
  <2>3. Past' /\ Fresh'
    BY <1>8, <2>2 DEF Past, Fresh, Current
  <2>4. UniqueLive'
    <3>1. i \in DOMAIN db /\ db' = [db EXCEPT ![i] = [db[i] EXCEPT !.status = status, !.by = who]]
      BY <1>8 DEF Resolve
    <3>2. db[i] \in Rows /\ db \in Seq(Rows)
      BY <3>1, RowTypes
    <3>3. DOMAIN db' = DOMAIN db /\ \A j \in DOMAIN db : db'[j].call = db[j].call
      BY <3>1, <3>2 DEF Rows
    <3> QED BY <3>3 DEF UniqueLive
  <2> QED BY <2>1, <2>3, <2>4 DEF ArchivedClosed
<1>9. ASSUME NEW c \in Callers, FinishWrite(c)
      PROVE  Past' /\ Fresh' /\ UniqueLive' /\ ArchivedClosed'
  <2>1. PICK s \in Statuses : Resolve(intent[c], s, Current(c))
    BY <1>9 DEF FinishWrite
  <2>2. Leave({c}) /\ UNCHANGED <<archives, calls>>
    BY <1>9 DEF FinishWrite
  <2>3. \A d \in Callers : pc'[d] \in Inside => pc[d] \in Inside
    BY <2>2, LeavePlace DEF Guarded
  <2> QED BY <2>1, <2>2, <2>3, <1>8
<1>10. ASSUME NEW i \in DOMAIN db, Reconcile(i)
       PROVE  Past' /\ Fresh' /\ UniqueLive' /\ ArchivedClosed'
  BY <1>10, <1>8, StatusAssumption DEF Reconcile
<1>11. CASE UNCHANGED vars
  BY <1>11, <1>1, TrailSame DEF vars
<1> QED BY <1>2, <1>3, <1>4, <1>5, <1>6, <1>7, <1>9, <1>10, <1>11
        DEF Next, CallerStep, BeginWrite, LogRead

LEMMA RowsInit == Init => RowsInv
<1> SUFFICES ASSUME Init PROVE RowsInv
  OBVIOUS
<1>1. TrailNow = {} /\ Archived = {}
  BY DEF Init, TrailNow, Archived, RowsOf
<1>2. db = <<>>
  BY DEF Init
<1> QED BY <1>1, <1>2, IntentInit
        DEF RowsInv, Past, Fresh, UniqueLive, ArchivedClosed

LEMMA SpecRowsInv == ASSUME GuardSpans PROVE Spec => []RowsInv
<1>1. RowsInv /\ IntentInv' /\ [Next]_vars => RowsInv'
  BY RowsNext
<1> QED BY <1>1, RowsInit, SpecIntentInv, PTL DEF Spec

LEMMA TrailNext ==
  ASSUME RowsInv, [Next]_vars
  PROVE  [Trail!Next]_<<TrailNow, effects>>
<1> USE DEF RowsInv, IntentInv
<1>1. ASSUME NEW c \in Callers, Execute(c)
      PROVE  Trail!Next \/ UNCHANGED <<TrailNow, effects>>
  <2>1. /\ effects' \in {effects, effects \cup {Current(c)}}
        /\ UNCHANGED <<db, archives>> /\ pc[c] \in Running
    BY <1>1 DEF Execute, files, Running
  <2>2. TrailNow' = TrailNow
    BY <2>1, TrailSame
  <2>3. [call |-> Current(c), status |-> "pending"] \in TrailNow
    BY <2>1, HeldRow DEF TrailNow, RowsOf
  <2>4. Current(c) \in Calls
    BY <2>1, CurrentIsCall DEF Running
  <2>5. effects' = effects \cup {Current(c)} => Trail!TakeEffect(Current(c))
    BY <2>2, <2>3 DEF Trail!TakeEffect, Trail!Entry
  <2> QED BY <2>1, <2>2, <2>4, <2>5 DEF Trail!Next
<1>2. ASSUME NEW c \in Callers, Insert(c) PROVE Trail!Next
  <2>1. PICK status \in {"pending", "read"} :
          TrailNow' = TrailNow \cup {[call |-> Current(c), status |-> status]}
    BY <1>2, TrailInsert
  <2>2. Current(c) \in Calls /\ pc[c] \in Guarded /\ UNCHANGED effects
    BY <1>2, CurrentIsCall DEF Insert, Guarded, history
  <2>3. \A t \in TrailNow : t.call # Current(c)
    BY <2>2 DEF Fresh
  <2>4. Trail!Open(Current(c), status)
    BY <2>1, <2>2, <2>3 DEF Trail!Open, Trail!HasRow, Trail!Entry
  <2> QED BY <2>2, <2>4 DEF Trail!Next
<1>3. ASSUME NEW i, NEW status \in Statuses, NEW who, Resolve(i, status, who),
             UNCHANGED <<archives, effects>>
      PROVE  Trail!Next
  <2>1. db[i].call \in Calls
    BY <1>3, RowTypes DEF Resolve
  <2>2. Trail!Close(db[i].call, status)
    BY <1>3, TrailResolve DEF Trail!Close, Trail!Entry
  <2> QED BY <2>1, <2>2 DEF Trail!Next
<1>4. ASSUME NEW c \in Callers, FinishWrite(c) PROVE Trail!Next
  <2>1. PICK s \in Statuses : Resolve(intent[c], s, Current(c))
    BY <1>4 DEF FinishWrite
  <2> QED BY <1>4, <2>1, <1>3 DEF FinishWrite, history
<1>5. ASSUME NEW i \in DOMAIN db, Reconcile(i) PROVE Trail!Next
  BY <1>5, <1>3, StatusAssumption DEF Reconcile, history
<1>6. ASSUME NEW c \in Callers, Rename(c) PROVE UNCHANGED <<TrailNow, effects>>
  BY <1>6, TrailRename DEF Rename, history
<1>7. ASSUME NEW c \in Callers, Reinit(c) PROVE Trail!Next
  <2>1. Archived' \subseteq Archived /\ RowsOf(db)' = RowsOf(db) /\ UNCHANGED effects
    BY <1>7, TrailReinit DEF Reinit, history
  <2>2. TrailNow' = RowsOf(db)' \cup Archived'
    BY DEF TrailNow, Archived
  <2>3. Trail!Forget
    BY <2>1, <2>2, TrailSplit DEF Trail!Forget, ArchivedClosed
  <2> QED BY <2>3 DEF Trail!Next
<1>8. ASSUME UNCHANGED <<db, archives, effects>> PROVE UNCHANGED <<TrailNow, effects>>
  BY <1>8, TrailSame
<1>9. ASSUME NEW p \in Procs, Start(p) \/ Crash(p) PROVE UNCHANGED <<db, archives, effects>>
  BY <1>9 DEF Start, Crash, files, history
<1>10. ASSUME NEW c \in Callers,
              \/ Enter(c, TRUE) \/ Enter(c, FALSE) \/ BeginUnavailable(c)
              \/ EnterGuard(c) \/ SkipRotation(c) \/ CheckRotation(c)
              \/ RotationFails(c) \/ LogFails(c) \/ FinishFails(c)
       PROVE  UNCHANGED <<db, archives, effects>>
  BY <1>10 DEF Enter, BeginUnavailable, EnterGuard, SkipRotation, CheckRotation,
               RotationFails, LogFails, FinishFails, files, history
<1>11. CASE UNCHANGED vars
  BY <1>11, <1>8 DEF vars
<1> QED BY <1>1, <1>2, <1>4, <1>5, <1>6, <1>7, <1>8, <1>9, <1>10, <1>11
        DEF Next, CallerStep, BeginWrite, LogRead

(* Where the guard spans the processes, the engine implements the audit     *)
(* trail: no effect without an open intent of its own, closed rows final,   *)
(* only closed rows ever dropped, for any number of processes and callers.  *)
THEOREM EngineImplementsTrail == ASSUME GuardSpans PROVE Spec => ImplementsTrail
<1>1. Init => Trail!Init
  <2>1. Init => db = <<>> /\ archives = <<>> /\ effects = {}
    BY DEF Init
  <2>2. db = <<>> /\ archives = <<>> => TrailNow = {}
    BY DEF TrailNow, RowsOf
  <2> QED BY <2>1, <2>2 DEF Trail!Init
<1>2. RowsInv /\ [Next]_vars => [Trail!Next]_<<TrailNow, effects>>
  BY TrailNext
<1> QED BY <1>1, <1>2, SpecRowsInv, PTL DEF Spec, ImplementsTrail, Trail!Spec

-----------------------------------------------------------------------------
(***************************************************************************)
(* The write gate. A pending row of a live process whose call is over was  *)
(* left by finish_write, which shuts the gate; a call that ends before its *)
(* INSERT has no row yet (Fresh), one that resolves its row has no other   *)
(* (UniqueLive).                                                           *)
(***************************************************************************)
Gate ==
  \A call \in PendingCalls :
    up[Proc(call[1])] /\ call \notin orphans /\ ~ InProgress(call)
      => blocked[Proc(call[1])]

LEMMA PendingTypes ==
  ASSUME RowsInv
  PROVE  /\ PendingCalls \subseteq Calls
         /\ \A call \in PendingCalls : call[1] \in Callers /\ Proc(call[1]) \in Procs
         /\ \A c \in Callers : pc[c] \in {"want"} \cup Guarded => Current(c) \notin PendingCalls
<1>1. PendingCalls \subseteq Calls
  BY RowTypes DEF PendingCalls, RowsInv, IntentInv
<1>2. \A call \in Calls : call[1] \in Callers
  BY DEF Calls
<1>3. \A call \in PendingCalls : [call |-> call, status |-> "pending"] \in TrailNow
  BY DEF PendingCalls, TrailNow, RowsOf
<1> QED BY <1>1, <1>2, <1>3, ProcIsProc DEF RowsInv, Fresh

LEMMA GateNext ==
  ASSUME RowsInv, Gate, [Next]_vars
  PROVE  Gate'
<1> USE PendingTypes
<1> DEFINE Over(call) == ~ InProgress(call)' => ~ InProgress(call)
<1>1. ASSUME PendingCalls' \subseteq PendingCalls, UNCHANGED <<up, orphans>>,
             \A p \in Procs : blocked[p] => blocked'[p],
             \A call \in PendingCalls' : Over(call) \/ blocked'[Proc(call[1])]
      PROVE  Gate'
  BY <1>1 DEF Gate
<1>2. UNCHANGED db => PendingCalls' = PendingCalls
  BY DEF PendingCalls
<1>3. pc \in [Callers -> Places] /\ calls \in [Callers -> Nat] /\ blocked \in [Procs -> BOOLEAN]
      /\ up \in [Procs -> BOOLEAN]
  BY DEF RowsInv, IntentInv, TypeOK
<1>4. ASSUME NEW c \in Callers, NEW place \in Places \ {"idle"}, pc[c] # "idle", Go(c, place),
             UNCHANGED calls
      PROVE  \A call \in PendingCalls : Over(call)
  BY <1>3, <1>4 DEF Go, InProgress
<1>5. ASSUME NEW c \in Callers, Leave({c}), UNCHANGED calls
      PROVE  \A call \in PendingCalls : call # Current(c) => Over(call)
  <2> SUFFICES ASSUME NEW call \in PendingCalls, call # Current(c), InProgress(call)
               PROVE  InProgress(call)'
    OBVIOUS
  <2>1. call \in Calls /\ call[1] \in Callers
    OBVIOUS
  <2>2. call = <<call[1], call[2]>>
    BY <2>1 DEF Calls
  <2>3. call[1] # c
    BY <2>2 DEF InProgress, Current
  <2> QED BY <1>3, <1>5, <2>1, <2>3 DEF Leave, InProgress
<1>6. ASSUME NEW p \in Procs, Start(p) PROVE Gate'
  <2>1. PendingCalls' = PendingCalls /\ UNCHANGED <<pc, calls, blocked>>
    BY <1>6, <1>2 DEF Start
  <2>2. /\ up' = [up EXCEPT ![p] = TRUE]
        /\ orphans' = {call \in PendingCalls : Proc(call[1]) = p \/ call \in orphans}
    BY <1>6 DEF Start
  <2> QED BY <1>3, <2>1, <2>2 DEF Gate, InProgress
<1>7. ASSUME NEW p \in Procs, Crash(p) PROVE Gate'
  <2>1. PendingCalls' = PendingCalls /\ UNCHANGED <<calls, orphans>>
    BY <1>7, <1>2 DEF Crash, files, history
  <2>2. /\ up' = [up EXCEPT ![p] = FALSE]
        /\ blocked' = [blocked EXCEPT ![p] = FALSE]
        /\ pc' = [c \in Callers |-> IF c \in {d \in Callers : Proc(d) = p} THEN "idle" ELSE pc[c]]
    BY <1>7 DEF Crash, Leave
  <2> QED BY <1>3, <2>1, <2>2 DEF Gate, InProgress
<1>8. ASSUME NEW c \in Callers, NEW write \in BOOLEAN, Enter(c, write) PROVE Gate'
  <2>1. \A call \in PendingCalls : Over(call)
    BY <1>3, <1>8 DEF Enter, Go, InProgress
  <2> QED BY <1>1, <1>2, <1>8, <2>1 DEF Enter, engine, files, history
<1>9. ASSUME NEW c \in Callers, BeginUnavailable(c) PROVE Gate'
  <2>1. \A call \in PendingCalls : Over(call)
    BY <1>9 DEF BeginUnavailable, InProgress
  <2>2. \A p \in Procs : blocked[p] => blocked'[p]
    BY <1>3, <1>9 DEF BeginUnavailable, Block
  <2> QED BY <1>1, <1>2, <1>9, <2>1, <2>2 DEF BeginUnavailable, files, history
<1>10. ASSUME NEW c \in Callers, UNCHANGED <<calls, up, blocked, orphans>>,
              EnterGuard(c) \/ SkipRotation(c) \/ CheckRotation(c) \/ RotationFails(c)
              \/ Rename(c) \/ Reinit(c) \/ Execute(c)
       PROVE  Gate'
  <2>1. PICK place \in Places \ {"idle"} : Go(c, place) /\ pc[c] # "idle"
    BY <1>10 DEF EnterGuard, SkipRotation, CheckRotation, RotationFails, Rename, Reinit, Execute,
                 Places
  <2>2. PendingCalls' \subseteq PendingCalls
    BY <1>10 DEF EnterGuard, SkipRotation, CheckRotation, RotationFails, Rename, Reinit, Execute,
                 files, PendingCalls
  <2> QED BY <1>1, <1>4, <1>10, <2>1, <2>2
<1>11. ASSUME NEW c \in Callers, Insert(c) PROVE Gate'
  <2>1. db \in Seq(Rows) /\ strict[c] \in BOOLEAN
    BY DEF RowsInv, IntentInv, TypeOK
  <2>2. Current(c) \notin PendingCalls /\ pc[c] = "insert"
    BY <1>11 DEF Insert, Guarded
  <2>3. UNCHANGED <<calls, up, blocked, orphans>>
    BY <1>11 DEF Insert, engine, history
  <2>4. CASE strict[c]
    <3>1. db' = Append(db, Row(Current(c), "pending")) /\ Go(c, "upstream")
      BY <1>11, <2>4 DEF Insert
    <3>2. PendingCalls' \subseteq PendingCalls \cup {Current(c)}
      BY <2>1, <3>1 DEF PendingCalls, Row
    <3>3. \A call : call = Current(c) => InProgress(call)'
      BY <1>3, <2>3, <3>1 DEF Go, InProgress, Current
    <3>4. \A call \in PendingCalls : Over(call)
      BY <1>4, <2>2, <2>3, <3>1 DEF Places
    <3>5. ASSUME NEW call \in PendingCalls', up[Proc(call[1])], call \notin orphans,
                 ~ InProgress(call)'
          PROVE  blocked[Proc(call[1])]
      <4>1. call \in PendingCalls
        BY <3>2, <3>3, <3>5
      <4> QED BY <3>4, <3>5, <4>1 DEF Gate
    <3> QED BY <2>3, <3>5 DEF Gate
  <2>5. CASE ~ strict[c]
    <3>1. db' = Append(db, Row(Current(c), "read")) /\ Leave({c})
      BY <1>11, <2>5 DEF Insert
    <3>2. PendingCalls' \subseteq PendingCalls
      BY <2>1, <3>1 DEF PendingCalls, Row
    <3>3. \A call \in PendingCalls : Over(call)
      BY <1>5, <2>2, <2>3, <3>1
    <3> QED BY <1>1, <2>3, <3>2, <3>3
  <2> QED BY <2>4, <2>5
<1>12. ASSUME NEW c \in Callers, LogFails(c) PROVE Gate'
  <2>1. Current(c) \notin PendingCalls
    BY <1>12 DEF LogFails, CanFail, Guarded
  <2>2. /\ Leave({c}) /\ UNCHANGED <<calls, up, db, orphans>>
        /\ blocked' = [blocked EXCEPT ![Proc(c)] = @ \/ strict[c]]
    BY <1>12 DEF LogFails, files, history
  <2>3. \A p \in Procs : blocked[p] => blocked'[p]
    BY <1>3, <2>2
  <2> QED BY <1>1, <1>2, <1>5, <2>1, <2>2, <2>3
<1>13. ASSUME NEW c \in Callers, FinishFails(c) PROVE Gate'
  <2>1. /\ Leave({c}) /\ UNCHANGED <<calls, up, db, orphans>>
        /\ blocked' = [blocked EXCEPT ![Proc(c)] = TRUE]
    BY <1>13 DEF FinishFails, Block, files, history
  <2>2. /\ \A p \in Procs : blocked[p] => blocked'[p]
        /\ blocked'[Proc(c)]
    BY <1>3, <2>1, ProcIsProc
  <2>3. Current(c)[1] = c
    BY DEF Current
  <2>4. \A call \in PendingCalls : Over(call) \/ blocked'[Proc(call[1])]
    BY <1>5, <2>1, <2>2, <2>3
  <2> QED BY <1>1, <1>2, <2>1, <2>2, <2>4
<1>14. ASSUME NEW i, NEW status \in Statuses, NEW who, Resolve(i, status, who)
       PROVE  PendingCalls' \subseteq PendingCalls \ {db[i].call}
  <2>1. /\ i \in DOMAIN db /\ DOMAIN db' = DOMAIN db
        /\ db'[i].status = status
        /\ \A j \in DOMAIN db \ {i} : db'[j] = db[j]
    <3>1. db \in Seq(Rows) /\ \A j \in DOMAIN db : db[j] \in Rows
      BY RowTypes DEF RowsInv, IntentInv
    <3>2. i \in DOMAIN db /\ db' = [db EXCEPT ![i] = [db[i] EXCEPT !.status = status, !.by = who]]
      BY <1>14 DEF Resolve
    <3> QED BY <3>1, <3>2 DEF Rows
  <2>2. \A j \in DOMAIN db : db[j].call = db[i].call => j = i
    BY <2>1 DEF RowsInv, UniqueLive
  <2> QED BY <2>1, <2>2, StatusAssumption DEF PendingCalls
<1>15. ASSUME NEW c \in Callers, FinishWrite(c) PROVE Gate'
  <2>1. PICK s \in Statuses : Resolve(intent[c], s, Current(c))
    BY <1>15 DEF FinishWrite
  <2>2. db[intent[c]].call = Current(c)
    BY <1>15, HeldRow DEF FinishWrite, Running, RowsInv, IntentInv
  <2>3. PendingCalls' \subseteq PendingCalls \ {Current(c)}
    BY <1>14, <2>1, <2>2
  <2>4. Leave({c}) /\ UNCHANGED <<calls, up, blocked, orphans>>
    BY <1>15 DEF FinishWrite, engine, history
  <2> QED BY <1>1, <1>5, <2>3, <2>4
<1>16. ASSUME NEW i \in DOMAIN db, Reconcile(i) PROVE Gate'
  <2>1. PendingCalls' \subseteq PendingCalls
    BY <1>14, <1>16, StatusAssumption DEF Reconcile
  <2>2. UNCHANGED <<pc, calls, up, blocked, orphans>>
    BY <1>16 DEF Reconcile, engine, history
  <2>3. \A call \in PendingCalls : Over(call)
    BY <2>2 DEF InProgress
  <2> QED BY <1>1, <2>1, <2>2, <2>3
<1>17. CASE UNCHANGED vars
  BY <1>17, <1>2 DEF vars, Gate, InProgress
<1>18. ASSUME NEW c \in Callers,
              EnterGuard(c) \/ SkipRotation(c) \/ CheckRotation(c) \/ RotationFails(c)
              \/ Rename(c) \/ Reinit(c) \/ Execute(c)
       PROVE  UNCHANGED <<calls, up, blocked, orphans>>
  BY <1>18 DEF EnterGuard, SkipRotation, CheckRotation, RotationFails, Rename, Reinit, Execute,
               engine, history
<1> QED BY <1>6, <1>7, <1>8, <1>9, <1>10, <1>11, <1>12, <1>13, <1>15, <1>16, <1>17, <1>18
        DEF Next, CallerStep, BeginWrite, LogRead

(* Only a write is sent: a read is over with its INSERT.                    *)
OnlyWritesRun == \A c \in Callers : pc[c] \in Running => strict[c]

LEMMA OnlyWritesNext ==
  ASSUME TypeOK, OnlyWritesRun, [Next]_vars
  PROVE  OnlyWritesRun'
<1>1. /\ pc \in [Callers -> Places] /\ strict \in [Callers -> BOOLEAN]
  BY DEF TypeOK
<1>2. ASSUME \A d \in Callers : pc'[d] \in Running => pc[d] \in Running /\ strict'[d] = strict[d]
      PROVE  OnlyWritesRun'
  BY <1>2 DEF OnlyWritesRun
<1>3. ASSUME NEW S, Leave(S) PROVE OnlyWritesRun'
  BY <1>2, <1>3 DEF Leave, Running
<1>4. ASSUME NEW c \in Callers, NEW place, Go(c, place), UNCHANGED strict,
             place \in Running => strict[c]
      PROVE  OnlyWritesRun'
  BY <1>1, <1>4 DEF Go, OnlyWritesRun
<1>5. ASSUME NEW c \in Callers, NEW write \in BOOLEAN, Enter(c, write) PROVE OnlyWritesRun'
  BY <1>1, <1>2, <1>5 DEF Enter, Go, Running
<1>6. ASSUME NEW c \in Callers,
             \/ EnterGuard(c) \/ SkipRotation(c) \/ CheckRotation(c) \/ RotationFails(c)
             \/ Rename(c) \/ Reinit(c)
      PROVE  OnlyWritesRun'
  <2>1. UNCHANGED strict /\ \E place \in Guarded : Go(c, place)
    BY <1>6 DEF EnterGuard, SkipRotation, CheckRotation, RotationFails, Rename, Reinit, Guarded
  <2> QED BY <1>4, <2>1 DEF Guarded, Running
<1>7. ASSUME NEW c \in Callers, Insert(c) PROVE OnlyWritesRun'
  BY <1>3, <1>4, <1>7 DEF Insert
<1>8. ASSUME NEW c \in Callers, Execute(c) PROVE OnlyWritesRun'
  <2>1. strict[c] /\ Go(c, "finish") /\ UNCHANGED strict
    BY <1>8 DEF Execute, OnlyWritesRun, Running
  <2> QED BY <1>4, <2>1
<1>9. ASSUME NEW c \in Callers, LogFails(c) \/ FinishWrite(c) \/ FinishFails(c)
      PROVE  OnlyWritesRun'
  BY <1>3, <1>9 DEF LogFails, FinishWrite, FinishFails
<1>10. ASSUME NEW p \in Procs, Start(p) \/ Crash(p) PROVE OnlyWritesRun'
  BY <1>2, <1>3, <1>10 DEF Start, Crash
<1>11. ASSUME UNCHANGED <<pc, strict>> PROVE OnlyWritesRun'
  BY <1>2, <1>11
<1>12. ASSUME NEW c \in Callers, BeginUnavailable(c) PROVE OnlyWritesRun'
  BY <1>11, <1>12 DEF BeginUnavailable
<1>13. ASSUME NEW i \in DOMAIN db, Reconcile(i) PROVE OnlyWritesRun'
  BY <1>11, <1>13 DEF Reconcile
<1>14. CASE UNCHANGED vars
  BY <1>11, <1>14 DEF vars
<1> QED BY <1>5, <1>6, <1>7, <1>8, <1>9, <1>10, <1>12, <1>13, <1>14
        DEF Next, CallerStep, BeginWrite, LogRead

(* A closed gate admits nobody, and what is sent is of a call admitted.     *)
LEMMA ShutAdmitsNobody ==
  ASSUME TypeOK, OnlyWritesRun, [Next]_vars, NEW p \in Procs, blocked[p]
  PROVE  /\ Admitted(p)' \subseteq Admitted(p)
         /\ \A call \in effects' \ effects : Proc(call[1]) = p => call \in Admitted(p)
<1> DEFINE Goal == /\ Admitted(p)' \subseteq Admitted(p)
                   /\ \A call \in effects' \ effects : Proc(call[1]) = p => call \in Admitted(p)
<1>1. /\ pc \in [Callers -> Places] /\ calls \in [Callers -> Nat]
      /\ strict \in [Callers -> BOOLEAN]
  BY DEF TypeOK
<1>2. ASSUME \A d \in Callers : Proc(d) = p /\ pc'[d] # "idle" /\ strict'[d] =>
                pc[d] # "idle" /\ strict[d] /\ calls'[d] = calls[d],
             UNCHANGED effects
      PROVE  Goal
  BY <1>2 DEF Admitted, Current
<1>3. ASSUME NEW S, Leave(S), UNCHANGED <<calls, effects>> PROVE Goal
  BY <1>1, <1>2, <1>3 DEF Leave
<1>4. ASSUME NEW c \in Callers, NEW place, Go(c, place), pc[c] # "idle",
             UNCHANGED <<calls, strict>>
      PROVE  Admitted(p)' \subseteq Admitted(p)
  BY <1>1, <1>4 DEF Go, Admitted, Current
<1>5. ASSUME NEW c \in Callers, LogRead(c) PROVE Goal
  BY <1>1, <1>2, <1>5 DEF LogRead, Enter, Go, history
<1>6. ASSUME NEW c \in Callers, BeginWrite(c) PROVE Goal
  <2>1. Proc(c) # p
    BY <1>6 DEF BeginWrite
  <2> QED BY <1>1, <1>2, <1>6, <2>1 DEF BeginWrite, Enter, Go, history
<1>7. ASSUME NEW c \in Callers, Execute(c) PROVE Goal
  <2>1. /\ pc[c] = "upstream" /\ Go(c, "finish") /\ UNCHANGED <<calls, strict>>
        /\ effects' \in {effects, effects \cup {Current(c)}}
    BY <1>7 DEF Execute
  <2>2. strict[c]
    BY <2>1 DEF OnlyWritesRun, Running
  <2>3. \A call \in effects' \ effects : call = Current(c)
    BY <2>1
  <2>4. Proc(c) = p => Current(c) \in Admitted(p)
    BY <2>1, <2>2 DEF Admitted
  <2> QED BY <1>4, <2>1, <2>3, <2>4 DEF Current
<1>8. ASSUME NEW c \in Callers,
             \/ EnterGuard(c) \/ SkipRotation(c) \/ CheckRotation(c) \/ RotationFails(c)
             \/ Rename(c) \/ Reinit(c)
      PROVE  Goal
  <2>1. /\ pc[c] # "idle" /\ UNCHANGED <<calls, strict, effects>>
        /\ \E place \in Places : Go(c, place)
    BY <1>8 DEF EnterGuard, SkipRotation, CheckRotation, RotationFails, Rename, Reinit,
                history, Places
  <2> QED BY <1>4, <2>1
<1>9. ASSUME NEW c \in Callers, Insert(c) PROVE Goal
  <2>1. CASE strict[c]
    BY <1>4, <1>9, <2>1 DEF Insert, history
  <2>2. CASE ~ strict[c]
    BY <1>3, <1>9, <2>2 DEF Insert, history
  <2> QED BY <2>1, <2>2
<1>10. ASSUME NEW c \in Callers, LogFails(c) \/ FinishWrite(c) \/ FinishFails(c) PROVE Goal
  BY <1>3, <1>10 DEF LogFails, FinishWrite, FinishFails, history
<1>11. ASSUME NEW q \in Procs, Start(q) \/ Crash(q) PROVE Goal
  BY <1>2, <1>3, <1>11 DEF Start, Crash, history
<1>12. ASSUME UNCHANGED <<pc, calls, strict, effects>> PROVE Goal
  BY <1>2, <1>12
<1>13. ASSUME NEW c \in Callers, BeginUnavailable(c) PROVE Goal
  BY <1>12, <1>13 DEF BeginUnavailable, history
<1>14. ASSUME NEW i \in DOMAIN db, Reconcile(i) PROVE Goal
  BY <1>12, <1>14 DEF Reconcile, history
<1>15. CASE UNCHANGED vars
  BY <1>12, <1>15 DEF vars
<1> QED BY <1>5, <1>6, <1>7, <1>8, <1>9, <1>10, <1>11, <1>13, <1>14, <1>15
        DEF Next, CallerStep

(* Where the guard spans the processes: while an intent that a live process *)
(* left behind is pending, none of its threads gets another write past the  *)
(* gate, and what is still sent was past it when the intent leaked.         *)
THEOREM LeaksShutTheGate == ASSUME GuardSpans PROVE Spec => LeakShutsGate
<1>1. Init => Gate
  BY DEF Init, Gate, PendingCalls
<1>2. Spec => []Gate
  BY <1>1, GateNext, SpecRowsInv, PTL DEF Spec
<1> DEFINE Step == \A p \in Procs : up[p] /\ Leaked(p) # {} =>
                     /\ Admitted(p)' \subseteq Admitted(p)
                     /\ \A call \in effects' \ effects : Proc(call[1]) = p => call \in Admitted(p)
<1>3. Spec => []OnlyWritesRun
  <2>1. Init => OnlyWritesRun
    BY DEF Init, OnlyWritesRun, Running
  <2> QED BY <2>1, OnlyWritesNext, TypeCorrect, PTL DEF Spec
<1>4. TypeOK /\ OnlyWritesRun /\ Gate /\ [Next]_vars => Step
  <2> SUFFICES ASSUME TypeOK, OnlyWritesRun, Gate, [Next]_vars,
                      NEW p \in Procs, up[p], Leaked(p) # {}
               PROVE  blocked[p]
    BY ShutAdmitsNobody
  <2> QED BY DEF Gate, Leaked
<1>5. TypeOK /\ OnlyWritesRun /\ Gate /\ [Next]_vars => [Step]_vars
  BY <1>4
<1> QED BY <1>2, <1>3, <1>5, TypeCorrect, PTL DEF Spec, LeakShutsGate

-----------------------------------------------------------------------------
(***************************************************************************)
(* What a reader of the trail may rely on follows from AuditTrail alone:   *)
(* from its steps, and from a call having one row in all the files.        *)
(***************************************************************************)
OneRowACall == \A row, other \in TrailNow : row.call = other.call => row = other

TrailIsRows == \A row \in TrailNow : row = Trail!Entry(row.call, row.status)

(* No open intent is forgotten, a closed row says the same for as long as   *)
(* it is kept, and a write takes effect between the two only.               *)
RowsAreFinal ==
  /\ \A row \in TrailNow : row.status = "pending" => \E next \in TrailNow' : next.call = row.call
  /\ \A row \in TrailNow, next \in TrailNow' :
       next.call = row.call /\ row.status # "pending" => next = row
  /\ \A call \in effects' \ effects :
       Trail!Entry(call, "pending") \in TrailNow \cap TrailNow'

LEMMA Entries ==
  ASSUME NEW call, NEW status
  PROVE  Trail!Entry(call, status).call = call /\ Trail!Entry(call, status).status = status
BY DEF Trail!Entry

LEMMA OneRowNext ==
  ASSUME OneRowACall, TrailIsRows, [Trail!Next]_<<TrailNow, effects>>
  PROVE  OneRowACall' /\ TrailIsRows' /\ RowsAreFinal
<1>1. ASSUME NEW call, NEW status, Trail!Open(call, status)
      PROVE  OneRowACall' /\ TrailIsRows' /\ RowsAreFinal
  <2>1. /\ \A row \in TrailNow : row.call # call
        /\ TrailNow' = TrailNow \cup {Trail!Entry(call, status)}
        /\ effects' = effects
    BY <1>1 DEF Trail!Open, Trail!HasRow
  <2> QED BY <2>1, Entries DEF OneRowACall, TrailIsRows, RowsAreFinal
<1>2. ASSUME NEW call, Trail!TakeEffect(call)
      PROVE  OneRowACall' /\ TrailIsRows' /\ RowsAreFinal
  <2>1. /\ TrailNow' = TrailNow /\ effects' = effects \cup {call}
        /\ Trail!Entry(call, "pending") \in TrailNow
    BY <1>2 DEF Trail!TakeEffect
  <2> QED BY <2>1 DEF OneRowACall, TrailIsRows, RowsAreFinal
<1>3. ASSUME NEW call, NEW status, Trail!Close(call, status)
      PROVE  OneRowACall' /\ TrailIsRows' /\ RowsAreFinal
  <2> DEFINE open == Trail!Entry(call, "pending")
             closed == Trail!Entry(call, status)
  <2>1. /\ open \in TrailNow /\ TrailNow' = (TrailNow \ {open}) \cup {closed}
        /\ effects' = effects
    BY <1>3 DEF Trail!Close
  <2>2. open.call = call /\ open.status = "pending" /\ closed.call = call /\ closed.status = status
    BY Entries
  <2> HIDE DEF open, closed
  <2>3. \A row \in TrailNow : row.call = call => row = open
    BY <2>1, <2>2 DEF OneRowACall
  <2>4. OneRowACall'
    BY <2>1, <2>2, <2>3 DEF OneRowACall
  <2>5. TrailIsRows'
    BY <2>1, <2>2 DEF TrailIsRows, closed
  <2>6. RowsAreFinal
    BY <2>1, <2>2, <2>3 DEF RowsAreFinal, OneRowACall
  <2> QED BY <2>4, <2>5, <2>6
<1>4. ASSUME Trail!Forget PROVE OneRowACall' /\ TrailIsRows' /\ RowsAreFinal
  <2>1. /\ TrailNow' \subseteq TrailNow /\ effects' = effects
        /\ \A row \in TrailNow \ TrailNow' : row.status # "pending"
    BY <1>4 DEF Trail!Forget
  <2> QED BY <2>1 DEF OneRowACall, TrailIsRows, RowsAreFinal
<1>5. CASE UNCHANGED <<TrailNow, effects>>
  BY <1>5 DEF OneRowACall, TrailIsRows, RowsAreFinal
<1> QED BY <1>1, <1>2, <1>3, <1>4, <1>5 DEF Trail!Next

(* Where the guard spans the processes: in the live file and all archives   *)
(* together a call has one row, which is never lost while it is pending,    *)
(* never changed once it is closed, and pending whenever the call's write   *)
(* takes effect, whatever was rotated, retried, resolved or killed.         *)
THEOREM RowsStayFinal ==
  ASSUME GuardSpans
  PROVE  Spec => []OneRowACall /\ [][RowsAreFinal]_<<TrailNow, effects>>
<1>1. Trail!Init => OneRowACall /\ TrailIsRows
  BY DEF Trail!Init, OneRowACall, TrailIsRows
<1>2. OneRowACall /\ TrailIsRows /\ [Trail!Next]_<<TrailNow, effects>>
        => OneRowACall' /\ TrailIsRows' /\ RowsAreFinal
  BY OneRowNext
<1> QED BY <1>1, <1>2, EngineImplementsTrail, PTL DEF ImplementsTrail, Trail!Spec

-----------------------------------------------------------------------------
(***************************************************************************)
(* The guard itself, with fcntl or without.                                *)
(***************************************************************************)
Living == \A c \in Callers : pc[c] # "idle" => up[Proc(c)]

(* Who waits for the guard waits for a thread inside it, whose process is   *)
(* running: never for one that has returned, failed or died.                *)
GuardOwned ==
  \A p \in Procs : holder[p] # None =>
    /\ up[p] /\ holder[p] \in Callers
    /\ Proc(holder[p]) = p /\ pc[holder[p]] \in Guarded

LEMMA OwnedNext ==
  ASSUME TypeOK, Living, GuardOwned, [Next]_vars
  PROVE  Living' /\ GuardOwned'
<1> USE ProcIsProc, NoneAssumption
<1>1. ASSUME NEW p \in Procs, Start(p) PROVE Living' /\ GuardOwned'
  <2>1. \A q \in Procs : up[q] => up'[q]
    BY <1>1 DEF Start, TypeOK
  <2>2. UNCHANGED <<pc, holder>>
    BY <1>1 DEF Start
  <2> QED BY <2>1, <2>2 DEF Living, GuardOwned
<1>2. ASSUME NEW p \in Procs, Crash(p) PROVE Living' /\ GuardOwned'
  <2>1. /\ holder' = [holder EXCEPT ![p] = None] /\ up' = [up EXCEPT ![p] = FALSE]
        /\ Leave({c \in Callers : Proc(c) = p})
    BY <1>2 DEF Crash
  <2>2. \A q \in Procs : q # p => up'[q] = up[q] /\ holder'[q] = holder[q]
    BY <2>1 DEF TypeOK
  <2>3. \A d \in Callers : Proc(d) # p => pc'[d] = pc[d]
    BY <2>1 DEF Leave
  <2>4. \A d \in Callers : pc'[d] # "idle" => Proc(d) # p
    BY <2>1 DEF Leave
  <2>5. holder'[p] = None
    BY <2>1 DEF TypeOK
  <2> QED BY <2>2, <2>3, <2>4, <2>5 DEF Living, GuardOwned
<1>3. ASSUME NEW c \in Callers, NEW place, Go(c, place), UNCHANGED <<up, holder>>, pc[c] # "idle",
             pc[c] \in Guarded => place \in Guarded
      PROVE  Living' /\ GuardOwned'
  <2>1. \A d \in Callers : pc'[d] = IF d = c THEN place ELSE pc[d]
    BY <1>3, GoPlace
  <2> QED BY <1>3, <2>1 DEF Living, GuardOwned
<1>4. ASSUME NEW c \in Callers, NEW write, Enter(c, write) PROVE Living' /\ GuardOwned'
  <2>1. /\ up[Proc(c)] /\ pc[c] = "idle" /\ UNCHANGED <<up, holder>>
        /\ \A d \in Callers : pc'[d] = IF d = c THEN "want" ELSE pc[d]
    BY <1>4, GoPlace DEF Enter
  <2> QED BY <2>1 DEF Living, GuardOwned, Guarded
<1>5. ASSUME NEW c \in Callers, EnterGuard(c) PROVE Living' /\ GuardOwned'
  <2>1. /\ holder' = [holder EXCEPT ![Proc(c)] = c] /\ pc[c] = "want" /\ UNCHANGED up
        /\ \A d \in Callers : pc'[d] = IF d = c THEN "locked" ELSE pc[d]
    BY <1>5, GoPlace DEF EnterGuard
  <2>2. \A p \in Procs : holder'[p] = IF p = Proc(c) THEN c ELSE holder[p]
    BY <2>1 DEF TypeOK
  <2> QED BY <2>1, <2>2 DEF Living, GuardOwned, Guarded
<1>6. ASSUME NEW c \in Callers, Insert(c) \/ LogFails(c) PROVE Living' /\ GuardOwned'
  <2>1. /\ UNCHANGED up /\ pc[c] # "idle"
        /\ \A d \in Callers : d # c => pc'[d] = pc[d]
    <3>1. CASE Leave({c})
      BY <1>6, <3>1 DEF Leave, Insert, LogFails, CanFail
    <3>2. CASE Go(c, "upstream")
      BY <1>6, <3>2, GoPlace DEF Insert, LogFails, CanFail
    <3> QED BY <1>6, <3>1, <3>2 DEF Insert, LogFails
  <2>2. \A p \in Procs : holder'[p] # None => holder[p] = holder'[p] /\ holder[p] # c
    <3>1. CASE holder' = [holder EXCEPT ![Proc(c)] = None]
      BY <3>1 DEF TypeOK, GuardOwned
    <3>2. CASE holder' = holder /\ pc[c] = "want"
      BY <3>2 DEF GuardOwned, Guarded
    <3> QED BY <1>6, <3>1, <3>2 DEF Insert, LogFails, Release, CanFail
  <2> QED BY <2>1, <2>2 DEF Living, GuardOwned
<1>7. ASSUME NEW c \in Callers, SkipRotation(c) \/ CheckRotation(c) \/ RotationFails(c)
                                \/ Rename(c) \/ Reinit(c) \/ Execute(c)
      PROVE  Living' /\ GuardOwned'
  <2>1. /\ UNCHANGED <<up, holder>> /\ pc[c] # "idle"
        /\ \/ \E place \in Guarded : Go(c, place)
           \/ pc[c] \notin Guarded /\ Go(c, "finish")
    BY <1>7 DEF SkipRotation, CheckRotation, RotationFails, Rename, Reinit, Execute, Guarded
  <2> QED BY <2>1, <1>3
<1>8. ASSUME NEW c \in Callers, FinishWrite(c) \/ FinishFails(c) PROVE Living' /\ GuardOwned'
  <2>1. /\ UNCHANGED <<up, holder>> /\ pc[c] = "finish"
        /\ \A d \in Callers : d # c => pc'[d] = pc[d]
    BY <1>8 DEF FinishWrite, FinishFails, Leave
  <2>2. pc'[c] = "idle"
    BY <1>8 DEF FinishWrite, FinishFails, Leave
  <2> QED BY <2>1, <2>2 DEF Living, GuardOwned, Guarded
<1>9. ASSUME UNCHANGED <<pc, up, holder>> PROVE Living' /\ GuardOwned'
  BY <1>9 DEF Living, GuardOwned
<1>10. ASSUME NEW c \in Callers, BeginUnavailable(c) PROVE Living' /\ GuardOwned'
  BY <1>9, <1>10 DEF BeginUnavailable
<1>11. ASSUME NEW i \in DOMAIN db, Reconcile(i) PROVE Living' /\ GuardOwned'
  BY <1>9, <1>11 DEF Reconcile
<1>12. CASE UNCHANGED vars
  BY <1>9, <1>12 DEF vars
<1> QED BY <1>1, <1>2, <1>4, <1>5, <1>6, <1>7, <1>8, <1>10, <1>11, <1>12
        DEF Next, CallerStep, BeginWrite, LogRead

(* The rotation guard is never left taken: by whatever exception, rotation  *)
(* failure or crash a caller leaves, its holder is inside a guarded section *)
(* of a process that runs, on any platform.                                 *)
THEOREM GuardIsOwned == Spec => []GuardOwned
<1>1. Init => Living /\ GuardOwned
  BY ProcIsProc DEF Init, Living, GuardOwned
<1>2. TypeOK /\ Living /\ GuardOwned /\ [Next]_vars => Living' /\ GuardOwned'
  BY OwnedNext
<1> QED BY <1>1, <1>2, TypeCorrect, PTL DEF Spec

=============================================================================
