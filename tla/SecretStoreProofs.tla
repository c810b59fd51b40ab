------------------------- MODULE SecretStoreProofs -------------------------
(***************************************************************************)
(* What the secret store guarantees for any number of commands, servers    *)
(* and targets.  Two arguments carry it.  While no two commands have been  *)
(* inside _persist at a time, the file being written is the temporary one  *)
(* and never the store (TornInv).  And a command that no other overlapped  *)
(* finds the store as its own view has it, except for the target that it   *)
(* is editing (AloneInv).  One editor never meets another (NeverMet).      *)
(***************************************************************************)
EXTENDS SecretStore, TLAPS

KindInv ==
  \A p \in Editors :
    /\ pc[p] # "idle" => job[p].kind \in Kinds /\ job[p].password \in Passwords
    /\ InSession(p) => view[p] \in Blob
    /\ pc[p] \in {"list", "listing"} => job[p].kind = "init"
    /\ pc[p] = "unlock" => job[p].edits = 0
    /\ job[p].kind = "migrate" => job[p].edits <= Len(Plain)
    /\ pc[p] = "rename" => job[p].kind = "migrate" /\ job[p].edits = Len(Plain)
    /\ job[p].kind = "init" /\ pc[p] \in {"write", "replace", "list", "listing"} =>
         job[p].target \in Targets /\ view[p].data[job[p].target] # None

TypeInv == TypeOK /\ KindInv

(* What a step of p leaves alone. *)
Frame(p) ==
  \A o \in Editors \ {p} :
    /\ pc'[o] = pc[o] /\ job'[o] = job[o] /\ view'[o] = view[o]
    /\ listed'[o] = listed[o] /\ fd'[o] = fd[o]

-----------------------------------------------------------------------------
(* Typing. *)

LEMMA NoneIsApart == None \notin Inodes /\ None \notin Blob /\ None \notin Values
  BY ValuesAssumption

LEMMA EmptyIsMap == Empty \in Maps
  BY DEF Empty, Maps

LEMMA LinesAre ==
  /\ Len(Plain) \in Nat
  /\ \A i \in 1 .. Len(Plain) : TargetOf(i) \in Targets /\ Plain[i].value \in Values
  <1>1. Plain \in Seq([key : Keys, value : Values]) /\ KeyTarget \in [Keys -> Targets]
    BY EnvironmentAssumption
  <1>2. ASSUME NEW i \in 1 .. Len(Plain)
        PROVE  TargetOf(i) \in Targets /\ Plain[i].value \in Values
    <2>1. \A S, s : s \in Seq(S) /\ i \in 1 .. Len(s) => s[i] \in S
      OBVIOUS
    <2>2. Plain[i] \in [key : Keys, value : Values]
      BY <1>1, <2>1
    <2> QED BY <1>1, <2>2 DEF TargetOf
  <1> QED BY <1>1, <1>2

LEMMA InitTypes == Init => TypeInv
  <1> SUFFICES ASSUME Init PROVE TypeInv
    OBVIOUS
  <1>1. NoJob \in JobType /\ NoJob.kind = "none"
    BY BoundAssumption DEF NoJob, Job, JobType
  <1>2. [outcome |-> "none", stored |-> FALSE, stale |-> FALSE] \in AnswerType
    BY DEF AnswerType
  <1>3. TypeOK
    <2>1. \A p \in Editors : commands[p] = 0 /\ MaxCommands[p] \in Nat
      BY BoundAssumption DEF Init
    <2>2. env \in {Plain, None} /\ config \subseteq Targets
      BY DEF Init
    <2>3. \A p \in Editors : Persisting(p) <=> fd[p] # None
      BY DEF Init, Persisting
    <2>4. /\ job \in [Editors -> JobType]
          /\ answer \in [Servers -> AnswerType]
      BY <1>1, <1>2 DEF Init
    <2>5. /\ commands \in [Editors -> Nat] /\ \A p \in Editors : commands[p] <= MaxCommands[p]
      BY <2>1 DEF Init
    <2>6. /\ view \in [Editors -> Blob \cup {NoView}]
          /\ listed \in [Editors -> SUBSET Targets]
          /\ fd \in [Editors -> Inodes \cup {None}]
          /\ {enc, tmp} \subseteq Inodes \cup {None}
          /\ content \in [Inodes -> Blob \cup {None}]
          /\ cached \in [Servers -> Blob \cup {None}]
      BY EmptyIsMap DEF Init
    <2> QED BY <2>2, <2>3, <2>4, <2>5, <2>6 DEF Init, TypeOK
  <1>4. KindInv
    BY <1>1 DEF Init, KindInv, InSession
  <1> QED BY <1>3, <1>4 DEF TypeInv

LEMMA OpensBlobs ==
  ASSUME TypeOK, NEW password \in Passwords, NEW store \in Opens(password)
  PROVE  store \in Blob
  BY EmptyIsMap DEF Opens, Blob

LEMMA BeginTypes ==
  ASSUME TypeInv, NEW p \in Editors, NEW kind \in Kinds, NEW password \in Passwords,
         Begin(p, kind, password)
  PROVE  TypeInv' /\ Frame(p)
  <1>1. Job(kind, password) \in JobType
    BY BoundAssumption DEF Job, JobType
  <1>2. TypeOK'
    <2>1. commands' \in [Editors -> Nat] /\ \A o \in Editors : commands'[o] <= MaxCommands[o]
      <3>1. /\ commands \in [Editors -> Nat] /\ \A o \in Editors : commands[o] <= MaxCommands[o]
            /\ commands' = [commands EXCEPT ![p] = @ + 1]
            /\ commands[p] < MaxCommands[p] /\ \A o \in Editors : MaxCommands[o] \in Nat
        BY BoundAssumption DEF TypeInv, TypeOK, Begin
      <3> QED BY <3>1
    <2>2. \A o \in Editors : (Persisting(o) <=> fd[o] # None)'
      BY DEF TypeInv, TypeOK, Begin, Go, Persisting, files
    <2> QED BY <1>1, <2>1, <2>2 DEF TypeInv, TypeOK, Begin, Go, draft, files, server
  <1>3. Frame(p)
    BY DEF TypeInv, TypeOK, Begin, Go, Frame, draft, files
  <1>4. /\ pc'[p] = "unlock" /\ job'[p].kind = kind /\ job'[p].password = password
        /\ job'[p].edits = 0 /\ 0 <= Len(Plain)
    BY LinesAre DEF TypeInv, TypeOK, Begin, Go, Job
  <1>5. KindInv'
    BY <1>3, <1>4 DEF TypeInv, KindInv, Frame, InSession
  <1> QED BY <1>2, <1>3, <1>5 DEF TypeInv

LEMMA UnlockTypes ==
  ASSUME TypeInv, NEW p \in Editors, Unlock(p)
  PROVE  TypeInv' /\ Frame(p)
  <1>1. job[p].kind \in Kinds /\ job[p].password \in Passwords
    BY DEF TypeInv, KindInv, Unlock
  <1>2. PICK store \in Opens(job[p].password) : view' = [view EXCEPT ![p] = store]
    BY DEF Unlock
  <1>3. store \in Blob
    BY <1>1, <1>2, OpensBlobs DEF TypeInv
  <1>4. listed' \in [Editors -> SUBSET Targets]
    BY DEF TypeInv, TypeOK, Unlock
  <1>5. /\ pc[p] = "unlock" /\ pc' = [pc EXCEPT ![p] = "ready"]
        /\ UNCHANGED <<job, commands, fd, enc, tmp, content, clashed, env, config, cached, answer>>
    BY DEF Unlock, Go, files, server
  <1>6. overlapped' \in [Editors -> BOOLEAN]
    BY DEF TypeInv, TypeOK, Unlock
  <1>7. TypeOK'
    BY <1>2, <1>3, <1>4, <1>5, <1>6 DEF TypeInv, TypeOK, Persisting
  <1>8. Frame(p)
    BY <1>2, <1>5 DEF TypeInv, TypeOK, Unlock, Frame
  <1>9. pc'[p] = "ready" /\ view'[p] = store /\ job'[p] = job[p]
    BY <1>2, <1>5 DEF TypeInv, TypeOK
  <1>10. KindInv'
    BY <1>1, <1>3, <1>8, <1>9 DEF TypeInv, KindInv, Frame, InSession
  <1> QED BY <1>7, <1>8, <1>10 DEF TypeInv

(* A command that ends, whatever it leaves in the files. *)
LEMMA EndTypes ==
  ASSUME TypeInv, NEW p \in Editors, End(p), UNCHANGED <<commands, overlapped>>,
         {enc, tmp}' \subseteq Inodes \cup {None}, content' \in [Inodes -> Blob \cup {None}],
         env' \in {Plain, None}, UNCHANGED <<clashed, config, server>>
  PROVE  TypeInv' /\ Frame(p)
  <1>1. NoJob \in JobType /\ NoJob.kind = "none"
    BY BoundAssumption DEF NoJob, Job, JobType
  <1>2. TypeOK'
    BY <1>1, NoneIsApart, EmptyIsMap DEF TypeInv, TypeOK, End, Go, Persisting, server
  <1>3. Frame(p)
    BY DEF TypeInv, TypeOK, End, Go, Frame
  <1>4. pc'[p] = "idle" /\ job'[p] = NoJob
    BY DEF TypeInv, TypeOK, End, Go
  <1>5. KindInv'
    BY <1>1, <1>3, <1>4 DEF TypeInv, KindInv, Frame, InSession
  <1> QED BY <1>2, <1>3, <1>5 DEF TypeInv

(* The record of a command, one edit on. *)
LEMMA AnEdit ==
  ASSUME NEW j \in JobType, NEW t \in Targets \cup {None}
  PROVE  [j EXCEPT !.target = t, !.edits = @ + 1] \in JobType
  <1>1. j.edits + 1 \in Nat
    BY DEF JobType
  <1>2. \A n \in Nat : [j EXCEPT !.target = t, !.edits = n] \in JobType
    BY DEF JobType
  <1> QED BY <1>1, <1>2

LEMMA EditTypes ==
  ASSUME TypeInv, NEW p \in Editors, NEW store \in Blob, NEW t \in Targets \cup {None},
         Edit(p, store, t), job[p].kind = "migrate" => job[p].edits < Len(Plain),
         job[p].kind = "init" => t \in Targets /\ store.data[t] # None
  PROVE  /\ TypeInv' /\ Frame(p)
         /\ pc'[p] = "write" /\ view'[p] = store
         /\ job'[p].kind = job[p].kind /\ job'[p].target = t
         /\ job'[p].edits = job[p].edits + 1
  <1>1. PICK n \in Inodes :
          /\ n \in IF tmp # None THEN {tmp} ELSE Inodes \ ({enc} \cup {fd[o] : o \in Editors})
          /\ tmp' = n /\ fd' = [fd EXCEPT ![p] = n] /\ content' = [content EXCEPT ![n] = None]
    BY DEF TypeInv, TypeOK, Edit, OpenTmp
  <1>2. /\ pc[p] = "ready" /\ pc' = [pc EXCEPT ![p] = "write"]
        /\ view' = [view EXCEPT ![p] = store]
        /\ job' = [job EXCEPT ![p].target = t, ![p].edits = @ + 1]
        /\ UNCHANGED <<commands, overlapped, listed, env, config, cached, answer, enc>>
        /\ clashed' \in BOOLEAN
    BY DEF TypeInv, TypeOK, Edit, OpenTmp, Go, server
  <1>3. job'[p] \in JobType /\ job' \in [Editors -> JobType]
    <2>1. job[p] \in JobType
      BY DEF TypeInv, TypeOK
    <2>2. [job[p] EXCEPT !.target = t, !.edits = @ + 1] \in JobType
      BY <2>1, AnEdit
    <2>3. job' = [job EXCEPT ![p] = [job[p] EXCEPT !.target = t, !.edits = @ + 1]]
      BY <1>2 DEF TypeInv, TypeOK
    <2> QED BY <2>2, <2>3 DEF TypeInv, TypeOK
  <1>4. TypeOK'
    BY <1>1, <1>2, <1>3, NoneIsApart DEF TypeInv, TypeOK, Persisting
  <1>5. Frame(p)
    BY <1>1, <1>2 DEF TypeInv, TypeOK, Frame
  <1>6. /\ pc'[p] = "write" /\ view'[p] = store
        /\ job'[p].kind = job[p].kind /\ job'[p].target = t /\ job'[p].password = job[p].password
        /\ job'[p].edits = job[p].edits + 1
    BY <1>2 DEF TypeInv, TypeOK, JobType
  <1>7. KindInv'
    <2>1. job[p].kind \in Kinds /\ job[p].password \in Passwords
      BY <1>2 DEF TypeInv, KindInv
    <2>2. job[p].kind = "migrate" => job'[p].edits <= Len(Plain)
      BY <1>6, LinesAre DEF TypeInv, TypeOK, JobType
    <2> SUFFICES ASSUME NEW o \in Editors, o # p
                 PROVE  pc'[o] = pc[o] /\ job'[o] = job[o] /\ view'[o] = view[o]
      BY <2>1, <2>2, <1>6 DEF TypeInv, KindInv, InSession
    <2> QED BY <1>5 DEF Frame
  <1> QED BY <1>4, <1>5, <1>6, <1>7 DEF TypeInv

(* The four commands that edit: what they give Edit. *)
Edits(p, store, t) ==
  /\ Edit(p, store, t)
  /\ store \in Blob /\ t \in Targets \cup {None}
  /\ job[p].kind = "init" => t \in Targets /\ store.data[t] # None
  /\ \A o \in Targets \ {t} : store.data[o] = view[p].data[o]
  /\ job[p].kind = "migrate" =>
       /\ job[p].edits < Len(Plain) /\ t = TargetOf(job[p].edits + 1)
       /\ store.data[t] = Plain[job[p].edits + 1].value

LEMMA DerivedIs ==
  ASSUME NEW store \in Blob, NEW t \in Targets, NEW value \in Values \cup {None}
  PROVE  /\ Derived(store, t, value) \in Blob
         /\ Derived(store, t, value).data[t] = value
         /\ \A o \in Targets \ {t} : Derived(store, t, value).data[o] = store.data[o]
  <1>1. store.data \in Maps /\ store.password \in Passwords
    BY DEF Blob
  <1>2. Derived(store, t, value) =
          [password |-> store.password, data |-> [store.data EXCEPT ![t] = value]]
    BY DEF Derived, Blob
  <1>3. [store.data EXCEPT ![t] = value] \in Maps
    BY <1>1 DEF Maps
  <1> QED BY <1>1, <1>2, <1>3 DEF Blob, Maps

LEMMA EditingEdits ==
  ASSUME TypeInv, NEW p \in Editors
  PROVE  /\ \A t \in Targets, value \in Values :
              Set(p, t, value) => \E store : Edits(p, store, t)
         /\ \A t \in Targets : Delete(p, t) => \E store : Edits(p, store, t)
         /\ Import(p) => \E t \in Targets : \E store : Edits(p, store, t)
         /\ \A password \in Passwords :
              Rotate(p, password) => \E store : Edits(p, store, None)
  <1>1. pc[p] = "ready" => view[p] \in Blob
    BY DEF TypeInv, KindInv, InSession
  <1>2. job[p].edits \in Nat
    BY DEF TypeInv, TypeOK, JobType
  <1>3. ASSUME NEW t \in Targets, NEW value \in Values, Set(p, t, value)
        PROVE  \E store : Edits(p, store, t)
    <2> DEFINE s == Derived(view[p], t, value)
    <2>1. pc[p] = "ready" /\ Edit(p, s, t) /\ job[p].kind \in {"set", "init"}
      BY <1>3 DEF Set, Edit
    <2>2. s \in Blob /\ s.data[t] = value /\ \A o \in Targets \ {t} : s.data[o] = view[p].data[o]
      BY <1>1, <2>1, DerivedIs
    <2> HIDE DEF s
    <2>3. Edits(p, s, t)
      BY <2>1, <2>2, NoneIsApart DEF Edits
    <2> QED BY <2>3
  <1>4. ASSUME NEW t \in Targets, Delete(p, t)
        PROVE  \E store : Edits(p, store, t)
    <2> DEFINE s == Derived(view[p], t, None)
    <2>1. pc[p] = "ready" /\ Edit(p, s, t) /\ job[p].kind = "rm"
      BY <1>4 DEF Delete, Edit
    <2>2. s \in Blob /\ \A o \in Targets \ {t} : s.data[o] = view[p].data[o]
      BY <1>1, <2>1, DerivedIs
    <2> HIDE DEF s
    <2>3. Edits(p, s, t)
      BY <2>1, <2>2 DEF Edits
    <2> QED BY <2>3
  <1>5. ASSUME Import(p)
        PROVE  \E t \in Targets : \E store : Edits(p, store, t)
    <2> DEFINE line == job[p].edits + 1
               t == TargetOf(line)
               value == Plain[line].value
               s == Derived(view[p], t, value)
    <2>1. /\ pc[p] = "ready" /\ Edit(p, s, t) /\ job[p].kind = "migrate"
          /\ line <= Len(Plain)
      BY <1>5 DEF Import, Edit
    <2>2. line \in 1 .. Len(Plain) /\ job[p].edits < Len(Plain)
      BY <1>2, <2>1, LinesAre
    <2>3. t \in Targets /\ value \in Values
      BY <2>2, LinesAre
    <2>4. s \in Blob /\ s.data[t] = value /\ \A o \in Targets \ {t} : s.data[o] = view[p].data[o]
      BY <1>1, <2>1, <2>3, DerivedIs
    <2> HIDE DEF s
    <2>5. Edits(p, s, t)
      BY <2>1, <2>2, <2>3, <2>4 DEF Edits
    <2> QED BY <2>3, <2>5
  <1>6. ASSUME NEW password \in Passwords, Rotate(p, password)
        PROVE  \E store : Edits(p, store, None)
    <2> DEFINE s == [view[p] EXCEPT !.password = password]
    <2>1. pc[p] = "ready" /\ Edit(p, s, None) /\ job[p].kind = "rotate"
      BY <1>6 DEF Rotate, Edit
    <2>2. s \in Blob /\ s.data = view[p].data
      BY <1>1, <2>1 DEF Blob
    <2> HIDE DEF s
    <2>3. Edits(p, s, None)
      BY <2>1, <2>2 DEF Edits
    <2> QED BY <2>3
  <1> QED BY <1>3, <1>4, <1>5, <1>6

LEMMA WriteTmpTypes ==
  ASSUME TypeInv, NEW p \in Editors, WriteTmp(p)
  PROVE  TypeInv' /\ Frame(p)
  <1>1. fd[p] \in Inodes /\ view[p] \in Blob
    BY DEF TypeInv, TypeOK, KindInv, InSession, Persisting, WriteTmp
  <1>2. /\ pc' = [pc EXCEPT ![p] = "replace"] /\ pc[p] = "write"
        /\ content' = [content EXCEPT ![fd[p]] = view[p]]
        /\ UNCHANGED <<job, commands, overlapped, view, listed, fd, enc, tmp, clashed,
                       env, config, cached, answer>>
    BY DEF WriteTmp, Go, command, draft, server
  <1>3. TypeOK'
    BY <1>1, <1>2 DEF TypeInv, TypeOK, Persisting
  <1>4. KindInv' /\ Frame(p)
    BY <1>2 DEF TypeInv, TypeOK, KindInv, InSession, Frame
  <1> QED BY <1>3, <1>4 DEF TypeInv

(* A step that moves p and touches nothing else but what is listed, config. *)
LEMMA MoveTypes ==
  ASSUME TypeInv, NEW p \in Editors, NEW place \in {"ready", "listing"},
         pc[p] \in {"list", "listing"}, Go(p, place),
         listed' \in [Editors -> SUBSET Targets], config' \subseteq Targets,
         \A o \in Editors \ {p} : listed'[o] = listed[o],
         UNCHANGED <<command, view, files, env, server>>
  PROVE  TypeInv' /\ Frame(p)
  <1>1. TypeOK'
    BY DEF TypeInv, TypeOK, Go, Persisting, command, files, server
  <1>2. KindInv' /\ Frame(p)
    BY DEF TypeInv, TypeOK, KindInv, InSession, Go, Frame, command, files
  <1> QED BY <1>1, <1>2 DEF TypeInv

LEMMA ListingTypes ==
  ASSUME TypeInv, NEW p \in Editors, TruncateConfig(p) \/ WriteConfig(p)
  PROVE  TypeInv' /\ Frame(p)
  <1>1. CASE TruncateConfig(p)
    <2>1. job[p].target \in Targets
      BY <1>1 DEF TypeInv, KindInv, TruncateConfig
    <2>2. /\ listed' \in [Editors -> SUBSET Targets]
          /\ \A o \in Editors \ {p} : listed'[o] = listed[o]
      BY <1>1, <2>1 DEF TypeInv, TypeOK, TruncateConfig
    <2> QED BY <1>1, <2>2, MoveTypes DEF TruncateConfig
  <1>2. CASE WriteConfig(p)
    BY <1>2, MoveTypes DEF WriteConfig, TypeInv, TypeOK, draft
  <1> QED BY <1>1, <1>2

(* The store is in place: fd closed, and whoever has more to do goes on.    *)
LEMMA ContinueTypes ==
  ASSUME TypeInv, NEW p \in Editors, pc[p] = "replace", job[p].kind \in {"migrate", "init"},
         Continue(p), UNCHANGED <<commands, overlapped, clashed, env, config, server>>,
         {enc, tmp}' \subseteq Inodes \cup {None}, content' \in [Inodes -> Blob \cup {None}]
  PROVE  TypeInv' /\ Frame(p)
  <1>1. PICK place \in {"list", "ready", "rename"} :
          /\ pc' = [pc EXCEPT ![p] = place]
          /\ place = "list" => job[p].kind = "init"
          /\ place = "rename" => job[p].kind = "migrate" /\ job[p].edits = Len(Plain)
    <2>1. job[p].edits \in Nat /\ (job[p].kind = "migrate" => job[p].edits <= Len(Plain))
      BY DEF TypeInv, TypeOK, KindInv, JobType
    <2>2. job[p].edits < Len(Plain) \/ job[p].kind = "init" \/ job[p].edits = Len(Plain)
      BY <2>1, LinesAre
    <2> QED BY <2>2 DEF Continue, Go
  <1>2. fd' = [fd EXCEPT ![p] = None] /\ UNCHANGED <<job, view, listed>>
    BY DEF Continue, draft
  <1>3. TypeOK'
    BY <1>1, <1>2 DEF TypeInv, TypeOK, Persisting, server
  <1>4. KindInv' /\ Frame(p)
    BY <1>1, <1>2 DEF TypeInv, TypeOK, KindInv, InSession, Frame
  <1> QED BY <1>3, <1>4 DEF TypeInv

LEMMA EndingTypes ==
  ASSUME TypeInv, NEW p \in Editors, Stop(p) \/ Rename(p) \/ Replace(p)
  PROVE  TypeInv' /\ Frame(p)
  <1>1. CASE Stop(p)
    BY <1>1, EndTypes DEF Stop, TypeInv, TypeOK
  <1>2. CASE Rename(p)
    BY <1>2, EndTypes DEF Rename, TypeInv, TypeOK
  <1>3. CASE Replace(p)
    <2>1. /\ {enc, tmp}' \subseteq Inodes \cup {None}
          /\ content' \in [Inodes -> Blob \cup {None}]
      BY <1>3 DEF Replace, TypeInv, TypeOK
    <2>2. CASE job[p].kind \in {"migrate", "init"}
      BY <1>3, <2>1, <2>2, ContinueTypes DEF Replace
    <2>3. CASE job[p].kind \notin {"migrate", "init"}
      BY <1>3, <2>1, <2>3, EndTypes DEF Replace, TypeInv, TypeOK
    <2> QED BY <2>2, <2>3
  <1> QED BY <1>1, <1>2, <1>3

LEMMA CurrentBlobs ==
  ASSUME TypeInv, NEW q \in Servers
  PROVE  Current(q) \subseteq Blob
  BY OpensBlobs, EnvironmentAssumption DEF Current, TypeInv, TypeOK

(* A lookup leaves the editors alone, and what it answers is so.            *)
LEMMA ServeTypes ==
  ASSUME TypeInv, PassedOverOnlyStale, NEW q \in Servers, Serve(q)
  PROVE  /\ TypeInv' /\ PassedOverOnlyStale'
         /\ UNCHANGED <<pc, command, draft, files, env, config>>
  <1>1. CASE Restart(q)
    BY <1>1 DEF Restart, TypeInv, TypeOK, KindInv, InSession, Persisting, PassedOverOnlyStale,
                command, draft, files
  <1>2. ASSUME NEW t \in Targets, Resolve(q, t)
        PROVE  TypeInv' /\ PassedOverOnlyStale'
    <2> DEFINE new == [outcome |-> LookUp(q, t), stored |-> Stored(t) # None,
                       stale |-> cached[q] # None /\ enc # None /\ cached[q] # content[enc]]
    <2>1. new \in AnswerType
      BY DEF LookUp, Fallback, AnswerType
    <2>2. new.stored /\ new.outcome \in {"legacy", "missing"} => new.stale
      <3> SUFFICES ASSUME Stored(t) # None, LookUp(q, t) \in {"legacy", "missing"}
                   PROVE  cached[q] # None /\ enc # None /\ cached[q] # content[enc]
        OBVIOUS
      <3>1. enc # None /\ content[enc] # None /\ content[enc].data[t] # None
        BY DEF Stored
      <3>2. ~ Refused(q) /\ \A store \in Current(q) : store.data[t] = None
        BY DEF LookUp
      <3>3. CASE cached[q] = None
        <4>1. Current(q) # {}
          BY <3>1, <3>2, <3>3 DEF Refused
        <4>2. Current(q) = {content[enc]}
          BY <4>1, <3>1, <3>3 DEF Current, Opens
        <4> QED BY <4>2, <3>1, <3>2
      <3>4. CASE cached[q] # None
        BY <3>1, <3>2, <3>4 DEF Current
      <3> QED BY <3>3, <3>4
    <2>3. cached' \in [Servers -> Blob \cup {None}]
      BY <1>2, CurrentBlobs DEF Resolve, TypeInv, TypeOK
    <2>4. answer' = [answer EXCEPT ![q] = new]
      BY <1>2 DEF Resolve
    <2> HIDE DEF new
    <2>5. PassedOverOnlyStale'
      BY <2>2, <2>4 DEF PassedOverOnlyStale, TypeInv, TypeOK
    <2> QED BY <1>2, <2>1, <2>3, <2>4, <2>5
            DEF Resolve, TypeInv, TypeOK, KindInv, InSession, Persisting, command, draft, files
  <1>3. UNCHANGED <<pc, command, draft, files, env, config>>
    BY DEF Serve, Restart, Resolve
  <1> QED BY <1>1, <1>2, <1>3 DEF Serve

(* The kinds of step that the invariants tell apart. *)
LEMMA Steps ==
  ASSUME TypeInv, Next
  PROVE  \/ \E p \in Editors, kind \in Kinds, password \in Passwords : Begin(p, kind, password)
         \/ \E p \in Editors : Unlock(p)
         \/ \E p \in Editors, t \in Targets \cup {None} : \E store : Edits(p, store, t)
         \/ \E p \in Editors : WriteTmp(p)
         \/ \E p \in Editors : Stop(p) \/ Rename(p) \/ Replace(p)
         \/ \E p \in Editors : TruncateConfig(p) \/ WriteConfig(p)
         \/ \E q \in Servers : Serve(q)
  <1>1. ASSUME NEW p \in Editors, NEW t \in Targets,
               Delete(p, t) \/ \E value \in Values : Set(p, t, value)
        PROVE  \E store : Edits(p, store, t)
    BY <1>1, EditingEdits
  <1>2. ASSUME NEW p \in Editors, NEW password \in Passwords, Rotate(p, password)
        PROVE  \E store : Edits(p, store, None)
    BY <1>2, EditingEdits
  <1>3. CASE \E p \in Editors : Command(p)
    <2> PICK p \in Editors : Command(p)
      BY <1>3
    <2>1. CASE \E t \in Targets : Delete(p, t) \/ \E value \in Values : Set(p, t, value)
      BY <2>1, <1>1
    <2>2. CASE \E password \in Passwords : Rotate(p, password)
      BY <2>2, <1>2
    <2>3. CASE Import(p)
      BY <2>3, EditingEdits
    <2> QED BY <2>1, <2>2, <2>3 DEF Command
  <1> QED BY <1>3 DEF Next

LEMMA EditsTypes ==
  ASSUME TypeInv, NEW p \in Editors, NEW t \in Targets \cup {None}, NEW store, Edits(p, store, t)
  PROVE  /\ TypeInv' /\ Frame(p)
         /\ pc'[p] = "write" /\ view'[p] = store
         /\ job'[p].kind = job[p].kind /\ job'[p].target = t
         /\ job'[p].edits = job[p].edits + 1
  BY EditTypes DEF Edits

LEMMA NextTypes ==
  ASSUME TypeInv, PassedOverOnlyStale, [Next]_vars
  PROVE  TypeInv' /\ PassedOverOnlyStale'
  <1>1. UNCHANGED answer => PassedOverOnlyStale'
    BY DEF PassedOverOnlyStale
  <1>2. CASE UNCHANGED vars
    BY <1>1, <1>2 DEF vars, TypeInv, TypeOK, KindInv, InSession, Persisting,
                      command, draft, files, server
  <1>3. ASSUME NEW p \in Editors, NEW kind \in Kinds, NEW password \in Passwords,
               Begin(p, kind, password)
        PROVE  TypeInv' /\ UNCHANGED answer
    BY <1>3, BeginTypes DEF Begin, server
  <1>4. ASSUME NEW p \in Editors, Unlock(p)
        PROVE  TypeInv' /\ UNCHANGED answer
    BY <1>4, UnlockTypes DEF Unlock, server
  <1>5. ASSUME NEW p \in Editors, NEW t \in Targets \cup {None}, NEW store, Edits(p, store, t)
        PROVE  TypeInv' /\ UNCHANGED answer
    <2>1. TypeInv'
      BY <1>5, EditsTypes
    <2>2. UNCHANGED answer
      BY <1>5 DEF Edits, Edit, server
    <2> QED BY <2>1, <2>2
  <1>6. ASSUME NEW p \in Editors, WriteTmp(p)
        PROVE  TypeInv' /\ UNCHANGED answer
    BY <1>6, WriteTmpTypes DEF WriteTmp, server
  <1>7. ASSUME NEW p \in Editors, Stop(p) \/ Rename(p) \/ Replace(p)
        PROVE  TypeInv' /\ UNCHANGED answer
    BY <1>7, EndingTypes DEF Stop, Rename, Replace, server
  <1>8. ASSUME NEW p \in Editors, TruncateConfig(p) \/ WriteConfig(p)
        PROVE  TypeInv' /\ UNCHANGED answer
    BY <1>8, ListingTypes DEF TruncateConfig, WriteConfig, server
  <1>9. ASSUME NEW q \in Servers, Serve(q)
        PROVE  TypeInv' /\ PassedOverOnlyStale'
    BY <1>9, ServeTypes
  <1> QED BY <1>1, <1>2, <1>3, <1>4, <1>5, <1>6, <1>7, <1>8, <1>9, Steps

LEMMA TypesAlways == Spec => [](TypeInv /\ PassedOverOnlyStale)
  <1>1. Init => PassedOverOnlyStale
    BY DEF Init, PassedOverOnlyStale
  <1> QED BY <1>1, InitTypes, NextTypes, PTL DEF Spec

(* Type correctness of the store, its commands and its readers.             *)
THEOREM StoreTypeCorrect == Spec => []TypeOK
  BY TypesAlways, PTL DEF TypeInv

(* A lookup passes over a secret that is there only out of an older store   *)
(* that the server has cached, never for its master password.               *)
THEOREM OnlyStaleIsPassedOver == Spec => []PassedOverOnlyStale
  BY TypesAlways, PTL

-----------------------------------------------------------------------------
(* The temporary file. *)

TornInv ==
  /\ tmp # None => tmp # enc
  /\ ~ clashed =>
       /\ \A p, o \in Editors : Persisting(p) /\ Persisting(o) => p = o
       /\ \A p \in Editors : Persisting(p) => fd[p] = tmp
       /\ \A p \in Editors : pc[p] = "replace" => content[fd[p]] # None
       /\ enc # None => content[enc] # None

LEMMA EditTorn ==
  ASSUME TypeInv, TornInv, NEW p \in Editors, NEW t, NEW store, Edit(p, store, t)
  PROVE  TornInv'
  <1>1. PICK n \in Inodes :
          /\ n \in IF tmp # None THEN {tmp} ELSE Inodes \ ({enc} \cup {fd[o] : o \in Editors})
          /\ tmp' = n /\ fd' = [fd EXCEPT ![p] = n] /\ content' = [content EXCEPT ![n] = None]
    BY DEF TypeInv, TypeOK, Edit, OpenTmp
  <1>2. /\ pc[p] = "ready" /\ pc' = [pc EXCEPT ![p] = "write"] /\ enc' = enc
        /\ clashed' = (clashed \/ \E o \in Editors : Persisting(o))
    BY DEF Edit, OpenTmp, Go
  <1>3. n # enc
    BY <1>1 DEF TornInv
  <1>4. ASSUME ~ clashed'
        PROVE  /\ ~ clashed /\ \A o \in Editors : ~ Persisting(o)
               /\ \A o \in Editors : Persisting(o)' => o = p
    BY <1>2, <1>4 DEF TypeInv, TypeOK, Persisting
  <1>5. pc'[p] = "write" /\ fd'[p] = n
    BY <1>1, <1>2 DEF TypeInv, TypeOK
  <1>6. enc # None /\ ~ clashed => content'[enc] # None
    BY <1>1, <1>3 DEF TypeInv, TypeOK, TornInv
  <1> QED BY <1>1, <1>2, <1>3, <1>4, <1>5, <1>6 DEF TornInv, Persisting

LEMMA WriteTmpTorn ==
  ASSUME TypeInv, TornInv, NEW p \in Editors, WriteTmp(p)
  PROVE  TornInv'
  <1>1. /\ pc' = [pc EXCEPT ![p] = "replace"] /\ pc[p] = "write"
        /\ content' = [content EXCEPT ![fd[p]] = view[p]]
        /\ UNCHANGED <<fd, enc, tmp, clashed>>
    BY DEF WriteTmp, Go
  <1>2. view[p] # None /\ fd[p] \in Inodes
    BY <1>1, NoneIsApart DEF TypeInv, TypeOK, KindInv, InSession, Persisting
  <1>3. \A o \in Editors : Persisting(o)' <=> Persisting(o)
    BY <1>1 DEF TypeInv, TypeOK, Persisting
  <1>4. ~ clashed => \A o \in Editors : pc'[o] = "replace" => content'[fd'[o]] # None
    BY <1>1, <1>2 DEF TypeInv, TypeOK, TornInv, Persisting
  <1>5. ~ clashed => (enc # None => content'[enc] # None)
    BY <1>1, <1>2 DEF TypeInv, TypeOK, TornInv
  <1> QED BY <1>1, <1>3, <1>4, <1>5 DEF TornInv

LEMMA ReplaceTorn ==
  ASSUME TypeInv, TornInv, NEW p \in Editors, Replace(p)
  PROVE  TornInv'
  <1>1. /\ pc[p] = "replace" /\ tmp # None /\ tmp \in Inodes /\ tmp # enc
        /\ enc' = tmp /\ tmp' = None /\ clashed' = clashed
        /\ content' = [n \in Inodes |-> IF n = enc THEN None ELSE content[n]]
    BY DEF TypeInv, TypeOK, Replace, TornInv
  <1>2. ~ Persisting(p)' /\ \A o \in Editors \ {p} : pc'[o] = pc[o] /\ fd'[o] = fd[o]
    BY DEF TypeInv, TypeOK, Replace, Continue, End, Go, Persisting
  <1>3. ~ clashed => content'[tmp] # None
    BY <1>1 DEF TornInv, Persisting
  <1>4. ~ clashed => \A o \in Editors : ~ Persisting(o)'
    BY <1>1, <1>2 DEF TornInv, Persisting
  <1> QED BY <1>1, <1>3, <1>4 DEF TornInv, Persisting

(* Any other step only takes editors out of _persist. *)
LEMMA OtherTorn ==
  ASSUME TypeInv, TornInv, UNCHANGED <<enc, tmp, content, clashed>>,
         \A o \in Editors : ~ Persisting(o)' \/ (pc'[o] = pc[o] /\ fd'[o] = fd[o])
  PROVE  TornInv'
  BY DEF TornInv, Persisting

LEMMA NextTorn ==
  ASSUME TypeInv, TornInv, [Next]_vars
  PROVE  TornInv'
  <1>1. CASE UNCHANGED vars
    BY <1>1, OtherTorn DEF vars, files
  <1>2. ASSUME NEW p \in Editors, NEW kind \in Kinds, NEW password \in Passwords,
               Begin(p, kind, password)
        PROVE  TornInv'
    BY <1>2, OtherTorn DEF Begin, Go, files, Persisting, TypeInv, TypeOK
  <1>3. ASSUME NEW p \in Editors, Unlock(p) \/ TruncateConfig(p) \/ WriteConfig(p)
        PROVE  TornInv'
    BY <1>3, OtherTorn DEF Unlock, TruncateConfig, WriteConfig, Go, files, Persisting,
                           TypeInv, TypeOK
  <1>4. ASSUME NEW p \in Editors, NEW t, NEW store, Edits(p, store, t)
        PROVE  TornInv'
    BY <1>4, EditTorn DEF Edits
  <1>5. ASSUME NEW p \in Editors, Stop(p) \/ Rename(p)
        PROVE  TornInv'
    BY <1>5, OtherTorn DEF Stop, Rename, End, Go, Persisting, TypeInv, TypeOK
  <1>6. ASSUME NEW q \in Servers, Serve(q)
        PROVE  TornInv'
    BY <1>6, OtherTorn DEF Serve, Resolve, Restart, files
  <1> QED BY <1>1, <1>2, <1>3, <1>4, <1>5, <1>6, WriteTmpTorn, ReplaceTorn, Steps

LEMMA TornAlways == Spec => []TornInv
  <1>1. Init => TornInv
    BY DEF Init, TornInv, Persisting
  <1> QED BY <1>1, TypesAlways, NextTorn, PTL DEF Spec

(* secrets.enc is a whole blob whenever a command dies or fails, unless two *)
(* commands were inside _persist at a time.                                 *)
THEOREM TornByClashOnly == Spec => []TornOnlyByClash
  <1>1. TornInv => TornOnlyByClash
    BY DEF TornInv, TornOnlyByClash
  <1> QED BY <1>1, TornAlways, PTL

-----------------------------------------------------------------------------
(* A command that no other has overlapped. *)

Alone(p) == InSession(p) /\ ~ overlapped[p]

AloneHolds(p) ==
  /\ \A o \in Editors : InSession(o) => o = p
  /\ Persisting(p) => fd[p] = tmp /\ tmp # enc
  /\ pc[p] = "replace" => content[fd[p]] = view[p]
  /\ \A t \in Targets :
       view[p].data[t] = Stored(t) \/ (Persisting(p) /\ t = job[p].target)
  /\ job[p].kind = "migrate" =>
       env # None /\ Imported(view[p].data, job[p].edits)

AloneInv == \A p \in Editors : Alone(p) => AloneHolds(p)

(* One line more of .env is imported. *)
LEMMA ImportedNext ==
  ASSUME NEW data, NEW new, NEW n \in Nat, n < Len(Plain), Imported(data, n),
         new[TargetOf(n + 1)] = Plain[n + 1].value,
         \A o \in Targets \ {TargetOf(n + 1)} : new[o] = data[o]
  PROVE  Imported(new, n + 1)
  <1> SUFFICES ASSUME NEW i \in 1 .. (n + 1),
                      \A j \in (i + 1) .. (n + 1) : TargetOf(j) # TargetOf(i)
               PROVE  new[TargetOf(i)] = Plain[i].value
    BY DEF Imported
  <1>1. CASE i = n + 1
    BY <1>1
  <1>2. CASE i # n + 1
    <2>1. i \in 1 .. n /\ i \in 1 .. Len(Plain) /\ n + 1 \in (i + 1) .. (n + 1)
      BY <1>2, LinesAre
    <2>2. TargetOf(i) \in Targets /\ TargetOf(n + 1) # TargetOf(i)
      BY <2>1, LinesAre
    <2>3. \A j \in (i + 1) .. n : TargetOf(j) # TargetOf(i)
      BY <2>1
    <2>4. data[TargetOf(i)] = Plain[i].value
      BY <2>1, <2>3 DEF Imported
    <2> QED BY <2>2, <2>4
  <1> QED BY <1>1, <1>2

(* Two maps that agree hold the same lines. *)
LEMMA ImportedInto ==
  ASSUME NEW data, NEW new, \A t \in Targets : new[t] = data[t], Imported(data, Len(Plain))
  PROVE  Imported(new, Len(Plain))
  BY LinesAre DEF Imported

(* Nobody else is in a session when an editor that was alone is so still.   *)
LEMMA Bystanders ==
  ASSUME TypeInv, AloneInv, NEW o \in Editors, Frame(o), UNCHANGED overlapped,
         InSession(o) \/ (~ InSession(o)' /\ UNCHANGED <<enc, tmp, content, env>>)
  PROVE  \A p \in Editors \ {o} : Alone(p)' => AloneHolds(p)'
  <1> SUFFICES ASSUME NEW p \in Editors \ {o}, Alone(p)' PROVE AloneHolds(p)'
    OBVIOUS
  <1>1. /\ pc'[p] = pc[p] /\ job'[p] = job[p] /\ view'[p] = view[p]
        /\ fd'[p] = fd[p]
    BY DEF Frame
  <1>2. Alone(p)
    BY <1>1 DEF Alone, InSession
  <1>3. AloneHolds(p)
    BY <1>2 DEF AloneInv
  <1>4. ~ InSession(o) /\ ~ InSession(o)' /\ UNCHANGED <<enc, tmp, content, env>>
    BY <1>3 DEF AloneHolds
  <1>5. \A q \in Editors : InSession(q)' => q = p
    BY <1>3, <1>4 DEF AloneHolds, Frame, InSession
  <1>6. \A t \in Targets : Stored(t)' = Stored(t)
    BY <1>4 DEF Stored
  <1> QED BY <1>1, <1>3, <1>4, <1>5, <1>6 DEF AloneHolds, Persisting

(* The editor that steps itself, whose files stay as they are.              *)
LEMMA StillAlone ==
  ASSUME TypeInv, AloneInv, NEW p \in Editors, Frame(p), Alone(p) \/ ~ Alone(p)',
         UNCHANGED <<overlapped, enc, tmp, content, env>>,
         InSession(p)' => InSession(p), Persisting(p)' => FALSE, Persisting(p) => ~ InSession(p)',
         InSession(p)' => UNCHANGED <<job, view>>
  PROVE  Alone(p)' => AloneHolds(p)'
  <1> SUFFICES ASSUME Alone(p)' PROVE AloneHolds(p)'
    OBVIOUS
  <1>1. AloneHolds(p) /\ InSession(p)' /\ ~ Persisting(p) /\ ~ Persisting(p)'
    BY DEF AloneInv, Alone
  <1>2. \A q \in Editors : InSession(q)' => q = p
    BY <1>1 DEF AloneHolds, Frame, InSession
  <1>3. \A t \in Targets : Stored(t)' = Stored(t)
    BY DEF Stored
  <1> QED BY <1>1, <1>2, <1>3 DEF AloneHolds, Persisting

LEMMA UnlockAlone ==
  ASSUME TypeInv, AloneInv, NEW p \in Editors, Unlock(p)
  PROVE  AloneInv'
  <1> DEFINE others == {o \in Editors \ {p} : InSession(o)}
  <1>1. PICK store \in Opens(job[p].password) : view' = [view EXCEPT ![p] = store]
    BY DEF Unlock
  <1>2. /\ pc' = [pc EXCEPT ![p] = "ready"]
        /\ job[p].kind = "migrate" => env # None
        /\ overlapped' = [o \in Editors |-> IF o = p THEN others # {} ELSE overlapped[o] \/ o \in others]
        /\ UNCHANGED <<job, fd, enc, tmp, content, env>>
    BY DEF Unlock, Go, files
  <1>3. ASSUME NEW o \in Editors \ {p} PROVE ~ Alone(o)'
    BY <1>2 DEF Alone, InSession, TypeInv, TypeOK
  <1>4. ASSUME Alone(p)' PROVE AloneHolds(p)'
    <2>1. others = {}
      BY <1>2, <1>4 DEF Alone
    <2>2. \A o \in Editors : InSession(o)' => o = p
      BY <1>2, <2>1 DEF InSession, TypeInv, TypeOK
    <2>3. \A t \in Targets : store.data[t] = Stored(t)
      <3>1. CASE enc = None
        BY <3>1, <1>1 DEF Opens, Stored, Empty
      <3>2. CASE enc # None
        <4>1. store = content[enc] /\ store \in [password : {job[p].password}, data : Maps]
          BY <3>2, <1>1 DEF Opens
        <4>2. job[p].password \in Passwords
          BY DEF TypeInv, KindInv, Unlock
        <4>3. store # None
          BY <4>1, <4>2, NoneIsApart DEF Blob
        <4> QED BY <3>2, <4>1, <4>3 DEF Stored
      <3> QED BY <3>1, <3>2
    <2>4. \A t \in Targets : Stored(t)' = Stored(t)
      BY <1>2 DEF Stored
    <2>5. pc'[p] = "ready" /\ view'[p] = store
      BY <1>1, <1>2 DEF TypeInv, TypeOK
    <2>6. job[p].kind = "migrate" => env' # None /\ Imported(view'[p].data, job'[p].edits)
      <3>1. job'[p].edits = 0
        BY <1>2 DEF TypeInv, KindInv, Unlock
      <3> QED BY <1>2, <3>1 DEF Imported
    <2> QED BY <1>2, <2>2, <2>3, <2>4, <2>5, <2>6 DEF AloneHolds, Persisting
  <1> QED BY <1>3, <1>4 DEF AloneInv

LEMMA EditsAlone ==
  ASSUME TypeInv, TornInv, AloneInv, NEW p \in Editors, NEW t \in Targets \cup {None},
         NEW store, Edits(p, store, t)
  PROVE  AloneInv'
  <1>1. /\ Frame(p) /\ pc'[p] = "write" /\ view'[p] = store
        /\ job'[p].kind = job[p].kind /\ job'[p].target = t
        /\ job'[p].edits = job[p].edits + 1
    BY EditsTypes
  <1>2. /\ InSession(p) /\ UNCHANGED <<overlapped, env, enc>> /\ ~ Persisting(p)
    BY DEF Edits, Edit, OpenTmp, InSession, Persisting
  <1>3. PICK n \in Inodes :
          /\ n \in IF tmp # None THEN {tmp} ELSE Inodes \ ({enc} \cup {fd[o] : o \in Editors})
          /\ tmp' = n /\ fd' = [fd EXCEPT ![p] = n] /\ content' = [content EXCEPT ![n] = None]
    BY DEF TypeInv, TypeOK, Edits, Edit, OpenTmp
  <1>4. n # enc /\ fd'[p] = n
    BY <1>3 DEF TornInv, TypeInv, TypeOK
  <1>5. \A o \in Editors \ {p} : Alone(o)' => AloneHolds(o)'
    BY <1>1, <1>2, Bystanders
  <1>6. ASSUME Alone(p)' PROVE AloneHolds(p)'
    <2>1. AloneHolds(p)
      BY <1>2, <1>6 DEF Alone, AloneInv
    <2>2. \A o \in Editors : InSession(o)' => o = p
      BY <1>1, <2>1 DEF AloneHolds, Frame, InSession
    <2>3. \A o \in Targets : Stored(o)' = Stored(o)
      BY <1>2, <1>3, <1>4 DEF Stored, TypeInv, TypeOK
    <2>4. \A o \in Targets : store.data[o] = Stored(o)' \/ o = t
      BY <1>2, <2>1, <2>3 DEF AloneHolds, Edits
    <2>5. ASSUME job[p].kind = "migrate"
          PROVE  Imported(store.data, job[p].edits + 1)
      <3>1. Imported(view[p].data, job[p].edits) /\ job[p].edits \in Nat
        BY <2>1, <2>5 DEF AloneHolds, TypeInv, TypeOK, JobType
      <3>2. /\ job[p].edits < Len(Plain) /\ t = TargetOf(job[p].edits + 1)
            /\ store.data[t] = Plain[job[p].edits + 1].value
            /\ \A o \in Targets \ {t} : store.data[o] = view[p].data[o]
        BY <2>5 DEF Edits
      <3> QED BY <3>1, <3>2, ImportedNext
    <2>6. job[p].kind = "migrate" => env # None
      BY <2>1 DEF AloneHolds
    <2> QED BY <1>1, <1>2, <1>3, <1>4, <2>2, <2>4, <2>5, <2>6 DEF AloneHolds, Persisting
  <1> QED BY <1>5, <1>6 DEF AloneInv

LEMMA WriteTmpAlone ==
  ASSUME TypeInv, AloneInv, NEW p \in Editors, WriteTmp(p)
  PROVE  AloneInv'
  <1>1. /\ pc' = [pc EXCEPT ![p] = "replace"] /\ pc[p] = "write"
        /\ content' = [content EXCEPT ![fd[p]] = view[p]]
        /\ UNCHANGED <<job, overlapped, view, fd, enc, tmp, env>>
    BY DEF WriteTmp, Go, command, draft
  <1>2. Frame(p) /\ InSession(p)
    BY <1>1, WriteTmpTypes DEF InSession
  <1>3. \A o \in Editors \ {p} : Alone(o)' => AloneHolds(o)'
    BY <1>1, <1>2, Bystanders
  <1>4. ASSUME Alone(p)' PROVE AloneHolds(p)'
    <2>1. AloneHolds(p)
      BY <1>1, <1>2, <1>4 DEF Alone, AloneInv
    <2>2. \A o \in Editors : InSession(o)' => o = p
      BY <1>2, <2>1 DEF AloneHolds, Frame, InSession
    <2>3. fd[p] \in Inodes /\ fd[p] # enc /\ fd[p] = tmp
      BY <1>1, <2>1 DEF AloneHolds, Persisting, TypeInv, TypeOK
    <2>4. \A t \in Targets : Stored(t)' = Stored(t)
      BY <1>1, <2>3 DEF Stored, TypeInv, TypeOK
    <2>5. pc'[p] = "replace" /\ content'[fd[p]] = view[p]
      BY <1>1, <2>3 DEF TypeInv, TypeOK
    <2> QED BY <1>1, <2>1, <2>2, <2>3, <2>4, <2>5 DEF AloneHolds, Persisting
  <1> QED BY <1>3, <1>4 DEF AloneInv

(* What a replace makes of the store: the view of the editor, if alone.     *)
LEMMA ReplaceStores ==
  ASSUME TypeInv, AloneInv, NEW p \in Editors, Alone(p), Replace(p)
  PROVE  \A t \in Targets : Stored(t)' = view[p].data[t]
  <1>1. AloneHolds(p) /\ pc[p] = "replace"
    BY DEF AloneInv, Replace
  <1>2. /\ tmp \in Inodes /\ tmp # enc /\ content[tmp] = view[p] /\ view[p] \in Blob
    BY <1>1 DEF AloneHolds, Persisting, TypeInv, TypeOK, KindInv, InSession, Replace
  <1>3. enc' = tmp /\ content' = [n \in Inodes |-> IF n = enc THEN None ELSE content[n]]
    BY DEF Replace
  <1>4. enc' # None /\ content'[enc'] = view[p] /\ view[p] # None
    BY <1>2, <1>3, NoneIsApart
  <1> QED BY <1>4 DEF Stored

LEMMA ReplaceAlone ==
  ASSUME TypeInv, AloneInv, NEW p \in Editors, Replace(p)
  PROVE  AloneInv'
  <1>1. Frame(p) /\ InSession(p) /\ UNCHANGED <<overlapped, env>>
    BY EndingTypes DEF Replace, InSession
  <1>2. \A o \in Editors \ {p} : Alone(o)' => AloneHolds(o)'
    BY <1>1, Bystanders
  <1>3. ASSUME Alone(p)' PROVE AloneHolds(p)'
    <2>1. Alone(p) /\ AloneHolds(p)
      BY <1>1, <1>3 DEF Alone, AloneInv
    <2>2. \A o \in Editors : InSession(o)' => o = p
      BY <1>1, <2>1 DEF AloneHolds, Frame, InSession
    <2>3. Continue(p)
      BY <1>3 DEF Replace, End, Go, Alone, InSession, TypeInv, TypeOK
    <2>4. ~ Persisting(p)' /\ UNCHANGED <<job, view>>
      BY <2>3 DEF Continue, Go, draft, Persisting, TypeInv, TypeOK
    <2>5. \A t \in Targets : Stored(t)' = view'[p].data[t]
      BY <2>1, <2>4, ReplaceStores
    <2> QED BY <1>1, <2>1, <2>2, <2>4, <2>5 DEF AloneHolds, Persisting
  <1> QED BY <1>2, <1>3 DEF AloneInv

LEMMA NextAlone ==
  ASSUME TypeInv, TornInv, AloneInv, [Next]_vars
  PROVE  AloneInv'
  <1>1. CASE UNCHANGED vars
    BY <1>1 DEF vars, AloneInv, Alone, AloneHolds, InSession, Persisting, Stored,
                command, draft, files
  <1>2. ASSUME NEW p \in Editors, NEW kind \in Kinds, NEW password \in Passwords,
               Begin(p, kind, password)
        PROVE  AloneInv'
    <2>1. /\ pc' = [pc EXCEPT ![p] = "unlock"]
          /\ overlapped' = [overlapped EXCEPT ![p] = FALSE]
          /\ job' = [job EXCEPT ![p] = Job(kind, password)]
          /\ pc[p] = "idle" /\ UNCHANGED <<view, fd, enc, tmp, content, env>>
      BY <1>2 DEF Begin, Go, draft, files
    <2>2. \A o \in Editors : InSession(o)' <=> InSession(o)
      BY <2>1 DEF InSession, TypeInv, TypeOK
    <2>3. ~ InSession(p)
      BY <2>1 DEF InSession
    <2>4. \A t \in Targets : Stored(t)' = Stored(t)
      BY <2>1 DEF Stored
    <2>5. ASSUME NEW o \in Editors, Alone(o)' PROVE AloneHolds(o)'
      <3>1. o # p /\ Alone(o) /\ pc'[o] = pc[o] /\ job'[o] = job[o]
        BY <2>1, <2>2, <2>3, <2>5 DEF Alone, TypeInv, TypeOK
      <3> QED BY <3>1, <2>1, <2>2, <2>4 DEF AloneInv, AloneHolds, Persisting
    <2> QED BY <2>5 DEF AloneInv
  <1>3. ASSUME NEW p \in Editors, Stop(p) \/ Rename(p)
        PROVE  AloneInv'
    <2>1. Frame(p) /\ ~ InSession(p)' /\ UNCHANGED overlapped
      BY <1>3, EndingTypes DEF Stop, Rename, End, Go, InSession, TypeInv, TypeOK
    <2>2. InSession(p) \/ UNCHANGED <<enc, tmp, content, env>>
      BY <1>3 DEF Stop, Rename, InSession
    <2>3. \A o \in Editors \ {p} : Alone(o)' => AloneHolds(o)'
      BY <2>1, <2>2, Bystanders
    <2> QED BY <2>1, <2>3 DEF AloneInv, Alone
  <1>4. ASSUME NEW p \in Editors, TruncateConfig(p) \/ WriteConfig(p)
        PROVE  AloneInv'
    <2>1. Frame(p) /\ InSession(p) /\ UNCHANGED <<overlapped, enc, tmp, content, env, job, view>>
      BY <1>4, ListingTypes DEF TruncateConfig, WriteConfig, InSession, command, draft, files
    <2>2. ~ Persisting(p) /\ ~ Persisting(p)' /\ InSession(p)'
      BY <1>4 DEF TruncateConfig, WriteConfig, Go, Persisting, InSession, TypeInv, TypeOK
    <2>3. \A o \in Editors \ {p} : Alone(o)' => AloneHolds(o)'
      BY <2>1, Bystanders
    <2>4. Alone(p)' => AloneHolds(p)'
      BY <2>1, <2>2, StillAlone DEF Alone
    <2> QED BY <2>3, <2>4 DEF AloneInv
  <1>5. ASSUME NEW q \in Servers, Serve(q)
        PROVE  AloneInv'
    BY <1>5 DEF Serve, Resolve, Restart, AloneInv, Alone, AloneHolds, InSession, Persisting,
                Stored, command, draft, files
  <1> QED BY <1>1, <1>2, <1>3, <1>4, <1>5, UnlockAlone, EditsAlone, WriteTmpAlone, ReplaceAlone,
             Steps

LEMMA AloneAlways == Spec => []AloneInv
  <1>1. Init => AloneInv
    BY DEF Init, AloneInv, Alone, InSession
  <1> QED BY <1>1, TypesAlways, TornAlways, NextAlone, PTL DEF Spec

(* Only a replace gives the name secrets.enc to another file, only a rename *)
(* takes .env away, and only the wizard rewrites config.yaml.               *)
LEMMA Changes ==
  ASSUME TypeInv, Next
  PROVE  /\ enc' # enc => \E p \in Editors : Replace(p) /\ Frame(p)
         /\ env' # env => \E p \in Editors : Rename(p) /\ Frame(p)
         /\ config' # config => \E p \in Editors : TruncateConfig(p) \/ WriteConfig(p)
  <1>1. ASSUME NEW p \in Editors, Stop(p) \/ Rename(p) \/ Replace(p)
        PROVE  /\ Frame(p) /\ UNCHANGED config
               /\ enc' # enc => Replace(p)
               /\ env' # env => Rename(p)
    BY <1>1, EndingTypes DEF Stop, Rename, Replace
  <1>2. ASSUME NEW p \in Editors, NEW t, NEW store, Edits(p, store, t)
        PROVE  UNCHANGED <<enc, env, config>>
    BY <1>2 DEF Edits, Edit, OpenTmp
  <1>3. ASSUME NEW p \in Editors, TruncateConfig(p) \/ WriteConfig(p)
        PROVE  UNCHANGED <<enc, env>>
    BY <1>3 DEF TruncateConfig, WriteConfig, files
  <1>4. ASSUME NEW p \in Editors, WriteTmp(p) \/ Unlock(p)
               \/ \E kind \in Kinds, password \in Passwords : Begin(p, kind, password)
        PROVE  UNCHANGED <<enc, env, config>>
    BY <1>4 DEF WriteTmp, Unlock, Begin, files
  <1>5. ASSUME NEW q \in Servers, Serve(q)
        PROVE  UNCHANGED <<enc, env, config>>
    BY <1>5 DEF Serve, Resolve, Restart, files
  <1> QED BY <1>1, <1>2, <1>3, <1>4, <1>5, Steps

(* A command that no other overlaps changes the secret of the one target    *)
(* that it is about.                                                        *)
THEOREM OthersAreKept == Spec => WritesKeepOthers
  <1> DEFINE A == \A p \in Editors : (pc[p] = "replace" /\ enc' # enc /\ pc'[p] # "replace") =>
                    \/ overlapped[p]
                    \/ \A t \in Targets \ {job[p].target} : Stored(t)' = Stored(t)
  <1>1. TypeInv /\ AloneInv /\ Next => A
    <2> SUFFICES ASSUME TypeInv, AloneInv, Next, NEW p \in Editors, pc[p] = "replace",
                        enc' # enc, pc'[p] # "replace", ~ overlapped[p],
                        NEW t \in Targets \ {job[p].target}
                 PROVE  Stored(t)' = Stored(t)
      OBVIOUS
    <2>1. PICK o \in Editors : Replace(o) /\ Frame(o)
      BY Changes
    <2>2. o = p
      BY <2>1 DEF Frame
    <2>3. Alone(p) /\ AloneHolds(p)
      BY DEF Alone, AloneInv, InSession
    <2> QED BY <2>1, <2>2, <2>3, ReplaceStores DEF AloneHolds
  <1>2. TypeInv /\ AloneInv /\ [Next]_vars => [A]_vars
    BY <1>1
  <1> HIDE DEF A
  <1>3. Spec => [][A]_vars
    BY <1>2, TypesAlways, AloneAlways, PTL DEF Spec
  <1> QED BY <1>3 DEF A, WritesKeepOthers

(* .env is retired only when the last line of every target that migrate     *)
(* takes it to name is in the store, wherever earlier runs of migrate       *)
(* failed, unless another command overlapped.                               *)
THEOREM MigratedAreStored == Spec => MigratedIsStored
  <1> DEFINE A == \A p \in Editors : (env' # env /\ pc[p] # "idle" /\ pc'[p] = "idle") =>
                    overlapped[p] \/ Imported([t \in Targets |-> Stored(t)], Len(Plain))
  <1>1. TypeInv /\ AloneInv /\ Next => A
    <2> SUFFICES ASSUME TypeInv, AloneInv, Next, NEW p \in Editors, env' # env,
                        pc[p] # "idle", pc'[p] = "idle", ~ overlapped[p]
                 PROVE  Imported([t \in Targets |-> Stored(t)], Len(Plain))
      OBVIOUS
    <2>1. PICK o \in Editors : Rename(o) /\ Frame(o)
      BY Changes
    <2>2. o = p
      BY <2>1 DEF Frame
    <2>3. pc[p] = "rename" /\ job[p].kind = "migrate" /\ job[p].edits = Len(Plain)
      BY <2>1, <2>2 DEF Rename, TypeInv, KindInv
    <2>4. Alone(p) /\ AloneHolds(p)
      BY <2>3 DEF Alone, AloneInv, InSession
    <2>5. Imported(view[p].data, Len(Plain))
      BY <2>3, <2>4 DEF AloneHolds
    <2>6. \A t \in Targets : view[p].data[t] = Stored(t)
      BY <2>3, <2>4 DEF AloneHolds, Persisting
    <2> QED BY <2>5, <2>6, ImportedInto
  <1>2. TypeInv /\ AloneInv /\ [Next]_vars => [A]_vars
    BY <1>1
  <1> HIDE DEF A
  <1>3. Spec => [][A]_vars
    BY <1>2, TypesAlways, AloneAlways, PTL DEF Spec
  <1> QED BY <1>3 DEF A, MigratedIsStored

(* The wizard lists a target only with its password in the store, unless    *)
(* another command overlapped.                                              *)
THEOREM ListedAreStored == Spec => ListedIsStored
  <1> DEFINE A == \A p \in Editors : pc[p] = "listing" /\ config' # config =>
                    overlapped[p] \/ Stored(job[p].target) # None
  <1>1. TypeInv /\ AloneInv /\ Next => A
    <2> SUFFICES ASSUME TypeInv, AloneInv, NEW p \in Editors, pc[p] = "listing", ~ overlapped[p]
                 PROVE  Stored(job[p].target) # None
      OBVIOUS
    <2>1. job[p].target \in Targets /\ view[p].data[job[p].target] # None
      BY DEF TypeInv, KindInv
    <2>2. AloneHolds(p)
      BY DEF Alone, AloneInv, InSession
    <2> QED BY <2>1, <2>2 DEF AloneHolds, Persisting
  <1>2. TypeInv /\ AloneInv /\ [Next]_vars => [A]_vars
    BY <1>1
  <1> HIDE DEF A
  <1>3. Spec => [][A]_vars
    BY <1>2, TypesAlways, AloneAlways, PTL DEF Spec
  <1> QED BY <1>3 DEF A, ListedIsStored

-----------------------------------------------------------------------------
(* What a target's secret goes through in the steps of all the commands,    *)
(* crashes included, and not only in those that rename a store into place.  *)

(* A secret is as it was unless two commands met in _persist, or a command  *)
(* renames its store into place that is about this target, or overlapped.   *)
Kept ==
  \/ clashed
  \/ \A t \in Targets : Stored(t)' = Stored(t) \/
       \E p \in Editors : Replace(p) /\ (overlapped[p] \/ job[p].target = t)

LEMMA EditKeeps ==
  ASSUME TypeInv, TornInv, NEW p \in Editors, NEW t, NEW store, Edits(p, store, t)
  PROVE  \A o \in Targets : Stored(o)' = Stored(o)
  <1>1. PICK n \in Inodes :
          /\ n \in IF tmp # None THEN {tmp} ELSE Inodes \ ({enc} \cup {fd[o] : o \in Editors})
          /\ content' = [content EXCEPT ![n] = None]
    BY DEF TypeInv, TypeOK, Edits, Edit, OpenTmp
  <1>2. n # enc /\ enc' = enc
    BY <1>1 DEF TornInv, Edits, Edit, OpenTmp
  <1> QED BY <1>1, <1>2 DEF Stored, TypeInv, TypeOK

LEMMA WriteTmpKeeps ==
  ASSUME TypeInv, TornInv, ~ clashed, NEW p \in Editors, WriteTmp(p)
  PROVE  \A o \in Targets : Stored(o)' = Stored(o)
  <1>1. /\ content' = [content EXCEPT ![fd[p]] = view[p]] /\ enc' = enc
        /\ Persisting(p)
    BY DEF WriteTmp, Persisting
  <1>2. fd[p] # enc
    BY <1>1, NoneIsApart DEF TornInv, TypeInv, TypeOK
  <1> QED BY <1>1, <1>2 DEF Stored, TypeInv, TypeOK

LEMMA NextKeeps ==
  ASSUME TypeInv, TornInv, AloneInv, Next
  PROVE  Kept
  <1>1. UNCHANGED <<enc, content>> => Kept
    BY DEF Kept, Stored
  <1>2. ASSUME NEW p \in Editors, Replace(p)
        PROVE  Kept
    <2>1. CASE overlapped[p]
      BY <1>2, <2>1 DEF Kept
    <2>2. CASE ~ overlapped[p]
      <3>1. Alone(p) /\ pc[p] = "replace"
        BY <1>2, <2>2 DEF Alone, Replace, InSession
      <3>2. \A t \in Targets : view[p].data[t] = Stored(t) \/ t = job[p].target
        BY <3>1 DEF AloneInv, AloneHolds
      <3>3. \A t \in Targets : Stored(t)' = view[p].data[t]
        BY <1>2, <3>1, ReplaceStores
      <3> QED BY <1>2, <3>2, <3>3 DEF Kept
    <2> QED BY <2>1, <2>2
  <1>3. ASSUME NEW p \in Editors,
               Unlock(p) \/ Stop(p) \/ Rename(p) \/ TruncateConfig(p) \/ WriteConfig(p)
               \/ \E kind \in Kinds, password \in Passwords : Begin(p, kind, password)
        PROVE  Kept
    BY <1>1, <1>3 DEF Unlock, Stop, Rename, TruncateConfig, WriteConfig, Begin, files
  <1>4. ASSUME NEW p \in Editors, NEW t, NEW store, Edits(p, store, t)
        PROVE  Kept
    BY <1>4, EditKeeps DEF Kept
  <1>5. ASSUME NEW p \in Editors, WriteTmp(p)
        PROVE  Kept
    BY <1>5, WriteTmpKeeps DEF Kept
  <1>6. ASSUME NEW q \in Servers, Serve(q)
        PROVE  Kept
    BY <1>1, <1>6 DEF Serve, Resolve, Restart, files
  <1> QED BY <1>2, <1>3, <1>4, <1>5, <1>6, Steps

(* Truncating the temporary file, writing it, failing and dying leave every *)
(* secret as it was: only a rename of a store changes one, and that of the  *)
(* target it is about, unless two commands met.                             *)
THEOREM OnlyReplacesChange == Spec => [][Kept]_vars
  <1>1. TypeInv /\ TornInv /\ AloneInv /\ [Next]_vars => [Kept]_vars
    BY NextKeeps
  <1> QED BY <1>1, TypesAlways, TornAlways, AloneAlways, PTL DEF Spec

-----------------------------------------------------------------------------
(* One operator, one command at a time. *)

OneEditor == \A p, o \in Editors : p = o

NeverMet == ~ clashed /\ \A p \in Editors : ~ overlapped[p]

LEMMA NextNeverMet ==
  ASSUME OneEditor, TypeInv, NeverMet, [Next]_vars
  PROVE  NeverMet'
  <1>1. UNCHANGED <<clashed, overlapped>> => NeverMet'
    BY DEF NeverMet
  <1>2. ASSUME NEW p \in Editors, NEW t, NEW store, Edits(p, store, t)
        PROVE  NeverMet'
    <2>1. pc[p] = "ready" /\ UNCHANGED overlapped
          /\ clashed' = (clashed \/ \E o \in Editors : Persisting(o))
      BY <1>2 DEF Edits, Edit, OpenTmp
    <2>2. \A o \in Editors : ~ Persisting(o)
      BY <2>1 DEF OneEditor, Persisting
    <2> QED BY <2>1, <2>2 DEF NeverMet
  <1>3. ASSUME NEW p \in Editors, Unlock(p)
        PROVE  NeverMet'
    <2>1. Editors \ {p} = {}
      BY DEF OneEditor
    <2>2. UNCHANGED clashed /\ \A o \in Editors : o = p /\ ~ overlapped'[o]
      BY <1>3, <2>1 DEF Unlock, files, OneEditor
    <2> QED BY <2>2 DEF NeverMet
  <1>4. ASSUME NEW p \in Editors, NEW kind \in Kinds, NEW password \in Passwords,
               Begin(p, kind, password)
        PROVE  NeverMet'
    BY <1>4 DEF Begin, files, NeverMet, TypeInv, TypeOK
  <1>5. ASSUME NEW p \in Editors,
               WriteTmp(p) \/ Stop(p) \/ Rename(p) \/ Replace(p) \/ TruncateConfig(p) \/ WriteConfig(p)
        PROVE  NeverMet'
    BY <1>1, <1>5 DEF WriteTmp, Stop, Rename, Replace, TruncateConfig, WriteConfig, command, files
  <1>6. ASSUME NEW q \in Servers, Serve(q)
        PROVE  NeverMet'
    BY <1>1, <1>6 DEF Serve, Resolve, Restart, command, files
  <1>7. CASE UNCHANGED vars
    BY <1>1, <1>7 DEF vars, command, files
  <1> QED BY <1>2, <1>3, <1>4, <1>5, <1>6, <1>7, Steps

LEMMA NeverMetAlways == ASSUME OneEditor PROVE Spec => []NeverMet
  <1>1. Init => NeverMet
    BY DEF Init, NeverMet
  <1>2. TypeInv /\ NeverMet /\ [Next]_vars => NeverMet'
    BY NextNeverMet
  <1> QED BY <1>1, <1>2, TypesAlways, PTL DEF Spec

Whole == enc # None => content[enc] # None

EachItsOwn ==
  \A t \in Targets : Stored(t)' = Stored(t) \/ \E p \in Editors : Replace(p) /\ job[p].target = t

(* With one command at a time, failing or dying where it may, secrets.enc   *)
(* is whole at every moment, and a secret changes only by the edit of its   *)
(* own target: what the model lets go wrong takes two commands.             *)
THEOREM AloneLosesNothing == ASSUME OneEditor PROVE Spec => []Whole /\ [][EachItsOwn]_vars
  <1>1. TornInv /\ NeverMet => Whole
    BY DEF TornInv, NeverMet, Whole
  <1>2. NeverMet /\ [Kept]_vars => [EachItsOwn]_vars
    BY DEF NeverMet, Kept, EachItsOwn
  <1>3. Spec => []Whole
    BY <1>1, TornAlways, NeverMetAlways, PTL
  <1>4. Spec => [][EachItsOwn]_vars
    BY <1>2, OnlyReplacesChange, NeverMetAlways, PTL
  <1> QED BY <1>3, <1>4
=============================================================================
