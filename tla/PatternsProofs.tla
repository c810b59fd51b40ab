--------------------------- MODULE PatternsProofs ---------------------------
(***************************************************************************)
(* What the hot reload of the pattern files guarantees for any number of   *)
(* threads, files and edits.  An mtime names one version of a file, so a   *)
(* load whose mtimes are still those of the files knows what the files     *)
(* say (LoadInv), although they may have changed under it; publishing it   *)
(* hands that over to the engine (PublishedInv) unless another load came   *)
(* in between (SoloInv).  What has been loaded or compared since the last  *)
(* edit is what the files say now (FreshInv).                              *)
(***************************************************************************)
EXTENDS Patterns, WellFoundedInduction, NaturalsInduction, TLAPS

Contents == [Files -> FileType]
Memory == [Files -> PatternType \cup {None}]
Stamps == [Files -> Mtimes \cup {None}]

-----------------------------------------------------------------------------
(* Patterns p loaded with mtimes m, and without the files in u, against the *)
(* files d as they are.                                                     *)

Same(d, m, f) == m[f] # None => d[f] # None /\ d[f].mtime = m[f]

Valid(d, f) == d[f] # None /\ Validate(d[f].doc) # None

Loads(d, m, f) ==
  IF /\ m[f] # None /\ Valid(d, f)
     /\ \A g \in 1 .. f - 1 : m[g] # None /\ Valid(d, g) => d[g].doc.id # d[f].doc.id
  THEN Validate(d[f].doc) ELSE None

Sound(d, p, m, f) ==
  p[f] # None => m[f] # None /\ (Same(d, m, f) => p[f] = Validate(d[f].doc))

Full(d, p, m, u, f) ==
  (\A g \in 1 .. f : Same(d, m, g) /\ (m[g] # None => g \notin u)) => p[f] = Loads(d, m, f)

Fresh(there, d, p) ==
  \A f \in Files : p[f] # None => there /\ d[f] # None /\ p[f] = Validate(d[f].doc)

-----------------------------------------------------------------------------
(* The operators. *)

LEMMA Minimum ==
  ASSUME NEW S \in SUBSET Nat, S # {}
  PROVE  \E i \in S : \A j \in S : i <= j
  <1>1. PICK i \in S : \A j \in S : ~ (<<j, i>> \in OpToRel(<, Nat))
    BY WFMin, NatLessThanWellFounded
  <1>2. \A j \in S : ~ (j < i)
    BY <1>1 DEF OpToRel
  <1> QED BY <1>2

LEMMA FilesAreNumbers == Files \subseteq Nat /\ Mtimes \subseteq Nat /\ None \notin Mtimes
  BY BoundAssumption, NoneAssumption DEF Files, Mtimes

LEMMA ValidateType ==
  ASSUME NEW doc \in Docs
  PROVE  /\ Validate(doc) \in PatternType \cup {None}
         /\ Validate(doc) # None => Validate(doc).id = doc.id
  BY DocAssumption DEF DocType, Validate, PatternType, Risk

LEMMA AddedType ==
  ASSUME NEW p \in Memory, NEW f \in Files, NEW doc \in Docs
  PROVE  Added(p, f, doc) \in Memory
  BY ValidateType DEF Added, Memory

LEMMA CurrentType ==
  ASSUME disk \in Contents
  PROVE  Current \in Memory
  <1>1. ASSUME NEW f \in Files, disk[f] # None PROVE Validate(disk[f].doc) \in PatternType \cup {None}
    BY <1>1, ValidateType DEF Contents, FileType
  <1> QED BY <1>1 DEF Current, Memory, OnDisk

(* An edit of f falsifies the mtime that a load may have for it.            *)
LEMMA EditKeeps ==
  ASSUME NEW d, NEW e, NEW f \in Files, NEW file, e = [d EXCEPT ![f] = file],
         NEW p, NEW m \in Stamps, NEW u, d \in Contents,
         m[f] # None => file = None \/ file.mtime # m[f],
         NEW g \in Files
  PROVE  /\ Sound(d, p, m, g) => Sound(e, p, m, g)
         /\ Full(d, p, m, u, g) => Full(e, p, m, u, g)
  <1>1. \A h \in Files : h # f => e[h] = d[h]
    BY DEF Contents
  <1>2. e[f] = file
    BY DEF Contents
  <1>3. m[f] # None => ~ Same(e, m, f)
    BY <1>2 DEF Same
  <1>4. \A h \in Files : h # f => Same(e, m, h) = Same(d, m, h)
    BY <1>1 DEF Same
  <1>5. Sound(d, p, m, g) => Sound(e, p, m, g)
    BY <1>1, <1>3, <1>4 DEF Sound
  <1>6. ASSUME Full(d, p, m, u, g), \A h \in 1 .. g : Same(e, m, h) /\ (m[h] # None => h \notin u)
        PROVE  p[g] = Loads(e, m, g)
    <2>0. 1 .. g \subseteq Files /\ 1 .. g - 1 \subseteq 1 .. g /\ g \in 1 .. g
      BY BoundAssumption DEF Files
    <2>1. \A h \in 1 .. g : h = f => m[h] = None
      BY <1>3, <1>6
    <2>2. \A h \in 1 .. g : Same(d, m, h)
      BY <2>0, <2>1, <1>4, <1>6 DEF Same
    <2>3. p[g] = Loads(d, m, g)
      BY <1>6, <2>2 DEF Full
    <2>4. \A h \in 1 .. g : m[h] # None => d[h] = e[h]
      BY <2>0, <2>1, <1>1
    <2>5. Loads(d, m, g) = Loads(e, m, g)
      BY <2>0, <2>4 DEF Loads, Valid
    <2> QED BY <2>3, <2>5
  <1> QED BY <1>5, <1>6 DEF Full

LEMMA NextFileIsLeast ==
  ASSUME TypeOK, NEW t \in Threads, todo[t] # {}
  PROVE  NextFile(t) \in todo[t] /\ \A g \in todo[t] : NextFile(t) <= g
  <1>1. todo[t] \in SUBSET Nat
    BY FilesAreNumbers DEF TypeOK
  <1>2. \E f \in todo[t] : \A g \in todo[t] : f <= g
    BY <1>1, Minimum
  <1> QED BY <1>2 DEF NextFile

(* What is known of the files that a load has behind it.                    *)
Known(d, p, m, u, rest) ==
  \A g \in Files :
    /\ g \in rest => p[g] = None
    /\ g \notin rest => Sound(d, p, m, g) /\ Full(d, p, m, u, g)

(* The next file f is added: it says what a load of all that has been seen  *)
(* says of it, because the files before it do.                              *)
LEMMA AddKeeps ==
  ASSUME NEW d \in Contents, NEW p \in Memory, NEW m \in Stamps, NEW u, NEW rest \in SUBSET Files,
         NEW f \in rest, \A g \in rest : f <= g, \A g \in Files : m[g] # None => g <= f,
         m[f] # None, d[f] # None, Known(d, p, m, u, rest)
  PROVE  Known(d, Added(p, f, d[f].doc), m, u, rest \ {f})
  <1> DEFINE q == Added(p, f, d[f].doc)
             pattern == Validate(d[f].doc)
  <1>0. f \in Nat /\ Files \subseteq Nat /\ d[f].doc \in Docs
    BY FilesAreNumbers DEF Contents, FileType
  <1>1. /\ \A g \in Files : g # f => q[g] = p[g]
        /\ q[f] = IF pattern = None \/ Duplicate(p, pattern) THEN None ELSE pattern
    BY DEF Added, Memory, Known
  <1>2. \A g \in Files : p[g] # None => m[g] # None /\ g < f
    <2> SUFFICES ASSUME NEW g \in Files, p[g] # None PROVE m[g] # None /\ g < f
      OBVIOUS
    <2>1. g \notin rest /\ m[g] # None
      BY DEF Known, Sound
    <2>2. g # f /\ g <= f /\ g \in Nat
      BY <2>1, <1>0
    <2> QED BY <2>1, <2>2, <1>0
  <1>3. \A g \in 1 .. f - 1 : g \in Files /\ g \notin rest
    <2> SUFFICES ASSUME NEW g \in 1 .. f - 1 PROVE g \in Files /\ g \notin rest
      OBVIOUS
    <2>1. g \in Files
      BY BoundAssumption DEF Files
    <2>2. ~ (f <= g)
      BY <1>0
    <2> QED BY <2>1, <2>2
  <1>4. Sound(d, q, m, f)
    BY <1>1 DEF Sound
  <1>5. ASSUME \A g \in 1 .. f : Same(d, m, g) /\ (m[g] # None => g \notin u)
        PROVE  q[f] = Loads(d, m, f)
    <2>1. \A g \in 1 .. f - 1 : 1 .. g \subseteq 1 .. f
      BY <1>0
    <2>2. \A g \in 1 .. f - 1 : p[g] = Loads(d, m, g)
      BY <2>1, <1>3, <1>5 DEF Known, Full
    <2>3. ASSUME pattern # None, Duplicate(p, pattern) PROVE Loads(d, m, f) = None
      <3>1. PICK g \in Files : p[g] # None /\ p[g].id = pattern.id
        BY <2>3 DEF Duplicate
      <3>2. g \in 1 .. f - 1 /\ m[g] # None
        BY <3>1, <1>2, <1>0 DEF Files
      <3>3. Loads(d, m, g) # None /\ Loads(d, m, g) = p[g]
        BY <3>1, <3>2, <2>2
      <3>4. Valid(d, g) /\ p[g] = Validate(d[g].doc)
        BY <3>3 DEF Loads
      <3>5. d[g].doc \in Docs /\ pattern.id = d[f].doc.id /\ p[g].id = d[g].doc.id
        BY <3>1, <3>4, <1>0, <2>3, ValidateType DEF Valid, Contents, FileType
      <3> QED BY <3>1, <3>2, <3>4, <3>5 DEF Loads
    <2>4. ASSUME pattern # None, Loads(d, m, f) = None PROVE Duplicate(p, pattern)
      <3> DEFINE earlier == {g \in 1 .. f - 1 : m[g] # None /\ Valid(d, g) /\ d[g].doc.id = d[f].doc.id}
      <3>1. earlier # {}
        BY <2>4 DEF Loads, Valid
      <3>2. earlier \in SUBSET Nat
        BY <1>0
      <3>3. PICK g \in earlier : \A h \in earlier : g <= h
        BY <3>1, <3>2, Minimum
      <3>4. g \in Nat /\ g \in 1 .. f - 1 /\ g \in Files
        BY <3>3, <3>2, <1>3
      <3>5. \A h \in 1 .. g - 1 : h \in 1 .. f - 1 /\ ~ (g <= h)
        BY <3>4, <1>0
      <3>6. \A h \in 1 .. g - 1 : m[h] # None /\ Valid(d, h) => d[h].doc.id # d[g].doc.id
        BY <3>3, <3>5
      <3>7. Loads(d, m, g) = Validate(d[g].doc) /\ Validate(d[g].doc) # None
        BY <3>3, <3>6 DEF Loads, Valid
      <3>8. p[g] = Validate(d[g].doc)
        BY <3>4, <3>7, <2>2
      <3>9. d[g].doc \in Docs
        BY <3>3, <3>4 DEF Valid, Contents, FileType
      <3>10. p[g].id = pattern.id
        BY <3>3, <3>7, <3>8, <3>9, <1>0, <2>4, ValidateType
      <3> QED BY <3>4, <3>7, <3>8, <3>10 DEF Duplicate
    <2>5. Loads(d, m, f) = None \/ Loads(d, m, f) = pattern
      BY DEF Loads
    <2>6. pattern = None => Loads(d, m, f) = None
      BY DEF Loads
    <2> QED BY <2>3, <2>4, <2>5, <2>6, <1>1
  <1>6. Full(d, q, m, u, f)
    BY <1>5 DEF Full
  <1>7. ASSUME NEW g \in Files, g # f
        PROVE  /\ g \in rest \ {f} => q[g] = None
               /\ g \notin rest \ {f} => Sound(d, q, m, g) /\ Full(d, q, m, u, g)
    BY <1>1, <1>7 DEF Known, Sound, Full
  <1> QED BY <1>4, <1>6, <1>7 DEF Known

(* The next file could not be read.                                         *)
LEMMA SkipKeeps ==
  ASSUME NEW d \in Contents, NEW p \in Memory, NEW m \in Stamps, NEW u \in SUBSET Files,
         NEW rest \in SUBSET Files, NEW f \in rest, m[f] # None, Known(d, p, m, u, rest)
  PROVE  Known(d, p, m, u \cup {f}, rest \ {f})
  <1>1. \A g \in Files : Full(d, p, m, u, g) => Full(d, p, m, u \cup {f}, g)
    BY DEF Full
  <1>2. Sound(d, p, m, f)
    BY DEF Sound, Known
  <1>3. Full(d, p, m, u \cup {f}, f)
    <2>1. f \in 1 .. f
      BY DEF Files
    <2> QED BY <2>1 DEF Full
  <1> QED BY <1>1, <1>2, <1>3 DEF Known

(* The next file has an mtime now, or it is not there any more.             *)
LEMMA StatKeeps ==
  ASSUME NEW d \in Contents, NEW p \in Memory, NEW m \in Stamps, NEW u \in SUBSET Files,
         NEW rest \in SUBSET Files, NEW f \in rest, \A g \in rest : f <= g,
         \A g \in Files : m[g] # None => g < f, Known(d, p, m, u, rest)
  PROVE  /\ \A at \in Mtimes : Known(d, p, [m EXCEPT ![f] = at], u, rest)
         /\ Known(d, p, m, u, rest \ {f})
  <1>0. f \in Nat /\ Files \subseteq Nat
    BY FilesAreNumbers
  <1>1. ASSUME NEW at \in Mtimes, NEW g \in Files, g \notin rest
        PROVE  Sound(d, p, [m EXCEPT ![f] = at], g) /\ Full(d, p, [m EXCEPT ![f] = at], u, g)
    <2> DEFINE n == [m EXCEPT ![f] = at]
    <2>1. g # f /\ n[g] = m[g] /\ (\A h \in Files : h # f => n[h] = m[h])
      BY <1>1 DEF Stamps
    <2>2. CASE g < f
      <3>1. \A h \in 1 .. g : h \in Files /\ n[h] = m[h]
        BY <2>1, <2>2, <1>0, BoundAssumption DEF Files
      <3>1a. 1 .. g - 1 \subseteq 1 .. g /\ g \in 1 .. g
        BY <1>0 DEF Files
      <3>2. \A h \in 1 .. g : Same(d, n, h) <=> Same(d, m, h)
        BY <3>1, <2>1 DEF Same
      <3>3. Loads(d, n, g) = Loads(d, m, g)
        <4> HIDE DEF n
        <4> QED BY <3>1, <3>1a, <2>1 DEF Loads
      <3>4. Sound(d, p, m, g) /\ Full(d, p, m, u, g)
        BY <1>1 DEF Known
      <3> HIDE DEF n
      <3>5. Sound(d, p, n, g)
        BY <3>1a, <3>2, <3>4, <2>1 DEF Sound
      <3>6. Full(d, p, n, u, g)
        <4> SUFFICES ASSUME \A h \in 1 .. g : Same(d, n, h) /\ (n[h] # None => h \notin u)
                     PROVE  p[g] = Loads(d, n, g)
          BY Zenon DEF Full
        <4>1. \A h \in 1 .. g : Same(d, m, h) /\ (m[h] # None => h \notin u)
          BY <3>1, <3>2
        <4>2. p[g] = Loads(d, m, g)
          BY <4>1, <3>4 DEF Full
        <4> QED BY <4>2, <3>3
      <3> QED BY <3>5, <3>6 DEF n
    <2>3. CASE ~ (g < f)
      <3>1. m[g] = None /\ p[g] = None
        BY <2>3, <1>1 DEF Known, Sound
      <3> HIDE DEF n
      <3> QED BY <3>1, <2>1 DEF Sound, Full, Loads
    <2> QED BY <2>2, <2>3
  <1>2. Sound(d, p, m, f) /\ Full(d, p, m, u, f)
    <2>1. m[f] = None /\ p[f] = None
      BY <1>0 DEF Known
    <2> QED BY <2>1 DEF Sound, Full, Loads
  <1> QED BY <1>1, <1>2 DEF Known

-----------------------------------------------------------------------------
(* Types. *)

ReadsOne == \A t \in Threads : pc[t] = "read" => todo[t] # {}

TypeInv == TypeOK /\ ReadsOne

(* What the steps of a thread have in common. *)
LEMMA Own ==
  ASSUME TypeInv, NEW t \in Threads, ThreadStep(t)
  PROVE  /\ UNCHANGED files
         /\ \A o \in Threads : o # t => /\ pc'[o] = pc[o] /\ todo'[o] = todo[o]
                                        /\ new'[o] = new[o] /\ since'[o] = since[o]
  <1> USE DEF TypeInv, TypeOK, Go
  <1>1. CASE FindGone(t)
    BY <1>1 DEF FindGone, Started
  <1>2. CASE List(t)
    BY <1>2 DEF List, Started, Unloaded
  <1>3. CASE \E f \in Files : Compare(t, f)
    BY <1>3 DEF Compare, Unloaded
  <1>4. CASE Glob(t)
    BY <1>4 DEF Glob
  <1>5. CASE Stat(t)
    BY <1>5 DEF Stat
  <1>6. CASE Read(t)
    BY <1>6 DEF Read
  <1>7. CASE PublishPatterns(t)
    BY <1>7 DEF PublishPatterns
  <1>8. CASE PublishMtimes(t)
    BY <1>8 DEF PublishMtimes
  <1>9. CASE Match(t)
    BY <1>9 DEF Match
  <1> QED BY <1>1, <1>2, <1>3, <1>4, <1>5, <1>6, <1>7, <1>8, <1>9 DEF ThreadStep

LEMMA LoadedType == Loaded \in LoadType
  BY DEF Loaded, LoadType, Nothing

LEMMA InitTypes == Init => TypeInv
  <1> SUFFICES ASSUME Init PROVE TypeInv
    OBVIOUS
  <1>1. disk \in Contents /\ edits \in Mtimes
    BY BoundAssumption DEF Init, Contents, FileType, Mtimes
  <1>2. patterns \in Memory
    BY <1>1, CurrentType DEF Init
  <1>3. mtimes \in Stamps
    BY <1>1 DEF Init, Stamps, Contents, FileType, Mtimes
  <1>4. new \in [Threads -> LoadType]
    BY LoadedType DEF Init
  <1> QED BY <1>1, <1>2, <1>3, <1>4 DEF Init, TypeInv, TypeOK, ReadsOne, Contents, Memory, Stamps

LEMMA OperatorTypes ==
  ASSUME TypeInv, NEW f \in Files, NEW file \in FileType, Operator(f, file)
  PROVE  TypeInv'
  <1>1. edits' \in Mtimes
    BY BoundAssumption DEF TypeInv, TypeOK, Operator, Mtimes
  <1>2. disk' \in [Files -> FileType]
    BY DEF TypeInv, TypeOK, Operator
  <1> QED BY <1>1, <1>2 DEF TypeInv, TypeOK, ReadsOne, Operator, engine, loads

LEMMA LoadTypeStep ==
  ASSUME TypeInv, NEW t \in Threads, pc[t] \in {"stat", "read"}, NEW f \in Files, OnDisk(f)
  PROVE  /\ [new EXCEPT ![t].mtimes[f] = disk[f].mtime] \in [Threads -> LoadType]
         /\ [new EXCEPT ![t].patterns = Added(@, f, disk[f].doc)] \in [Threads -> LoadType]
         /\ [new EXCEPT ![t].unread = @ \cup {f}] \in [Threads -> LoadType]
  <1>1. disk[f].doc \in Docs /\ disk[f].mtime \in Mtimes
    BY DEF TypeInv, TypeOK, FileType, OnDisk
  <1>2. new[t].patterns \in Memory
    BY DEF TypeInv, TypeOK, LoadType, Memory
  <1>3. Added(new[t].patterns, f, disk[f].doc) \in [Files -> PatternType \cup {None}]
    BY <1>1, <1>2, AddedType DEF Memory
  <1>4. new \in [Threads -> LoadType]
    BY DEF TypeInv, TypeOK
  <1>5. [new EXCEPT ![t].mtimes[f] = disk[f].mtime] \in [Threads -> LoadType]
    BY <1>1, <1>4 DEF LoadType
  <1>6. [new EXCEPT ![t].patterns = Added(@, f, disk[f].doc)] \in [Threads -> LoadType]
    BY <1>3, <1>4 DEF LoadType
  <1>7. [new EXCEPT ![t].unread = @ \cup {f}] \in [Threads -> LoadType]
    BY <1>4 DEF LoadType
  <1> QED BY <1>5, <1>6, <1>7

LEMMA UnreadType ==
  ASSUME TypeInv, NEW t \in Threads, NEW f \in Files
  PROVE  [new EXCEPT ![t].unread = @ \cup {f}] \in [Threads -> LoadType]
  BY DEF TypeInv, TypeOK, LoadType

LEMMA ThreadTypes ==
  ASSUME TypeInv, NEW t \in Threads, ThreadStep(t)
  PROVE  TypeInv'
  <1> DEFINE Places == {"idle", "compare", "load", "stat", "read", "stamp", "match"}
  <1>0. UNCHANGED files
    BY Own
  <1>1. CASE FindGone(t)
    <2>1. new' \in [Threads -> LoadType] /\ todo' \in [Threads -> SUBSET Files]
      BY <1>1, LoadedType DEF FindGone, TypeInv, TypeOK
    <2>2. pc' \in [Threads -> Places] /\ pc'[t] # "read"
      BY <1>1 DEF FindGone, TypeInv, TypeOK, Go
    <2>3. since' \in [Threads -> Mtimes \cup {None}]
      BY <1>1 DEF FindGone, Started, TypeInv, TypeOK
    <2>4. solo' \in Threads \cup {None} /\ clash' \in BOOLEAN
      BY <1>1 DEF FindGone, LoadStarts, loads, TypeInv, TypeOK
    <2>5. ReadsOne'
      BY <2>2, Own DEF ReadsOne, TypeInv
    <2>6. UNCHANGED engine
      BY <1>1 DEF FindGone
    <2> QED BY <1>0, <2>1, <2>2, <2>3, <2>4, <2>5, <2>6 DEF TypeInv, TypeOK, files, engine
  <1>2. CASE List(t)
    <2>1. todo' \in [Threads -> SUBSET Files]
      BY <1>2 DEF List, Unloaded, TypeInv, TypeOK, Present
    <2>2. pc' \in [Threads -> Places] /\ pc'[t] # "read"
      BY <1>2 DEF List, Unloaded, TypeInv, TypeOK, Go
    <2>3. since' \in [Threads -> Mtimes \cup {None}]
      BY <1>2 DEF List, Started, TypeInv, TypeOK
    <2>4. solo' \in Threads \cup {None} /\ clash' \in BOOLEAN
      BY <1>2 DEF List, Unloaded, LoadStarts, loads, TypeInv, TypeOK
    <2>5. ReadsOne'
      BY <2>2, Own DEF ReadsOne, TypeInv
    <2>6. UNCHANGED <<engine, new>>
      BY <1>2 DEF List
    <2> QED BY <1>0, <2>1, <2>2, <2>3, <2>4, <2>5, <2>6 DEF TypeInv, TypeOK, files, engine
  <1>3. ASSUME NEW f \in Files, Compare(t, f) PROVE TypeInv'
    <2>1. todo' \in [Threads -> SUBSET Files]
      BY <1>3 DEF Compare, Unloaded, TypeInv, TypeOK
    <2>2. pc' \in [Threads -> Places] /\ pc'[t] # "read"
      BY <1>3 DEF Compare, Unloaded, TypeInv, TypeOK, Go
    <2>4. solo' \in Threads \cup {None} /\ clash' \in BOOLEAN
      BY <1>3 DEF Compare, Unloaded, LoadStarts, loads, TypeInv, TypeOK
    <2>5. ReadsOne'
      BY <2>2, Own DEF ReadsOne, TypeInv
    <2>6. UNCHANGED <<engine, new, since>>
      BY <1>3 DEF Compare
    <2> QED BY <1>0, <2>1, <2>2, <2>4, <2>5, <2>6 DEF TypeInv, TypeOK, files, engine
  <1>4. CASE Glob(t)
    <2>1. new' \in [Threads -> LoadType] /\ todo' \in [Threads -> SUBSET Files]
      BY <1>4, LoadedType DEF Glob, TypeInv, TypeOK, Present
    <2>2. pc' \in [Threads -> Places] /\ pc'[t] # "read"
      BY <1>4 DEF Glob, TypeInv, TypeOK, Go
    <2>5. ReadsOne'
      BY <2>2, Own DEF ReadsOne, TypeInv
    <2>6. UNCHANGED <<engine, loads, since>>
      BY <1>4 DEF Glob
    <2> QED BY <1>0, <2>1, <2>2, <2>5, <2>6 DEF TypeInv, TypeOK, files, engine, loads
  <1>5. CASE Stat(t)
    <2> DEFINE f == NextFile(t)
    <2>1. f \in todo[t] /\ todo[t] \subseteq Files
      BY <1>5, NextFileIsLeast DEF Stat, TypeInv, TypeOK
    <2>2. todo' \in [Threads -> SUBSET Files]
      BY <1>5, <2>1 DEF Stat, TypeInv, TypeOK
    <2>3. new' \in [Threads -> LoadType]
      <3>1. OnDisk(f) => [new EXCEPT ![t].mtimes[f] = disk[f].mtime] \in [Threads -> LoadType]
        BY <1>5, <2>1, LoadTypeStep DEF Stat
      <3>2. IF OnDisk(f) THEN new' = [new EXCEPT ![t].mtimes[f] = disk[f].mtime] ELSE new' = new
        BY <1>5, Zenon DEF Stat
      <3> QED BY <3>1, <3>2 DEF TypeInv, TypeOK
    <2>4. pc' \in [Threads -> Places] /\ (pc'[t] = "read" => todo'[t] # {})
      BY <1>5 DEF Stat, TypeInv, TypeOK, Go
    <2>5. ReadsOne'
      BY <2>4, Own DEF ReadsOne, TypeInv
    <2>6. UNCHANGED <<engine, loads, since>>
      BY <1>5 DEF Stat
    <2> QED BY <1>0, <2>2, <2>3, <2>4, <2>5, <2>6 DEF TypeInv, TypeOK, files, engine, loads
  <1>6. CASE Read(t)
    <2> DEFINE f == NextFile(t)
    <2>1. f \in todo[t] /\ todo[t] \subseteq Files
      BY <1>6, NextFileIsLeast DEF Read, ReadsOne, TypeInv, TypeOK
    <2>2. todo' \in [Threads -> SUBSET Files]
      BY <1>6, <2>1 DEF Read, TypeInv, TypeOK
    <2>3. new' \in [Threads -> LoadType]
      <3>1. OnDisk(f) => [new EXCEPT ![t].patterns = Added(@, f, disk[f].doc)] \in [Threads -> LoadType]
        BY <1>6, <2>1, LoadTypeStep DEF Read
      <3>2. [new EXCEPT ![t].unread = @ \cup {f}] \in [Threads -> LoadType]
        BY <2>1, UnreadType
      <3>3. \/ OnDisk(f) /\ new' = [new EXCEPT ![t].patterns = Added(@, f, disk[f].doc)]
            \/ new' = [new EXCEPT ![t].unread = @ \cup {f}]
        BY <1>6 DEF Read
      <3> QED BY <3>1, <3>2, <3>3
    <2>4. pc' \in [Threads -> Places] /\ pc'[t] # "read"
      BY <1>6 DEF Read, TypeInv, TypeOK, Go
    <2>5. ReadsOne'
      BY <2>4, Own DEF ReadsOne, TypeInv
    <2>6. UNCHANGED <<engine, loads, since>>
      BY <1>6 DEF Read
    <2> QED BY <1>0, <2>2, <2>3, <2>4, <2>5, <2>6 DEF TypeInv, TypeOK, files, engine, loads
  <1>7. CASE PublishPatterns(t)
    <2>1. patterns' \in [Files -> PatternType \cup {None}]
      BY <1>7 DEF PublishPatterns, TypeInv, TypeOK, LoadType
    <2>2. pc' \in [Threads -> Places] /\ pc'[t] # "read"
      BY <1>7 DEF PublishPatterns, TypeInv, TypeOK, Go
    <2>5. ReadsOne'
      BY <2>2, Own DEF ReadsOne, TypeInv
    <2>6. UNCHANGED <<mtimes, unread, todo, new, since, loads>>
      BY <1>7 DEF PublishPatterns
    <2> QED BY <1>0, <2>1, <2>2, <2>5, <2>6 DEF TypeInv, TypeOK, files, loads
  <1>8. CASE PublishMtimes(t)
    <2>1. mtimes' \in [Files -> Mtimes \cup {None}] /\ unread' \subseteq Files
      BY <1>8 DEF PublishMtimes, TypeInv, TypeOK, LoadType
    <2>2. pc' \in [Threads -> Places] /\ pc'[t] # "read"
      BY <1>8 DEF PublishMtimes, TypeInv, TypeOK, Go
    <2>3. new' \in [Threads -> LoadType]
      BY <1>8, LoadedType DEF PublishMtimes, TypeInv, TypeOK
    <2>4. solo' \in Threads \cup {None} /\ clash' \in BOOLEAN
      BY <1>8 DEF PublishMtimes, TypeInv, TypeOK
    <2>5. ReadsOne'
      BY <2>2, Own DEF ReadsOne, TypeInv
    <2>6. UNCHANGED <<patterns, todo, since>>
      BY <1>8 DEF PublishMtimes
    <2> QED BY <1>0, <2>1, <2>2, <2>3, <2>4, <2>5, <2>6 DEF TypeInv, TypeOK, files
  <1>9. CASE Match(t)
    <2>1. pc' \in [Threads -> Places] /\ pc'[t] # "read"
      BY <1>9 DEF Match, TypeInv, TypeOK, Go
    <2>2. since' \in [Threads -> Mtimes \cup {None}]
      BY <1>9 DEF Match, TypeInv, TypeOK
    <2>5. ReadsOne'
      BY <2>1, Own DEF ReadsOne, TypeInv
    <2>6. UNCHANGED <<engine, todo, new, loads>>
      BY <1>9 DEF Match
    <2> QED BY <1>0, <2>1, <2>2, <2>5, <2>6 DEF TypeInv, TypeOK, files, engine, loads
  <1> QED BY <1>1, <1>2, <1>3, <1>4, <1>5, <1>6, <1>7, <1>8, <1>9 DEF ThreadStep

(* A step: the operator and the clock leave the engine alone.               *)
EditStep(f, file) ==
  Operator(f, file) /\ (file = None \/ file \in [doc : Docs, mtime : {edits + 1}])

LEMMA Steps ==
  ASSUME TypeInv, [Next]_vars
  PROVE  \/ \E f \in Files, file \in FileType : EditStep(f, file)
         \/ Move
         \/ \E t \in Threads : ThreadStep(t)
         \/ UNCHANGED <<dir, disk, edits, engine, pc, todo, new, since, loads>> /\ late' \in BOOLEAN
  <1>1. ASSUME NEW f \in Files, NEW doc \in Docs, Edit(f, doc)
        PROVE  \E file \in FileType : EditStep(f, file)
    <2> DEFINE file == [doc |-> doc, mtime |-> edits + 1]
    <2>1. edits + 1 \in Mtimes
      BY <1>1, BoundAssumption DEF Edit, Operator, TypeInv, TypeOK, Mtimes
    <2>2. file \in FileType /\ file \in [doc : Docs, mtime : {edits + 1}]
      BY <2>1 DEF FileType
    <2> QED BY <1>1, <2>2 DEF Edit, EditStep
  <1>2. ASSUME NEW f \in Files, Remove(f)
        PROVE  \E file \in FileType : EditStep(f, file)
    BY <1>2 DEF Remove, EditStep, FileType
  <1>3. CASE DatePasses
    BY <1>3 DEF DatePasses
  <1>4. CASE UNCHANGED vars
    BY <1>4 DEF vars, engine, loads, TypeInv, TypeOK
  <1> QED BY <1>1, <1>2, <1>3, <1>4 DEF Next

LEMMA NextTypes == TypeInv /\ [Next]_vars => TypeInv'
  <1> SUFFICES ASSUME TypeInv, [Next]_vars PROVE TypeInv'
    OBVIOUS
  <1>1. ASSUME NEW f \in Files, NEW file \in FileType, EditStep(f, file) PROVE TypeInv'
    BY <1>1, OperatorTypes DEF EditStep
  <1>2. CASE Move
    <2>1. edits' \in Mtimes /\ dir' \in BOOLEAN
      BY <1>2, BoundAssumption DEF TypeInv, TypeOK, Move, Mtimes
    <2> QED BY <1>2, <2>1 DEF TypeInv, TypeOK, ReadsOne, Move, engine, loads
  <1>3. CASE UNCHANGED <<dir, disk, edits, engine, pc, todo, new, since, loads>> /\ late' \in BOOLEAN
    BY <1>3 DEF TypeInv, TypeOK, ReadsOne, engine, loads
  <1> QED BY <1>1, <1>2, <1>3, ThreadTypes, Steps

LEMMA TypesAlways == Spec => []TypeInv
  BY InitTypes, NextTypes, PTL DEF Spec

(* Type correctness of the engine, its loads and the files.                 *)
THEOREM PatternsTypeCorrect == Spec => []TypeOK
  BY TypesAlways, PTL DEF TypeInv

-----------------------------------------------------------------------------
(* An mtime is at most the number of edits, and the next edit gives another. *)

Below(m, n) == \A f \in Files : m[f] # None => m[f] <= n

BoundInv ==
  /\ \A f \in Files : disk[f] # None => disk[f].mtime <= edits
  /\ Below(mtimes, edits)
  /\ \A t \in Threads : Below(new[t].mtimes, edits)
  /\ \A t \in Threads : since[t] # None => since[t] <= edits

LEMMA BoundsNext == TypeInv /\ BoundInv /\ [Next]_vars => BoundInv'
  <1> SUFFICES ASSUME TypeInv, BoundInv, [Next]_vars PROVE BoundInv'
    OBVIOUS
  <1>0. /\ edits \in Nat /\ None \notin Nat
        /\ \A f \in Files : mtimes[f] # None => mtimes[f] \in Nat
        /\ \A t \in Threads, f \in Files : new[t].mtimes[f] # None => new[t].mtimes[f] \in Nat
        /\ \A f \in Files : disk[f] # None => disk[f].mtime \in Nat
        /\ \A t \in Threads : since[t] # None => since[t] \in Nat
    <2>1. edits \in Nat /\ None \notin Nat
      BY FilesAreNumbers, NoneAssumption DEF TypeInv, TypeOK
    <2>2. \A f \in Files : mtimes[f] # None => mtimes[f] \in Nat
      BY FilesAreNumbers DEF TypeInv, TypeOK
    <2>3. ASSUME NEW t \in Threads, NEW f \in Files, new[t].mtimes[f] # None PROVE new[t].mtimes[f] \in Nat
      <3>1. new[t].mtimes \in [Files -> Mtimes \cup {None}]
        BY DEF TypeInv, TypeOK, LoadType
      <3> QED BY <3>1, <2>3, FilesAreNumbers
    <2>4. \A f \in Files : disk[f] # None => disk[f].mtime \in Nat
      BY FilesAreNumbers DEF TypeInv, TypeOK, FileType
    <2>5. \A t \in Threads : since[t] # None => since[t] \in Nat
      BY FilesAreNumbers DEF TypeInv, TypeOK
    <2> QED BY <2>1, <2>2, <2>3, <2>4, <2>5
  <1>1. ASSUME UNCHANGED <<mtimes, new, since>>, edits' = edits + 1,
               \A f \in Files : disk'[f] = disk[f] \/ disk'[f] = None \/ disk'[f].mtime = edits + 1
        PROVE  BoundInv'
    <2>1. \A f \in Files : disk'[f] # None => disk'[f].mtime <= edits'
      BY <1>0, <1>1 DEF BoundInv
    <2>2. Below(mtimes', edits') /\ \A t \in Threads : Below(new'[t].mtimes, edits')
      BY <1>0, <1>1 DEF BoundInv, Below
    <2>3. \A t \in Threads : since'[t] # None => since'[t] <= edits'
      BY <1>0, <1>1 DEF BoundInv
    <2> QED BY <2>1, <2>2, <2>3 DEF BoundInv, Below
  <1>2. ASSUME NEW f \in Files, NEW file \in FileType, EditStep(f, file) PROVE BoundInv'
    <2>1. file = None \/ file.mtime = edits + 1
      BY <1>2 DEF EditStep
    <2>2. \A g \in Files : disk'[g] = disk[g] \/ disk'[g] = file
      BY <1>2 DEF EditStep, Operator, TypeInv, TypeOK
    <2> QED BY <1>1, <1>2, <2>1, <2>2 DEF EditStep, Operator, engine
  <1>3. CASE Move
    BY <1>1, <1>3 DEF Move, engine
  <1>4. ASSUME NEW t \in Threads, ThreadStep(t) PROVE BoundInv'
    <2>0. UNCHANGED <<disk, edits>>
      BY <1>4, Own DEF files
    <2>1. ASSUME mtimes' \in {mtimes, new[t].mtimes}, since'[t] \in {since[t], edits, None},
                 new'[t].mtimes = new[t].mtimes \/ Below(new'[t].mtimes, edits)
          PROVE  BoundInv'
      <3>1. Below(mtimes', edits')
        BY <2>0, <2>1 DEF BoundInv
      <3>2. \A o \in Threads : Below(new'[o].mtimes, edits')
        BY <1>4, <2>0, <2>1, Own DEF BoundInv
      <3>3. \A o \in Threads : since'[o] # None => since'[o] <= edits'
        BY <1>0, <1>4, <2>0, <2>1, Own DEF BoundInv
      <3> QED BY <2>0, <3>1, <3>2, <3>3 DEF BoundInv, Below
    <2>2. Below(Loaded.mtimes, edits)
      BY DEF Below, Loaded, Nothing
    <2>3. CASE FindGone(t)
      BY <2>1, <2>2, <2>3 DEF FindGone, Started, engine, TypeInv, TypeOK
    <2>4. CASE List(t)
      BY <2>1, <2>4 DEF List, Started, engine, TypeInv, TypeOK
    <2>5. CASE \E f \in Files : Compare(t, f)
      BY <2>1, <2>5 DEF Compare, engine
    <2>6. CASE Glob(t)
      BY <2>1, <2>2, <2>6 DEF Glob, engine, TypeInv, TypeOK
    <2>7. CASE Stat(t)
      <3> DEFINE f == NextFile(t)
      <3>1. IF OnDisk(f) THEN new' = [new EXCEPT ![t].mtimes[f] = disk[f].mtime] ELSE new' = new
        BY <2>7, Zenon DEF Stat
      <3>2. f \in Files
        BY <2>7, NextFileIsLeast DEF Stat, TypeInv, TypeOK
      <3>3. CASE OnDisk(f)
        <4>1. new'[t].mtimes = [new[t].mtimes EXCEPT ![f] = disk[f].mtime]
          BY <3>1, <3>3, <3>2 DEF TypeInv, TypeOK, LoadType
        <4>2. disk[f].mtime <= edits /\ Below(new[t].mtimes, edits) /\ new[t].mtimes \in Stamps
          BY <3>2, <3>3 DEF OnDisk, BoundInv, TypeInv, TypeOK, LoadType, Stamps
        <4>3. Below(new'[t].mtimes, edits)
          <5> HIDE DEF f
          <5> QED BY <4>1, <4>2, <3>2 DEF Below, Stamps
        <4> QED BY <2>1, <2>7, <4>3 DEF Stat, engine
      <3>4. CASE ~ OnDisk(f)
        BY <2>1, <2>7, <3>1, <3>4 DEF Stat, engine
      <3> QED BY <3>3, <3>4
    <2>8. CASE Read(t)
      <3>1. new'[t].mtimes = new[t].mtimes
        BY <2>8 DEF Read, TypeInv, TypeOK, LoadType
      <3> QED BY <2>1, <2>8, <3>1 DEF Read, engine
    <2>9. CASE PublishPatterns(t)
      BY <2>1, <2>9 DEF PublishPatterns
    <2>10. CASE PublishMtimes(t)
      BY <2>1, <2>2, <2>10 DEF PublishMtimes, TypeInv, TypeOK
    <2>11. CASE Match(t)
      BY <2>1, <2>11 DEF Match, engine, TypeInv, TypeOK
    <2> QED BY <1>4, <2>3, <2>4, <2>5, <2>6, <2>7, <2>8, <2>9, <2>10, <2>11 DEF ThreadStep
  <1>5. CASE UNCHANGED <<dir, disk, edits, engine, pc, todo, new, since, loads>> /\ late' \in BOOLEAN
    BY <1>5 DEF BoundInv, Below, engine
  <1> QED BY <1>2, <1>3, <1>4, <1>5, Steps

LEMMA InitBounds == Init => BoundInv
  <1> SUFFICES ASSUME Init PROVE BoundInv
    OBVIOUS
  <1>1. \A f \in Files : disk[f] # None => disk[f].mtime = 0
    BY DEF Init
  <1>2. Below(mtimes, edits)
    BY <1>1 DEF Init, Below
  <1>3. \A t \in Threads : Below(new[t].mtimes, edits)
    BY DEF Init, Below, Loaded, Nothing
  <1> QED BY <1>1, <1>2, <1>3 DEF Init, BoundInv

-----------------------------------------------------------------------------
(* A load. *)

Inside(t) == pc[t] \in {"stat", "read", "stamp"}

LoadInv(t) ==
  Inside(t) =>
    /\ Known(disk, new[t].patterns, new[t].mtimes, new[t].unread, todo[t])
    /\ \A f \in Files : new[t].mtimes[f] # None =>
         \A g \in todo[t] : f <= g /\ (f = g => pc[t] = "read")
    /\ pc[t] = "read" => new[t].mtimes[NextFile(t)] # None
    /\ pc[t] = "stamp" => todo[t] = {}

LEMMA KnownAfterEdit ==
  ASSUME TypeInv, NEW f \in Files, NEW file \in FileType, EditStep(f, file),
         NEW p, NEW m \in Stamps, Below(m, edits), NEW u, NEW rest, Known(disk, p, m, u, rest)
  PROVE  Known(disk', p, m, u, rest)
  <1>1. disk \in Contents /\ disk' = [disk EXCEPT ![f] = file] /\ edits \in Nat
    BY FilesAreNumbers DEF TypeInv, TypeOK, Contents, EditStep, Operator
  <1>2. m[f] # None => m[f] \in Nat /\ m[f] <= edits
    BY FilesAreNumbers DEF Stamps, Below
  <1>3. m[f] # None => file = None \/ file.mtime # m[f]
    BY <1>1, <1>2 DEF EditStep
  <1>4. \A g \in Files : /\ Sound(disk, p, m, g) => Sound(disk', p, m, g)
                         /\ Full(disk, p, m, u, g) => Full(disk', p, m, u, g)
    BY <1>1, <1>3, EditKeeps
  <1> QED BY <1>4 DEF Known

LEMMA KnownNothing ==
  ASSUME NEW d, NEW rest
  PROVE  Known(d, Nothing, Nothing, {}, rest)
  BY DEF Known, Sound, Full, Loads, Nothing

LEMMA LoadsThread ==
  ASSUME TypeInv, BoundInv, NEW t \in Threads, LoadInv(t), ThreadStep(t)
  PROVE  LoadInv(t)'
  <1>0. disk' = disk
    BY Own DEF files
  <1>1. ASSUME pc'[t] \notin {"stat", "read", "stamp"} PROVE LoadInv(t)'
    BY <1>1 DEF LoadInv, Inside
  <1>2. ASSUME pc'[t] = "stat", new'[t] = Loaded PROVE LoadInv(t)'
    BY <1>2, KnownNothing DEF LoadInv, Loaded, Nothing
  <1>3. CASE FindGone(t)
    BY <1>3, <1>1, <1>2 DEF FindGone, Go, TypeInv, TypeOK
  <1>4. CASE List(t)
    BY <1>4, <1>1 DEF List, Unloaded, Go, TypeInv, TypeOK
  <1>5. CASE \E f \in Files : Compare(t, f)
    BY <1>5, <1>1 DEF Compare, Unloaded, Go, TypeInv, TypeOK
  <1>6. CASE Glob(t)
    BY <1>6, <1>2 DEF Glob, Go, TypeInv, TypeOK
  <1>7. CASE Match(t)
    BY <1>7, <1>1 DEF Match, Go, TypeInv, TypeOK
  <1>8. CASE PublishMtimes(t)
    BY <1>8, <1>1 DEF PublishMtimes, Go, TypeInv, TypeOK
  <1>9. CASE PublishPatterns(t)
    <2>1. pc[t] = "stat" /\ pc'[t] = "stamp" /\ todo[t] = {} /\ UNCHANGED <<todo, new>>
      BY <1>9 DEF PublishPatterns, Go, TypeInv, TypeOK
    <2> QED BY <1>0, <2>1 DEF LoadInv, Inside
  <1> DEFINE f == NextFile(t)
             p == new[t].patterns
             m == new[t].mtimes
             u == new[t].unread
  <1>10. /\ p \in Memory /\ m \in Stamps /\ u \in SUBSET Files /\ todo[t] \in SUBSET Files
         /\ disk \in Contents
    BY DEF TypeInv, TypeOK, LoadType, Memory, Stamps, Contents
  <1>11. todo[t] # {} => f \in todo[t] /\ f \in Files /\ f \in Nat /\ \A g \in todo[t] : f <= g
    BY <1>10, NextFileIsLeast, FilesAreNumbers DEF TypeInv
  <1>12. CASE Stat(t)
    <2>1. pc[t] = "stat" /\ todo[t] # {}
      BY <1>12 DEF Stat
    <2>2. Known(disk, p, m, u, todo[t]) /\ \A g \in Files : m[g] # None => g < f
      <3>1. Known(disk, p, m, u, todo[t]) /\ \A g \in Files : m[g] # None => g <= f /\ g # f
        BY <2>1, <1>11 DEF LoadInv, Inside
      <3>2. Files \subseteq Nat
        BY FilesAreNumbers
      <3> QED BY <3>1, <3>2, <1>11, <2>1
    <2>3. CASE OnDisk(f)
      <3>1. /\ new'[t].patterns = p /\ new'[t].mtimes = [m EXCEPT ![f] = disk[f].mtime]
            /\ new'[t].unread = u /\ todo' = todo /\ pc'[t] = "read"
        <4>1. new' = [new EXCEPT ![t].mtimes[f] = disk[f].mtime] /\ todo' = todo
          BY <1>12, <2>3, Zenon DEF Stat
        <4>2. pc'[t] = "read"
          BY <1>12, <2>3 DEF Stat, Go, TypeInv, TypeOK
        <4> QED BY <4>1, <4>2 DEF TypeInv, TypeOK, LoadType
      <3>2. disk[f].mtime \in Mtimes /\ disk[f].mtime # None
        BY <1>10, <1>11, <2>1, <2>3, FilesAreNumbers DEF OnDisk, Contents, FileType
      <3>3. Known(disk, p, [m EXCEPT ![f] = disk[f].mtime], u, todo[t])
        BY <1>10, <1>11, <2>1, <2>2, <3>2, StatKeeps
      <3>4. \A g \in Files : new'[t].mtimes[g] # None => \A h \in todo[t] : g <= h
        <4> SUFFICES ASSUME NEW g \in Files, new'[t].mtimes[g] # None, NEW h \in todo[t]
                     PROVE  g <= h
          OBVIOUS
        <4>1. g = f \/ m[g] # None
          BY <3>1, <1>10 DEF Stamps
        <4>2. g \in Nat /\ h \in Nat /\ f \in Nat /\ f <= h
          BY <1>10, <1>11, <2>1, FilesAreNumbers
        <4>3. g = f \/ g < f
          BY <4>1, <2>2
        <4> HIDE DEF f
        <4> QED BY <4>2, <4>3
      <3>5. new'[t].mtimes[f] # None /\ NextFile(t)' = f
        BY <3>1, <3>2, <1>10, <1>11, <2>1 DEF NextFile, Stamps
      <3>6. Known(disk', new'[t].patterns, new'[t].mtimes, new'[t].unread, todo'[t])
        BY <1>0, <3>1, <3>3
      <3> HIDE DEF f, p, m, u
      <3>7. (Inside(t) => pc[t] = "read" /\ new[t].mtimes[NextFile(t)] # None)'
        BY <3>1, <3>5
      <3> QED BY <3>1, <3>4, <3>6, <3>7 DEF LoadInv
    <2>4. CASE ~ OnDisk(f)
      <3>1. new' = new /\ pc' = pc /\ todo'[t] = todo[t] \ {f}
        BY <1>12, <2>4 DEF Stat, TypeInv, TypeOK
      <3>2. Known(disk, p, m, u, todo[t] \ {f})
        BY <1>10, <1>11, <2>1, <2>2, StatKeeps
      <3>3. Known(disk', new'[t].patterns, new'[t].mtimes, new'[t].unread, todo'[t])
        BY <1>0, <3>1, <3>2
      <3> QED BY <2>1, <3>1, <3>3 DEF LoadInv, Inside
    <2> QED BY <2>3, <2>4
  <1>13. CASE Read(t)
    <2>1. pc[t] = "read" /\ todo[t] # {}
      BY <1>13 DEF Read, TypeInv, ReadsOne
    <2>2. Known(disk, p, m, u, todo[t]) /\ m[f] # None /\ \A g \in Files : m[g] # None => g <= f
      BY <2>1, <1>11 DEF LoadInv, Inside
    <2>3. pc'[t] = "stat" /\ todo'[t] = todo[t] \ {f}
      BY <1>13 DEF Read, Go, TypeInv, TypeOK
    <2>4. \/ /\ disk[f] # None /\ new'[t].patterns = Added(p, f, disk[f].doc)
             /\ new'[t].mtimes = m /\ new'[t].unread = u
          \/ new'[t].patterns = p /\ new'[t].mtimes = m /\ new'[t].unread = u \cup {f}
      <3>1. \/ OnDisk(f) /\ new' = [new EXCEPT ![t].patterns = Added(@, f, disk[f].doc)]
            \/ new' = [new EXCEPT ![t].unread = @ \cup {f}]
        BY <1>13 DEF Read
      <3> QED BY <3>1 DEF TypeInv, TypeOK, LoadType, OnDisk
    <2>5. disk[f] # None => Known(disk, Added(p, f, disk[f].doc), m, u, todo[t] \ {f})
      BY <1>10, <1>11, <2>1, <2>2, AddKeeps
    <2>6. Known(disk, p, m, u \cup {f}, todo[t] \ {f})
      BY <1>10, <1>11, <2>1, <2>2, SkipKeeps
    <2>7. Known(disk', new'[t].patterns, new'[t].mtimes, new'[t].unread, todo'[t])
      BY <1>0, <2>3, <2>4, <2>5, <2>6
    <2>8. \A g \in Files : new'[t].mtimes[g] # None => \A h \in todo'[t] : g <= h /\ g # h
      <3> SUFFICES ASSUME NEW g \in Files, m[g] # None, NEW h \in todo[t], h # f
                   PROVE  g <= h /\ g # h
        BY <2>3, <2>4
      <3>1. g <= f /\ f <= h /\ g \in Nat /\ h \in Nat /\ f \in Nat
        BY <1>10, <1>11, <2>1, <2>2, FilesAreNumbers
      <3> QED BY <3>1
    <2> QED BY <2>3, <2>7, <2>8 DEF LoadInv
  <1> QED BY <1>3, <1>4, <1>5, <1>6, <1>7, <1>8, <1>9, <1>12, <1>13 DEF ThreadStep

LEMMA LoadsNext ==
  ASSUME TypeInv, BoundInv, \A t \in Threads : LoadInv(t), [Next]_vars
  PROVE  \A t \in Threads : LoadInv(t)'
  <1>1. ASSUME NEW f \in Files, NEW file \in FileType, EditStep(f, file), NEW t \in Threads
        PROVE  LoadInv(t)'
    <2>1. UNCHANGED <<pc, todo, new>>
      BY <1>1 DEF EditStep, Operator
    <2>2. new[t].mtimes \in Stamps /\ Below(new[t].mtimes, edits)
      BY DEF TypeInv, TypeOK, LoadType, Stamps, BoundInv
    <2>3. Inside(t) => Known(disk', new[t].patterns, new[t].mtimes, new[t].unread, todo[t])
      BY <1>1, <2>2, KnownAfterEdit DEF LoadInv
    <2> QED BY <2>1, <2>3 DEF LoadInv, Inside, NextFile
  <1>2. ASSUME NEW o \in Threads, ThreadStep(o), NEW t \in Threads PROVE LoadInv(t)'
    <2>1. CASE o = t
      BY <1>2, <2>1, LoadsThread
    <2>2. CASE o # t
      BY <1>2, <2>2, Own DEF LoadInv, Inside, NextFile, files
    <2> QED BY <2>1, <2>2
  <1>3. CASE UNCHANGED <<disk, pc, todo, new>>
    BY <1>3 DEF LoadInv, Inside, NextFile
  <1> QED BY <1>1, <1>2, <1>3, Steps DEF Move

-----------------------------------------------------------------------------
(* Who loads, and what the engine has from the last load. *)

SoloInv ==
  /\ solo # None => Loading = {solo}
  /\ ~ clash => Loading \subseteq {solo}
  /\ \A t \in Threads : pc[t] = "stamp" /\ solo = t => patterns = new[t].patterns

PublishedInv == Loading = {} /\ ~ clash => Known(disk, patterns, mtimes, unread, {})

EngineInv == BoundInv /\ (\A t \in Threads : LoadInv(t)) /\ SoloInv /\ PublishedInv

(* A step of a thread starts a load, ends one, or leaves them as they are.  *)
LEMMA LoadingSteps ==
  ASSUME TypeInv, NEW t \in Threads, ThreadStep(t)
  PROVE  \/ /\ Loading' = Loading \cup {t} /\ LoadStarts(t) /\ pc'[t] # "stamp"
            /\ UNCHANGED engine
         \/ PublishMtimes(t) /\ t \in Loading /\ Loading' = Loading \ {t}
         \/ PublishPatterns(t) /\ t \in Loading /\ Loading' = Loading /\ UNCHANGED loads
         \/ Loading' = Loading /\ pc'[t] # "stamp" /\ UNCHANGED <<loads, engine>>
  <1>0. /\ pc'[t] \in {"load", "stat", "read", "stamp"} => Loading' = Loading \cup {t}
        /\ pc'[t] \notin {"load", "stat", "read", "stamp"} => Loading' = Loading \ {t}
        /\ pc[t] \in {"load", "stat", "read", "stamp"} <=> t \in Loading
    BY Own DEF Loading
  <1> USE DEF Go
  <1>1. CASE FindGone(t)
    BY <1>1, <1>0 DEF FindGone, TypeInv, TypeOK
  <1>2. CASE List(t)
    BY <1>2, <1>0 DEF List, Unloaded, TypeInv, TypeOK
  <1>3. CASE \E f \in Files : Compare(t, f)
    <2>1. PICK f \in Files : Compare(t, f)
      BY <1>3
    <2>2. \/ LoadStarts(t) /\ pc'[t] = "load"
          \/ pc'[t] \in {"match", "compare"} /\ UNCHANGED loads
      BY <2>1 DEF Compare, Unloaded, TypeInv, TypeOK
    <2>3. t \notin Loading /\ UNCHANGED engine
      BY <2>1, <1>0 DEF Compare
    <2> QED BY <2>2, <2>3, <1>0
  <1>4. CASE Glob(t)
    BY <1>4, <1>0 DEF Glob, TypeInv, TypeOK
  <1>5. CASE Stat(t)
    <2>1. pc[t] = "stat" /\ pc'[t] \in {"stat", "read"} /\ UNCHANGED <<loads, engine>>
      BY <1>5 DEF Stat, TypeInv, TypeOK
    <2> QED BY <2>1, <1>0
  <1>6. CASE Read(t)
    BY <1>6, <1>0 DEF Read, TypeInv, TypeOK
  <1>7. CASE PublishPatterns(t)
    BY <1>7, <1>0 DEF PublishPatterns, TypeInv, TypeOK
  <1>8. CASE PublishMtimes(t)
    BY <1>8, <1>0 DEF PublishMtimes, TypeInv, TypeOK
  <1>9. CASE Match(t)
    BY <1>9, <1>0 DEF Match, TypeInv, TypeOK
  <1> QED BY <1>1, <1>2, <1>3, <1>4, <1>5, <1>6, <1>7, <1>8, <1>9 DEF ThreadStep

LEMMA EngineNext == TypeInv /\ EngineInv /\ [Next]_vars => SoloInv' /\ PublishedInv'
  <1> SUFFICES ASSUME TypeInv, EngineInv, [Next]_vars PROVE SoloInv' /\ PublishedInv'
    OBVIOUS
  <1>1. ASSUME NEW f \in Files, NEW file \in FileType, EditStep(f, file)
        PROVE  SoloInv' /\ PublishedInv'
    <2>1. UNCHANGED <<pc, new, solo, clash, patterns, mtimes, unread>>
      BY <1>1 DEF EditStep, Operator, engine, loads
    <2>2. Known(disk, patterns, mtimes, unread, {}) => Known(disk', patterns, mtimes, unread, {})
      BY <1>1, KnownAfterEdit DEF EngineInv, BoundInv, TypeInv, TypeOK, Stamps
    <2> QED BY <2>1, <2>2 DEF EngineInv, SoloInv, PublishedInv, Loading
  <1>2. ASSUME NEW t \in Threads, ThreadStep(t) PROVE SoloInv' /\ PublishedInv'
    <2>0. disk' = disk /\ t # None /\ \A o \in Threads : o # t => pc'[o] = pc[o] /\ new'[o] = new[o]
      BY <1>2, Own, NoneAssumption DEF files
    <2>1. CASE /\ Loading' = Loading \cup {t} /\ LoadStarts(t) /\ pc'[t] # "stamp"
               /\ UNCHANGED engine
      BY <2>0, <2>1, NoneAssumption DEF LoadStarts, SoloInv, PublishedInv
    <2>2. CASE PublishMtimes(t) /\ t \in Loading /\ Loading' = Loading \ {t}
      <3>1. CASE solo = t
        <4>1. solo' = None /\ Loading' = {}
          BY <2>2, <3>1, <2>0 DEF PublishMtimes, EngineInv, SoloInv
        <4>2. SoloInv'
          BY <4>1, NoneAssumption DEF SoloInv
        <4>3. Known(disk, new[t].patterns, new[t].mtimes, new[t].unread, {})
          BY <2>2 DEF PublishMtimes, EngineInv, LoadInv, Inside
        <4>4. patterns' = new[t].patterns /\ mtimes' = new[t].mtimes /\ unread' = new[t].unread
          BY <2>2, <3>1 DEF PublishMtimes, EngineInv, SoloInv
        <4> QED BY <2>0, <4>2, <4>3, <4>4 DEF PublishedInv
      <3>2. CASE solo # t
        <4>1. solo = None /\ clash
          BY <2>2, <3>2, <2>0 DEF EngineInv, SoloInv
        <4>2. solo' = None /\ clash'
          BY <2>2, <3>2, <4>1 DEF PublishMtimes
        <4> QED BY <4>2, NoneAssumption DEF SoloInv, PublishedInv
      <3> QED BY <3>1, <3>2
    <2>3. CASE PublishPatterns(t) /\ t \in Loading /\ Loading' = Loading /\ UNCHANGED loads
      <3>1. patterns' = new[t].patterns /\ new' = new
        BY <2>3 DEF PublishPatterns
      <3>2. \A o \in Threads : solo = o => o = t
        BY <2>3, NoneAssumption DEF EngineInv, SoloInv
      <3>3. SoloInv'
        BY <2>3, <3>1, <3>2 DEF EngineInv, SoloInv, loads
      <3> QED BY <2>3, <3>3 DEF PublishedInv
    <2>4. CASE Loading' = Loading /\ pc'[t] # "stamp" /\ UNCHANGED <<loads, engine>>
      BY <2>0, <2>4 DEF EngineInv, SoloInv, PublishedInv, loads, engine
    <2> QED BY <1>2, <2>1, <2>2, <2>3, <2>4, LoadingSteps
  <1>3. CASE UNCHANGED <<disk, engine, pc, new, loads>>
    BY <1>3 DEF EngineInv, SoloInv, PublishedInv, Loading, engine, loads
  <1> QED BY <1>1, <1>2, <1>3, Steps DEF Move

LEMMA InitEngine == Init => EngineInv
  <1> SUFFICES ASSUME Init PROVE EngineInv
    OBVIOUS
  <1>1. Loading = {} /\ solo = None /\ \A t \in Threads : ~ Inside(t)
    BY DEF Init, Loading, Inside
  <1>2. ASSUME NEW f \in Files PROVE Sound(disk, patterns, mtimes, f) /\ patterns[f] = Loads(disk, mtimes, f)
    <2>1. patterns[f] = Current[f] /\ \A g \in Files : OnDisk(g) <=> disk[g] # None
      BY DEF Init, OnDisk
    <2>2. \A g \in Files : disk[g] # None => disk[g].mtime = 0 /\ 0 # None
      BY NoneAssumption DEF Init
    <2>3. \A g \in Files : /\ disk[g] # None <=> mtimes[g] # None
                           /\ mtimes[g] = IF disk[g] = None THEN None ELSE disk[g].mtime
      BY <2>2 DEF Init
    <2>4. \A g \in 1 .. f - 1 : g \in Files
      BY BoundAssumption DEF Files
    <2>5. Current[f] = Loads(disk, mtimes, f)
      BY <2>1, <2>3, <2>4 DEF Current, Loads, Valid
    <2>6. Loads(disk, mtimes, f) # None => mtimes[f] # None /\ Loads(disk, mtimes, f) = Validate(disk[f].doc)
      BY DEF Loads
    <2> QED BY <2>1, <2>5, <2>6 DEF Sound
  <1>3. PublishedInv
    BY <1>2 DEF PublishedInv, Known, Full
  <1>4. SoloInv
    BY <1>1, NoneAssumption DEF SoloInv, Init
  <1> QED BY <1>1, <1>3, <1>4, InitBounds DEF EngineInv, LoadInv

LEMMA EngineAlways == Spec => [](TypeInv /\ EngineInv)
  <1>1. TypeInv /\ EngineInv /\ [Next]_vars => TypeInv' /\ EngineInv'
    <2>1. TypeInv /\ EngineInv /\ [Next]_vars => TypeInv' /\ BoundInv' /\ SoloInv' /\ PublishedInv'
      BY NextTypes, BoundsNext, EngineNext DEF EngineInv
    <2>2. TypeInv /\ EngineInv /\ [Next]_vars => \A t \in Threads : LoadInv(t)'
      BY LoadsNext DEF EngineInv
    <2>3. (\A t \in Threads : LoadInv(t)') /\ BoundInv' /\ SoloInv' /\ PublishedInv' => EngineInv'
      BY DEF EngineInv
    <2> QED BY <2>1, <2>2, <2>3
  <1> QED BY <1>1, InitTypes, InitEngine, PTL DEF Spec

(* While no load is under way and the last ones did not overlap, an engine  *)
(* whose mtimes are those of the files knows the patterns of these very     *)
(* files, and all of them if it could read all.                             *)
THEOREM StaleOnlyAfterClash == Spec => []StaleOnlyByClash
  <1>1. ASSUME TypeInv, EngineInv PROVE StaleOnlyByClash
    <2> SUFFICES ASSUME Loading = {}, ~ clash, InStep
                 PROVE  /\ \A f \in Files : patterns[f] # None =>
                             OnDisk(f) /\ patterns[f] = Validate(disk[f].doc)
                        /\ unread = {} => patterns = Current
      BY DEF StaleOnlyByClash
    <2>1. \A f \in Files : /\ Sound(disk, patterns, mtimes, f)
                           /\ Full(disk, patterns, mtimes, unread, f)
      BY <1>1 DEF EngineInv, PublishedInv, Known
    <2>2. \A f \in Files : /\ mtimes[f] # None <=> OnDisk(f)
                           /\ mtimes[f] # None => mtimes[f] = disk[f].mtime
                           /\ OnDisk(f) <=> disk[f] # None
      <3>1. \A f \in Files : disk[f] # None => disk[f].mtime # None
        BY <1>1, FilesAreNumbers DEF TypeInv, TypeOK, FileType
      <3> QED BY <3>1 DEF InStep, OnDisk
    <2>3. \A f \in Files : Same(disk, mtimes, f)
      BY <2>2 DEF Same
    <2>4. ASSUME unread = {}, NEW f \in Files PROVE patterns[f] = Current[f]
      <3>1. 1 .. f \subseteq Files /\ 1 .. f - 1 \subseteq Files
        BY BoundAssumption DEF Files
      <3>2. patterns[f] = Loads(disk, mtimes, f)
        BY <2>1, <2>3, <2>4, <3>1 DEF Full
      <3>3. Loads(disk, mtimes, f) = Current[f]
        BY <2>2, <3>1 DEF Loads, Valid, Current
      <3> QED BY <3>2, <3>3
    <2>5. patterns \in [Files -> PatternType \cup {None}] /\ Current \in Memory
      BY <1>1, CurrentType DEF TypeInv, TypeOK, Contents
    <2>6. unread = {} => patterns = Current
      BY <2>4, <2>5 DEF Memory
    <2> QED BY <2>1, <2>2, <2>3, <2>6 DEF Sound
  <1> QED BY <1>1, EngineAlways, PTL

-----------------------------------------------------------------------------
(* What has been loaded or compared since the last edit.                    *)

Compared(t) ==
  /\ Present = Tracked /\ todo[t] \subseteq Present
  /\ \A f \in Files : Sound(disk, patterns, mtimes, f)
  /\ \A f \in Present \ todo[t] : mtimes[f] = disk[f].mtime

UpToDate(t) ==
  ~ clash /\ since[t] = edits =>
    /\ pc[t] = "match" => Fresh(dir, disk, patterns)
    /\ pc[t] = "compare" => Fresh(dir, disk, patterns) \/ Compared(t)

LoadsUpToDate ==
  /\ \A t \in Threads : Inside(t) => Fresh(dir, disk, new[t].patterns)
  /\ (\E t \in Threads : pc[t] = "stamp") => Fresh(dir, disk, patterns)

FreshInv ==
  /\ (\E t \in Threads : since[t] = edits) => LoadsUpToDate
  /\ \A t \in Threads : UpToDate(t)

(* All files have been compared, and no mtime differs. *)
LEMMA ComparedIsFresh ==
  ASSUME TypeInv, Present = Tracked, \A f \in Files : Sound(disk, patterns, mtimes, f),
         \A f \in Present : mtimes[f] = disk[f].mtime
  PROVE  Fresh(dir, disk, patterns)
  <1> SUFFICES ASSUME NEW f \in Files, patterns[f] # None
               PROVE  dir /\ disk[f] # None /\ patterns[f] = Validate(disk[f].doc)
    BY DEF Fresh
  <1>1. f \in Present
    BY DEF Sound, Tracked
  <1> QED BY <1>1 DEF Present, OnDisk, Sound, Same

(* A step that leaves the engine as it is. *)
LEMMA FreshFrame ==
  ASSUME TypeInv, FreshInv, NEW t \in Threads, ThreadStep(t), UNCHANGED engine,
         since'[t] = edits => since[t] = edits \/ Loading = {},
         pc'[t] # "stamp", clash => clash',
         Inside(t)' => \/ new'[t].patterns = Nothing
                       \/ Inside(t) /\ (Fresh(dir, disk, new[t].patterns) => Fresh(dir, disk, new'[t].patterns)),
         UpToDate(t)'
  PROVE  FreshInv'
  <1>0. /\ UNCHANGED <<dir, disk, edits, patterns, mtimes>>
        /\ \A o \in Threads : o # t => /\ pc'[o] = pc[o] /\ todo'[o] = todo[o]
                                       /\ new'[o] = new[o] /\ since'[o] = since[o]
    BY Own DEF files, engine
  <1>1. ASSUME NEW o \in Threads, o # t PROVE UpToDate(o)'
    BY <1>0, <1>1 DEF FreshInv, UpToDate, Compared, Present, Tracked, OnDisk
  <1>2. ASSUME NEW s \in Threads, since'[s] = edits PROVE LoadsUpToDate'
    <2>1. LoadsUpToDate \/ Loading = {}
      BY <1>0, <1>2 DEF FreshInv
    <2>2. ASSUME NEW o \in Threads, o # t, Inside(o)' PROVE Fresh(dir, disk, new[o].patterns)
      BY <1>0, <2>1, <2>2 DEF LoadsUpToDate, Inside, Loading
    <2>3. Fresh(dir, disk, Nothing)
      BY DEF Fresh, Nothing
    <2>4. Inside(t)' => Fresh(dir, disk, new'[t].patterns)
      <3>1. Inside(t) => t \in Loading
        BY DEF Inside, Loading
      <3> QED BY <3>1, <2>1, <2>3 DEF LoadsUpToDate
    <2>5. ASSUME NEW o \in Threads, pc'[o] = "stamp" PROVE Fresh(dir, disk, patterns)
      BY <1>0, <2>1, <2>5 DEF LoadsUpToDate, Loading
    <2> QED BY <1>0, <2>2, <2>4, <2>5 DEF LoadsUpToDate
  <1> QED BY <1>0, <1>1, <1>2 DEF FreshInv

(* A step of a thread keeps it. *)
LEMMA FreshThread ==
  ASSUME TypeInv, EngineInv, FreshInv, NEW t \in Threads, ThreadStep(t)
  PROVE  FreshInv'
  <1>0. /\ UNCHANGED <<dir, disk, edits>> /\ edits \in Nat /\ edits # None
        /\ \A o \in Threads : o # t => /\ pc'[o] = pc[o] /\ todo'[o] = todo[o]
                                       /\ new'[o] = new[o] /\ since'[o] = since[o]
    BY Own, FilesAreNumbers DEF files, TypeInv, TypeOK
  <1>1. ASSUME UpToDate(t)', pc[t] \in {"idle", "compare"}, UNCHANGED engine,
               since'[t] = edits => since[t] = edits \/ Loading = {},
               clash => clash', pc'[t] \in {"match", "compare", "load", "stat"},
               pc'[t] = "stat" => new'[t].patterns = Nothing
        PROVE  FreshInv'
    BY <1>1, FreshFrame DEF Inside
  <1>2. CASE FindGone(t)
    <2>1. /\ since'[t] = edits => Loading = {}
          /\ clash => clash'
          /\ pc[t] = "idle" /\ pc'[t] \in {"match", "stat"}
          /\ pc'[t] = "stat" => new'[t].patterns = Nothing
          /\ pc'[t] = "match" => patterns = Nothing
      BY <1>2, <1>0 DEF FindGone, Started, LoadStarts, loads, Go, TypeInv, TypeOK, Loaded
    <2>2. UNCHANGED engine
      BY <1>2 DEF FindGone
    <2>3. UpToDate(t)'
      BY <2>1, <2>2 DEF UpToDate, Fresh, Nothing, engine
    <2> QED BY <1>1, <2>1, <2>2, <2>3
  <1>3. CASE List(t)
    <2>1. /\ since'[t] = edits => Loading = {}
          /\ clash => clash'
          /\ pc[t] = "idle" /\ pc'[t] \in {"match", "compare", "load"}
          /\ pc'[t] # "load" => Present = Tracked /\ todo'[t] = Present
          /\ pc'[t] = "match" => todo'[t] = {}
      BY <1>3, <1>0 DEF List, Unloaded, Started, LoadStarts, loads, Go, TypeInv, TypeOK
    <2>2. UNCHANGED engine
      BY <1>3 DEF List
    <2>3. ASSUME ~ clash', since'[t] = edits, pc'[t] # "load"
          PROVE  /\ \A f \in Files : Sound(disk, patterns, mtimes, f)
                 /\ Present = Tracked /\ todo'[t] = Present
      BY <2>1, <2>3 DEF EngineInv, PublishedInv, Known
    <2>4. ASSUME ~ clash', since'[t] = edits, pc'[t] = "match" PROVE Fresh(dir, disk, patterns)
      <3>1. Present = {}
        BY <2>1, <2>4
      <3> QED BY <3>1, <2>3, <2>4, ComparedIsFresh
    <2>5. ASSUME ~ clash', since'[t] = edits, pc'[t] = "compare" PROVE Compared(t)'
      <3>1. UNCHANGED <<Present, Tracked, patterns, mtimes, disk>>
        BY <1>0, <2>2 DEF Present, Tracked, OnDisk, engine
      <3> QED BY <3>1, <2>3, <2>5 DEF Compared
    <2>6. UpToDate(t)'
      BY <1>0, <2>2, <2>4, <2>5 DEF UpToDate, engine
    <2> QED BY <1>1, <2>1, <2>2, <2>6
  <1>4. ASSUME NEW f \in Files, Compare(t, f) PROVE FreshInv'
    <2>1. /\ since' = since
          /\ clash => clash'
          /\ pc[t] = "compare" /\ pc'[t] \in {"match", "compare", "load"}
          /\ pc'[t] # "load" /\ f \in Present =>
               /\ clash' = clash /\ todo'[t] = todo[t] \ {f} /\ disk[f].mtime = mtimes[f]
               /\ pc'[t] = "match" => todo'[t] = {}
          /\ f \in todo[t]
          /\ UNCHANGED engine
      <3>1. f \in Present <=> OnDisk(f)
        BY DEF Present
      <3> QED BY <1>4, <1>0, <3>1 DEF Compare, Unloaded, LoadStarts, loads, Go, TypeInv, TypeOK
    <2>2. UNCHANGED <<Present, Tracked, patterns, mtimes, disk>>
      BY <1>0, <2>1 DEF Present, Tracked, OnDisk, engine
    <2>3. ASSUME ~ clash', since'[t] = edits, pc'[t] # "load", ~ Fresh(dir, disk, patterns)
          PROVE  /\ Compared(t) /\ f \in Present /\ todo'[t] = todo[t] \ {f}
                 /\ \A g \in Present \ todo'[t] : mtimes[g] = disk[g].mtime
                 /\ pc'[t] = "match" => todo'[t] = {}
      <3>1. Compared(t)
        BY <2>1, <2>3 DEF FreshInv, UpToDate
      <3>2. f \in Present
        BY <3>1, <2>1 DEF Compared
      <3> QED BY <3>1, <3>2, <2>1, <2>3 DEF Compared
    <2>4. ASSUME ~ clash', since'[t] = edits, pc'[t] = "match" PROVE Fresh(dir, disk, patterns)
      <3> SUFFICES ASSUME ~ Fresh(dir, disk, patterns) PROVE FALSE
        OBVIOUS
      <3>1. Compared(t) /\ \A g \in Present : mtimes[g] = disk[g].mtime
        BY <2>3, <2>4
      <3> QED BY <3>1, ComparedIsFresh DEF Compared
    <2>5. ASSUME ~ clash', since'[t] = edits, pc'[t] = "compare", ~ Fresh(dir, disk, patterns)
          PROVE  Compared(t)'
      BY <2>2, <2>3, <2>5 DEF Compared
    <2>6. UpToDate(t)'
      BY <1>0, <2>2, <2>4, <2>5 DEF UpToDate
    <2> QED BY <1>1, <2>1, <2>6
  <1>5. CASE Glob(t)
    <2>1. /\ pc'[t] = "stat" /\ new'[t].patterns = Nothing /\ UNCHANGED <<since, engine, loads>>
      BY <1>5 DEF Glob, Go, TypeInv, TypeOK, Loaded
    <2> QED BY <2>1, FreshFrame DEF UpToDate, loads
  <1>6. CASE Stat(t)
    <2>1. IF OnDisk(NextFile(t)) THEN new' = [new EXCEPT ![t].mtimes[NextFile(t)] = disk[NextFile(t)].mtime]
                                 ELSE new' = new
      BY <1>6, Zenon DEF Stat
    <2>2. new'[t].patterns = new[t].patterns
      BY <2>1 DEF TypeInv, TypeOK, LoadType
    <2>3. pc[t] = "stat" /\ pc'[t] \in {"stat", "read"} /\ UNCHANGED <<since, engine, loads>>
      BY <1>6 DEF Stat, Go, TypeInv, TypeOK
    <2> QED BY <2>2, <2>3, FreshFrame DEF UpToDate, Inside, loads
  <1>7. CASE Read(t)
    <2> DEFINE f == NextFile(t)
    <2>1. \/ OnDisk(f) /\ new' = [new EXCEPT ![t].patterns = Added(@, f, disk[f].doc)]
          \/ new' = [new EXCEPT ![t].unread = @ \cup {f}]
      BY <1>7 DEF Read
    <2>2. \/ OnDisk(f) /\ new'[t].patterns = Added(new[t].patterns, f, disk[f].doc)
          \/ new'[t].patterns = new[t].patterns
      BY <2>1 DEF TypeInv, TypeOK, LoadType
    <2>3. new[t].patterns \in Memory
      BY DEF TypeInv, TypeOK, LoadType, Memory
    <2>4. Fresh(dir, disk, new[t].patterns) => Fresh(dir, disk, new'[t].patterns)
      BY <2>2, <2>3 DEF Fresh, Added, Memory, OnDisk
    <2>5. pc[t] = "read" /\ pc'[t] = "stat" /\ UNCHANGED <<since, engine, loads>>
      BY <1>7 DEF Read, Go, TypeInv, TypeOK
    <2> QED BY <2>4, <2>5, FreshFrame DEF UpToDate, Inside, loads
  <1>8. CASE PublishPatterns(t)
    <2>1. /\ pc[t] = "stat" /\ pc'[t] = "stamp" /\ patterns' = new[t].patterns
          /\ UNCHANGED <<new, since>>
      BY <1>8 DEF PublishPatterns, Go, TypeInv, TypeOK
    <2>2. ASSUME NEW s \in Threads, since'[s] = edits
          PROVE  LoadsUpToDate /\ Fresh(dir', disk', patterns')
      BY <2>1, <2>2, <1>0 DEF FreshInv, LoadsUpToDate, Inside
    <2>3. ASSUME NEW s \in Threads, since'[s] = edits PROVE LoadsUpToDate'
      BY <2>1, <2>2, <2>3, <1>0 DEF LoadsUpToDate, Inside
    <2> QED BY <1>0, <2>2, <2>3 DEF FreshInv, UpToDate
  <1>9. CASE PublishMtimes(t)
    <2>1. pc[t] = "stamp" /\ pc'[t] = "match" /\ UNCHANGED <<patterns, since>>
      BY <1>9 DEF PublishMtimes, Go, TypeInv, TypeOK
    <2>2. ASSUME NEW s \in Threads, since'[s] = edits
          PROVE  LoadsUpToDate /\ Fresh(dir', disk', patterns')
      BY <2>1, <2>2, <1>0 DEF FreshInv, LoadsUpToDate
    <2>3. ASSUME NEW s \in Threads, since'[s] = edits PROVE LoadsUpToDate'
      BY <2>1, <2>2, <2>3, <1>0 DEF LoadsUpToDate, Inside
    <2> QED BY <1>0, <2>2, <2>3 DEF FreshInv, UpToDate
  <1>10. CASE Match(t)
    <2>1. since'[t] # edits /\ pc'[t] = "idle" /\ UNCHANGED <<engine, loads>>
      BY <1>10, <1>0 DEF Match, Go, TypeInv, TypeOK
    <2> QED BY <2>1, FreshFrame DEF UpToDate, Inside, loads
  <1> QED BY <1>2, <1>3, <1>4, <1>5, <1>6, <1>7, <1>8, <1>9, <1>10 DEF ThreadStep

LEMMA FreshNext == TypeInv /\ EngineInv /\ FreshInv /\ [Next]_vars => FreshInv'
  <1> SUFFICES ASSUME TypeInv, EngineInv, FreshInv, [Next]_vars PROVE FreshInv'
    OBVIOUS
  <1>1. ASSUME edits' = edits + 1, since' = since PROVE FreshInv'
    <2>1. edits \in Nat /\ None \notin Nat
      BY FilesAreNumbers, NoneAssumption DEF TypeInv, TypeOK
    <2>2. \A t \in Threads : since'[t] # edits'
      <3> SUFFICES ASSUME NEW t \in Threads, since[t] = edits + 1 PROVE FALSE
        BY <1>1
      <3>1. since[t] # None /\ since[t] <= edits
        BY <2>1 DEF EngineInv, BoundInv
      <3> QED BY <2>1, <3>1
    <2> QED BY <2>2 DEF FreshInv, UpToDate
  <1>2. ASSUME NEW f \in Files, NEW file \in FileType, EditStep(f, file) PROVE FreshInv'
    BY <1>1, <1>2 DEF EditStep, Operator
  <1>3. CASE Move
    BY <1>1, <1>3 DEF Move
  <1>4. CASE UNCHANGED <<dir, disk, edits, engine, pc, todo, new, since, loads>>
    BY <1>4 DEF FreshInv, LoadsUpToDate, UpToDate, Compared, Present, Tracked, OnDisk, Inside,
                engine, loads
  <1> QED BY <1>2, <1>3, <1>4, FreshThread, Steps

LEMMA InitFresh == Init => FreshInv
  <1> SUFFICES ASSUME Init PROVE FreshInv
    OBVIOUS
  <1>1. \A t \in Threads : since[t] # edits
    <2>1. None # 0
      BY NoneAssumption
    <2>2. edits = 0 /\ since = [t \in Threads |-> None]
      BY DEF Init
    <2> QED BY <2>1, <2>2
  <1> QED BY <1>1 DEF FreshInv, UpToDate

(* A match that starts after the last edit, with no load under way, fires   *)
(* only what a file on disk says and has signed, approved and in date,      *)
(* unless the loads before it overlapped.                                   *)
THEOREM WithdrawnFireNothing == Spec => []WithdrawnNeverFires
  <1>1. ASSUME TypeInv, FreshInv PROVE WithdrawnNeverFires
    <2> SUFFICES ASSUME NEW t \in Threads, pc[t] = "match", since[t] = edits, ~ clash,
                        Candidates # {}
                 PROVE  \E f \in Files : Approves(f, Fires)
      BY DEF WithdrawnNeverFires
    <2> DEFINE c == CHOOSE f \in Candidates : \A g \in Candidates : f <= g
    <2>1. Candidates \in SUBSET Nat
      BY FilesAreNumbers DEF Candidates
    <2>2. c \in Candidates
      BY <2>1, Minimum
    <2>3. Fires = patterns[c]
      BY DEF Fires
    <2> HIDE DEF c
    <2>4. c \in Files /\ patterns[c] # None /\ Armable(patterns[c])
      BY <2>2 DEF Candidates
    <2>5. OnDisk(c) /\ patterns[c] = Validate(disk[c].doc)
      BY <1>1, <2>4 DEF FreshInv, UpToDate, Fresh, OnDisk
    <2>6. Validate(disk[c].doc) # None => Validate(disk[c].doc).risk = Risk(disk[c].doc)
      BY DEF Validate
    <2>7. disk[c].doc.signed /\ disk[c].doc.approved /\ disk[c].doc.low
      BY <2>4, <2>5, <2>6 DEF Armable, Risk
    <2> QED BY <2>3, <2>4, <2>5, <2>7 DEF Approves, Armable
  <1>2. TypeInv /\ EngineInv /\ FreshInv => WithdrawnNeverFires
    BY <1>1
  <1> QED BY <1>2, InitFresh, FreshNext, EngineAlways, PTL DEF Spec

-----------------------------------------------------------------------------
(* A process that matches on one thread. *)

OneThread == \A s, t \in Threads : s = t

(* Its loads never overlap, and each of its matches is timed.               *)
LoneInv ==
  /\ ~ clash
  /\ \A t \in Threads : pc[t] # "idle" => since[t] # None

LEMMA LoneNext == ASSUME OneThread PROVE TypeInv /\ LoneInv /\ [Next]_vars => LoneInv'
  <1> SUFFICES ASSUME TypeInv, LoneInv, [Next]_vars PROVE LoneInv'
    OBVIOUS
  <1>1. ASSUME NEW t \in Threads, pc[t] \in {"idle", "compare"} PROVE Loading = {}
    BY <1>1 DEF OneThread, Loading
  <1>2. CASE UNCHANGED <<pc, since, clash>>
    BY <1>2 DEF LoneInv
  <1>3. ASSUME NEW f \in Files, NEW file \in FileType, EditStep(f, file) PROVE LoneInv'
    BY <1>2, <1>3 DEF EditStep, Operator, loads
  <1>4. CASE Move
    BY <1>2, <1>4 DEF Move, loads
  <1>5. CASE UNCHANGED <<dir, disk, edits, engine, pc, todo, new, since, loads>>
    BY <1>2, <1>5 DEF loads
  <1>6. ASSUME NEW t \in Threads, FindGone(t) \/ List(t) PROVE LoneInv'
    <2>1. Loading = {} /\ edits # None
      BY <1>1, <1>6, FilesAreNumbers, NoneAssumption DEF FindGone, List, TypeInv, TypeOK
    <2>2. since'[t] # None /\ ~ clash'
      BY <1>6, <2>1 DEF FindGone, List, Started, LoadStarts, Unloaded, loads, LoneInv, TypeInv, TypeOK
    <2> QED BY <2>2 DEF LoneInv, OneThread
  <1>7. ASSUME NEW t \in Threads, NEW f \in Files, Compare(t, f) PROVE LoneInv'
    <2>1. Loading = {} /\ pc[t] = "compare" /\ since' = since
      BY <1>1, <1>7 DEF Compare
    <2>2. ~ clash'
      BY <1>7, <2>1 DEF Compare, LoadStarts, Unloaded, loads, LoneInv
    <2> QED BY <2>1, <2>2 DEF LoneInv, OneThread
  <1>8. ASSUME NEW t \in Threads, Glob(t) \/ Stat(t) \/ Read(t) \/ PublishPatterns(t) \/ PublishMtimes(t)
        PROVE  LoneInv'
    <2>1. pc[t] # "idle" /\ since' = since
      BY <1>8 DEF Glob, Stat, Read, PublishPatterns, PublishMtimes
    <2>2. clash' => clash
      BY <1>8, Zenon DEF Glob, Stat, Read, PublishPatterns, PublishMtimes, loads
    <2>3. ~ clash'
      BY <2>2 DEF LoneInv
    <2> QED BY <2>1, <2>3 DEF LoneInv, OneThread
  <1>9. ASSUME NEW t \in Threads, Match(t) PROVE LoneInv'
    <2>1. pc'[t] = "idle" /\ ~ clash'
      BY <1>9 DEF Match, Go, loads, LoneInv, TypeInv, TypeOK
    <2> QED BY <2>1 DEF LoneInv, OneThread
  <1> QED BY <1>3, <1>4, <1>5, <1>6, <1>7, <1>8, <1>9, Steps DEF ThreadStep

(* On one thread, whatever the operator edits between any two steps: every  *)
(* match is timed, one that no edit fell into fires only what a file says   *)
(* and has signed, approved and in date, and an engine in step with the     *)
(* files knows the patterns of these files.                                 *)
LoneMatches ==
  /\ \A t \in Threads : pc[t] = "match" /\ Candidates # {} =>
       \/ since[t] \in Mtimes /\ since[t] # edits
       \/ \E f \in Files : Approves(f, Fires)
  /\ Loading = {} /\ InStep =>
       \A f \in Files : patterns[f] # None => OnDisk(f) /\ patterns[f] = Validate(disk[f].doc)

THEOREM LoneThreadObeys == ASSUME OneThread PROVE Spec => []LoneMatches
  <1>1. Init => LoneInv
    BY DEF Init, LoneInv
  <1>2. Spec => []LoneInv
    BY <1>1, LoneNext, TypesAlways, PTL DEF Spec
  <1>3. TypeInv /\ LoneInv /\ StaleOnlyByClash /\ WithdrawnNeverFires => LoneMatches
    BY DEF TypeInv, TypeOK, LoneInv, StaleOnlyByClash, WithdrawnNeverFires, LoneMatches
  <1> QED BY <1>2, <1>3, TypesAlways, StaleOnlyAfterClash, WithdrawnFireNothing, PTL
=============================================================================
