------------------------------ MODULE Patterns ------------------------------
(***************************************************************************)
(* The pattern files and their hot reload (PatternEngine of                *)
(* governance/patterns.py).  Every match first compares the files on disk  *)
(* with the mtimes of the last load, and loads them all when they differ;  *)
(* then it fires the first pattern that is armable.  Neither the           *)
(* comparison nor the load holds the engine's lock, and a load publishes   *)
(* the patterns and the mtimes in two assignments, while threads match and *)
(* an operator edits, removes and moves the files.                         *)
(*                                                                         *)
(* All documents are about the one action that the threads call.  What     *)
(* rate limits and circuit breaker make of a pattern that is armable is in *)
(* Guards; here they may refuse it at any match.                           *)
(***************************************************************************)
EXTENDS Naturals

CONSTANTS
  Threads,   \* the threads that call match
  MaxFiles,  \* bound: names of files; a name is its place in sorted order
  Docs,      \* the documents that the operator writes
  None,      \* no file, no pattern, no mtime, no thread
  MaxEdits   \* bound: edits of the operator

(* A document: is it YAML with schema_version 1 and every required key; its *)
(* pattern_id; has its approval a signature, and the status "approved"; is  *)
(* its risk low; is it reversible and repeatable; and its expires_at.       *)
DocType == [whole : BOOLEAN, id : STRING, signed : BOOLEAN, approved : BOOLEAN,
            low : BOOLEAN, safe : BOOLEAN, expires : {"never", "dated", "malformed"}]

ASSUME DocAssumption == Docs \subseteq DocType /\ Docs # {}
ASSUME NoneAssumption == None \notin Nat /\ None \notin Threads
ASSUME BoundAssumption == MaxFiles \in Nat /\ MaxEdits \in Nat

Files == 1 .. MaxFiles

VARIABLES
  dir,       \* does the directory exist
  disk,      \* the files in it, each with its document and its mtime
  edits,     \* edits so far, and the mtime of the last
  late,      \* have the dates of expires_at passed
  patterns,  \* _patterns, each at the file it was loaded from
  mtimes,    \* _mtimes
  pc,        \* where each thread is in match
  todo,      \* the files that its comparison or load has still to look at
  new,       \* new_patterns and new_mtimes of its load
  since,     \* history: the last edit when its match started, no load under way
  solo,      \* history: the thread whose load no other load has overlapped
  clash,     \* history: did the loads since the last solo one overlap
  unread     \* history: files that the published load could not read

vars == <<dir, disk, edits, late, patterns, mtimes, pc, todo, new, since,
          solo, clash, unread>>
files == <<dir, disk, edits, late>>
engine == <<patterns, mtimes, unread>>
loads == <<solo, clash>>

Go(t, place) == pc' = [pc EXCEPT ![t] = place]

OnDisk(f) == dir /\ disk[f] # None
Present == {f \in Files : OnDisk(f)}
Tracked == {f \in Files : mtimes[f] # None}

-----------------------------------------------------------------------------
(* Faulty: a signature or an approval is enough. *)
RiskEither(doc) ==
  IF ~ (doc.signed \/ doc.approved) THEN "unsigned" ELSE IF doc.low THEN "low" ELSE "high"

(* Faulty: the status of the approval takes the place of the risk. *)
RiskAsStatus(doc) ==
  IF ~ (doc.signed /\ doc.approved) THEN "rejected" ELSE IF doc.low THEN "low" ELSE "high"

(* effective_risk: both gates, or a value that no pattern is armed with.    *)
Risk(doc) ==
  IF ~ (doc.signed /\ doc.approved) THEN "unsigned" ELSE IF doc.low THEN "low" ELSE "high"

PatternType == [id : STRING, risk : {"unsigned", "low", "high"}, safe : BOOLEAN,
                expires : {"never", "dated", "malformed"}]

(* _validate: what is not whole is skipped; what is not approved is loaded. *)
Validate(doc) ==
  IF doc.whole
  THEN [id |-> doc.id, risk |-> Risk(doc), safe |-> doc.safe, expires |-> doc.expires]
  ELSE None

(* is_expired, against the clock at the time of the match.                  *)
Expired(pattern) ==
  \/ pattern.expires = "malformed"
  \/ pattern.expires = "dated" /\ late

Armable(pattern) == pattern.risk = "low" /\ pattern.safe /\ ~ Expired(pattern)

Nothing == [f \in Files |-> None]
Loaded == [patterns |-> Nothing, mtimes |-> Nothing, unread |-> {}]

(* The first file of a pattern_id wins, and a file that is not whole has none. *)
Duplicate(loaded, pattern) ==
  \E f \in Files : loaded[f] # None /\ loaded[f].id = pattern.id

Added(loaded, f, doc) ==
  LET pattern == Validate(doc) IN
  IF pattern = None \/ Duplicate(loaded, pattern) THEN loaded
  ELSE [loaded EXCEPT ![f] = pattern]

(* What a load of the documents that are on disk now amounts to.            *)
Current ==
  [f \in Files |->
     IF /\ OnDisk(f) /\ Validate(disk[f].doc) # None
        /\ \A g \in 1 .. f - 1 :
             OnDisk(g) /\ Validate(disk[g].doc) # None => disk[g].doc.id # disk[f].doc.id
     THEN Validate(disk[f].doc) ELSE None]

(* PatternEngine.__init__ has loaded the files that are there.              *)
Init ==
  /\ dir = TRUE
  /\ disk \in [Files -> {None} \cup [doc : Docs, mtime : {0}]]
  /\ edits = 0
  /\ late = FALSE
  /\ patterns = Current
  /\ mtimes = [f \in Files |-> IF disk[f] = None THEN None ELSE disk[f].mtime]
  /\ pc = [t \in Threads |-> "idle"]
  /\ todo = [t \in Threads |-> {}]
  /\ new = [t \in Threads |-> Loaded]
  /\ since = [t \in Threads |-> None]
  /\ solo = None
  /\ clash = FALSE
  /\ unread = {}

-----------------------------------------------------------------------------
(* The operator writes a file, whole or half, removes one, or moves the     *)
(* directory away and back; no two versions of a file have the same mtime.  *)
Operator(f, file) ==
  /\ dir /\ edits < MaxEdits /\ disk[f] # file
  /\ disk' = [disk EXCEPT ![f] = file]
  /\ edits' = edits + 1
  /\ UNCHANGED <<dir, late, engine, pc, todo, new, since, loads>>

Edit(f, doc) == Operator(f, [doc |-> doc, mtime |-> edits + 1])

Remove(f) == Operator(f, None)

Move ==
  /\ edits < MaxEdits
  /\ dir' = ~ dir
  /\ edits' = edits + 1
  /\ UNCHANGED <<disk, late, engine, pc, todo, new, since, loads>>

DatePasses ==
  /\ ~ late
  /\ late' = TRUE
  /\ UNCHANGED <<dir, disk, edits, engine, pc, todo, new, since, loads>>

-----------------------------------------------------------------------------
(* _maybe_reload.  A load starts, alone or beside another one.              *)
Loading == {t \in Threads : pc[t] \in {"load", "stat", "read", "stamp"}}

LoadStarts(t) ==
  /\ solo' = IF Loading = {} THEN t ELSE None
  /\ clash' = (clash \/ Loading # {})

Started(t) == since' = [since EXCEPT ![t] = IF Loading = {} THEN edits ELSE None]

(* No load for now: nothing is left to compare, or the files in rest.       *)
Unloaded(t, rest) ==
  /\ todo' = [todo EXCEPT ![t] = rest]
  /\ Go(t, IF rest = {} THEN "match" ELSE "compare")
  /\ UNCHANGED loads

(* The directory is gone: the same two assignments as at the end of a load, *)
(* unless there is nothing to clear.                                        *)
FindGone(t) ==
  /\ pc[t] = "idle" /\ ~ dir
  /\ IF patterns = Nothing
     THEN Go(t, "match") /\ UNCHANGED <<todo, new, loads>>
     ELSE /\ LoadStarts(t)
          /\ todo' = [todo EXCEPT ![t] = {}]
          /\ new' = [new EXCEPT ![t] = Loaded]
          /\ Go(t, "stat")
  /\ Started(t)
  /\ UNCHANGED <<files, engine>>

(* A file appeared or disappeared, or else each has to be looked at.        *)
List(t) ==
  /\ pc[t] = "idle" /\ dir
  /\ IF Present # Tracked
     THEN LoadStarts(t) /\ Go(t, "load") /\ UNCHANGED todo
     ELSE Unloaded(t, Present)
  /\ Started(t)
  /\ UNCHANGED <<files, engine, new>>

(* The files are looked at in any order; one that has gone since ends the   *)
(* comparison with a warning.                                               *)
Compare(t, f) ==
  /\ pc[t] = "compare" /\ f \in todo[t]
  /\ IF OnDisk(f) /\ disk[f].mtime # mtimes[f]
     THEN LoadStarts(t) /\ Go(t, "load") /\ UNCHANGED todo
     ELSE Unloaded(t, IF OnDisk(f) THEN todo[t] \ {f} ELSE {})
  /\ UNCHANGED <<files, engine, new, since>>

-----------------------------------------------------------------------------
(* _load *)

Glob(t) ==
  /\ pc[t] = "load"
  /\ todo' = [todo EXCEPT ![t] = Present]
  /\ new' = [new EXCEPT ![t] = Loaded]
  /\ Go(t, "stat")
  /\ UNCHANGED <<files, engine, since, loads>>

NextFile(t) == CHOOSE f \in todo[t] : \A g \in todo[t] : f <= g

(* The mtime of a file, before its content; one that has gone is skipped.   *)
Stat(t) ==
  /\ pc[t] = "stat" /\ todo[t] # {}
  /\ LET f == NextFile(t) IN
     IF OnDisk(f)
     THEN new' = [new EXCEPT ![t].mtimes[f] = disk[f].mtime] /\ Go(t, "read") /\ UNCHANGED todo
     ELSE todo' = [todo EXCEPT ![t] = @ \ {f}] /\ UNCHANGED <<new, pc>>
  /\ UNCHANGED <<files, engine, since, loads>>

(* Its content; a file that cannot be read is skipped with its mtime kept.  *)
Read(t) ==
  /\ pc[t] = "read"
  /\ LET f == NextFile(t) IN
     /\ \/ /\ OnDisk(f)
           /\ new' = [new EXCEPT ![t].patterns = Added(@, f, disk[f].doc)]
        \/ new' = [new EXCEPT ![t].unread = @ \cup {f}]
     /\ todo' = [todo EXCEPT ![t] = @ \ {f}]
  /\ Go(t, "stat")
  /\ UNCHANGED <<files, engine, since, loads>>

PublishPatterns(t) ==
  /\ pc[t] = "stat" /\ todo[t] = {}
  /\ patterns' = new[t].patterns
  /\ Go(t, "stamp")
  /\ UNCHANGED <<files, mtimes, unread, todo, new, since, loads>>

(* Faulty: the mtimes are taken when the load is over. *)
PublishMtimesNow(t) ==
  /\ pc[t] = "stamp"
  /\ mtimes' = [f \in Files |-> IF OnDisk(f) THEN disk[f].mtime ELSE None]
  /\ unread' = new[t].unread
  /\ clash' = (clash /\ solo # t)
  /\ solo' = IF solo = t THEN None ELSE solo
  /\ new' = [new EXCEPT ![t] = Loaded]
  /\ Go(t, "match")
  /\ UNCHANGED <<files, patterns, todo, since>>

PublishMtimes(t) ==
  /\ pc[t] = "stamp"
  /\ mtimes' = new[t].mtimes
  /\ unread' = new[t].unread
  /\ clash' = (clash /\ solo # t)
  /\ solo' = IF solo = t THEN None ELSE solo
  /\ new' = [new EXCEPT ![t] = Loaded]
  /\ Go(t, "match")
  /\ UNCHANGED <<files, patterns, todo, since>>

-----------------------------------------------------------------------------
(* The rest of match: the first armable pattern, in the order of the files, *)
(* or its limits refuse it.                                                 *)
Candidates == {f \in Files : patterns[f] # None /\ Armable(patterns[f])}
Fires == patterns[CHOOSE f \in Candidates : \A g \in Candidates : f <= g]

Match(t) ==
  /\ pc[t] = "match"
  /\ since' = [since EXCEPT ![t] = None]
  /\ Go(t, "idle")
  /\ UNCHANGED <<files, engine, todo, new, loads>>

-----------------------------------------------------------------------------
ThreadStep(t) ==
  \/ FindGone(t) \/ List(t) \/ \E f \in Files : Compare(t, f)
  \/ Glob(t) \/ Stat(t) \/ Read(t) \/ PublishPatterns(t) \/ PublishMtimes(t)
  \/ Match(t)

Next ==
  \/ \E f \in Files, doc \in Docs : Edit(f, doc)
  \/ \E f \in Files : Remove(f)
  \/ Move \/ DatePasses
  \/ \E t \in Threads : ThreadStep(t)

Spec == Init /\ [][Next]_vars
-----------------------------------------------------------------------------
Mtimes == 0 .. MaxEdits
FileType == [doc : Docs, mtime : Mtimes] \cup {None}
LoadType == [patterns : [Files -> PatternType \cup {None}],
             mtimes : [Files -> Mtimes \cup {None}], unread : SUBSET Files]

TypeOK ==
  /\ dir \in BOOLEAN /\ late \in BOOLEAN
  /\ edits \in Mtimes
  /\ disk \in [Files -> FileType]
  /\ patterns \in [Files -> PatternType \cup {None}]
  /\ mtimes \in [Files -> Mtimes \cup {None}]
  /\ pc \in [Threads -> {"idle", "compare", "load", "stat", "read", "stamp", "match"}]
  /\ todo \in [Threads -> SUBSET Files]
  /\ new \in [Threads -> LoadType]
  /\ since \in [Threads -> Mtimes \cup {None}]
  /\ solo \in Threads \cup {None} /\ clash \in BOOLEAN
  /\ unread \subseteq Files

(* "Reload if any file's mtime changed": while no load is under way and the *)
(* last ones did not overlap, an engine whose mtimes are those of the files *)
(* knows the patterns of these very files, and all of them if it could read *)
(* all.                                                                     *)
InStep == dir /\ \A f \in Files : mtimes[f] = IF OnDisk(f) THEN disk[f].mtime ELSE None

StaleOnlyByClash ==
  Loading = {} /\ ~ clash /\ InStep =>
    /\ \A f \in Files : patterns[f] # None => OnDisk(f) /\ patterns[f] = Validate(disk[f].doc)
    /\ unread = {} => patterns = Current

(* A match that starts after an edit, with no load under way, fires nothing *)
(* that the edit withdrew, unless the loads before it overlapped: a file on *)
(* disk holds the pattern, signed, approved and in date.                    *)
Approves(f, pattern) ==
  /\ OnDisk(f) /\ Validate(disk[f].doc) = pattern
  /\ disk[f].doc.signed /\ disk[f].doc.approved /\ disk[f].doc.low /\ ~ Expired(pattern)

WithdrawnNeverFires ==
  \A t \in Threads :
    pc[t] = "match" /\ since[t] = edits /\ ~ clash /\ Candidates # {}
      => \E f \in Files : Approves(f, Fires)
=============================================================================
