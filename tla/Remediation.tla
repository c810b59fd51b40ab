---------------------------- MODULE Remediation ----------------------------
(***************************************************************************)
(* The reversible writes of ops/remediation.py and the inverses that       *)
(* mcp_server/tools/remediation.py records for them: update_setting (ALTER *)
(* SYSTEM SET and RESET), create_index, drop_index and the replay of a     *)
(* captured definition.  Each reads the before-state in one statement and  *)
(* writes in another; callers interleave, and the server is one that they  *)
(* share: postgresql.auto.conf, which nobody reloads until the operator    *)
(* does, and indexes found by name through the search path.                *)
(*                                                                         *)
(* The server is modelled from the statements the code sends it.           *)
(***************************************************************************)
EXTENDS Naturals, Sequences

CONSTANTS
  Callers,     \* the threads and processes that write
  Values,      \* the values written to the parameter
  Conf,        \* its value in postgresql.conf, or the built-in default
  ValueText,   \* what is set by writing back the text recorded of a value
  Schemas,     \* the schemas that hold tables
  SearchPath,  \* the schemas that a bare name is looked up in, in order
  Names,       \* index names
  Fold,        \* the name that to_regclass looks for: in lower case
  Defs,        \* index definitions
  DefText,     \* the definition that the text recorded of one is
  Replayable,  \* those that pass the shape gate of a replay
  None,        \* absent
  MaxWrites    \* bound: writes of each caller

ASSUME ServerAssumption == /\ SearchPath \in Seq(Schemas) \ {<<>>}
                           /\ Replayable \subseteq Defs
                           /\ Fold \in [Names -> Names]
                           /\ None \notin Values \cup {Conf} \cup Schemas \cup Names \cup Defs
(* s() keeps 256 characters of a value and 2000 of a definition, an ellipsis *)
(* in place of the rest, and drops control and format characters; a value   *)
(* goes back as one quoted literal.  None: of a value, which is empty,      *)
(* nothing is recorded; a definition that is cut no server accepts.         *)
ASSUME TextAssumption == /\ ValueText \in [Values \cup {Conf} -> Values \cup {Conf, None}]
                         /\ DefText \in [Defs -> Defs \cup {None}]
ASSUME BoundAssumption == MaxWrites \in [Callers -> Nat]

VARIABLES
  pc,       \* where each caller is in its write
  writes,   \* writes started by each caller
  request,  \* the write, and the token it undoes (0 when it undoes none)
  prior,    \* the before-state it read
  current,  \* history: the callers whose before-state is not out of date
  auto,     \* the parameter's entry in postgresql.auto.conf, None without one
  loaded,   \* pg_settings: the running value, and is its sourcefile auto.conf
  indexes,  \* the indexes that exist
  tokens,   \* the undo tokens recorded
  undone    \* history: the indexes that undoing a create_index dropped

vars == <<pc, writes, request, prior, current, auto, loaded, indexes, tokens, undone>>
server == <<auto, loaded, indexes>>

Index(schema, name, def, by) == [schema |-> schema, name |-> name, def |-> def, by |-> by]
IndexType == [schema : Schemas, name : Names, def : Defs, by : Callers \X Nat]

SettingRequests == [kind : {"set"}, value : Values \cup {Conf}] \cup [kind : {"reset"}]
CreateRequests ==
  [kind : {"create"}, schema : Schemas, name : Names, def : Defs \cup {None}]
DropRequests == [kind : {"drop"}, schema : Schemas \cup {None}, name : Names]
Requests == SettingRequests \cup CreateRequests \cup DropRequests

Write(wanted, token) == [wanted |-> wanted, token |-> token]
NoWrite == Write([kind |-> "reset"], 0)

(* A token: its inverse, its status, and (history) what the write changed,  *)
(* and whether nothing came between what the write had read and the write.  *)
Token(inverse, changed, undisturbed) ==
  [inverse |-> inverse, changed |-> changed, undisturbed |-> undisturbed,
   status |-> "recorded"]

(* What pg_settings shows after a reload: an auto.conf entry wins. *)
Image(entry) == IF entry = None THEN [value |-> Conf, pinned |-> FALSE]
                ELSE [value |-> entry, pinned |-> TRUE]

Init ==
  /\ pc = [c \in Callers |-> "idle"]
  /\ writes = [c \in Callers |-> 0]
  /\ request = [c \in Callers |-> NoWrite]
  /\ prior = [c \in Callers |-> None]
  /\ current = {}
  /\ auto = None
  /\ loaded = Image(None)
  /\ indexes = {}
  /\ tokens = <<>>
  /\ undone = {}

-----------------------------------------------------------------------------
Wanted(c) == request[c].wanted
Undoes(c) == request[c].token
Current(c) == <<c, writes[c]>>
Go(c, place) == pc' = [pc EXCEPT ![c] = place]

Leave(c) ==
  /\ Go(c, "idle")
  /\ request' = [request EXCEPT ![c] = NoWrite]
  /\ prior' = [prior EXCEPT ![c] = None]

Begin(c, wanted, token) ==
  /\ pc[c] = "idle" /\ writes[c] < MaxWrites[c]
  /\ writes' = [writes EXCEPT ![c] = @ + 1]
  /\ request' = [request EXCEPT ![c] = Write(wanted, token)]
  /\ Go(c, "capture")
  /\ UNCHANGED <<prior, current, server, tokens, undone>>

(* A governed write, and undo_apply of a token that is not applied yet.     *)
Ask(c, wanted) == Begin(c, wanted, 0)

Undo(c, i) == tokens[i].status = "recorded" /\ Begin(c, tokens[i].inverse, i)

(* PostgreSQL finds an index by its schema, or the first of that name along *)
(* the search path.                                                         *)
Visible(name) == {n \in DOMAIN SearchPath :
                    \E index \in indexes : index.schema = SearchPath[n] /\ index.name = name}

Resolve(schema, name) ==
  {index \in indexes :
     /\ index.name = name
     /\ IF schema # None THEN index.schema = schema
        ELSE \E n \in Visible(name) : /\ index.schema = SearchPath[n]
                                      /\ \A m \in Visible(name) : n <= m}

(* The before-state, read in a statement of its own; that of an index by    *)
(* pg_get_indexdef(to_regclass(name)), which folds a name that is not       *)
(* quoted, where DROP INDEX quotes it.                                      *)
CaptureSetting(c) ==
  /\ pc[c] = "capture" /\ Wanted(c).kind \in {"set", "reset"}
  /\ prior' = [prior EXCEPT ![c] = loaded]
  /\ current' = IF loaded = Image(auto) THEN current \cup {c} ELSE current
  /\ Go(c, "execute")
  /\ UNCHANGED <<writes, request, server, tokens, undone>>

CaptureNothing(c) ==
  /\ pc[c] = "capture" /\ Wanted(c).kind = "create"
  /\ Go(c, "execute")
  /\ UNCHANGED <<writes, request, prior, current, server, tokens, undone>>

CaptureIndex(c) ==
  /\ pc[c] = "capture" /\ Wanted(c).kind = "drop"
  /\ \E index \in Resolve(Wanted(c).schema, Fold[Wanted(c).name]) :
       prior' = [prior EXCEPT ![c] = index]
  /\ current' = IF Fold[Wanted(c).name] = Wanted(c).name THEN current \cup {c} ELSE current
  /\ Go(c, "execute")
  /\ UNCHANGED <<writes, request, server, tokens, undone>>

(* "Index not found", a refused parameter, or a server error: no change.    *)
Fail(c) ==
  /\ pc[c] \in {"capture", "execute"}
  /\ Leave(c)
  /\ current' = current \ {c}
  /\ UNCHANGED <<writes, server, tokens, undone>>

-----------------------------------------------------------------------------
(* What a write records: the inverse its undo callable builds, if any, and  *)
(* the token it undoes is marked.  Recording is best effort, and a write    *)
(* whose response was lost records nothing and marks nothing.               *)

Applied(i) == IF i = 0 THEN tokens ELSE [tokens EXCEPT ![i].status = "applied"]

Record(c, inverses, changed) ==
  tokens' \in {tokens, Applied(Undoes(c))} \cup
              {Append(Applied(Undoes(c)), Token(inverse, changed, c \in current)) :
                 inverse \in inverses}

(* A write that landed: what others have read is out of date.               *)
Land(c, inverses, changed) ==
  /\ Record(c, inverses, changed)
  /\ current' = {}
  /\ Leave(c)

SetTo(texts) == [kind : {"set"}, value : texts]

(* Faulty: never a RESET. *)
InverseByValue(seen) == SetTo({ValueText[seen.value]} \ {None})

(* Faulty: SET to a value that there is none of. *)
InverseUnguarded(seen) ==
  IF seen.pinned THEN SetTo({ValueText[seen.value]}) ELSE {[kind |-> "reset"]}

(* _update_setting_undo, of the text that was recorded *)
InverseSetting(seen) ==
  IF seen.pinned THEN SetTo({ValueText[seen.value]} \ {None}) ELSE {[kind |-> "reset"]}

(* ALTER SYSTEM edits postgresql.auto.conf; nothing is reloaded.            *)
AlterSystem(c) ==
  /\ pc[c] = "execute" /\ Wanted(c).kind \in {"set", "reset"}
  /\ auto' = IF Wanted(c).kind = "set" THEN Wanted(c).value ELSE None
  /\ Land(c, InverseSetting(prior[c]), auto)
  /\ UNCHANGED <<writes, loaded, indexes, undone>>

(* Faulty: the name in lower case. *)
InverseCreateFolded(index) == {[kind |-> "drop", schema |-> None, name |-> Fold[index.name]]}

(* The inverse of create_index names the index without its schema.          *)
InverseCreate(index) == {[kind |-> "drop", schema |-> None, name |-> index.name]}

CreateIndex(c) ==
  /\ pc[c] = "execute" /\ Wanted(c).kind = "create" /\ Wanted(c).def # None
  /\ Resolve(Wanted(c).schema, Wanted(c).name) = {}
  /\ LET index == Index(Wanted(c).schema, Wanted(c).name, Wanted(c).def, Current(c)) IN
       /\ Undoes(c) # 0 => index.def \in Replayable
       /\ indexes' = indexes \cup {index}
       /\ Land(c, InverseCreate(index), index)
  /\ UNCHANGED <<writes, auto, loaded, undone>>

(* The captured definition names the schema of the index that was read.     *)
InverseDrop(index) ==
  {[kind |-> "create", schema |-> index.schema, name |-> index.name,
    def |-> DefText[index.def]]}

DropIndex(c) ==
  /\ pc[c] = "execute" /\ Wanted(c).kind = "drop"
  /\ \E index \in Resolve(Wanted(c).schema, Wanted(c).name) :
       /\ indexes' = indexes \ {index}
       /\ undone' = IF Undoes(c) = 0 THEN undone
                    ELSE undone \cup {[made |-> tokens[Undoes(c)].changed, dropped |-> index]}
       /\ Land(c, InverseDrop(prior[c]), index)
  /\ UNCHANGED <<writes, auto, loaded>>

(* The operator runs pg_reload_conf(), or restarts the server. *)
Reload ==
  /\ loaded # Image(auto)
  /\ loaded' = Image(auto)
  /\ UNCHANGED <<pc, writes, request, prior, current, auto, indexes, tokens, undone>>

-----------------------------------------------------------------------------
Next ==
  \/ \E c \in Callers, wanted \in Requests : Ask(c, wanted)
  \/ \E c \in Callers, i \in DOMAIN tokens : Undo(c, i)
  \/ \E c \in Callers :
       \/ CaptureSetting(c) \/ CaptureNothing(c) \/ CaptureIndex(c) \/ Fail(c)
       \/ AlterSystem(c) \/ CreateIndex(c) \/ DropIndex(c)
  \/ Reload

Spec == Init /\ [][Next]_vars
-----------------------------------------------------------------------------
TypeOK ==
  /\ pc \in [Callers -> {"idle", "capture", "execute"}]
  /\ writes \in [Callers -> Nat] /\ \A c \in Callers : writes[c] <= MaxWrites[c]
  /\ \A c \in Callers : request[c] = NoWrite \/ Wanted(c) \in Requests
  /\ \A c \in Callers : Undoes(c) \in 0 .. Len(tokens)
  /\ current \subseteq {c \in Callers : pc[c] = "execute"}
  /\ auto \in Values \cup {Conf, None}
  /\ loaded \in {Image(entry) : entry \in Values \cup {Conf, None}}
  /\ indexes \subseteq IndexType
  /\ \A i \in DOMAIN tokens : /\ tokens[i].inverse \in Requests
                              /\ tokens[i].status \in {"recorded", "applied"}
                              /\ tokens[i].undisturbed \in BOOLEAN
  /\ \A u \in undone : u.made \in IndexType /\ u.dropped \in IndexType

(* An inverse brings back exactly what its write changed: the auto.conf     *)
(* entry or the absence of one, the definition of the dropped index in its  *)
(* own schema.                                                              *)
Restores(token) ==
  LET inverse == token.inverse IN
    CASE inverse.kind = "reset" -> token.changed = None
      [] inverse.kind = "set" -> token.changed = inverse.value
      [] inverse.kind = "create" -> /\ token.changed.schema = inverse.schema
                                    /\ token.changed.name = inverse.name
                                    /\ token.changed.def = inverse.def
                                    /\ inverse.def \in Replayable
      [] OTHER -> token.changed.name = inverse.name

(* What was changed cannot be recorded whole, or not replayed as recorded.  *)
Shortened(token) ==
  CASE token.inverse.kind = "set" ->
         token.changed \in {value \in Values \cup {Conf} : ValueText[value] # value}
    [] token.inverse.kind = "create" ->
         DefText[token.changed.def] # token.changed.def \/ token.changed.def \notin Replayable
    [] OTHER -> FALSE

(* The inverse of a write that no other came between, of a setting whose    *)
(* file was loaded when it was read or of an index that the read and the    *)
(* DROP spell alike, brings back what the write changed, unless that cannot *)
(* be recorded whole.                                                       *)
InverseRestores ==
  \A i \in DOMAIN tokens : tokens[i].undisturbed => Restores(tokens[i]) \/ Shortened(tokens[i])

(* "update_setting captures the current value, so undo sets it back"        *)
(* (ops/remediation.py:9), which two writes between reloads refute.         *)
SettingUndoSetsBack ==
  \A i \in DOMAIN tokens :
    tokens[i].inverse.kind \in {"set", "reset"} => Restores(tokens[i]) \/ Shortened(tokens[i])

(* "drop_index captures pg_get_indexdef first, so undo recreates it         *)
(* exactly"                                                                 *)
(* (ops/remediation.py:7): what is recorded of it is at most 2000           *)
(* characters, without control and format characters.                       *)
DropUndoRecreates ==
  \A i \in DOMAIN tokens : tokens[i].inverse.kind = "create" => Restores(tokens[i])

(* create_index lets the harness "record an undo that drops exactly this    *)
(* index" (ops/remediation.py:219): a namesake earlier in the search path   *)
(* is dropped in its place.                                                 *)
CreateUndoDropsExactly == \A u \in undone : u.dropped = u.made

(* Undoing the creation of an index whose schema comes first in the search  *)
(* path leaves that index gone, in whatever case it is named and whatever   *)
(* was dropped and recreated in between.                                    *)
UndoRemovesOwn ==
  \A u \in undone : u.made.schema = SearchPath[1] => u.made \notin indexes
=============================================================================
