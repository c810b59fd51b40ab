----------------------------- MODULE SecretStore -----------------------------
(***************************************************************************)
(* The encrypted secret store: secretstore.py, the commands that edit it   *)
(* (cli/secret.py, cli/init.py) and the lookup of a target's password      *)
(* (config.py) in the MCP server.  A command decrypts the whole store into *)
(* a view, derives new views and writes each back whole, through one       *)
(* temporary file whose name every process shares; there is no lock.  The  *)
(* server keeps the first view it unlocks for its lifetime.                *)
(*                                                                         *)
(* Encryption is modelled by what it does: a blob opens under the master   *)
(* password that sealed it and no other.                                   *)
(***************************************************************************)
EXTENDS Naturals, FiniteSets, Sequences

CONSTANTS
  Editors,      \* processes that run the CLI commands
  Servers,      \* MCP servers
  Targets,      \* target names
  Keys,         \* what stands between PG_ and _PASSWORD in a variable's name
  TargetKey,    \* the key that config.py looks a target up by
  KeyTarget,    \* the target that migrate takes a key for: not its inverse
  Values,       \* target passwords
  Passwords,    \* master passwords
  None,         \* absent; of a file's content: truncated, or not written whole
  Unlocks,      \* the master password in each server's environment
  Legacy,       \* PG_<KEY>_PASSWORD in the servers' environment
  Plain,        \* the lines of the plaintext .env that set a password, in order
  Inodes,       \* the files secrets.enc and .enc.tmp can name
  MaxCommands,  \* bound: commands of each editor
  MaxEdits      \* bound: targets that one command of each editor sets

Maps == [Targets -> Values \cup {None}]
Empty == [t \in Targets |-> None]
Blob == [password : Passwords, data : Maps]

ASSUME ValuesAssumption == None \notin Values \cup Inodes \cup Blob
ASSUME EnvironmentAssumption ==
  /\ Unlocks \in [Servers -> Passwords]
  /\ TargetKey \in [Targets -> Keys] /\ KeyTarget \in [Keys -> Targets]
  /\ Legacy \in [Keys -> Values \cup {None}]
  /\ Plain \in Seq([key : Keys, value : Values])
ASSUME BoundAssumption == MaxCommands \in [Editors -> Nat] /\ MaxEdits \in [Editors -> Nat]

VARIABLES
  pc,         \* where each editor is in its command
  commands,   \* commands started by each editor
  job,        \* the command, the master password given, its edits, the target of the last
  view,       \* its unlocked SecretStore: the password and the decrypted map
  listed,     \* init: the targets of config.yaml it will write back
  fd,         \* the file that it opened to write its blob
  enc,        \* the file named secrets.enc, None when there is none
  tmp,        \* the file named secrets.enc.tmp
  content,    \* the blob in each file
  env,        \* .env, None once renamed
  config,     \* the targets in config.yaml
  cached,     \* _cached of each server
  answer,     \* of each server's last lookup
  overlapped, \* history: commands that shared their time with another
  clashed     \* history: two commands were in _persist at a time

command == <<job, commands, overlapped>>
draft == <<view, listed>>
files == <<fd, enc, tmp, content, clashed>>
server == <<cached, answer>>
vars == <<pc, command, draft, files, env, config, server>>

Kinds == {"set", "rm", "rotate", "migrate", "init"}
Job(kind, password) == [kind |-> kind, password |-> password, target |-> None, edits |-> 0]
NoJob == Job("none", None)
NoView == [password |-> None, data |-> Empty]

Go(p, place) == pc' = [pc EXCEPT ![p] = place]
InSession(p) == pc[p] \notin {"idle", "unlock"}
Persisting(p) == pc[p] \in {"write", "replace"}

(* What secrets.enc holds for a target, whoever can open it. *)
Stored(t) == IF enc = None \/ content[enc] = None THEN None ELSE content[enc].data[t]

Init ==
  /\ pc = [p \in Editors |-> "idle"]
  /\ commands = [p \in Editors |-> 0]
  /\ job = [p \in Editors |-> NoJob]
  /\ view = [p \in Editors |-> NoView]
  /\ listed = [p \in Editors |-> {}]
  /\ fd = [p \in Editors |-> None]
  /\ enc = None /\ tmp = None
  /\ content = [n \in Inodes |-> None]
  /\ env = Plain /\ config = {}
  /\ cached = [q \in Servers |-> None]
  /\ answer = [q \in Servers |-> [outcome |-> "none", stored |-> FALSE, stale |-> FALSE]]
  /\ overlapped = [p \in Editors |-> FALSE]
  /\ clashed = FALSE

-----------------------------------------------------------------------------
(* A command. *)

Begin(p, kind, password) ==
  /\ pc[p] = "idle" /\ commands[p] < MaxCommands[p]
  /\ kind = "migrate" => env # None
  /\ commands' = [commands EXCEPT ![p] = @ + 1]
  /\ job' = [job EXCEPT ![p] = Job(kind, password)]
  /\ overlapped' = [overlapped EXCEPT ![p] = FALSE]
  /\ Go(p, "unlock")
  /\ UNCHANGED <<draft, files, env, config, server>>

(* SecretStore.unlock; then migrate reads .env, and init config.yaml.       *)
Opens(password) ==
  IF enc = None THEN {[password |-> password, data |-> Empty]}
  ELSE {content[enc]} \cap [password : {password}, data : Maps]

Unlock(p) ==
  /\ pc[p] = "unlock"
  /\ job[p].kind = "migrate" => env # None
  /\ \E store \in Opens(job[p].password) : view' = [view EXCEPT ![p] = store]
  /\ listed' = [listed EXCEPT ![p] = IF job[p].kind = "init" THEN config ELSE {}]
  /\ LET others == {o \in Editors \ {p} : InSession(o)} IN
       overlapped' = [o \in Editors |->
         IF o = p THEN others # {} ELSE overlapped[o] \/ o \in others]
  /\ Go(p, "ready")
  /\ UNCHANGED <<job, commands, files, env, config, server>>

(* The command ends: it is done, it failed ("Could not read", a wrong       *)
(* master password, nothing to delete, an I/O error) or its process died.   *)
End(p) ==
  /\ Go(p, "idle")
  /\ job' = [job EXCEPT ![p] = NoJob]
  /\ view' = [view EXCEPT ![p] = NoView]
  /\ listed' = [listed EXCEPT ![p] = {}]
  /\ fd' = [fd EXCEPT ![p] = None]

Stop(p) ==
  /\ pc[p] # "idle"
  /\ End(p)
  /\ UNCHANGED <<commands, overlapped, enc, tmp, content, clashed, env, config, server>>

-----------------------------------------------------------------------------
(* _persist: open for writing (which truncates), write, rename into place.  *)

(* Faulty: write secrets.enc itself. *)
OpenInPlace(p) ==
  /\ \E n \in IF enc # None THEN {enc} ELSE Inodes :
       /\ enc' = n
       /\ tmp' = n
       /\ fd' = [fd EXCEPT ![p] = n]
       /\ content' = [content EXCEPT ![n] = None]
  /\ clashed' = (clashed \/ \E o \in Editors : Persisting(o))

OpenTmp(p) ==
  /\ \E n \in IF tmp # None THEN {tmp}
              ELSE Inodes \ ({enc} \cup {fd[o] : o \in Editors}) :
       /\ tmp' = n
       /\ fd' = [fd EXCEPT ![p] = n]
       /\ content' = [content EXCEPT ![n] = None]
  /\ clashed' = (clashed \/ \E o \in Editors : Persisting(o))
  /\ UNCHANGED enc

(* Faulty: forget the other entries. *)
DerivedAlone(store, t, value) == [store EXCEPT !.data = [Empty EXCEPT ![t] = value]]

(* The new view, derived from the old one: one entry changed, or the same   *)
(* entries under another password.                                          *)
Derived(store, t, value) == [store EXCEPT !.data[t] = value]

Edit(p, store, t) ==
  /\ pc[p] = "ready"
  /\ view' = [view EXCEPT ![p] = store]
  /\ job' = [job EXCEPT ![p].target = t, ![p].edits = @ + 1]
  /\ OpenTmp(p)
  /\ Go(p, "write")
  /\ UNCHANGED <<commands, overlapped, listed, env, config, server>>

Set(p, t, value) ==
  /\ job[p].kind \in {"set", "init"} /\ job[p].edits < MaxEdits[p]
  /\ Edit(p, Derived(view[p], t, value), t)

Delete(p, t) ==
  /\ job[p].kind = "rm" /\ view[p].data[t] # None
  /\ Edit(p, Derived(view[p], t, None), t)

(* Faulty: accept an empty master password. *)
RotateEmpty(p, password) ==
  /\ job[p].kind = "rotate"
  /\ Edit(p, [view[p] EXCEPT !.password = None], None)

Rotate(p, password) ==
  /\ job[p].kind = "rotate"
  /\ Edit(p, [view[p] EXCEPT !.password = password], None)

(* migrate takes the next line of .env.  Its target is the key in lower     *)
(* case with every '_' made a '-': two keys may name one target, and a key  *)
(* need not name the target that config.py looks up by it.                  *)
TargetOf(line) == KeyTarget[Plain[line].key]

Import(p) ==
  LET line == job[p].edits + 1 IN
  /\ job[p].kind = "migrate" /\ line <= Len(Plain)
  /\ Edit(p, Derived(view[p], TargetOf(line), Plain[line].value), TargetOf(line))

WriteTmp(p) ==
  /\ pc[p] = "write"
  /\ content' = [content EXCEPT ![fd[p]] = view[p]]
  /\ Go(p, "replace")
  /\ UNCHANGED <<command, draft, fd, enc, tmp, clashed, env, config, server>>

(* tmp.replace unlinks the store it replaces, and fails when another command *)
(* has renamed the temporary file already.                                  *)
Continue(p) ==
  /\ fd' = [fd EXCEPT ![p] = None]
  /\ Go(p, IF job[p].kind = "init" THEN "list"
           ELSE IF job[p].edits < Len(Plain) THEN "ready" ELSE "rename")
  /\ UNCHANGED <<job, draft>>

Replace(p) ==
  /\ pc[p] = "replace" /\ tmp # None
  /\ enc' = tmp
  /\ tmp' = None
  /\ content' = [n \in Inodes |-> IF n = enc THEN None ELSE content[n]]
  /\ IF job[p].kind \in {"migrate", "init"} THEN Continue(p) ELSE End(p)
  /\ UNCHANGED <<commands, overlapped, clashed, env, config, server>>

-----------------------------------------------------------------------------
(* migrate renames .env once every line is imported; init rewrites          *)
(* config.yaml in place after each target, and may go on to another.        *)

(* Faulty: retire .env before the entries are stored. *)
RenameEarly(p) ==
  /\ job[p].kind = "migrate" /\ pc[p] \in {"ready", "rename"} /\ env # None
  /\ env' = None
  /\ End(p)
  /\ UNCHANGED <<commands, overlapped, enc, tmp, content, clashed, config, server>>

Rename(p) ==
  /\ pc[p] = "rename" /\ env # None
  /\ env' = None
  /\ End(p)
  /\ UNCHANGED <<commands, overlapped, enc, tmp, content, clashed, config, server>>

(* Faulty: list the target before its password is stored. *)
TruncateConfigFirst(p) ==
  /\ job[p].kind = "init" /\ pc[p] \in {"write", "list"}
  /\ config' = {}
  /\ listed' = [listed EXCEPT ![p] = @ \cup {job[p].target}]
  /\ fd' = [fd EXCEPT ![p] = None]
  /\ Go(p, "listing")
  /\ UNCHANGED <<command, view, enc, tmp, content, clashed, env, server>>

TruncateConfig(p) ==
  /\ pc[p] = "list"
  /\ config' = {}
  /\ listed' = [listed EXCEPT ![p] = @ \cup {job[p].target}]
  /\ Go(p, "listing")
  /\ UNCHANGED <<command, view, files, env, server>>

WriteConfig(p) ==
  /\ pc[p] = "listing"
  /\ config' = listed[p]
  /\ Go(p, "ready")
  /\ UNCHANGED <<command, draft, files, env, server>>

-----------------------------------------------------------------------------
(* _resolve_secret: the store that open_store returns, cached after the     *)
(* first; only a wrong master password is told as such, and any other       *)
(* SecretStoreError counts as "no secret stored for this target".           *)

Current(q) == IF cached[q] # None THEN {cached[q]}
              ELSE IF enc = None THEN {} ELSE Opens(Unlocks[q])

Refused(q) == enc # None /\ cached[q] = None /\ content[enc] # None /\ Current(q) = {}

Fallback(t) == IF Legacy[TargetKey[t]] # None THEN "legacy" ELSE "missing"

(* Faulty: a wrong master password counts as no secret. *)
LookUpSwallowing(q, t) ==
  IF \E store \in Current(q) : store.data[t] # None THEN "stored" ELSE Fallback(t)

LookUp(q, t) ==
  IF Refused(q) THEN "locked"
  ELSE IF \E store \in Current(q) : store.data[t] # None THEN "stored"
  ELSE Fallback(t)

Resolve(q, t) ==
  /\ answer' = [answer EXCEPT ![q] =
       [outcome |-> LookUp(q, t), stored |-> Stored(t) # None,
        stale |-> cached[q] # None /\ enc # None /\ cached[q] # content[enc]]]
  /\ cached' = [cached EXCEPT ![q] =
       IF Current(q) = {} THEN None ELSE CHOOSE store \in Current(q) : TRUE]
  /\ UNCHANGED <<pc, command, draft, files, env, config>>

Restart(q) ==
  /\ cached[q] # None
  /\ cached' = [cached EXCEPT ![q] = None]
  /\ UNCHANGED <<pc, command, draft, files, env, config, answer>>

-----------------------------------------------------------------------------
Command(p) ==
  \/ \E kind \in Kinds, password \in Passwords : Begin(p, kind, password)
  \/ Unlock(p) \/ WriteTmp(p) \/ Replace(p) \/ Rename(p)
  \/ TruncateConfig(p) \/ WriteConfig(p) \/ Stop(p)
  \/ Import(p)
  \/ \E t \in Targets : Delete(p, t)
  \/ \E t \in Targets, value \in Values : Set(p, t, value)
  \/ \E password \in Passwords : Rotate(p, password)

Serve(q) == Restart(q) \/ \E t \in Targets : Resolve(q, t)

Next == (\E p \in Editors : Command(p)) \/ (\E q \in Servers : Serve(q))

Spec == Init /\ [][Next]_vars
-----------------------------------------------------------------------------
JobType == [kind : Kinds \cup {"none"}, password : Passwords \cup {None},
            target : Targets \cup {None}, edits : Nat]
AnswerType == [outcome : {"none", "locked", "stored", "legacy", "missing"},
               stored : BOOLEAN, stale : BOOLEAN]

TypeOK ==
  /\ pc \in [Editors -> {"idle", "unlock", "ready", "write", "replace", "rename",
                         "list", "listing"}]
  /\ commands \in [Editors -> Nat] /\ \A p \in Editors : commands[p] <= MaxCommands[p]
  /\ job \in [Editors -> JobType]
  /\ view \in [Editors -> Blob \cup {NoView}]
  /\ listed \in [Editors -> SUBSET Targets]
  /\ fd \in [Editors -> Inodes \cup {None}]
  /\ \A p \in Editors : Persisting(p) <=> fd[p] # None
  /\ {enc, tmp} \subseteq Inodes \cup {None}
  /\ content \in [Inodes -> Blob \cup {None}]
  /\ env \in {Plain, None} /\ config \subseteq Targets
  /\ cached \in [Servers -> Blob \cup {None}]
  /\ answer \in [Servers -> AnswerType]
  /\ overlapped \in [Editors -> BOOLEAN] /\ clashed \in BOOLEAN

(* Whenever a command dies or fails, secrets.enc is a whole blob: it takes  *)
(* two commands inside _persist at once to leave or show it half written.   *)
TornOnlyByClash == enc # None /\ content[enc] = None => clashed

(* Renaming a new store into place changes the secret of the one target     *)
(* that the command was about, and no other, unless another command had     *)
(* unlocked the store in the meantime.                                      *)
WritesKeepOthers ==
  [][\A p \in Editors : (pc[p] = "replace" /\ enc' # enc /\ pc'[p] # "replace") =>
       \/ overlapped[p]
       \/ \A t \in Targets \ {job[p].target} : Stored(t)' = Stored(t)]_vars

(* Each of the first n lines of .env is in a map under the target that      *)
(* migrate takes it for, unless a later one of them names the same target.  *)
Imported(data, n) ==
  \A i \in 1 .. n : \/ data[TargetOf(i)] = Plain[i].value
                    \/ \E j \in (i + 1) .. n : TargetOf(j) = TargetOf(i)

(* "The plaintext .env is renamed so nothing is silently lost": once it is  *)
(* renamed, the last line of every target that migrate takes it to name is  *)
(* in the store, wherever an earlier run of migrate failed or died; unless  *)
(* another command overlapped.                                              *)
MigratedIsStored ==
  [][\A p \in Editors : (env' # env /\ pc[p] # "idle" /\ pc'[p] = "idle") =>
       overlapped[p] \/ Imported([t \in Targets |-> Stored(t)], Len(Plain))]_vars

(* init lists a target in config.yaml only after its password is stored,    *)
(* unless another command overlapped.                                       *)
ListedIsStored ==
  [][\A p \in Editors : pc[p] = "listing" /\ config' # config =>
       overlapped[p] \/ Stored(job[p].target) # None]_vars

(* A lookup passes over a secret that is in the store, to the legacy        *)
(* variable or to "No password for target", only when the server has an     *)
(* older store cached or the file is torn; never for its master password.   *)
PassedOverOnlyStale ==
  \A q \in Servers :
    answer[q].stored /\ answer[q].outcome \in {"legacy", "missing"} => answer[q].stale
=============================================================================
