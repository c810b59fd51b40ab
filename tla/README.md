# Verification of Postgres-AIops

TLA+ models of the parts of Postgres-AIops that keep state between steps, or
read a server that goes on while they read; the TLC runs that check them on
small instances; and TLAPS proofs of what they guarantee for every instance.
Every definition follows the Python source; `PROJECT.json` gives the lines under
`map`.

To check one run: `tlc -config MCAuditLog.cfg MCAuditLog`. To check the proofs
of one module: `tlapm AuditLogProofs.tla`, and so on for each `*Proofs.tla`.

## 1. The system

A set of tools that read and change PostgreSQL servers, offered twice: by an MCP
server, whose SDK (`mcp>=2.0`) runs synchronous tools on worker threads, and by a
CLI that calls the same governed functions. Every tool goes through one wrapper.

| Part | State it keeps | Operations | Who else touches that state |
|---|---|---|---|
| audit engine, `governance/audit.py` | `audit.db`, archives, `audit.lock`; per process `_ok`, `_write_blocked` | `begin_write`, `finish_write`, `log`, `reconcile_pending`, rotation | every process and thread of the user |
| harness, `governance/decorators.py`, `outcome.py`, `mcp_server/_shared.py` | one `_CallState` a call, the before-state ContextVar | check, begin, run the body, annotate, record the undo, finalize | one thread; the connection under it is shared |
| connections, `connection.py` | one cached `PgConnection` a target | `connect`, `execute`, `query`, `scalar` | all threads of the process |
| undo store and tools, `governance/undo.py`, `mcp_server/tools/undo.py` | `undo.db` | `record`, `mark`, `undo_apply` | every process |
| reversible writes, `ops/remediation.py`, `mcp_server/tools/remediation.py` | none; the server's `auto.conf` and indexes | `update_setting`, `create_index`, `drop_index`, replay | every session of the server |
| budget, `governance/budget.py` | counters and windows | `check_and_record`, `add_duration` | all threads of the process |
| patterns, `governance/patterns.py` | patterns, mtimes, counters; pattern files | `match`, `report_outcome`, hot reload | all threads; the operator edits the files |
| secret store, `secretstore.py`, `cli/secret.py`, `cli/init.py`, `config.py` | `secrets.enc`, `.enc.tmp`, `.env`, `config.yaml`, `_cached` | `unlock`, `set`, `delete`, `with_password`, migrate, lookup | every process |
| CLI results, `cli/_common.py` | none | `checked` | - |
| chain analysis, `ops/analysis.py`, `ops/activity.py` | none; the server's locks | `blocking_pairs`, `blocking_lock_chain_rca` | every session of the server, while the query reads |
| ranked reads and analyses, `ops/tables.py`, `ops/queries.py`, `ops/indexes.py`, `ops/analysis.py` | none | `table_bloat`, `top_queries`, `index_bloat`, `bloat_and_vacuum_analysis`, `slow_query_rca` | - |
| other reports, `ops/*`, `doctor.py` | none | one SELECT each | - |

A call runs: `_pre_check` (budget, pattern) -> `begin_write` (a durable intent,
for a write) -> the tool body inside `tool_errors`, over the shared connection ->
`_annotate_result` and `_record_undo` -> `_finalize` (duration, pattern outcome,
`finish_write` or `log`) -> for the CLI, `checked`.

What is hard in it:

- *several processes, one file*: rotation of the audit log against intents in
  flight, undo tokens applied twice, the secret store written by two commands;
- *several threads, one connection*: `explain_query`'s transaction, a connection
  that dies under another thread's statement;
- *lost responses*: a write that may have landed must be reported as neither
  success nor failure by the audit row, the undo token and the exit status alike;
- *partial failure and crashes* between the intent, the statement, the mark;
- *values read earlier than they are used*: the before-state, the clock, the
  write gate, cached secrets, the mtimes of pattern files, the rows of a lock graph;
- *answers that stop at a limit*, which must say so and leave out nothing worse.

What makes each part correct: the trail is truthful and complete for writes
(audit engine, harness); an inverse restores what its write changed, once, and
where it ran (undo, reversible writes); limits hold under concurrency (guards);
a withdrawn pattern does not fire (patterns); secrets are not torn or lost
(secret store); a diagnosis names who really waits, and for whom (analyses).
`PROJECT.json` lists the hazards one
by one under `hazards`, each at its line with the properties aimed at it.

## 2. The modules

| Module | Models | Composes |
|---|---|---|
| `AuditTrail` | what the audit log promises to its reader | - |
| `AuditLog` | the audit engine, in processes with threads | refines `AuditTrail` |
| `GovernedCall` | the wrapper around a tool, with connection, undo record, exit status | takes the engine at its interface; refines `AuditTrail` |
| `UndoApply` | `undo_apply` over the shared store | takes a governed call at its outcomes |
| `Remediation` | the reversible writes, their inverses, the server they change | takes undo marking as one step with the inner write |
| `Guards` | budget, runaway breaker, rate limit, circuit breaker | - |
| `Patterns` | pattern files, their hot reload, the choice of the pattern that fires | takes the limits of `Guards` as free refusals |
| `SecretStore` | the encrypted store, its commands, the wizard, the lookup | - |
| `LockChains` | the blocking pairs as the query reads them, and the walk over them | - |
| `TopReads` | the reads of the worst rows up to a limit, and what is chosen from them | - |
| `MC*` | values for the constants | one module each; `MCAnalyses` composes `LockChains` and `TopReads` |
| `*Proofs` | theorems | extend their module; `AnalysesProofs` extends `LockChains` and `TopReads` |

**AuditLog.** `pc` is where a caller is in `log`: `want` (before the guard),
`locked`, `checked` (rotation decided), `renamed`, `insert`, then `upstream` and
`finish` for a write. A row's id is its place in the live file, because
AUTOINCREMENT starts again at 1 in the file that a rotation creates: that is what
makes a late `finish_write` dangerous. `holder` is the rotation guard of each
process; with `HasFcntl` at most one process holds it. `blocked` is
`_write_blocked`. `Crash` may happen anywhere; `RotationFails` is the swallowed
exception of `_maybe_rotate`, also between the rename and `_init_db`. The rename
and the removal of the `-wal` and `-shm` files are one step.

**GovernedCall.** One step per phase of the wrapper, and per statement sent. A
tool is a record of the ways in which tools differ: is it a write, does it send
through `execute` or `scalar`, does it read first, does it stash a before-state
(`outcome.py` offers it; no tool of the repository does so yet), has it an undo
callable, is it `explain_query` with `analyze`, and what an open
transaction does to its statement. `link`, `txn` and `within` are the cached
connection and the transaction open on it. The server's answers are free: success,
an error, a lost response before or after the effect. A budget refusal is free
too. Interrupts occur up to the statement; between `annotate` and `final` they
are left out. `ImplementsTrail` maps the rows that exist to the trail of
`AuditTrail`, the specification that `AuditLog` implements as well: what the
engine promises of its rows, the wrapper relies on and keeps.

**UndoApply.** `undo_apply` in three steps (read the token, run the inverse, mark
it), each of which may fail or be the last one before a crash. `Default` differs
from process to process, since each loaded its own configuration.

**Remediation.** Before-state and write are separate statements of the server.
`auto` is `postgresql.auto.conf`, `loaded` what `pg_settings` shows until the
operator reloads. Names resolve along the search path; `Fold` is `to_regclass`
folding an unquoted name. What an inverse needs is recorded as text: `ValueText`
is what a value comes to when the text recorded of it is set (at most 256
characters, one quoted literal, nothing for an empty value), `DefText` what a
definition comes to (at most 2000, without control and format characters; none
when it is cut), and a definition outside `Replayable` is refused by the gate of
the replay. Two variables are history for the properties: `current` holds the
callers whose before-state is not out of date (nobody has written since, and it
was loaded, or read under the name that the DROP uses), `undone` what the undo of
a create_index dropped.

**Guards.** The checks are atomic, as the locks make them, except that a call's
stamp is taken before (`Enter`). Its start and the budget's reading of the clock
are one moment. An outcome is reported long after the pattern was armed.

**Patterns.** A thread in `match` compares the directory with `_mtimes` file by
file, loads all files when one differs (glob, then for each file its mtime and
then its content), publishes the patterns and then the mtimes, and fires the
first armable pattern. Threads do so side by side, without a lock, while the
operator writes, removes and moves files and dates pass. A file is a number, its
place in the sorted order of the names. A document is a record of what
`_validate`, `effective_risk` and `is_expired` look at. Four variables are
history: `since`, `solo`, `clash` and `unread` say which edits a match has seen
and whether loads overlapped, for the properties to speak of.

**LockChains.** The query of `blocking_pairs` is two steps a backend: its WHERE
clause and, for a row that passed, the call that is unnested. Locks are granted
and taken in between (`Change`). A prepared transaction holds locks and has no
backend, so the join drops it. Then come the roots, the walk below each with its
stack and `seen`, and the cut to `MAX_ROWS`. A tie in a sort is any order.

**TopReads.** Operators give the set of possible answers of a read of the worst
rows: one row more than the limit is fetched, and the flag tells whether it came.
`DeadPct` and `Bloat` compute as the SQL does, in hundredths of a percent and in
pages. An action asks one of the three tools about some statistics under some
limit. The reads and the chains share no state; `MCAnalyses` checks them in one
run, where a read is asked after a chain analysis of a server with no waits.

**SecretStore.** A command unlocks a *view* of the store, edits it and persists
it in the steps of `_persist`: open the temporary file (which truncates), write,
rename. The names `secrets.enc` and `secrets.enc.tmp` point to inodes, so that a
process may still write into a file that another has renamed. `Stop` ends a
command by failure or death at any step. Reading `.env` or `config.yaml` right
after unlocking is one step with it. `Plain` is the lines of `.env` that set a
password, in their order, and `migrate` imports one a step. A variable has a key
(what stands between `PG_` and `_PASSWORD`), and the code goes between keys and
targets by two functions that are not inverse to each other: `KeyTarget` of
`migrate` (lower case, `_` to `-`) and `TargetKey` of the lookup (upper case, `-`
to `_`). Two keys may name one target, and a target need not be what its key
names.

PostgreSQL, the kernel, the operator and the clock are outside `src/`; the
definitions that stand for them are marked external in `PROJECT.json`.

## 3. The runs

Passing:

| Run | Instance | Shows |
|---|---|---|
| `audit_log` | 3 threads in 2 processes, a call each, rotation at 1 row, 1 archive | `IntentHeld`, `StatusIsOwners`, `LeakShutsGate`; `CallReturns`; implements `AuditTrail` |
| `governed_calls` | 2 threads, 2 and 1 calls, four kinds of tool, interrupts | `EffectsAudited`, `SuccessIsReal`, `TokensSound`, `AnswersAgree`; implements `AuditTrail` |
| `undo_apply` | server and CLI, 2 and 1 applies, 2 tokens and a third that an inverse records | `AppliedRan`, `OnceUnlessDoubt`, `RanAtOrigin` |
| `remediation` | 2 callers, 2 and 1 writes, 2 schemas, 2 names that fold together; values and definitions recorded whole, cut, changed and not at all, and a definition that the replay refuses | `InverseRestores`, `UndoRemovesOwn` |
| `guards` | 2 threads, 2 and 1 calls, 5 moments, limits of 1 and 2 | `CallsCounted`, `RunawayBounded`, `RateLimited`, `BreakerHolds` |
| `secret_store` | 2 commands, an `init` of up to 2 targets beside one of 1, 1 server, 2 targets, 3 lines of `.env` of which 2 name one target, 2 master passwords | `TornOnlyByClash`, `WritesKeepOthers`, `MigratedIsStored`, `ListedIsStored`, `PassedOverOnlyStale` |
| `patterns` | 2 threads, 2 files, 2 edits, a document that expires and one that was rejected | `StaleOnlyByClash`, `WithdrawnNeverFires` |
| `analyses` | 4 sessions and a prepared transaction, 3 waits and 2 changes of them; 3 rows under limits of 0 to 3 | `VictimsExact`, `DeadlockIsReal`, `EveryoneAccounted`, `RcaReturns`; `LeftOutIsSaid`, `CutOffIsNoWorse` |

Each also checks its module's `TypeOK`. Some of the properties state what holds
in spite of a flaw that the code has, and name the flaw in their premise, so that
they say nothing of it: `OnceUnlessDoubt` (two appliers may run one token),
`PassedOverOnlyStale` (a server keeps the store it unlocked first),
`StaleOnlyByClash` and `WithdrawnNeverFires` (loads that overlap leave a withdrawn
pattern armed until its file is touched again), the four properties of the store's
commands (commands that overlap tear the file and lose each other's edits),
`InverseRestores` (a before-state that was out of date or could not be recorded
whole) and `UndoRemovesOwn` (a schema that does not come first), `DeadlockIsReal`
(rows read at different times) and `EveryoneAccounted` (a cycle beside a root).
What the repository claims beyond that is under *Violations*.
`LeakShutsGate` limits what follows a leaked intent to the threads that were past
the gate already; those do still send their write.

Why the bounds are enough. The hazards of each part involve two actors, and the
instances have two (three in `audit_log`, so that two threads of one process meet
a second process). Rotation at one row makes every write a candidate for it, so
ids are reused at once; one archive makes retention drop files. Two calls of a
thread are needed for state that an earlier call leaves behind (the ContextVar,
the write gate, a dead connection). Three tokens let an undo be undone. Five
moments of the clock exceed every window in the instance, so stamps expire, and
`Threshold = 2` needs two reports. Two files are the least that share or
do not share an id and that a comparison stops between; of two edits one may fall
between an mtime and the content and one after the load. Four sessions are the
least with a cycle beside a chain of a root and its victim, and three waits make
either; `MaxRows = 1` cuts as soon as there are two roots. Two targets of an `init` and
three lines of `.env` are what a view needs to go through several writes, and a
line to be replaced by a later one with another target's between. The bounds are the `Max*`
constants, each in a guard; all names of bounds are commented `bound:`.

Where `CHECK_DEADLOCK FALSE` is set, the callers have made all the calls the
bounds allow, or nobody asks for more: the program rests. `audit_log` checks
deadlock, since processes can always be restarted.

Violations: each states what the repository says of itself.

| Run | Property | What the code does |
|---|---|---|
| `scalar_write` | `EffectsAudited` | a lost response under `scalar` is audited `error` (`ops/remediation.py:129`) |
| `interrupted_write` | `OkMeansDone` | Ctrl-C is audited `ok` (`governance/decorators.py:133`) |
| `explain_rollback` | `ExplainOnlyReads` | the rollback of `explain_query` takes another thread's write with it (`ops/queries.py:152`) |
| `undo_exit` | `ExitReflectsInverse` | `undo apply` exits 0 on a failed inverse (`cli/undo.py:69`) |

`findings` in `PROJECT.json` quotes the statement for each.

Five more statements of the repository are definitions of the modules, beside the
weaker property that holds. They have no run of their own: add one as an
`INVARIANT` to the .cfg named here, and TLC refutes it within half a minute.

| Definition | Instance | What the code does |
|---|---|---|
| `UndoApply!AppliedOnce` | `MCUndoApply.cfg` | two appliers of one token both run its inverse (`mcp_server/tools/undo.py:128`) |
| `Remediation!SettingUndoSetsBack` | `MCRemediation.cfg` | the before-state of `update_setting` is what is loaded, not what it replaces (`ops/remediation.py:383`) |
| `Remediation!DropUndoRecreates` | `MCRemediation.cfg` | the definition of a dropped index is recorded cut and without some characters (`ops/remediation.py:290`) |
| `Remediation!CreateUndoDropsExactly` | `MCRemediation.cfg` | the undo of `create_index` drops by bare name, and so maybe a namesake (`mcp_server/tools/remediation.py:27`) |
| `LockChains!RootsBlockedByNone` | `MCAnalyses.cfg` | a backend that waits for a prepared transaction is named as a root (`ops/activity.py:80`) |

One more follows from the conversions alone and needs no run: `migrate` stores the
password of a target that is spelt with `_` or capitals (`PG_PROD_DB_PASSWORD` of
`prod_db`) under another name (`prod-db`, `secretstore.py:297`) and still renames
`.env`, although its docstring (`secretstore.py:280-283`) says that nothing is
lost. `MigratedIsStored` is therefore about the names that `migrate` computes.

### Faulty variants

A definition whose comment begins with *Faulty* is not part of the model: it is
the definition below it with the kind of mistake that the code might have had, a
dropped guard or a swapped order. Put in the other's place it makes TLC find the
property that `PROJECT.json` names with it under `mutants` violated, which shows
that the property depends on that line of the code.

### Fairness

Two properties are about liveness. `CallReturns` of `audit_log`: whoever enters
the engine leaves it. It assumes weak fairness of `CallerStep` for each caller: a
thread inside the engine is scheduled again, and its I/O returns with success or
an error. SQLite has a busy timeout of 5 s, so its calls do return; `flock`
blocks without a timeout, and that it is granted is what the property is about.
Nothing is assumed of starts, crashes, new calls or the operator. `RcaReturns`
of `analyses`: the analysis ends, whatever cycles it walks. It assumes weak
fairness of `QueryStep \/ RcaStep`, the one thread that reads and walks, and
nothing of the server's other sessions.

## 4. The proofs

Every safety property that a passing run checks is a theorem for all values of
the constants. Three kinds of theorem go beyond the runs:

- *converses*: a pattern's limits refuse only for a reason (`RefusalsAreRight`),
  an applied token has exactly one run (`AppliedRanOnce`);
- *the safety half of a liveness property*: `GuardIsOwned` under `CallReturns`,
  `StepsRunOut` under `RcaReturns`;
- *causes*: what has to be there for a flaw that a run shows. Without a second
  thread, or without a write that its transaction takes in, `explain_query` takes
  nothing back (`ExplainReadsApart`); and if nobody interrupts a call either, an
  `ok` row is true of the server (`OkIsTrueUninterrupted`); with one command, or one thread, at a time the secret
  store and the patterns need no premise about others (`AloneLosesNothing`,
  `LoneThreadObeys`).

**AuditLogProofs** (for any callers, processes, statuses and bounds). `TypeOK` is
inductive as it stands. `IntentHeld` is not: a rename takes every row of the live
file away, so one must know that no pending row is there. The inductive
`IntentInv` adds that a caller in the guarded section holds the guard of its
process (`GuardHeld`), that nobody else is in the section (`OneInside`), and that
a rotation past its check still finds no pending row (`NoneChecked`), since only
the holder of the guard inserts. `StatusIsOwners` follows from `IntentHeld` at
the step of `FinishWrite`. `ImplementsTrail` needs one more invariant
(`RowsInv`): rows belong to calls that have started (`Past`), a call that has not
inserted yet has none (`Fresh`), a call has at most one row in the live file
(`UniqueLive`) and archives hold no pending row (`ArchivedClosed`). The step
lemma then matches `Insert` to `Open`, `Execute` to `TakeEffect`, `FinishWrite`
and `Reconcile` to `Close`, `Reinit` to `Forget` and the rest to stuttering.
`RowsStayFinal` reads the promises of `AuditTrail` off that refinement: a call has
one row in the trail, and a row that is closed never changes again. These
theorems assume `GuardSpans`: with `fcntl` the rotation guard spans all processes,
and without it (Windows) the thread lock spans the one process that there may be.
With two processes and no `fcntl` two callers can be in the section at once, and
SECURITY.md:109 says as much.

`LeakShutsGate` is an action property under the same assumption, and rests on
`Gate`: an intent that is pending in the live file with no caller at work on it
was left by a process that has shut its gate or has died. Only `BeginWrite` takes
a write past the gate, and it finds it shut (`ShutAdmitsNobody`); who runs and
finishes is a write that came that way (`OnlyWritesRun`). `GuardIsOwned` assumes
nothing: a guard that is held is held by a
caller inside the section, in a process that runs; an early return, an exception
or a death never leaves it behind.

**GovernedCallProofs** (any tools, any number of threads on one connection, with
or without interrupts). A thread changes only what belongs to its own call, the
link and the transaction (`Moves`). The invariant says of a call under way what
its row, its state and the server have in common (`Own`), and of one that has
ended what its audit row, its token and its answer have in common (`Judged`); the
four properties are read off `Judged`. That the calls implement `AuditTrail`
(`CallsImplementTrail`) is read off `Own`: a statement is sent under the intent of
its own call, and `_finalize` finds the call's row pending or absent.
`EffectsAudited` is proved under `WritesExecute`, that every write sends through
`execute`: `scalar_write` shows that the two tools that do not are an exception,
and `EffectsDoLeaveRows` that even they leave the row of a write. `RowsInv`
follows what a row says until it is closed. It gives `FalseOkIsRaised`: with
interrupts too, whoever made the call of an `ok` row of a statement that was never
carried out was given an exception. `effects` holds every write that was carried
out, those included that a rollback took back (`undone`). `TxnInv` says that a
transaction is open only inside an `explain_query` on a live link; under
`NothingJoins` no write of another call gets into it (`ExplainReadsApart`), the
complement of the run `explain_rollback`. The two invariants together give
`OkIsTrueUninterrupted`: with neither interrupts nor joins an `ok` row stands for
a write that is on the server, in `effects` and not in `undone`. Each premise is
needed, as the runs `interrupted_write` and `explain_rollback` show.

**UndoApplyProofs** (for any appliers, targets, initial stores and bounds). The
inductive `IInv` is `TypeOK` and the three properties with: two appliers never
run the same token unless it is in doubt (`OneRunner`); an applier that has
dispatched a token that nobody doubts, and has not run it, finds no run of it
(`FirstRun`); the token of a run is in doubt, or marked, or some applier is about
to mark it (`RunsMarked`); an applier about to mark has run (`MarkRan`); runs are
of tokens in the store (`RunsKnown`); a token's named target is where its write
ran (`NamedWhere`). A second run of a token not in doubt would have to pass the
status check between the first run and its mark, where `OneRunner` forbids it.
`AppliedRanOnce` joins two of the properties: applied means run exactly once,
unless in doubt. `SettledForGood` is what remains where a token is in doubt: once
it is marked and nobody is between its dispatch and its mark, it is never run
again. It rests on `RunningOn`, that only a dispatch, which finds the token
recorded, starts a run.

**GuardsProofs** (any threads, fingerprints, patterns, ceilings, windows, caps).
`CountInv`: the counter is the number of the calls that passed. `WindowInv`: the
calls that the runaway breaker may still be asked about have a place each in the
window, in spite of stamps that came late and hide an expired one behind them;
the map from calls to places is what bounds their number. `ArmsInv`: an arming
younger than a day is still kept, so that counting what is kept counts what
fired. `BreakInv`: the counter of failures reaches back to the last success.
`RefusalsAreRight` is the converse for the two limits of a pattern: the counter
counts only failures in a row, an open breaker has a report that tripped it
(`ExactInv`), and every moment that is counted is that of a firing
(`CountedFired`).

**RemediationProofs** (any callers, names, schemas, values, texts, reloads). The
before-state of a caller in `current` is what the server holds (`CurrentOK`): any
write empties `current`, and what it was read from names one index
(`ResolvesToOne`). A token is judged at the moment it is recorded and its words
never change (`TokenOK`), with a lemma for each of the three inverses
(`SettingToken`, `DropToken`, `CreateToken`); that gives `InverseRestores`.
`UndoRemovesOwn` needs that names are unique in a schema (`OneOfAName`) and that
an index once dropped is never the same again (`BornInv`). The assumptions on the
texts are those of their type: nothing is assumed of what is cut or changed.

**SecretStoreProofs** (any commands, servers, targets, passwords, files).
`TornInv`: while no two commands have been inside `_persist` at a time, the file
being written is never the store. `AloneInv`: a command that no other overlapped
finds the store as its view has it, but for the target it edits. The first gives
`TornOnlyByClash`, the second `WritesKeepOthers`, `MigratedIsStored` and
`ListedIsStored`; what `migrate` has imported so far is in its view line by line,
but for lines that a later one replaced (`Imported`, `ImportedNext`), whatever
`KeyTarget` makes of the keys. Types suffice for `PassedOverOnlyStale`. `WritesKeepOthers` is
about the step that renames; with both invariants `OnlyReplacesChange` says of
every other step, the truncations, failures and deaths included, that it leaves
the secrets alone. `AloneLosesNothing` is the case of one editor, who never meets
another (`NeverMet`): the premises about overlaps fall away.

**PatternsProofs** (any threads, files, documents, edits). An mtime names one
version of a file, since edits give fresh ones (`BoundInv`). `LoadInv`: what a
load has behind it is right of every file that still has the mtime it took, the
first of an id included, and the files ahead have no pattern yet; `StatKeeps`,
`AddKeeps` and `SkipKeeps` are the lemmas for its three steps, `EditKeeps` for an
edit under it. `SoloInv` names the one load that may publish without a clash, so
that the engine inherits `LoadInv` (`PublishedInv`): that is `StaleOnlyByClash`.
`FreshInv` says that what was loaded or compared since the last edit is what the
files say now: that is `WithdrawnNeverFires`. With one thread no loads overlap and
every match is timed (`LoneInv`), and `LoneThreadObeys` states both without the
premise.

**AnalysesProofs** (any sessions, any changes while the query reads; any rows,
limits and numbers in them). `RowsInv`: the pairs are the rows as each was read.
`WalkInv`: what waits for a pid that was seen is seen or on the stack, and every
closed set below the root holds what is on the stack or seen; so the walk ends in
the least closed set, `VictimsExact`. With `AnswerInv` the other two follow:
whoever is neither a victim nor cut waits in the set of all such backends, which
has a cycle. `RootsWaitForNoBackend` (a root that is named waited for no other
backend when its row was read, though it may have for a prepared transaction)
follows from the rows by the definition of a root. `StepsRunOut` proves
that the analysis cannot go on for ever: `StepsLeft`, a natural number made of
the backends still to read, the roots still to walk, the pids not yet seen and
the length of the stack, falls at every step of the query and of the walk, and no
change on the server raises it.

For `TopReads`, `ReadCut` says that a read which fetches one row more than its
limit is complete exactly if it does not say that it was truncated, and that what
it leaves out ranks no higher than anything it shows; `OneMoreIsEnough` puts it as
an inclusion: whatever such a read answers, rows and flag, one that ranks and
counts all rows could have answered. `LeftOutAreSaid` and
`CutOffAreNoWorse` are what is left of that where an analysis ranks by something
else than the read did: an index exceeds its ideal by no more than its size
(`BloatBound`), so one that a cut by size left out is bounded by what was read.

Only model-checked: `CallReturns` and `RcaReturns`. They need fairness and
ENABLED, which are out of the provers' reach; `GuardIsOwned` and `StepsRunOut` are
the part of them that is not. The properties of
the runs under *Violations* fail there; `EffectsAudited` and `ExplainOnlyReads` are
proved, and `OkMeansDone` follows, under the premises above.

The assumptions on constants are the named ASSUMEs at the head of each module;
TLC evaluates them in the runs. The premises of single theorems (`GuardSpans`,
`WritesExecute`, `~ Interrupts`, `NothingJoins`, `OneEditor`, `OneThread`) are
stated in their ASSUME ... PROVE; all are about how the program is deployed or
which tools it has, none about its states.

## 5. Not modelled

- Reports that are one SELECT each, doctor, argument parsing and layout: no state
  is kept and nothing interleaves. That the overview's snapshot
  drops the errors of its probes (`ops/overview.py:39`) is one step, for a unit
  test.
- WAL sidecars of SQLite: the rename of the audit log and the unlinks of its
  `-wal` and `-shm` are one step. Splitting them needs a model of what SQLite does
  with a WAL whose name is gone, which is not in the source.
- File modes, telemetry, redaction, key derivation.
- A pattern withdrawn between its arming and its report (`patterns.py:329`).
- Encodings and texts, except where a name is folded or resolved, a recorded value
  or definition is cut or changed, and a key is taken for a target or back.
- VACUUM, ANALYZE and REINDEX beyond being governed calls: they have no inverse.
- The MCP server shell, policy tiers and paths: registration and pure helpers.

## 6. Plan

Done: all modules of section 2 with their runs, and proofs of every safety
property that a passing run checks.

Left, in order:

1. An abstract ledger of undo tokens (recorded, done once, in doubt) that
   `UndoApply` implements, as `AuditTrail` is for the audit engine.
2. A converse for the runaway breaker: how many of the calls that a window counts
   may have expired when it refuses, given how late a stamp may come.
3. SQLite sidecars in `AuditLog`, once the behaviour of SQLite is pinned down by
   a test that the model can be checked against.
