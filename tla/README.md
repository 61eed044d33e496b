# A TLA+ model of the SelfConnect runtime

This directory models the parts of `scr/` (under `src/scr/`) that keep state: the agent
kernel and its journal, deterministic replay, the session manager, the evidence ledger, the
workspace lock, the service host and its control pipe, the MCP client, team delegation,
capability attenuation, sandboxed workers, and what is stored in the runtime home. TLC checks
the modules on small instances. TLAPS proves most of their safety properties for every value of
the constants; what it cannot prove is listed in section 5.
`PROJECT.json` maps each definition to the lines it models.

Contents: 1 the system, 2 the modules, 3 what the runs check, 4 fairness, 5 what is proved,
6 where documents promise more than the code does, 7 what is not modelled, 8 plan.

## 1. The system

| part | source | state | operations | what makes it hard |
|---|---|---|---|---|
| Agent kernel | `kernel.py`, `state.py` | journal, tool results, messages, ledger, approvals, session status | `run`, `resume`, `recover`, `approve`, `deny`, cancel | every store write commits by itself, so a crash may fall between any two; decisions come from other threads; recover may die too |
| Deterministic replay | `replay.py` | two stores | `run_and_replay`, `replay_matches` | threads of a batch finish in any order, the ledgers must not differ |
| Session manager | `sessions.py`, `service.py` | job table, cancel flags | enqueue, `run_job`, `resume_job`, `cancel`, `recover_all` | requests run on a thread pool and repeat keys; status is read and later written |
| Evidence ledger | `ledger.py`, `evidence.py`, `_evidence_verifier.py` | rows, seals, team members | append, seal, verify, export | read-then-insert by racing writers; export in several statements; two verifiers of one chain |
| Workspace lock | `locks.py` | lock file, sidecar, OS lock | acquire, heartbeat, release, probe, `break_stale` | deaths, reboots, unlinking of locked files |
| Service host | `service_main.py` | instances, lock, reported service state | start, serve, stop request, cleanup | the handler, the serving thread and the next start overlap |
| Control pipe | `pipe_transport.py` | pipe instance, stop flag, clients | `serve_one`, `stop`, `pipe_client_request` | clients die; `stop` needs a request of its own to wake the server |
| MCP stdio client | `mcp_host.py` | process, queue, restart count | call, time-out, restart, reader thread | the server hangs, crashes, answers late; the old reader outlives its process |
| Team runner | `team.py`, `orchestration.py` | frames, team sessions, mailbox, revocations | run, delegate, deliver, cancel, revoke, `team_recover` | policies kept over a run; cancel and revoke at any time; kill between two writes leaves a chain of open delegations |
| Team loading | `team.py` | delegation graph | `_validate_forest`, `_build_loaded` | cycles, shared children, several roots |
| Capabilities | `capability.py`, `policy.py` | manifests | `attenuate`, `effective_manifest`, `_reject_widening`, `tighten` | seven axes down a path of any length |
| Sandboxed workers | `sandbox.py`, `worker.py` | live handles, processes | `run_worker`, `wait`, `kill_all` | time-out, cancel and exit race; children outlive workers |
| Fallback chain | `resilience.py` | breakers | `complete`, `allow`, `record_*` | trips and recoveries over time |
| Migrations | `migrations.py` | database, snapshot | `migrate` | exceptions and crashes, with and without a transaction |
| Backup | `backup.py` | `config.json`, `scr.db` and its WAL, vault files, archive | `create_backup`, `restore_backup` | files are read and replaced one by one while commands write them; the log is not archived; crash between files, damaged archive |
| Packages | `registry.py`, `loader.py`, `signing.py` | stored files, shadows, index, revocations | `install`, `shadow_update` | crash mid-update, two processes, later revocation |
| Package signing | `package.py`, `merkle.py`, `signer.py`, `loader.py` | directory, package file | `sign_package`, `write_package`, `verify_package` | files are read twice; the directory may change in between; kill, damage |
| Model settings | `config.py`, `vault.py`, `cli.py`, `model_factory.py` | `config.json`, vault files | `scr init`, `scr model add`, building an adapter | any adapter name and any secret is accepted; overlapping commands save whole copies; kill between two files; the service keeps an old copy |
| Staged updater | `updater.py`, `atomic.py` | pointer | `apply` | overlapping updates |
| Licence seats | `seats.py` | seat table | `acquire`, `release` | lookup, count and insert are three statements without a lock |

How they interact. The service hands a request to a pool thread of the session manager,
which builds a kernel and calls `run` or `resume`. The kernel checks a call against the
effective manifest and the approval records, runs the tool (in a sandboxed worker, through
an MCP server, or as a delegation of the team runner), and writes journal, results, messages
and ledger to one SQLite store. Cancel reaches a running kernel through a flag and its workers
through `kill_all`. The team runner starts one kernel per delegated child. The registry and
the licence decide before that whether a package may run and a user may start.

What correctness means here: side effects happen under a journaled intent and never twice under
one; gated calls run only when approved; evidence is complete, append-only and tamper-evident;
an agent never holds more than its ancestors; one writer per workspace; and loops,
calls, workers and upgrades end. The hazards are listed, each at its line, in `PROJECT.json`.

## 2. The modules

| module | models | state and actions |
|---|---|---|
| `Kernel` | one session of the kernel | `pc` is the next store write of `_loop`, `_execute_pending`, `_execute_call` or `recover`; one action per write. `Run`, `Resume`, `Recover`, `Decide`, `Cancel`, `Crash` come from outside. `effects` is a history of the tools that ran and the intent each ran under |
| `ExecLog` | what the journal promises | an abstract log of intents: declared when none is open, performed at most once, kept, and settled as done, reissue, review or buried. `Kernel` implements it; the mapping `IntentLog` reads the log off journal, results and effects |
| `Replay` | `run_and_replay` | the actions of `Kernel` with answers and tool results taken from a script, run twice, the second time into a fresh store |
| `Sessions` | pool threads, job table, flags | one action per store access of `run_job`, `resume_job`, `cancel`; the kernel is reduced to intent, effect, done, and a return or a raised error |
| `Ledger` | rows, seals, exports | append and seal are read, then write; an export is one step per statement; `Damage` changes stored bytes. A hash is the sequence of texts it digests |
| `WorkspaceLock` | inodes, sidecar, processes, a supervisor | `open`, `_os_lock`, unlink on inodes; `Die`, `Reboot`, `Age` |
| `ServiceHost` | `_Runner`, `service_main`, `handler`, `run_console` | per instance the main thread, the serving thread and the control handler; what the service manager was told |
| `Pipe` | `NamedPipeServer`, `pipe_client_request` | the server thread, one pipe instance, clients that may die, the request of `stop` |
| `McpClient` | `_StdioClient`, reader threads, server | a process is a generation; `Send`, `Recv`, `Timeout`, `Restart`, `Stop`, `Start`, `Pump`; the server is external |
| `Team` | `TeamRunner` | a stack of frames; `Delegate`, `Deliver*`, `Start`, `Return`, `Fold`; `Cancel`, `Revoke`, `Crash`; a kill leaves each session with the tail of its journal, which `team_recover` classifies |
| `TeamRecords` | mailbox check, summary | what the records of a team run say when it is over, as operators over the state of `Team` |
| `Forest` | `_validate_forest`, `_build_loaded` | the owner walk and the recursive build, step by step |
| `Capability` | manifests along a path | `Descend` is one turn of the loop of `effective_manifest`; `tighten` as an operator |
| `Sandbox` | `run_worker`, `wait`, `kill_all` (POSIX) | per call the thread, the worker and its child |
| `Publishing` | the two readings of a signing, the zip, the verifier | SHA-256 is the text it digests, so the Merkle root is a term; `verify_package` recomputes it |
| `Settings` | `config.json`, the vault, adapters | a command holds its own copy from `Load` to `save`; `Build` gives an adapter or the `ModelConfigError` it stops with, for each adapter kind, known or not, and for secrets with and without the three parts that bedrock needs |
| `Backup` | `create_backup`, `restore_backup`, and who else writes to the home | `_collect`, `ListVault`, `CollectBlob` read and `Move` replaces one file each; SQLite's commit, checkpoint and close; the commands `scr init` and `scr model add` reduced to what they write and in which order |
| `Breaker`, `Migrations`, `Packages`, `Updater`, `Seats` | the remaining rows of section 1 | one action per statement or file operation |
| `Home` | - | the stores of the runtime home side by side, with the names their properties have in the run and the proofs |
| `MCKernel`, `MCSessions`, `MCLedger`, `MCTeam` | - | values of constants, symmetry sets for TLC |
| `MCReplay` | - | the kernel's loop, free or scripted and replayed |
| `MCDaemon`, `MCServices`, `MCHome` | - | several components that share no state, checked in one run: `part` says which one a behaviour runs, so the state space is the sum, not the product |
| `KernelProofs`, `KernelEvidence`, `SessionsProofs`, `LedgerProofs`, `TeamProofs`, `HomeProofs`, `ServicesProofs`, `DaemonProofs` | - | theorems |

Definitions whose name begins with `Mut` are what a plausible mistake in the definition after
them would look like. Nothing uses them; replacing the definition by one must violate
the property `PROJECT.json` pairs it with.

Conventions of the abstraction. SQLite statements commit one by one (`isolation_level=None`),
so a statement is a step. Names, texts and payloads are model values. SHA-256 and HMAC are
injective. Wording, logging and formatting are left out. Token and wall-clock budgets of the
kernel are a stop that may happen at any check. History variables (`effects`, `unrecovered`,
`late`, `torn`, `overlapped`, ...) record what a property needs to know of the past and are read by
no guard.

## 3. What the runs check

Each run has one `.cfg`. Sizes are distinct states.

| run | module, config | bounds and why they are enough | size |
|---|---|---|---|
| `kernel_crash` | `MCKernel`, `KernelCrash.cfg` | two entries of `run`/`resume` and three crashes, so a crash, a recover that dies, a second recover and a crash of the second entry all occur; the responses mix batches of repeatable calls, a call with side effects and one not granted | 240 k |
| `kernel_gate` | `MCKernel`, `KernelGate.cfg` | a gated call and one behind it, or an answer that may be refused; two attempts per model call, two decisions that may contradict, a crash | 3.9 M |
| `kernel_loop` | `MCReplay`, `KernelLoop.cfg` | two iterations, two attempts per model call, every response, for liveness; and every script of two iterations, replayed | 620 k |
| `sessions_pool` | `MCSessions`, `SessionsPool.cfg` | three threads, two posts of one key, a cancel, two decisions that may resume one gate twice, two deaths: one of a kernel and one inside `recover_all` | 2.1 M |
| `sessions_same_key` | `Sessions`, `SessionsSameKey.cfg` | two threads post one key; the expected result is a violation, see section 6 | - |
| `ledger` | `MCLedger`, `Ledger.cfg` | two writers, two sessions, two keys, two values, two rows: enough for a lost race, a seal that is overtaken, and exchanged or damaged rows that have a successor | 2.9 M |
| `daemon` | `MCDaemon`, `Daemon.cfg` | two processes, a supervisor, two deaths, two boots, three inodes on the lock; three instances of the service, so that a restart and a console overlap a stop; two clients and a stop of the pipe; one MCP caller, two calls, one restart allowed, two crashes: the cap is reached with a call left to make; liveness of each | 110 k |
| `host_restart` | `ServiceHost`, `HostRestart.cfg` | two instances; the expected result is a violation, see section 6 | - |
| `mcp_replay` | `McpClient`, `McpReplay.cfg` | one call, one crash; the expected result is a violation, see section 6 | - |
| `team` | `MCTeam`, `Team.cfg` | a flat team with required children and a two-level one; a cancel, a revocation, a kill and its recovery | 1.2 M |
| `services` | `MCServices`, `Services.cfg` | three threads, two seats, five subjects: two threads may overtake a third between its count and its insert; two workers and a cancel; one caller of three adapters, threshold and cooldown two; five migrations with target four, one of which may commit as it goes; liveness of the adapters | 120 k |
| `home` | `MCHome`, `Home.cfg` | all delegation graphs of three agents (cycles of length one to three, shared children, uncovered agents, up to two declared roots); paths of three of 54 manifests with nested and unrelated directories; a package of three files (a pair and an odd one) with an edit and a damage; two processes, two versions; four builds, two updaters; two models with a vault file each and two commands, which may overlap: what one of them saves, another may hold an old copy of, and a third adds no new kind of conflict; one administrator with two commands beside backup and restore, one commit, two vault files: enough for a file that changes between two reads of a backup, for one that is only in the home or only in the archive, and for a log left by a kill. Deaths of backup and restore, damages and new homes are not bounded | 1.6 M |

What they show, with the properties' names:

* **Kernel.** A tool with side effects runs only under its own `EXEC_INTENT` row
  (`WriteAhead`) and never twice under one row (`AtMostOncePerIntent`). `EXEC_DONE` has a
  stored result and a run behind it (`DoneIsBacked`). When the kernel returns without a crash,
  every run is in journal, ledger and messages exactly once (`EvidenceComplete`). With
  `recover()` after every restart no intent is buried, also when recover dies
  (`IntentsSettled`). A gated call has run only if its record says approved (`ApprovalGate`), and
  each of its runs has a grant in the ledger (`RunsAreGranted`). Every entry returns
  (`LiveReturns`). What a reader of the journal may rely on is stated once, in the small
  specification `ExecLog`, which the kernel implements (`ImplementsExecLog`).
* **Replay.** A scripted session, run again into a fresh store, writes the same ledger event by
  event, whatever order its threads finish in (`ReplayMatches`).
* **Sessions.** The cancel registry and the runs in progress agree (`FlagsMatchRuns`). Once all
  requests are answered no job is left running unless a kernel raised or a process died, and a
  job posted once and decided at most once that is reported done has a finalized session; after one
  death and `recover_all` it is at least not one with an interrupted tool. A cancelled job that
  nothing works on stays cancelled until a decision resumes it (`StatusIsTrue`). Denied calls do
  not run (`DeniedNeverRuns`).
* **Ledger.** Racing writers keep the chain valid (`ChainIntact`). Seals describe real prefixes
  (`SealIsOfThePast`). Damage is noticed (`TamperEvident`). A bundle lacks no earlier event
  and fails the offline verifier only if it was overtaken or holds an older seal
  (`BundleIsHistory`).
* **Daemon.** No lock file is held twice, two processes hold the workspace together only after
  `break_stale` unlinked an open file, and one instance of the service serves (`SingleWriter`).
  The sidecar names the holder unless a late release or `break_stale` removed it
  (`SidecarNamesHolder`). The lock is obtained again and again (`Obtainable`), and a stopped
  service gives it up (`StopReleases`). A pipe client that got through is answered, and `stop()`
  ends the server unless its own request timed out first (`PipeServes`). Every MCP call
  returns (`CallReturns`); no restart leaves a process behind, and while no wait timed out each call returns its own reply (`RepliesMatch`).
* **Team.** The recorded tree is real and announced before it exists (`TreeWellFormed`). Counts,
  denials and required children bind (`PolicyBinds`). A team that ends by itself leaves mail and
  ledger in agreement and a summary that adds up; one that was killed leaves, after `team_recover`,
  only interrupted sessions in review, among them every lead above an interrupted child
  (`EndIsAccounted`). Nothing starts below a revocation, at most one session starts after a
  cancel, and it does no work (`StopsBind`).
* **Services.** What `run_worker` answers is true: after a time-out the worker and its child are
  dead, a crash is not reported as a cancel; and `kill_all` reaches all registered workers
  (`WorkersAreAccounted`). A primary adapter that stays up is used again (`PrimaryRecovers`).
  Databases are never half migrated, unless a crash fell into a migration that commits as it
  goes (`NeverHalfMigrated`). Racing threads exceed the seats by at most the number of threads less
  one (`OvershootBounded`).
* **Home.** The loader accepts exactly the forests and builds them as validated
  (`LoaderExact`). Attenuation stays below every ancestor (`NeverBeyondPath`) and takes no
  tool, host or root from an accepted package (`LoadedIsEffective`). A package verifies exactly
  when it holds what a signing hashed (`PackageIsWhatWasSigned`). Single shadow updates keep a
  runnable version active and promote only what was tested (`ShadowUpdateSafe`); the pointer of
  the updater names a healthy build (`PointsAtHealthy`). The default model is configured and a
  secret an entry names is in the vault, in the file and in every copy a process holds; so no
  adapter is refused for want of a secret that was given, and bedrock finds one it cannot split only
  if such a text was given (`SettingsClosed`). A restore that no command disturbed brings back what
  was archived and leaves the rest as it was, readers of the database see the archived commits if
  the old home was closed in order, and whatever commands a backup or restore overlapped,
  `config.json` names only secrets the vault has, unless a restore died half way
  (`HomeStaysWhole`).

The type invariants of `Kernel`, `Capability` and `Seats` are stated there; those of the other
modules are part of the inductive invariants of section 5, where the proofs need them.

`CHECK_DEADLOCK FALSE` is set where behaviours end by themselves: entries, requests, graphs and
paths are finite, an operator may stop. `Team` checks for deadlock. Symmetry is
declared only in runs without liveness properties.

## 4. Fairness

| run | assumed | why the code justifies it |
|---|---|---|
| `kernel_loop` | weak fairness of the kernel's own steps | no store call blocks; model adapters and tools have time-outs |
| `daemon`, lock | weak fairness of acquire attempts, of the second half of release, of the supervisor's call | callers retry on `LockHeld`; the rest is straight-line code |
| `daemon`, host | weak fairness of an instance's threads, of a handler that was called, and of the server, which answers its requests | straight-line code; a run of the kernel is bounded, and uvicorn ends on `should_exit` |
| `daemon`, pipe | weak fairness of the server thread and of each client | the two sides are straight-line code between blocking calls of the pipe, which are guards of the model; the handler returns |
| `daemon`, MCP | weak fairness of the caller and of the reader threads | `_recv` waits with a time-out, `_pump` is a loop; the server owes nothing |
| `services`, adapters | time passes, the caller goes on calling | `time.monotonic`; `PrimaryRecovers` speaks of a primary that stays up |

## 5. What is proved

All proofs are checked by TLAPS and hold for arbitrary constants: any number of threads, processes,
sessions, calls and agents, any manifests and packages, and any value of the bounds in the guards.
None of the properties is inductive as it stands, so each module has an invariant that is; the
theorems follow from it. Each of these invariants was also checked by TLC on the instances of
section 3 before it was proved.

| module | theorems | assumptions | argument |
|---|---|---|---|
| `KernelProofs` | `TypeCorrect`, `NoIntentRunsTwice`, `SideEffectsAreJournaledFirst`, `GatedRunsAreApproved`, `ReturnsSettled` | `KernelAssumption` | `IInv`: what each `pc` says of the pending calls and of the results of a batch (`Shape`); between intent and done the journal ends with the intent of the call at hand (`TailShape`); every effect names an intent row of its own, and none the tail while the tool has yet to run (`EffectsInv`); a gated call past the gate is approved (`GateInv`) |
| `KernelProofs` | `KernelImplementsExecLog`, `DoneRowsAreBacked` | same | `StoreInv`: what each `pc` says of the last intent and its stored result. A step leaves the log alone (`SameLog`) or is one of declare, perform, keep and settle, with a lemma each. `RunInv`: a stored result belongs to a run of its call |
| `KernelEvidence` | `RunsAlwaysGranted`, `IntentsAlwaysSettled`, `EvidenceIsComplete` | same | counts of rows, events, messages and runs (`Tally`) per call. `GrantInv`: a gated call past the gate has a grant no run has used. `BuriedInv`: only `run()` entered after a crash writes over an open intent. `EvidenceInv`: while the process has not died the books balance, up to what is in flight at each `pc` |
| `SessionsProofs` | `RegistryAgrees`, `DeniedIsFinal`, `StatusAlwaysTrue` | `SessionsAssumption` | `Stages`: what status, session, journal tail and threads may say together of a job posted once and decided at most once, in a system that died at most once; `RunningInv`: a job left running without a thread had a kernel that raised |
| `LedgerProofs` | `ChainAlwaysVerifies`, `SealsAreHonest`, `OnlyAppends` | `KeyAssumption` | `Inv`: what an append or seal in flight remembers is a hash and a count that belonged together at some prefix of the rows (`Past`). Prefixes stay prefixes, and only an insert at the very end passes the UNIQUE constraint, where the remembered hash is the head |
| `LedgerProofs` | `DamageShows` | same | `DamageInv`: what is stored differs from what was written by one damage. Each kind of damage either leaves a prefix or breaks a link that `verify` recomputes, since hashes that are equal digest equal rows |
| `LedgerProofs` | `BundlesAreHistory` | same | `BundleInv`: each part of a bundle was read after the export began and is a chain; a seal in it is of rows the session had, and is the exporter's own or older |
| `TeamProofs` | `TreeIsReal`, `PolicyAlwaysBinds`, `StopsAlwaysBind` | `TeamAssumption` | `OnStack`, `Order`, `Links`: the stack of frames is a path of running sessions of the table; `Books`: what a frame has counted and marked is what the table says of its children, less the one under way; `LateInv`: what may still start after a cancel |
| `HomeProofs` | `Monotone`, `Accepted`, `EdgesNarrow`, `PolicyNarrows`, `TypeCorrect` | `CapabilityAssumption` (containment of paths is reflexive and transitive) | `attenuate` is a lower bound and `NoWider` a preorder |
| `HomeProofs` | `PointerIsHealthy`, `SettingsStayClosed`, `UpdatesAreSafe`, `HomesStayWhole` | `HomeAssumption` (the first build, if there is one, is healthy; packages in the store at first verify; packages carry known names and versions; no vault file is named `config` or `db`, no file content stands for a missing file) | one invariant per store: what an `apply` may roll back to was healthy; each copy of the configuration, saved or held by a command, is closed, up to the entry being added; the index and the shadow file at each step of an update; for the home, `BackupInv`: a secret that is named in `config.json`, in a command's copy, in what a backup has read or in the archive is where the next reader will look for it (`Owed`, `Kept`, `Read`), vault files are never removed, and at each step of a restore the home is the old one with the files moved so far (`Moved`). Deaths half way are kept apart by `halved` and `tainted` |
| `ServicesProofs` | `Overshoot` | `SeatsAssumption` | the inserts on their way are counted with the rows |
| `ServicesProofs` | `DatabasesAreWhole`, `AnswersAreTrue` | `ServicesAssumption` | what the open transaction sees is the next migration over what is on disk; per worker, what its thread knows at each step is true of the process |
| `DaemonProofs` | `OneWriter`, `SidecarIsTrue`, `RepliesAreOwn` | `DaemonAssumption` (one MCP caller) | whoever holds the lock owns the inode of its handle, and until a file is unlinked every handle is on the file of that name; whoever has built a runner has `service.lock`; while no wait timed out one message at most is under way, in one of five places, and it belongs to the call that waits |

The lemmas whose name ends in `Frame` or `FrameStep` say once which actions may touch a variable, so
that the proofs of the other lemmas open only those.

Sizes of the TLC checks of the inductive invariants: kernel 240,942 states with crashes and 3.9 M with
the gate, sessions 2.1 M, ledger 2.9 M, team 1.2 M, home 1.6 M, services 124,601, daemon 112,632.

`NothingDangles`, `AppendOnly`, `StepNarrows` and `TighteningNarrows` are proved and in no
configuration. Only model-checked are:

* `LiveReturns`, `Obtainable`, `StopReleases`, `PipeServes`, `CallReturns`, `PrimaryRecovers`: liveness
  under fairness is beyond the prover.
* `LoaderExact`: it compares the loader with reachability in a graph, and `PackageIsWhatWasSigned`: that
  equal Merkle roots have equal leaves. Both need an induction over data (paths, trees), which the
  prover cannot do.
* `EndIsAccounted`: its summary adds numbers up over the sessions of a team; what a fold over a set
  computes is again an induction over data.
* `ReplayMatches`: an invariant would have to relate every `pc` of the second run to the history of
  the first, for each order in which the threads of a batch may finish. TLC does this by enumeration.

## 6. Where documents promise more than the code does

Three runs show such a place.

* `sessions_same_key`: `run_job` stops only for jobs that are done or cancelled
  (`src/scr/sessions.py:57`), so a second POST with a key whose job is running or waits for approval
  runs its session again, while `sessions.py:3-4` says "the same key never runs twice".
* `host_restart`: the handler reports the service as stopped as soon as it has set `should_exit`
  (`src/scr/service_main.py:152`); the lock is released later, and a start in between fails.
  `service_main.py:14-15` says "so a restart is never blocked".
* `mcp_replay`: `call_tool` restarts a server and sends the call again (`src/scr/mcp_host.py:144`), also
  when the dead server had executed it. `mcp_host.py:16-17` says an interrupted call is
  "quarantined by the kernel, never silently replayed".

The other places below were met while modelling. The models reach each of them. The
properties of section 3 carry the condition under which the promise holds, named in
parentheses where there is one.

* `kernel.py:362`: a parallel batch runs its functions before their intents are journaled;
  `state.py:6` says every side effect is journaled before (`WriteAhead` excepts repeatable tools).
* `kernel.py:588`: for a persisted result `recover()` writes `EXEC_DONE` and nothing else; the
  report says "folded", but no tool message or ledger event is added.
* `kernel.py:605`: quarantine is two commits; after a crash between them the session stays open and
  the next `recover()` answers clean.
* `kernel.py:177`: `run()` does not look at the tail, and nothing in `scr/` calls `recover()` at
  start, so an entry may bury a dangling intent (`IntentsSettled` counts these entries).
* `kernel.py:380`: a cancel seen before a tool call of the last iteration ends as
  `max_iterations`.
* `sessions.py:69`: `running` is written unconditionally; a cancel since the check is overwritten.
* `sessions.py:93`: two approve requests for one gate both resume it, each under its own intent.
* `sessions.py:127`: `recover_all` reads clean as done, whatever the job had reached
  (`StatusIsTrue` excludes crashes).
* `evidence.py:126`: a session that joins during a team export is exported unsealed
  (`BundleIsHistory`).
* `locks.py:136`: a late release removes the next holder's sidecar (`SidecarNamesHolder`).
* `locks.py:201`: `break_stale` unlocks before it unlinks; on POSIX two processes can then hold the
  workspace (`SingleWriter`).
* `locks.py:159`: `probe` holds the lock for a moment and makes an acquire fail.
* `locks.py:208`: `break_stale` answers True for a hung holder whose lock it could not take.
* `mcp_host.py:119`: replies are not matched by id; after a time-out a late one may answer the
  next call (`RepliesMatch`).
* `mcp_host.py:91`: a write to a server that died since the last call raises an error the restart
  does not handle.
* `team.py:589`: a required child that stopped without a result counts as completed
  (`PolicyBinds` says only that it ran).
* `team.py:464`: a revoked agent that is running keeps its tools until it returns
  (`StopsBind`).
* `team.py:603`: a kill between a mailbox row and its event looks like tampering
  (`EndIsAccounted` excludes kills for it).
* `policy.py:97`: `tighten` resets the classification ceiling to its default
  (`TighteningNarrows`).
* `resilience.py:43`: every caller passes a half-open breaker, not one.
* `seats.py:35`: racing threads, of one process or of several, exceed the licence
  (`OvershootBounded`).
* `registry.py:159`: two updates of one version share a shadow file (`ShadowUpdateSafe`), and the
  index is loaded and saved whole, so one of two concurrent entries is lost.
* `updater.py:68`: a roll back undoes a switch made by an overlapping update.
* `backup.py:129`: the comment at `:118` calls the restore atomic; files are moved one by one, and a
  restore that dies leaves a mixture, in which `config.json` may name secrets the vault does not have
  (`HomeStaysWhole` excepts such a home until a restore is completed).
* `backup.py:62`: `scr.db-wal` is neither archived nor removed. Commits in it are missing from a
  backup, and a log that a killed service left is still there after a restore (`HomeStaysWhole` says
  what readers see only for a home closed in order).
* `backup.py:129`: a restore replaces and adds files and removes none; a secret stored since the
  backup stays in the vault. `HomeStaysWhole` states this overlay.
* `backup.py:69`: the files of the vault are archived; `docs/SELFCONNECT_RUNTIME_DESIGN.md:158` says
  "minus vault secrets". The blobs are encrypted for the user on Windows.
* `migrations.py:100`: the snapshot is used by the exception handler only (`NeverHalfMigrated`).
* `sandbox.py:276`: a worker spawned and not yet registered is missed by `kill_all`
  (`WorkersAreAccounted` speaks of registered ones).

Several of these operations have no caller in `scr/` besides tests (`recover_all`, `break_stale`,
`probe`, `SeatManager`, `FallbackChain`, `MCPHost`, `Updater`, `migrate`, `shadow_update`,
`Policy.tighten`); the models give them the callers their docstrings describe.

## 7. What is not modelled

* Semantic versions, licence file, roles: stateless decisions on strings, dates and tables.
* Model gateway and adapters: request formatting and network I/O. The kernel sees a response, an
  error or silence.
* Native tools, privileges, redaction: operating-system calls behind the checks of `Capability` and
  the worker of `Sandbox`, and string scrubbing.
* Observability and compliance reports: counters, and text rendered from the ledger.
* Of the HTTP surface and the command line: authentication, and routes and commands that only
  read or dispatch. Those that change state are actions of `Sessions`, `Settings` and `Backup`.
* In the modelled parts: the HTTP client and tool registration of the MCP host, Windows job objects,
  YAML parsing, the Ed25519 signature (a field of a file in `Packages`), the files, denials and
  policy lines of the team summary, and `session_guard`, `reload` and `check_requirements` of the
  registry.

Limits of the models, per module:

* `Kernel`: one session. A ledger append is one step and never fails; `Ledger` has its two
  statements, the race and the retry.
* `Sessions`: one key in `sessions_pool`.
* `Ledger`: `TamperEvident` is about `verify`. The offline verifier is compared with the rows on
  undamaged data only (`BundleIsHistory`); a bundle damaged after its export is not modelled.
* `McpClient`: one caller (nothing in `scr/` calls a client from two threads). A request or a
  notification with an error that a server sends by itself would be taken for a reply
  (`mcp_host.py:119`); servers that send none are modelled. A write into a full pipe blocks without
  a time-out (`:91`), and a command that cannot be started raises out of `start` (`:72`): the
  model's writes do not block and its processes start.
* `Pipe`: handlers answer what `json.dumps` can encode. Another answer raises outside the `try`
  (`pipe_transport.py:96`) and ends the connection without one.
* `Team`: a child's kernel is a few steps, and its `recover` is one (`Kernel` has the writes).
  Creating a session and adding it to the team are one step (`team.py:424-425`): a kill between the
  two leaves a session that belongs to no team. Of the exceptions in a child's
  run only the one of a revoked or severed path (`:423`) is modelled, not a failing store.
* `Forest`: the widening edges are a constant, not computed from manifests.
* `Sandbox`: children stay in the process group of their worker, which `killpg` reaches; a child
  that starts a session of its own is out of its reach.
* `Backup`: one file is read or replaced in one step, though on Windows `shutil.move` copies over an
  existing file; `scr.db` is not read in the middle of a checkpoint; backup and restore do not
  overlap, and the service is stopped for a restore. Temporary files of the vault that a killed
  command left are not files of the model.

## 8. Plan

Order in which the modules were built: `Kernel`, `Sessions`, `Ledger`, `WorkspaceLock`,
`McpClient`, `Team`, `Forest`, `Capability`, the services and the home, then `ExecLog` with its
refinement proof, `Replay`, `ServiceHost`, `Pipe`, `Publishing`, `Settings` and team recovery. What is
next:

1. `Sessions` over `ExecLog` instead of its own small kernel.
2. `Forest` and `Capability` composed: `widens` computed by `_reject_widening`, and the effective
   manifests of a loaded team.
3. `Sessions` composed with `Sandbox`: a cancel reaches the worker of the cancelled job.
4. A proof of `ReplayMatches`, as a relation between a run and its replay; of the mailbox and
   recovery halves of `EndIsAccounted`, which need no sum.
5. Semantic versions as an operator checked against a reference; the MCP HTTP client.
