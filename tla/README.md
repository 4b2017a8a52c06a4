# Verification of oo

`oo` (oheco) is a package manager and a user-service supervisor for HarmonyOS,
written in Go. This directory keeps TLA+ models of the parts of it in which several
processes, goroutines, files and crashes meet, and of the algorithms that decide what is
installed; the TLC runs that check them; and TLAPS proofs of what matters most. File names
are relative to `src/` (`internal/` and `cmd/` below), and `PROJECT.json` maps every
definition to the lines it models.

    tlc -workers 2 -config transaction.cfg MCPackageTransaction
    tlapm PackageTransactionProofs.tla

## The system

### Components that are modelled

| component | state it keeps | operations | modules |
| --- | --- | --- | --- |
| Package state and transaction: `internal/manager/store.go`, `unlink.go`, `operations.go`, `manager.go` | `state/installed.json`, `state/transaction.json` (the journal), `state/installed.vN.backup.json`, `packages/<name>/<version>/`, `bin/`, the flock on `state/lock` | install, switch, unlink, remove, bootstrap, recover | `PackageState`, `AtomicPackages`, `PackageTransaction`, `PackageTransactionProofs` |
| Native dependency resolver: `resolver.go`, `native_batch.go` | receipts: the dependencies and bindings of every installed version | search, rebinding, removal closure, clean-up | `NativePackages`, `ResolverProofs` |
| Version constraints: `internal/catalog/constraints.go`, `dependency.go` | none | comparison, parsing, matching | `VersionConstraints`, `ResolverProofs` |
| Service supervisor and runner: `internal/daemon/supervisor.go`, `runner.go` | per service: `desired`, `generation`, `attempts`, `status`, `proc`, `cleanupSession`, the mutex `op`, the flock on `service-<name>.lock`, the runner process with its stdin and event pipes | start, stop, restart, startEnabled, monitor, retry, finishCleanup, stopAll; the runner's life | `ServiceSupervisor`, `ServiceSupervisorProofs` |
| Cleanup of a session: `internal/daemon/orphans.go` | the kernel's process table, the groups already warned | `cleanupSession` | `SessionCleanup`, `ServiceSupervisorProofs` |
| Daemon singleton and endpoint: `internal/daemon/daemon.go`, `cli.go` | the flock on `daemon.lock`, `endpoint.json`, the control socket, the startup pipe | `oo daemon`, `oo daemon status`, `oo daemon shutdown`, `serve` | `DaemonSingleton`, `DaemonSingletonProofs` |
| Enabled services: `internal/daemon/config.go` | `services/.state/enabled.json`, its lock and journal, the definitions | enable, disable, the daemon's snapshot | `ServiceFiles`, `ServiceFilesProofs` |
| Shell autoload block: `internal/daemon/autoload.go` | the block in `.zshrc`, its lock and journal | install, remove | `ServiceFiles`, `ServiceFilesProofs` |
| Index update: `internal/manager/index.go`, `cmd/oo/background.go` | `index/index.json`, `index/http.json`, the inherited update lock | update, background update | `IndexUpdate`, `IndexUpdateProofs` |
| Export and installation: `export.go`, `export_install.go`, `project_build.go`, `project_recovery.go`, `project_dependencies.go` | the destination and its receipt, `build-profile.json5` and `oh-package.json5` with a recovery journal each, the signed package, the device | publish, resume, restore, patch, build, check, install | `ProjectExport`, `ProjectProofs` |
| Project proxy: `internal/manager/project_proxy.go` | listeners, tracked connections, handlers, the transport's idle connections | prepare, ServeHTTP, tunnel, close | `ProjectProxy`, `ProjectProofs` |
| Language packages: `language.go`, `language_unified.go`, `langconfig.go`, `operations.go` | none of their own: PATH, pip's configuration, the temporary registry | install and remove over npm and pip | `LanguageOperations`, `LanguageOperationsProofs` |

### How they interact

* Every package command runs `withLock`: flock on `state/lock`, recovery of the
  journal, then the operation. Commands of different shells meet only there, and in what
  they leave on the disk. `list` and `info` read the state without the lock.
* `NativePackages` computes the plan that `PackageTransaction` commits: the first takes the
  commit as one step, the second offers every valid plan, and `AtomicPackages` is the line
  between the two. The constraints of its instance are sets of versions; `MCNativePackages`
  writes each of them out too, and assumes, which TLC evaluates, that `Satisfies` of
  `VersionConstraints` admits just that set.
* An installation of language packages runs `withLock` once around all of it: it checks the
  backends, commits the native plan, and then runs each backend beside a temporary registry.
* Most commands leave a background updater behind, which inherits the update lock.
* `oo daemon` opens `daemon.lock`, starts a detached copy of itself that inherits the
  descriptor, and waits on a pipe until it reports. The clients find the daemon by
  `endpoint.json` and ask whether it lives by trying its lock. At boot it reads
  `enabled.json`, under its lock.
* The daemon serves each request in a goroutine, which takes the service's `op`
  mutex. It starts a runner per service, which inherits the service lock, reads its
  configuration on stdin and ends its service when stdin reaches its end; the events
  of the runner are read by a monitor goroutine, which does not take `op`.
* Daemon and runner are subreapers: what a dead runner leaves becomes the daemon's
  child, and `cleanupSession` ends it before the service lock is released.
* `oo export --install` holds a lock on the destination, not on the root; its tools reach the
  network through the proxies it opens for them and closes when it ends or is interrupted.
* Package operations and the daemon share nothing but the root: an operation does
  not stop services, and the daemon reads installed packages only through links.

### What is hard here, and what makes each component correct

* **Transaction.** Four stores are changed one durable step at a time and any step may
  be the last. Correct: an operation is one step of the abstract state or none, from
  valid to valid state (`AtomicSpec`); a directory the surviving state needs is never
  deleted, whichever way recovery goes (`FilesKept`); links never dangle, at any step
  (`NoDanglingLink`); what the user has at a destination or, when a command looks, in `bin/` survives
  (`UserFilesKept`, and `UserDirsKept` as a theorem); success means complete
  (`SuccessIsComplete`); an interrupted operation is finished or undone, also after the user
  has put something in the way and taken it back (`Recovers`).
* **Resolver.** Backtracking with a preference, over a state that earlier plans have made.
  Correct: it finds a selection if there is one, and what it does not touch still fits
  (`PlansAreExact`); no sequence of operations leaves a linked package without what it depends
  on (`Environment`); clean-up takes exactly what nobody needs (`CleanupIsExact`).
* **Versions.** A mixture of spellings. Correct: a total order, equal versions
  interchangeable, ranges without holes (theorems), and a parser that accepts exactly the
  grammar (assumptions that TLC evaluates).
* **Supervisor.** Requests, retries, boot and shutdown compete for a mutex that is held
  while waiting for a process; the monitor changes the same state without it; daemon and
  runner die separately. Correct: never two copies of a service (`SpawnIsAlone`), nothing
  starts it behind a stop (`StopSticks`), adopted descendants keep the lock
  (`LockCoversStrays`), a stop that succeeds has ended the runner (`StopIsComplete`), status
  tells the truth and an orderly exit leaves no runner that was not told (`StatusFits`,
  `ShutdownTellsRunner`, theorems), and everything that waits ends (`RequestsReturn`,
  `ShutdownEnds`, `RetriesHappen`).
* **Cleanup.** `/proc` is read entry by entry while processes fork, exit and are
  re-parented. Correct: other runners are untouched (`ForeignUntouched`), it ends
  (`CleanupEnds`), and what it can miss is bounded (`OnlyTheMovedAreMissed`).
* **Singleton.** The lock passes from a command to its daemon by inheritance; both may be
  killed; the endpoint may be stale. Correct: one daemon (`SingleDaemon`), a serving daemon
  can be found (`ServingIsPublished`), a shutdown's success and that of a start that
  had the lock are what they say, and a taken lock is never one left behind (`AnswersHold`), a half-started daemon does not stay (`OrphanedStartEnds`).
* **Service files.** Read, change and rename, beside an editor that asks nobody. Correct: what
  is not oo's stays (`OthersKept`), an installation can be taken back (`RoundTrip`), commands
  do not undo one another (`EachCallInTurn`).
* **Index.** Two files written one after the other, a lock that is inherited, mirrors that
  lag. Correct: one refresh at a time (`OneRefresh`), a conditional request names no
  later version than the one that is there, and none is repeated within the interval (`RequestsFit`), a background
  update does not go back (`NoRollback`).
* **Export.** The user's own configuration is patched for the length of a build that may be
  killed; minutes lie between a check and its use. Correct: the configuration comes back
  (`ConfigKept`), a device gets the package that was verified for it (`InstalledIsVerified`),
  nothing of the user is overwritten (`UserEntriesKept`), a failed export takes back what it
  can (`UndoneIsClean`).
* **Proxy.** `close` against handlers, dials, hijacked tunnels and pooled connections. Correct:
  nothing is left (`NoLeak`), the cleanup ends (`CleanupEnds`), a tunnel ends when one of its
  halves finds the socket broken that it reads from or writes to (`BrokenTunnelEnds`).
* **Language packages.** pip is sent elsewhere by settings that pip itself reads; options are
  forwarded; a toolchain may have to be installed first. Correct: pip's and
  npm's code runs under the selected tool only and nothing is installed elsewhere
  (`DefaultStaysHome`), the backend reads oo's settings as oo wrote them, as far as oo knows
  which options take the next argument (`ArgumentsHold`), backends find the toolchains they were checked against
  (`BackendsFindTheirTools`), no process or registry stays behind (`RegistryOutlives`).

### Not modelled

| component | why not |
| --- | --- |
| Archives, downloads, launchers (`archive.go`, `download.go`, `launcher.go`) | extraction, digests and generated scripts: their outcome is a stage that is ready, or an error, which `PackageTransaction` takes as such |
| Catalog and index format (`internal/catalog`) | validation and rendering of data, without state; of it, the conditions and candidates of dependencies are in `VersionConstraints` |
| Registry handlers and `oo-index` (`internal/registry`, `cmd/oo-index`) | they translate HTTP, JSON and HTML; Start and Close of the registry are steps of `LanguageOperations` |
| External tools of an export (`project_tools.go`, `project_device.go`, `project_signing.go`, `project_outputs.go`, ...) | each is a step of `ProjectExport` that succeeds or fails; the parsing of their output and of signed packages is data |
| Command line and terminal (`cmd/oo/main.go`, `confirm.go`, `progress.go`, `query.go`) | parsing of arguments and output |
| JSON5 (`internal/json5`, `tpr/json5`) | a vendored parser |
| Build, installer and native test scripts (`scripts/`) | packaging and tests |

## The modules

### PackageState, AtomicPackages, PackageTransaction

`PackageState` is the value in `installed.json` with its validation (`Valid`,
`UniqueOwners`), the links it asks for (`LinksOf`) and, for each operation, the values
of After that it may compute from Before (`Planned`, `Bootstrapped`, `Removed`,
`Unlinks`, together `Successors`). Receipts are reduced to the commands they own and to
launcher options (which decide the schema); dependency bindings are `NativePackages`' part.
`AtomicPackages` says what is promised: `state' \in Successors(state)`, in one step.

`PackageTransaction` has one action per durable step:

| code | actions |
| --- | --- |
| `withLock` and the checks of `recoverTransaction` | `Acquire`, `NothingToRecover`, `CheckRecovery`, `RefuseRecovery` |
| `recoverTransaction`: links, state, directories, journal | `RestoreLink`, `LinksRestored`, `RestoreState`, `SweepDir`, `Swept`, `ClearJournal` |
| the operation and its checks | `Plan`, `Return`, `Refuse`, `Relink` |
| `commitStages`: backup, journal, moves, links, state, mark | `BackUp`, `WriteJournal`, `MoveStage`, `MoveRefused`, `Moved`, `ApplyLink`, `LinksApplied`, `WriteState`, `MarkCommitted` |
| kill, error returns, the user | `Abandon`, `ApplyFails`, `UserDir`, `UserFile` |

A write with fsync and rename is one atomic step. A directory is absent, ours or the
user's, which stands for the comparison of device and inode with the journal's stage
identity: identities are perfect here, an inode number that is used again is not modelled.
The user touches `bin/` and makes directories at any moment. Between the check of the links
(`Checked`) and their replacement lie the backup, the journal and the moves, and `applyLinks` visits each
name once, in an order of priorities (`todo`), without another look at it. A file put at a name in
between is lost; `late` is the history of such names, which no step reads, and `UserFilesKept` speaks of all
others. The readers without
the lock, `list` and `info`, are left out: they change nothing and see one of the two records
that `AtomicSpec` allows. The refinement mapping is `Effective`: the state file without a
journal, otherwise what recovery would leave (Before until the journal carries the committed
mark, then After).

### NativePackages and VersionConstraints

The state is an index and the receipts. `Requests`, `Problem`, `Constraints`, `Allowed`,
`Wanted`, `Preferred` and `Tried` are `planNative`'s steps to a `Solution`, as operators;
`After` and `Plans` are what it writes and checks, `Rebound` is `rebindActive`, `Closure`,
`Cascade` and `Candidates` are the removal. The actions are the commands: `Install`,
`Switch`, `Remove`, `Unlink`, and another index (`Update`). A constraint is the set of versions
that satisfy it. Left out: `version_basis: upstream`, the filter by platform, the ownership of
commands and the schema (`PackageState` has both), missing toolchains, the check of files, and
the limits of 512 packages and 10000 steps. What a reader should know of the code: a disabled
package keeps its version but its dependencies need not be active; an active package that a
request does not reach is protected by the last check of `rebindActive`, which refuses; and
after a dependency of an active package has been unlinked, other operations refuse until it is
restored.

`VersionConstraints` has `CompareVersions`, `parseConstraint` and `Satisfies` over words with
a reading (`Parsed`): the tokens the code groups the characters into.

### ServiceSupervisor

One service, since services share nothing but the daemon. `Actor` names the goroutines
that take the mutex: one handler per client, `boot` (startEnabled), `retry`, `stopAll`.
The program counter `pc` of an actor follows `startLocked` and `stopLocked` between the
points where the code waits or reads state another goroutine changes: the last look at
`stopping` (`CheckStopping`) and the creation of the runner (`Spawn`) are two steps. The
monitor goes through its own steps (`watch`, `clean`, `report`/`dirty`, `final`). Waiting
with a timer is two alternatives that are both enabled (`StartReturns` or `StartGivesUp`,
`StopDone` or `StopTimesOut`, `WaitLock` or `WaitLockFails`). `strays` are processes of the
service without a runner: adopted by the daemon, or orphaned to init. A cleanup that
succeeds is complete here; `SessionCleanup` shows what it may miss. The death of the
daemon (`DaemonDies`, `Exit`) loses its memory, locks and pipes, and the runner goes on by
itself. A daemon that exits while a cleanup has failed releases the lock with descendants
alive (`supervisor.go:443` ignores the error): the next one does not know of them.
Generations are bounded by 2 * MaxCalls + 2, which no behaviour reaches otherwise.

### SessionCleanup

The kernel's processes (parent, group, pending signal) fork, die and are re-parented
between the steps of a pass: `ReadDir`, then each entry in any order (`ReadStat`), then
`Reap` or `Signal`, then `EndPass`. `Foreign` are the runners of other services, children of
the same daemon that lead sessions of their own. `clock` stands for the grace period and the
three seconds after it. The runner's own loop over its process group is one step of
`ServiceSupervisor`.

### DaemonSingleton

A starter names the daemon it creates. `lock` names who opened the description that has
the flock; the command and its daemon share it, so it goes when the last of the two closes
it (`CloseLock`). `GivesUp` stands for the error, the end of the pipe, the timer and the
interrupt, after each of which the command kills its daemon and waits for it. The
endpoint names a daemon, and `sockets` is the set of those whose socket exists. A start that finds the
lock taken (`Busy`) succeeds without asking by whom: `AnswersHold` says whom it may have met, which
need not be a daemon.
`--foreground` is a starter that is its own daemon and adds no interleaving.

### ServiceFiles

`.zshrc` and `enabled.json` are changed by the same protocol, and a behaviour is about one of
them (`about`): `Lock` or `LockTimesOut`, reading, `Truncate` and `Write` of the journal, and
the rename. `Autoload` looks before it reads (`Look`) and again before it renames (`Recheck`,
`SameFile`); `setEnabled` checks definitions (`CheckConfig`), reads (`Load`), replaces and only
then closes its lock. A text is a sequence of lines and whether the last one lacks its newline; a
line is made of pieces, so that two lines that become one can be told from two lines. `Boot` and
`StartService` are the daemon, which reads the file once. The user does not save between the
last look and the rename, which nothing in the code could notice; and a file that is created
after Lstat and deleted before the recheck may come back with its content.

### IndexUpdate

`TryUpdateLock`, `Spawn` and `CloseCopy` are a command that leaves an updater behind, `Update`
and `WaitLock` a foreground one. `refreshIndex` is `Read` or `BacksOff`, `Attempt` (the
record that is written before the request), `RequestFails`, `NotModified` or `Answered`, `Save`
(index.json) and `Record` (http.json). An index is its source and its number there; validators are
numbers that mean something at one source only, so that two servers may use the same one. A mirror
answers with any version it ever had. A server that compares dates answers 304 also when its version is
older than the one named, and `NotModified` may then record that server's validator for the bytes that
stay: `Vouched` bounds this (never a later version than the bytes).

### ProjectExport

One run of `oo export --install` is `Enter`, the publication (`Preflight`, `Copy`, `Undo`) or
`Resume`, then `restore...`, and `install` and `buildAndInstall`: `ReadProfile`,
`JournalProfile`, `PatchProfile`, the same for the manifest and ohpm, `Build`, the restoration
on every way out (`Unwind`), `Snapshot`, `VerifyPackage`, `Recheck`, `Install`, `Confirm`. A
configuration file is the number of the edit that wrote it and what oo has put on top;
`wanted` records what it should come back to. The user edits files, destination and device
and builds by himself between any two steps, except: the profile between its reading and its
patch (`project_build.go:45-81` has no second look), an entry oo has just created, and the unit
between the last look and `hdc install`. Restoring and signing read and write in one step; the
packages of several modules are one. `.cli.lock` and the lock of the signing cache appear only as
failures. Two limits of the code that the model shows and no property forbids: a journal whose file
the user has edited, or whose patch was never written, stays and later runs refuse until
the user has settled it.

### ProjectProxy

A request has two sockets, and a handler's steps are those of `ServeHTTP`, `connect` and the
dialling functions between the points where they meet `close`: `track`, which refuses after
the mark, `Hijack`, which takes a connection from the server, and the waits on a peer. `close`
is `Mark`, `CloseServer`, `CloseConns` (of the copy it has made under the mutex) and `Wait`.
`cleanup` runs once and is called by the installation or by the watcher of its context. The
transport may give a plain request the connection another one has dialled (`uses`, `idle`). Not
modelled: which upstream a URL means, and the hop-by-hop headers. A new request takes the
place of one that has ended only when `close` no longer holds its sockets in its copy, since they
have the same names. A half of a tunnel reads or writes (`writing`): while it writes to a
peer that does not read, it sees nothing of its source, and without a deadline that may last until the
peer reads or goes or the cleanup closes the sockets. `BrokenTunnelEnds` is therefore about the
socket that a half waits for (`WaitsFor`), not about both.

### LanguageOperations

One operation follows `InstallMany` or `RemoveMany`: `Resolve`, `Check` of every backend (or
`CheckMissing`), `Confirm`, `CommitNative`, and per backend `Recheck`, `Upstream`,
`StartRegistry`, `Spawn`, the end of the process, and `Close`. Removal runs the backends first.
`ToolCheck` is `languageToolForOperation` with pip's scope and interpreter checks,
`validateLanguageOptions` the filter of forwarded options, and `Argv` what is run. How npm and pip
read arguments and configuration is external.

A tool is oo's own, one on PATH, or an `OHECO_PYTHON` (`Found`); one on PATH may not run or lack npm
or pip, and a Python may be an activated virtualenv, with a base (`venv`) or without one that can be
used (`lone`). A virtualenv's interpreter is run to ask for its base, and then its base is
(`Selected`); `Ran` tells such questions from runs of the backend's own code, and `DefaultStaysHome`
says that the latter are under the selected tool only.

oo appends its options behind the caller's and requires a value for every option that, by its tables,
takes the next argument. A backend knows more of them: `NpmUnlisted` and `PipUnlisted`. One of
these, forwarded last, takes the first of oo's options for its value. `ArgumentsHold` says what
remains true then (the last of oo's options is read) and that everything holds as long as the forwarded
options are in the tables or written with `=`.

What holds only as far as the code goes:

* the comment at `language_unified.go:52-54` promises the check of pip's scope before the native
  transaction; when python3 is yet to be installed it can only come after it;
* `parsePipConfig` (`langconfig.go:373-402`) does not see `extra-index-url` and `find-links` of
  `[install]`; `README.md:497-503` says that the first is aggregated and the second an error;
* an edit of pip's configuration between the check and the run is not noticed;
* a helper may outlive a backend that ends by itself; a cancelled one is killed with its group;
* `user = yes` is refused also where pip would ignore it.

npm's two probes are one step, and so is the check of a tool; `--offline` is not modelled.

## The runs

| run | what it checks | bounds | distinct states |
| --- | --- | --- | --- |
| `transaction` | safety, refinement of `AtomicPackages` and recovery | the client and two versions of one package, which all own the same command; one process; two faults or interventions; schema 2 to 3 | 652,797 |
| `supervisor` | the safety properties of the supervisor | two clients, two requests, two daemons, three faults; policy on-failure, burst 2, enabled at boot | 1,318,016 |
| `supervisor_live` | its liveness | one client, one request, one daemon, one fault; policy always, burst 1 | 22,095 |
| `cleanup` | the safety of the scan and its end | three processes of the session, a foreign runner | 1,754,369 |
| `singleton` | the singleton's properties | two starters, two clients, one kill | 342,330 |
| `index` | the index's properties | two processes, two sources with two versions each, one fault | 293,556 |
| `export` | the export's properties | two runs, two projects, a tree of a directory, a file in it and one beside it, two units, two edits, two builds, one fault | 1,355,622 |
| `proxy` | the proxy's properties | one proxy, one CONNECT and one plain request at a time, any number in a row | 112,924 |
| `native` | planning, the environment, clean-up; the assumptions on constraints | three packages, two versions, two indexes, two targets, three installed versions | 2,098 |
| `files` | the service files' properties | two commands, two roots, one word, two services, two edits, one fault | 900,848 |
| `files_lines` | the finding | as `files` | violation |
| `languages` | the language operations' properties | fourteen options of every kind, three of them at a time; thirteen settings of pip, five systems; one edit | 3,132,574 |

Why the bounds are enough to be interesting. Two versions of one package and a rival for
its command are what link ordering, ownership and passive installs need; a second fault
hits the recovery from the first, and the operations themselves are not bounded, so a fault
meets every reachable state of the root. One process suffices there: a second one meets the
first only at the lock, and exclusion is a theorem for any number. In the supervisor, two requests
and the start at boot are the shortest histories in which a retry, a stop and a start overlap; two
daemons are needed for a runner that outlives one; three faults allow a runner to be lost,
its cleanup to fail and the daemon to be killed. In the cleanup, three processes allow a
grandchild to be re-parented behind the scan. In the index, two versions are an older and a
newer one, two sources a mirror and another; one kill between the two files is enough to
break their agreement. In the export, a second run meets what a killed one has left, and two
edits hit the two files, or one file before and after its patch. The proxy's plain request may
reuse a connection and follow itself; close meets a tunnel and a pooled connection at once.
Three packages allow a chain and a diamond, and the two indexes a conflict that needs
backtracking, a cycle, and a version published again with other contents. Two edits of a
`.zshrc` allow a line behind the block and a lost newline.

`MaxFaults`, `MaxCalls`, `MaxBoots`, `MaxEdits`, `MaxBuilds`, `MaxArgs`, `MaxTargets`,
`MaxInstalled` and `MaxAt` are the only bounds, each in the guards or sets that use it. Retries of a
service are not capped by a constant: the start limit ends them, and `WindowPasses` lets attempts
leave its window. Symmetry is used where values are interchangeable and the run has no liveness.

Deadlock is checked in `transaction` and `native`. It is not in the others, since the modelled
world ends there: requests, edits and boots are used up, commands have finished, a cleanup has
returned.

### Fairness

* `PackageTransaction`: weak fairness of each process's own steps while it holds the lock,
  and of somebody taking it again. The code has no background recovery; the journal is
  recovered by the next command, so `Recovers` speaks of a user who runs one. `Abandon` and
  the interventions are not fair and are bounded by `MaxFaults`.
* `ServiceSupervisor`: goroutines run and timers fire. The steps of an actor and of a retry are
  strongly fair, because those that take the mutex are enabled only now and then, and Go's
  mutex hands itself over to a waiter that has waited long. A runner
  proceeds, and ends its service once its input ends (it kills the group after the stop
  timeout). The daemon's main goroutine goes on with a shutdown that was asked for. Nothing
  makes a client call, a service exit or a daemon start.
* `SessionCleanup`: the scan runs and time passes. No process has to die, not even of KILL,
  so `CleanupEnds` rests on the deadline alone.
* `DaemonSingleton`: daemons go on with their own steps; nothing makes anyone run a command.
* `ProjectProxy`: the closing goroutine and the watcher run; handlers and dials go on, because
  dials and handshakes have deadlines, and a read of a closed or broken socket returns, as does
  a write to one. Nothing makes a tool, an upstream or the user do anything: a write to a peer
  that does not read need not return while its socket is open (`Written` is not fair).

### Findings

One run checks a sentence of the docs that the code does not keep:

* `files_lines` (`internal/daemon/autoload.go:138`): install adds the newline that a
  `.zshrc` lacks and remembers it in the block. When lines have been added behind the block since,
  `autoload --remove` takes the newline away again, and the last line before the block and the first
  one behind it become one. `README.md:237`
  says that the rest of the configuration is kept.

Seven more places where code and words differ, known from the models and left without a run:

* `internal/manager/store.go:543`. The links are checked once, before the
  backup, the journal and the moves. A file that the user puts at one of their names after that is
  replaced or removed. `README.md:286` says that existing files are not overwritten.
* `internal/daemon/daemon.go:60`. A start that finds `daemon.lock` taken
  succeeds, also when a status or shutdown command has it for a moment and no daemon runs
  (`internal/daemon/cli.go:23`). `AnswersHold` says what holds of such an answer.
* `internal/manager/index.go:181`. A 304 of a server that has an older
  version replaces the validators of the newer local bytes by those of the older ones, though
  "validators belong to both a source and the exact saved bytes" (`index.go:127-128`). `RequestsFit`
  says that no later request is misled by them.
* `internal/manager/language_unified.go:313`. An option that takes the next
  argument, but is not in oo's tables, takes the first option that oo appends (`--index-url`,
  `--ignore-scripts`). `README.md:461-465` says that these are not lifted.
* `internal/manager/store.go:496`. The pre-migration backup is written before the journal and only
  if absent. If that operation is abandoned, the file stays, and the migration that succeeds
  later keeps it although the state has changed: the backup is then not the record before the
  migration (`README.md:405-406`).
* `internal/daemon/orphans.go:71`. A child that has exited is reaped without counting as
  found. Its own children were re-parented during the pass and may have been passed over; if
  nothing else runs, the cleanup succeeds with live descendants and the service lock is released
  (`internal/daemon/runner.go:25-27`). `OnlyTheMovedAreMissed` says that these are the only ones.
* `internal/daemon/supervisor.go:95`. `start` succeeds whenever the service has a process, also
  when that process is ending after a stop that timed out: the service then ends, and nothing
  starts it (`internal/daemon/cli.go:27`, `README.md:214`).

`PROJECT.json` lists every hazard with the properties that would catch it. Each property of a
passing run has a mutant, an altered definition kept beside the original, for which the
run finds it violated.

## The proofs

Every proof is for all values of the constants, from the named assumptions of its module (what the
constants are, that special values are not among the ordinary ones, and in `LanguageOperations` that
none of the options oo appends takes the next argument). A theorem is of the
module's `Spec`; the bounds are constants like others.

`PackageTransactionProofs`

* `Invariance`: `IInv == TypeOK /\ LockHeld /\ JournalFits` is inductive. `TypeOK` needs the
  journal to hold states; that it does needs what a process has in memory to be an operation
  that was computed from the present state file; that needs nobody else to have changed the file,
  which is exclusion. `JournalFits` says for each step what journal, state file and memory agree
  on. `TypeCorrect`, `Exclusion` and `JournalAgrees` follow.
* `ImplementsAtomic`: every step leaves `Effective` or moves it to one of its `Successors`. The
  proof has three kinds of steps: those that do not touch state file or journal; those of a
  recovery, which write what `Effective` already is; and `MarkCommitted`, the only step that
  changes it.
* `FilesAreKept` and `UserDirsAreKept`: `DirInv` adds that every stage is in place before the
  links and the state change (`StagesMoved`). Without it the marked journal could promise a
  directory that is not there.
* `NoLinkDangles`, `UserLinksAreKept` and `SuccessMeansComplete`, from `LinkInv`: a name in `bin/`
  holds nothing, the user's doing, or the links of one of the journal's two states
  (`LinksKnown`); directories of this program are recorded in one of them (`OursRecorded`);
  the links are settled before a directory goes (`LinksSettled`); and what the check has seen to be
  free of the user's files is so up to those that came `late` (`ForeignIsLate`). A default link is safe
  because `Priority` creates the versioned name before it and removes it after it: `NextLinkKeeps` says so
  for any two states, so also for switches and removals that the run's two packages do not show, and
  whatever the user does meanwhile to the names the loop has visited (`Settled`).

`ServiceSupervisorProofs`. `IInv` is the type and `Facts`: `Mutex` (who is inside startLocked or
stopLocked holds `op`), `Steps` (what the holder has found out and nobody else changes), `Watched`
(the phase of the monitor says what is left of the runner), `Covered` (what the lock stands for),
`Ends` (boot and shutdown). There is one lemma for the steps under the mutex (`OperateFacts`), one
for the monitor, one for the runner, and `NextFacts` for the rest. `TypeCorrect`, `StraysAreCovered`, `StatusIsRight`, `SpawnsAreAlone`,
`StopsStick`, `StopsAreComplete` and `ShutdownsTellRunners` follow: with the liveness that TLC
checks, all that the supervisor promises.

Its last part is about `SessionCleanup`, which it extends too (so that module's specification is
called `CleanupSpec`); the two share no name and no fact. `Apart`: a foreign runner leads a group
that nobody of the session is in. `Accounted`: in a pass that has found nothing, a live child of the
owner is still to be looked at, is being looked at, or was moved there meanwhile.
`SessionTypeCorrect`, `ForeignAreUntouched` and `MissesOnlyTheMoved` follow.

`DaemonSingletonProofs`. `Holds` says who has the lock at each stage. A starter has it from
`TryLock` until it returns, its daemon from birth to end, a client in the moment between its probe
and the release; and a starter that has not spawned yet has no daemon. Two live daemons would both
be the holder: `Singleton`. On top of it, `Placed` says what the only daemon has put in place, and
withdraws unless it is killed, and `Asked` where a client is with its request: a client that
waits for the lock has been answered, by a daemon that does not serve any more. `ServingIsFound` and
`AnswersAreTrue` follow.

`IndexUpdateProofs`. `LockInv` follows the lock from a command to its updater: `Exclusive`.
`CachesFit` is the heart: a record never says more of an index than its source has said (`Fits`: an
index of that source, and no earlier than the validator says),
neither in http.json nor in the memory of a refresh (`Sound`), whatever is edited, deleted or
killed in between. With `AskedFits` and `BackOff` it gives `RequestsAreFit`, and with what a
refresh in `save` is allowed to hold, `NeverBack`.

`ProjectProofs`, of the export and its proxies (whose specification is `ProxySpec`)

* `Base`: types, and that only the run that has the lock is not idle. What a run knows can then be
  changed only by its own steps and by the user's.
* `TreeInv`: the first `created` entries of the archive are oo's, each once, each in the
  destination, in one of the user's directories or in an earlier one (`Made`); nothing else is,
  except, while they are taken back, directories with something in them (`Publishing`). To
  start with nothing of this kind the preflight has to rule out entries below the top that it does not look
  at: what is there hangs from the destination and not from itself (`Standing`, `NothingStands`).
  `UserEntriesAreKept` and `UndoingIsClean`.
* `SetInv`: a configuration file holds what it should, or its journal is there and the file holds the patch
  (`Kept`), and a journal that would still be restored has what was last written. `Knows` says what a run
  relies on: no journal is there before the profile is patched and after the restoration, a restoration that has not
  failed still has every journalled file on its list, and the manifest
  is what was read or was edited later, which dates (`Dated`) tell apart. Without the last part an edit
  between reading and journal could look like one that is already covered. `ConfigIsKept`.
* `DevInv`: from `VerifyPackage` on the copy is signed for the run's unit, and at `Install` that unit is attached:
  `InstalledAreVerified`.
* The proxy. `Placed` says of each socket where the step of its request
  puts it, `Closes` how far close is, `Known` that the copy made under the mutex has all there is to
  close of the proxy, `Silent` that nothing goes on in a proxy that has been closed. The race
  between `track` and `close` is decided by the mark: what was tracked before it is in the copy, and
  nothing is tracked after it. `NothingLeaks`
  and `ProxyTypes`.

`ServiceFilesProofs`

* The protocol. `Held` (who is past the lock has it) and `Current` (what such a command has
  read is what the file says, and the journal what it wrote) give `CallsTakeTurns`. `Shaped` says
  what `run` is made of.
* The texts, of any length. `Framed`: a block between two parts without a marker is found again,
  with those parts around it and its separator remembered. `Blocks`: around the block of a text that
  oo may edit are such parts, and a remembered separator has a line before it. `InstalledIs`,
  `RemovedIs` and `ThereAndBack` follow. A line that goes on on another one is neither a
  marker nor malformed (`CleanJoined`), and no word is lost (`FlattenJoined`): the sums of the
  lines, of which `FlattenIsRecursive` says that they exist and `FlattenIsUnique` that they are
  the only ones, are the same but for one.
* `TextsOK` is inductive. Whatever the user does, the file is absent or a text whose last line is
  open only if there is one; what a command has read is one it may edit, what it writes is made from
  that, the journal is what it writes, and from the recheck to the rename the file is what it has read. With the
  lemmas on texts: `FilesComeBack` and `WordsAreKept`.

`LanguageOperationsProofs`

* Arguments. What a backend reads of its arguments (`Continue`) is a recursion over those before
  each one, what `validateLanguageOptions` and `npmScopeArgs` make of them (`AcceptsAt`, `ScopeAt`)
  one over those behind it. `ReadingIsRecursive`, `AcceptsIsRecursive` and `ScopeIsRecursive` show
  that the functions exist, `ContinueBoth` that reading goes part by part. `OptionsKeep` is the
  induction over the options that are left: an accepted list of options that oo knows (`AllListed`) is
  read without a target
  and ends without waiting for a value, and npm reads of it and of what `npmScopeArgs` keeps of it the
  same scope (`SameScope`). `OptionStep` is its step, where the two readings move by one argument
  or by two: an option with its value, a truth value behind one of npm's options (`Takes`). What oo
  appends is read last, so it wins: `NpmArguments` and `PipArguments`. They are for lists of
  any length over all options; the run has three at most. `LastHolds` needs neither: whatever a backend
  is waiting for, an option of oo's own ends the wait, and the one behind it is read (`ReadsShaped`).
* The operation. `OperationInv` is inductive: types; `ProcessesOK` (whose processes there are, and
  that the registry is open for them); `ProgressOK` (which backends have been run);
  `ToolsOK` (what the check of each backend said and still says, since only `Edit` changes what it
  depends on); `ForwardOK` (the call's arguments were accepted, and read as passed); `HomeOK` (the
  configuration of the call passed the check, and what has run was meant to, `Meant`). `DefaultIsHome`, `ArgumentsAreRead`, `ToolsAreThere` and
  `RegistryIsKept`.

`ResolverProofs`

* Versions. The comparison is built from comparisons of places, the first of which decides.
  `FirstChains` shows that this keeps an order if every place does; the lemmas go from numbers to
  tokens, sequences, cores, prereleases and whole versions. `VersionsAreOrdered`,
  `EqualVersionsMatchTheSame` and `RangesHaveNoHoles` follow.
* The search. `SearchIsRecursive` shows that the recursive function exists and obeys its equation,
  by well-founded recursion on the selection, which grows inside a finite set. `SearchIsExact`
  then takes a largest selection for which it would be wrong. From a selection on the way (`InPlay`),
  every solution has some version of the package that is chosen next, the search tries all that are
  allowed, and the selections it goes on with are larger; where nothing is pending, the
  selection is a solution just if it has no cycle. Of the order of preference only is used that it
  leaves no version out. `PlansAreAlwaysExact` is this and that a plan leaves the versions and
  dependencies alone that it does not reach.
* The record. `RecordIsKept` is the inductive invariant: the record is well formed (`PackagesOK`:
  what is active is installed, and bindings are those of the dependencies), and an active, linked package
  is bound to the active versions, which its constraints allow (`Linked`). Well-formedness is needed
  because a rebinding goes through the receipts of all installed versions. `EnvironmentHolds`.
* The clean-up. `Candidates` is what shrinking rounds leave. `Iterates` shows that such a sequence of
  rounds exists, `Settles` that as many rounds as there are versions are enough, because each one that
  changes anything takes a version away, and `ProtectedIsLargest` that the set they settle on is the largest one whose
  users all go with it. `CleanupIsAlwaysExact`.

Induction. The library's induction theorems take an operator, which the installed provers cannot
instantiate. The recursions above were proved without them, from the first-order statement
behind them: a set that is not empty has a minimal member of a well-founded relation
(`WFMin`, with `NatLessThanWellFounded` or `FS_StrictSubsetOrderingWellFounded`), applied to the set
of counterexamples.

Every safety property that a passing run checks is a theorem. Only model-checked: that the parser
accepts the grammar, which TLC evaluates over all short conditions.
Liveness and ENABLED (`Recovers`, `RequestsReturn`, `ShutdownEnds`, `RetriesHappen`, both
`CleanupEnds`, `OrphanedStartEnds`, `BrokenTunnelEnds`) are out of the prover's reach.

## What a next step would be

1. `PackageState`'s plans as those of `NativePackages`: a refinement in which a receipt has its
   bindings, for catalogues of two packages.
2. The registry's handlers, once something of theirs has state.
