# Verification of jona-homelab

TLA+ models of the homelab panel (a Nuxt server with one SQLite file), of the
Companion it controls on Windows PCs (a service written in Go) and of the two
programs that update them; TLC configurations that check the models on small
instances; and proofs, checked by TLAPS, that hold for every instance.

## 1. The system

| part | code | state | operations |
|---|---|---|---|
| Device table and request handlers | `server/core/database.ts`, `service.ts`, `validation.ts`, `wol.ts`, `server/api/devices/**` | rows of `devices`: MAC, address, method, credential, cooldown stamps, `lastSentAt`, `lastSeenAt`, `updatedAt` | create, edit, delete, wake, power (shutdown, sleep, hibernate), record a probe |
| Status refresh and release lookup | `checkDevicesStatus`, `createReleaseLookup`, `status.get.ts` | the pool of a refresh; the cached release, its expiry, the promise under way | probe all devices four at a time, answer, ask GitHub |
| Companion service | `companion/api.go`, `protocol.go`, `shutdown_windows.go`, `power_windows.go`, `config_windows.go`, `service_windows.go` | pairing code in memory and in `config.json`, nonces, the power executor | authenticate, status, shutdown, suspend, rotate, record a call, start, stop |
| Companion updater | `companion/updater_windows.go`, `update_state_windows.go` | releases on disk, junction `current`, service, `update-status.json`, `update.lock` | daily and manual check, download, verify, install, activate, roll back |
| Panel updater | `deploy/update.sh`, `deploy/jona-homelab.service` | releases, link `current`, data directory, backup, unit | look, stop, back up, install, switch, start, health check, roll back |
| Remote update request | `updateRemoteCompanion`, `update.post.ts`, `CompanionUpdate.vue` | set of updates in flight; waiting state of the page | ask a Companion to update, follow its status |
| Pipe and tray | `companion/pipe_windows.go`, `tray_*.go` | one pipe instance; the state of the window | status, rotate, check-update, diagnostics |
| Panel page | `app/app.vue`, `app/components/*` | devices, statuses, timers | load, refresh, edit, wake, power |
| Favorites, configuration, security, migrations | `favorites.ts`, `config.ts`, `security.ts`, `middleware/security.ts` | rows without interplay; none | create, edit, delete; stateless checks |
| Installation, packaging, logs, diagnostics, release workflow | `*.ps1`, `log_windows.go`, `diagnostics_windows.go`, `release.yml` | none at run time | run by hand or on GitHub |

How the parts meet:

- The page calls the handlers; handlers of one Node process share the event
  loop and the database file, which a second process may also open.
- The panel sends signed HTTP requests to the Companion (`remote.ts`) and
  concludes from a signed answer, an unsigned error or a timeout.
- The Companion service launches an updater process which stops and starts the
  service; the two share a status file and a lock file.
- `update.sh` stops and starts the panel, whose new release migrates the
  database that a rollback has to give back.

What is hard in it: statements of two processes that interleave; awaits between
the reading of a row and its use; goroutines that read the clock before they
take a lock; messages delivered late or twice; commands that fail half way;
signals, kills, crashes and reboots between any two steps of an update; and
status files left behind by processes that died. `PROJECT.json` lists each
hazard at its line with the properties that guard it, or why none does.

What makes each part correct, in a sentence:

- *Device table*: two granted commands on a target are a cooldown apart, a
  refusal has a granted command behind it, a stamp is true of the target the
  row has now, and what is sent belongs to the row.
- *Refresh*: a status comes from one version of its device, no device is left
  out, and GitHub is asked as rarely as promised without anybody waiting in vain.
- *Companion service*: a signed message has its effect once, commands are a
  cooldown apart, success is real, and the code shown is the code in force.
- *Updaters*: what the link names can run on the data it finds, nothing
  acknowledged is lost, what is reported is true, and no outage is silent.
- *Pipe*: a local call answers with the last operation the service performed for
  it, whoever else shares the single instance.
- *Tray*: a code is shown only to a user who asked for it, no status is left
  behind without something that will replace it, and a service that comes back
  is found without a click.
- *Remote update and page*: the mark of an update in flight is taken away with
  the request, a page never goes back to an older device, and when nothing
  happens any more it shows the device as it is and waits for nothing.

## 2. The modules

| module | models | composed of |
|---|---|---|
| `DeviceRows` | what each SQL statement does to a row, and what a request body is turned into | - |
| `DeviceRequests` | the handlers, statement by statement, over the table | EXTENDS `DeviceRows` |
| `StatusRefresh` | the pool of a refresh and the shared release lookup | - |
| `CompanionService` | panel, network and service around a signed request | - |
| `LocalCalls` | what a local call to the service promises, without the pipe | - |
| `CompanionPipe` | the pipe's server, its one instance, `callPipeRaw`, the pairing code in memory and on disk | refines `LocalCalls` (INSTANCE ... WITH) |
| `CompanionTray` | the window procedure of the tray as one caller of the pipe | EXTENDS `CompanionPipe` |
| `PanelPage` | a device on the page, its Companion card, the handlers it calls, the Companion's side of an update | - |
| `CompanionUpdater` | coordinator, worker process, service, status file | - |
| `PanelUpdater` | `update.sh`, systemd's unit, the database | - |
| `MC*` | small instances and symmetry sets for TLC | EXTENDS the module |
| `*Proofs` | theorems about the module | EXTENDS the module and TLAPS |

The `map` of `PROJECT.json` gives the lines behind each definition.

### DeviceRows and DeviceRequests

A row is a record with the columns the handlers tell apart. A step is one SQL
statement, or the arrival of a network answer (ping, SSH, Companion, the
socket of the magic packet). Node runs one handler at a time between two
awaits: `loop[p]` holds the request whose synchronous section occupies process
`p`, so that with one process a synchronous section is atomic and with two
the statements interleave, which `claimWake`'s comment reckons with. `now` is
taken when a store method is called and may be older than the statement that
uses it. A statement may fail (`StatementFails`) and a process may die at any
point (`Crash`). MAC addresses, addresses, users and secrets are model values;
a body is a member of `Inputs`, and `InputAccepted`/`Parsed` decide as
`parseDeviceInput` does. `edits` and `targets` are history.

The runs use one process, the deployment of `jona-homelab.service`; the module
takes any number. Spacing, stamps and configured rows are proved for all of them
(section 5). Refusals, the target of a command, the blank code and the dropped
probes rest on synchronous sections being atomic, so they are proved for one
process: with two, an edit can pass between `claimShutdown` and
`companionSecret`, between the two statements of `claimWake`, and between the
read and the write of `update`.

### StatusRefresh

One Node process, a step between two awaits. A row is its version, which stands
for `updatedAt` and for the data of that version; the stamps a probe leaves are
in `DeviceRequests`. A worker of the pool always has one probe under way until
it ends. The secret of a device is read when its turn comes, long after
`list()`. The cached answer of GitHub has an expiry; a refresh with a Companion
in its list shares the lookup under way.

### CompanionService

Every delivery of a message is a goroutine, cut where another goroutine, a
rotation or a stop can matter: the reading of the secret, the clock of
`verifyRequest`, the clock of the guard, the guard itself, the recording of the
call, the lock of the executor, the command, and the secret that signs the
answer. A message may be delivered late, twice or never; the answer may be
lost. The panel and the PC differ by at most `MaxSkew`. Windows may refuse a
command, and writing `config.json` may fail. `trySuspend` checks and sets
`last` at one value of the clock, as it holds the lock in between.

`AcceptedOnce` speaks of one run of the service: nonces are in memory, and the
code promises no more.

### LocalCalls, CompanionPipe and CompanionTray

`LocalCalls` is the promise: a call is invoked, the service performs operations
for it, any number of them because a client retries, and it is answered with
the outcome of the last one or with "unavailable". `CompanionPipe` is how:
`runPipeServer` creates one instance, listens, reads one request, performs it,
writes the reply and waits for the client to take it (`server`, with
`CreatePipe`, `Handle`, `CloseInstance`, `Expire`), while each caller opens,
writes, reads and tries again (`caller`, with `CallStep` and `GiveUp`). The
mapping keeps the action, the outcome and the answer of a call and drops the
instance, the attempts and the file. `code` and `disk` are kept apart, because a
rotation that cannot be saved still changes the code in force, and because any
authenticated request of the panel saves it later.

`CompanionTray` adds one of the callers in detail. `tray` has the fields of
`trayApplication` that decide something; a step is one message of the window
procedure, and the functions `StartAction`, `Show`, `Finish`, `UpdateInfo`,
`Proceed` are its handlers as functions of that record. An action is a goroutine
that calls the pipe and posts its result; `rest` is what a handler that opened
a modal dialog does when the dialog is closed. `revealed` is history.

### PanelPage

`page` is what `app.vue` and `CompanionUpdate.vue` hold about one device; `gets`
are the GETs of the statuses under way, cut at the listing of the devices, the
probe, and `recordStatus`; `post` and `inFlight` are `updateRemoteCompanion`
with its set. The Companion is reduced to what a status shows: it answers or
not, its version, and its phase, whose changes are those `CompanionUpdater` can
produce. Another page may ask for updates of the same Companion, and the
Companion may check by itself. A row is the number of its edits.

### CompanionUpdater

The coordinator lives in the service; a worker is a process that outlives the
service it stops. The status file carries the process that wrote it, and
`readUpdateStatus` turns an active phase of a dead process, or one that is too
old, into a failure. A time unit is a day: the fifteen minutes after which a
status is stale pass only with the fault "sleep". `service.state` separates a
service that says it stopped from the process that ends later, since the worker
waits for both. The faults of a run are a constant:

- "write": writing a status fails, an error most callers ignore;
- "sleep": a day passes during an update or a check;
- "slow": the service, or its process, does not stop in time;
- "crash", "reboot": the service dies (and is restarted by Windows, as
  `install.ps1` sets), or the PC loses power;
- "linger": a worker takes longer to end after it reports than GitHub takes to
  answer the next check.

`timer` is the goroutine of the automatic checks between its first look at the
status (`CheckAuto`, `updater_windows.go:55`) and the second one inside
`checkAndSchedule` (`Proceed`, line 81); a worker is another process and may write
in between. The end of an update is cut in the same way: the health answer
(`CheckNew`, `CheckOld`), then, after the tray was started, the report
(`ReportNew`; `ReportOld` writes "failed", `RecordReturn` "rolled-back" over it).
The service may die, stop or be restarted between any two of them. `heard`,
`resting` and `failures` are history: the release whose service answered the
worker, the failures of the day when an automatic check began, and the day on
which a release failed last.

Some neighbouring calls are one step:

- the second look of a check (81) and its "checking" (87), under the mutex. Only
  this coordinator could launch a worker in between, and one that is at work
  makes the look end the check. Where "write" or "sleep" hides a worker, its next
  phase could be overwritten in between; the check then goes on as it does
  in the model, and what `worker_faults` checks does not read the status;
- the look of the goroutine that waits for a worker (161) and its "failed" (163):
  without "linger" only a check can write in between, and "failed" replaces what
  it wrote then as it replaces the "checking" before;
- the lock (174), the reading of the junction (211) and the first phase (221): the
  worker that holds the lock has not written yet, and the status is still that
  of its launcher. That no restarted service looks just then is an assumption:
  Windows waits five seconds (`Recover`);
- the query of the Service Control Manager (322) and the stop it leads to (330);
- the removal of the old directory (247), the rename (250) and the next phase
  (253); a removal without a rename is one of the ways to fail;
- a failure and the status that records it, unless another state changes in
  between: `AwaitExit` starts the service first, `GiveUp` fails.

### PanelUpdater

A step is one command of the script that changes something outside it, or one
of the flags its cleanup reads; every command may fail, `set -e` then runs the
cleanup. Signals are handled between two steps until the cleanup removes the
traps. A reboot starts what the link names. The database is its schema number
and the set of acknowledged changes; a release migrates it step by step when it
starts, and refuses one that is newer than itself.

The script has no lock. With two runs at once (`AtOnce = 2`) TLC finds
`AlwaysBootable` violated; the documentation describes one run at a time, and
the runs assume that.

## 3. The runs

| run | instance | what it shows |
|---|---|---|
| `wake_and_probe` | 1 process, 1 device, 2 wakes, 2 probes, 1 edit, clock 0..2 | spacing and refusals of wakes, truth of `lastSentAt` and `lastSeenAt`, probes of an edited device are dropped |
| `power` | 1 process, 2 devices, 2 power requests, 2 edits | spacing follows the target, refusals are justified, rows stay configured between statements, what is sent matches the row, a blank code keeps the secret |
| `messages_and_code` | 1 message, 2 deliveries, 3 codes, 2 runs, skew 1, stall 1 | a nonce is accepted once in a run; the code shown is durable |
| `power_commands` | 2 messages, 3 deliveries, fair | commands are spaced, refusals and successes have a cause, nothing hangs |
| `update_faults` | 2 runs of the script in turn, 3 releases with migrations, 2 writes, every fault, fair | `AlwaysBootable`, no write lost, truthful reports, the recorded move undone, no silent outage |
| `worker_faults` | 2 workers, 2 releases, 2 days, 3 service runs, every fault | the active release stays on the disk; an outcome is reported of the process that answered, and of none that was stopped or replaced since |
| `worker_ends` | the same with slow stops, crashes and reboots, fair | an update at work is visible, a check does not launch what it knew to have failed that day, no update in progress for ever |
| `refresh` | 2 refreshes, 3 devices, pools of 2 | one version per status, nobody forgotten, lookups spaced and shared |
| `tray` | the tray and a program of another session that only rotates the code and may stall, 2 attempts per call, 2 codes, 1 fault, fair | `ShownCodeRevealed`, `StatusFollowedUp`, `NothingBehindDialog`; the pipe implements `LocalCalls`; the tray finds a service that is back |
| `page` | 2 pages, 2 edits, 2 checks, 1 fault, fair | the mark of an update is released, no older status, the page converges |
| `update_signalled` | violation | finding 1 |
| `worker_gives_up` | violation | finding 2 |

Every property has a mutant, a change of one mapped definition a careless edit
could make (a dropped guard, a cooldown off by one, a flag set late), which TLC
must catch under the same configuration.

### Bounds

- Time is counted in ticks. Two ticks let a cooldown of 2 run out exactly, and
  one tick lets a request arrive too early; the clock stops at `MaxTime`, which
  leaves room for two cooldowns or windows one after the other.
- Two requests of a kind are enough for a race between them and a third party
  (edit, delete, crash); a pair is all that the properties of spacing compare.
- `MaxSkew = Stall = 1` with `Window = 1` and `Retention = 3` is the tight case
  of `2 * Window + Stall <= Retention`; the real values are 60 seconds and five
  minutes. `Stall` is an assumption on the scheduler, not a fact of the code.
- Two updaters with two releases reach every order of a launch, a crash, a
  second launch and a rollback; `MaxRuns = 3` lets a service be stopped, started
  by the worker and started again. With two days, a failure is followed by a
  day of rest and a retry.
- Three releases and two runs of `update.sh` let an update follow a failed one;
  release 1 brings two migrations, so that one can fail between them. Two writes
  tell a change before the backup from one after it.
- Three devices and a pool of two make one device wait for its turn.
- In `tray`, two attempts (three in the code) are a first one and a last one; a
  second code is one the tray does not know yet; the fault is a stop of the
  service, a failed operation or an answer over the limit, and one of them is
  enough for a retry to meet another run of the service or another client. A
  get-info says "active" or "failed"; "idle" differs from "active" in the label
  it shows and in nothing that follows.
- In `page`, two edits let one pass during a refresh that already follows one;
  two checks are a request and a rival (the other page or the Companion's own
  timer); the fault is an answer lost or the PC turned off.
- Requests, deliveries, workers and runs are each used once.
- `MaxVersion`, `MaxWrites`, `MaxRelease`, `MaxDays`, `MaxRuns`,
  `MaxCodes`, `MaxFaults`, `MaxEdits`, `MaxChecks` cap counters in
  the guards of the actions that raise them.

`CHECK_DEADLOCK FALSE` in every configuration: when all requests are used and
the clock has stopped, the system rests.

### Fairness

- `CompanionService`: goroutines run; `shutdown.exe` has a time limit of four
  seconds; `SetSuspendState` returns once the PC is awake.
- `CompanionUpdater`: every call of a worker and of the coordinator has a time
  limit; the service obeys a stop. No fairness of the Service Control Manager's
  restart.
- `PanelUpdater`: the script goes on; `systemctl`, `curl` and the health check
  are bounded. None of the unit, of faults or of releases.
- `CompanionTray`: the server's goroutine (`CreatePipe`, `Handle`,
  `CloseInstance`: a silent client is cut off after five seconds), the calls of
  the tray (every read has a limit), its five-second timer and its results.
  Users, other sessions and the service manager may do nothing. `SilentRecovery`
  supposes that in the end the service stays up, no dialog or diagnosis holds
  the timer back, and nobody else keeps opening the pipe: a program that does
  may win every race for the one instance, and nothing in the code prevents it.
- `PanelPage`: the two timers, the refreshes, the answers of the panel's
  handlers (or their time limit), the end of a check and of a worker. Nobody has
  to edit, to click or to turn a PC on. `PageConverges` needs no hypothesis, since
  edits, checks and faults are bounded.

`DeviceRequests` and `StatusRefresh` are checked for safety only.

## 4. Findings

1. `deploy/update.sh:394`. A signal between the rename of the link and the flag
   that records it makes the rollback start the new release and call itself
   complete (`update_signalled`, `RollbackRestores`). `RecordedMoveUndone` is
   what does hold.
2. `companion/updater_windows.go:281`. A service that needs more than 30 seconds
   to stop stays stopped although the junction was never touched
   (`worker_gives_up`, `PreviousServiceKept`).

Other behaviour a reader of the code may not expect, which the models show
without a violation run of its own:

- `server/core/remote.ts:195`: a device deleted while it waits for its turn in
  the pool makes the whole refresh answer 404.
- `companion/tray_windows.go:572`: the check an opening queues is made by the
  next get-info that succeeds; an update, a rotation or a diagnosis under way
  delays it, and it may stay queued after a rotation (`SilentRecovery` says so).
- `companion/pipe_windows.go:172`: a check for updates may take thirty seconds
  and the client waits five; the tray then says that the service is unavailable
  while it works, and may ask for the check again. `companion/README.md:96` keeps
  that message for a failure to connect.
- `companion/updater_windows.go:81`: a release that has just failed may be tried
  again at once, although the comment at line 56 says "Do not immediately retry a
  bad release after rollback restarts the service". `checkAutomatically` looks
  at the status at line 55 and `checkAndSchedule` again at line 81. In a rollback
  the restarted service sees the "restarting" of the worker at line 55 and goes
  on; the worker writes "failed" (263); line 81 sees nothing at work, writes
  "checking", and the release is scheduled. TLC reaches this with no fault at all
  (`StartNew` fails, `RestartOld`, `CheckAuto`, `CheckOld`, `ReportOld`, `Proceed`,
  `RecordReturn`, `Leave`, `Look`, `Launch`), and shorter with a check by hand whose
  worker fails between the two looks. What does hold is `KnownFailureRests`: the
  failures an automatic check could know of when it began, with nothing under
  way, are not tried by it. The window is narrow: a service makes its first check five
  seconds after its start, and the worker asks for its health every two seconds
  and then starts the tray.
- `companion/updater_windows.go:269`: the service may die after its answer, while
  the tray is being started, and the update still reports "succeeded".
  `OutcomeTruthful` therefore speaks of the process that answered: nothing has
  replaced it or asked it to stop, but it may have died.
- A rotation whose reply is lost is tried again, and rotates twice; the promise
  of `LocalCalls` is therefore the outcome of the *last* operation.
- `app/components/CompanionUpdate.vue:25`: the status of an earlier failure, read
  before the new request, ends the wait for it; the page says "failed" and
  corrects the status, not the message, when the next one arrives.

## 5. The proofs

Every safety invariant and every action property of a passing run is a theorem,
for all values of the constants. A `*Proofs` module is read from its invariants
(the definitions ending in `Inv`), one lemma per action or group of actions, and
the theorems, which combine both in a temporal step.

| theorem | for every | argument |
|---|---|---|
| `DeviceRequestsProofs!TypeCorrect`, `TypeOKTheorem` | set of processes, devices, requests and bodies | the types are inductive only together with what a request carries at each stage (`InFlightOK`) |
| `DeviceRequestsProofs!WakeSpacingTheorem` | the same, any cooldown | a granted claim never exceeds the stamp in the row, the stamp only grows, and a deleted row never comes back under its id; so the next grant is a cooldown later |
| `DeviceRequestsProofs!ShutdownSpacingTheorem` | the same | as before, while the target is the one the claim was granted for (`ShutdownInv`): an edit may erase the stamp, but then it also begins a new epoch |
| `DeviceRequestsProofs!RowsConfiguredTheorem` | the same | `ConfigInv`: an edit under way carries what its next statement will write, with the address and the credential its method needs (`EditsPrepared`), so no statement leaves a row without them |
| `DeviceRequestsProofs!SentStampTheorem`, `SeenStampTheorem`, `SeenNeverMovesBackTheorem` | the same | `SentInv`, `SeenInv`: what a request saw stays with it; a stamp is written by the statement whose WHERE compares the row, and erased by an edit of the address |
| `DeviceRequestsProofs!WakeRefusalTheorem`, `ShutdownRefusalTheorem`, `CommandMatchesRowTheorem` | one process, the rest as before | `SectionInv`: a request in its synchronous section holds the loop, so with one process no row changes under it; then a refusal finds the stamp of a claim (`WakesBehind`, `ShutdownsBehind`), and the target a request holds is the one in the row (`CommandInv`) |
| `DeviceRequestsProofs!BlankCodeTheorem` | the same | `CodeInv`: with a blank code, what the edit is about to write is what its row holds |
| `DeviceRequestsProofs!ProbesOfEditedTheorem` | the same | `TimesInv`: times follow the clock, and an edit that a probe did not see is stamped no earlier than the start of that probe |
| `StatusRefreshProofs!TypeCorrect` | finite set of devices, any refreshes, pool, clock | `ListComplete`: `list()`, modelled with a CHOOSE, is a list of all devices, each once |
| `StatusRefreshProofs!OneVersionPerStatusTheorem`, `NobodyForgottenTheorem` | the same | `RefreshInv`, its part `PoolOK`: a device of the list is still to come, in the pool or done, and a status that is kept has the version listed; `recordStatus` drops the rest |
| `StatusRefreshProofs!WaitsAreServedTheorem`, `LookupsSpacedTheorem` | the same | its part `LookupOK`: there is one lookup at most, whoever waits waits for it, and an answer is kept until it expires |
| `CompanionServiceProofs!TypeCorrect` | number of messages, deliveries and runs | types with the facts each stage of a handler relies on (`Sound`) |
| `CompanionServiceProofs!AcceptedOnceTheorem` | the same, any `Window`, `Stall`, `Retention` with `2 * Window + Stall <= Retention`, any skew | a message admitted at stamp u was signed at most `Window` after u; a second delivery passes `verifyRequest` no later than u + 2 Window and reaches the guard within `Stall`, before the nonce is swept |
| `CompanionServiceProofs!CommandsSpacedTheorem`, `RefusedForCauseTheorem` | the same, any cooldown | `PowerInv`: `last` is never before the begin or the end of a command of this run, and the one command without an end is the pending suspension, which blocks the others |
| `CompanionServiceProofs!SuccessIsRealTheorem` | the same | a request marked as accepted was given to Windows (`Truthful`), and the answer the panel has comes from such a delivery (`SuccessInv`) |
| `CompanionServiceProofs!ShownCodeDurableTheorem` | the same, any codes | inductive with the types: every writer of `config.json` writes what the process holds |
| `PanelUpdaterProofs!TypeCorrect`, `AlwaysBootableTheorem` | number of runs in turn (`AtOnce = 1`), releases, monotone schemas, writes | `BootInv`: from the stop of the service to the start of the new one nobody opens the data, so it still fits the old release; the rollback moves the link back only in that state, or after a backup that fits has replaced the data |
| `PanelUpdaterProofs!NoWriteLostTheorem` | the same | `StoreInv`: a run has no copy it has not made yet (`Unmade`), and what it moves aside or extracts has every change in it (`Followed`) |
| `PanelUpdaterProofs!ReportsServingTheorem`, `RecordedMoveUndoneTheorem` | the same | the unit runs what the link names (`ServiceCurrent`), and the stage that reports comes after the data and the link were put in place |
| `CompanionUpdaterProofs!TypeCorrect`, `RunningReleaseKeptTheorem` | set of workers, number of releases, days and starts of the service, every fault | `KeepInv`: a worker past the lock holds it, so it alone touches the directories and the junction, which is on the old release until it unlinks it; both releases are on the disk when it links one (`Holds`) |
| `CompanionUpdaterProofs!OutcomeTruthfulTheorem` | the same | what answers a worker was started from the junction as it is and is the last thing started (`Serving`); until the report only the worker could stop or start the service or move the junction, since it has the lock (`Holds`); the service may still die |
| `CompanionUpdaterProofs!WorkIsVisibleTheorem` | the same without the faults "write", "sleep" and "linger" (`Calm`) | `VisibleInv`: one worker is under way at most; until it has the lock the status is its launcher's, then its own; a check ends before a worker begins, and a worker begins only when the one before is quite through |
| `CompanionUpdaterProofs!KnownFailureRestsTheorem` | the same | `RetryInv`: a release that failed today and does not run is on record in the status, as a failure or under a process at work, until the day is over; so a check that passes its first look with nothing under way leaves nothing behind that could still be tried (`Settled`), and this stays so until it launches, whatever is published, fails or is restored meanwhile; a target is never older than a failed release, so a success leaves nothing to retry |
| `CompanionPipeProofs!TypeCorrect` | set of callers, number of attempts, codes and faults | the types with `PipeInv` |
| `CompanionPipeProofs!ImplementsLocalCalls` | the same | `PipeInv`: the code in force is one that was issued (`ConfigOK`), a call under way has an action (`CallsOK`), the reply on the instance is the last outcome of the client it is joined to (`PeerOK`, `JoinedOK`); each step is then an invocation, an operation, an answer, a change of the service or a stutter of `LocalCalls` |
| `CompanionTrayProofs!TrayTypeCorrect` | any `Tray` among the callers | the types with `TrayInv` |
| `CompanionTrayProofs!ShownCodeRevealedTheorem`, `StatusFollowedUpTheorem`, `NothingBehindDialogTheorem` | the same | `TrayInv`: every handler takes a settled application to a settled one (one lemma per handler function), and a settled application has no action behind a dialog and no diagnosis begun at "connecting", which would leave that status behind |
| `CompanionTrayProofs!TrayCallsKeepPromise` | the same | a step of the tray leaves the pipe alone or is an invocation, an answer used up or a call abandoned |
| `PanelPageProofs!TypeCorrect`, `ClaimReleasedTheorem` | set of pages, number of edits, checks and faults | types; a mark in the set is taken and removed with the stage of the handler that owns it |
| `PanelPageProofs!StatusNeverOlderTheorem` | the same | `OneRefresh`: the page has at most one refresh under way, `AnswersOK`: it was listed no earlier than the status shown, and is about the row it was listed with; an edit that overtakes it forgets the status shown first |

An invariant by itself is not inductive: `AlwaysBootable` says nothing of the
backup a later step will extract, `AcceptedOnce` nothing of when a nonce is
swept, `WorkIsVisible` nothing of the coordinator that is about to launch a
second worker, `StatusNeverOlder` nothing of the refresh that is still under way.
Each proofs module therefore states the strengthening, proves that it
holds initially and that every step preserves it, one lemma per group of
actions, and ends in a temporal step. The strengthenings were model-checked
first on the instances of section 3.

Where many actions do the same to one variable, the proof first says so once: in
`DeviceRequestsProofs` what a step does to a row and to a request
(`RowEffect`, `RequestEffect`), in `CompanionServiceProofs` what a handler does
about commands (`CommandStep`), in `PanelUpdaterProofs` what the script does
(`ScriptEffect`), in `CompanionUpdaterProofs` the seven outcomes of a worker's step
(`WorkEffect`: it leaves, finds the lock taken, goes on, gives up, succeeds,
concedes that it failed, or records that the old release is back). The invariants are then proved from these effects.

Assumptions:

- the named ASSUMEs of the modules (distinct sentinel values, disjoint sets of
  requests, bounds that are numbers, finite sets, monotone schemas, the
  retention of nonces), which TLC evaluates in the runs;
- `OneProcess` in five theorems of `DeviceRequestsProofs`: there is one unit,
  `deploy/jona-homelab.service`, and Nitro starts one process;
- `AtOnce = 1` in those of `PanelUpdaterProofs`: the script has no lock, and
  its documentation describes one run at a time;
- `Calm` in two theorems of `CompanionUpdaterProofs`. TLC finds a counterexample
  to both under each of its three faults alone (with two workers, and three for
  `KnownFailureRests` with "sleep" or "linger"): without the written status nobody sees the
  worker; a status older than 15 minutes counts as interrupted; and the
  goroutine that waits for a worker that failed can overwrite the status of the
  next one, so that a check in the middle of its update finds nothing to rest for.

Only model-checked: everything under fairness (`RequestsEnd`, `OutageEnds`,
`UpdateEnds`, `SilentRecovery`, `PageConverges`) since liveness and ENABLED are
out of the prover's reach, and the two properties that do not hold
(section 4).

## 6. What is not modelled

- *Tray*: drawing, themes, fonts, the icon, the clipboard, the elevated script
  of the diagnosis, the scheduled task that starts the application. They hold no
  state another step reads.
- *Page*: the lists, the loading of the page, deleting and waking a device from
  it, the power dialog and the layout; each is a request of `DeviceRequests` and
  a refresh.
- *The Companion behind the page*: `PanelPage` has only its version and phase;
  `CompanionUpdater` has what its updater does, and the two are not composed.
- *Favorites, configuration, middleware, session*: no interplay of steps; unit
  tests reach them.
- *Bytes of packets, arguments of child processes, HMAC, JSON, file formats*:
  a message is well formed or ends before it changes state; signatures are the
  key they were made with.
- *Migrations*: only the schema number, in `PanelUpdater`.
- *Installation, packaging, logs, diagnostics, drawing*: run once or hold no
  state others depend on.
- *The resolution of `updatedAt`* (one millisecond): `DeviceRequests` has the
  exception in `ProbesOfEditedDropped`; `StatusRefresh` numbers versions.

## 7. Plan

Done, in this order: device table and handlers; Companion service; panel
updater; Companion updater; status refresh; first proofs; the pipe, the promise
it implements and the tray; the page with the remote update; their proofs.

Every safety property of section 3 is proved. Next:

1. Abstract specifications: a cooldown gate (grants of one target are spaced)
   that `DeviceRequests` and the executor of `CompanionService` implement; an
   atomic update (the service is the old or the new release, or stopped with an
   error) that `PanelUpdater` implements without the signal of finding 1.
2. Composition: `PanelPage` over the status of `CompanionUpdater` in place of
   its own Companion.
