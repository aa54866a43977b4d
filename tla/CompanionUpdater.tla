-------------------------- MODULE CompanionUpdater --------------------------
(***************************************************************************)
(* The update of the Windows Companion: the coordinator inside the service *)
(* that looks for a release and launches a worker (checkAutomatically,     *)
(* checkAndSchedule, launchUpdater), the worker process that replaces the  *)
(* release behind the junction `current' (runUpdater, activateUpdate), and *)
(* the file update-status.json through which they and everybody else learn *)
(* how far it got (update_state_windows.go).                               *)
(*                                                                         *)
(* The worker outlives the service it stops, and the service it starts may *)
(* launch a worker of its own; an exclusive file lock keeps them apart.    *)
(* A step is the code up to the next call of Windows, of the network or of *)
(* the status file after which something else may have happened.  Calls    *)
(* with nothing between them that another process could tell apart are one *)
(* step; README.md names them.                                             *)
(***************************************************************************)
EXTENDS Integers

CONSTANTS
  Workers,     \* updater processes, each launched once
  Null,
  Faults,      \* which of the faults below may happen
  MaxRelease,  \* bound: releases are 0..MaxRelease
  MaxDays,     \* bound: days that pass
  MaxRuns      \* bound: how often the service is started

Releases == 0..MaxRelease

ASSUME WorkerAssumption ==
  /\ Workers \cap Nat = {}
  /\ Null \notin Workers /\ Null \notin Nat
  /\ MaxRelease \in Nat /\ MaxDays \in Nat /\ MaxRuns \in Nat

\* "write": a status is not written; "sleep": a day passes during an update or
\* a check; "slow": the service or its process does not stop in time; "crash":
\* the service dies; "reboot": the PC loses power; "linger": a worker takes
\* longer to end after it reports than GitHub takes to answer the next check.
ASSUME FaultAssumption ==
  Faults \subseteq {"write", "sleep", "slow", "crash", "reboot", "linger"}

VARIABLES
  day,        \* the clock, in units of 24 hours
  published,  \* latest release on GitHub
  installed,  \* directories under releases\
  current,    \* target of the junction `current', or Null
  service,    \* the service and its process
  timer,      \* checkAutomatically past its first look at the status
  check,      \* checkAndSchedule under way, which holds the mutex
  status,     \* update-status.json
  lock,       \* the worker that holds update.lock
  worker,     \* Workers -> progress
  failures    \* history: release -> day of its last failed update, or Null

vars == <<day, published, installed, current, service, timer, check, status, lock, worker,
          failures>>

Busy == {"checking", "scheduled", "downloading", "verifying", "installing", "restarting"}

\* `resting' is history: the failures of the day that were known when an
\* automatic check began.
NoTimer == [passed |-> FALSE, resting |-> {}]

NoCheck == [pc |-> "idle", auto |-> FALSE, target |-> Null, resting |-> {}]

\* `heard' is history: the release whose service answered the worker last.
NewWorker == [pc |-> "new", launcher |-> 0, auto |-> FALSE, target |-> Null, old |-> Null,
              goal |-> Null, heard |-> Null, waited |-> FALSE]

TypeOK ==
  /\ day \in 0..MaxDays /\ published \in Releases
  /\ installed \in SUBSET Releases
  /\ current \in Releases \cup {Null}
  /\ service \in [state: {"stopped", "running", "stopping", "exiting", "crashed"},
                  release: Releases, run: Nat, due: BOOLEAN]
  /\ timer \in [passed: BOOLEAN, resting: SUBSET Releases]
  /\ check \in [pc: {"idle", "looking", "launching"}, auto: BOOLEAN,
                target: Releases \cup {Null}, resting: SUBSET Releases]
  /\ status \in [phase: Busy \cup {"idle", "succeeded", "failed", "rolled-back"},
                 target: Releases \cup {Null}, by: Nat \cup Workers, at: 0..MaxDays]
  /\ lock \in Workers \cup {Null}
  /\ worker \in [Workers ->
       [pc: {"new", "locking", "downloading", "verifying", "installing", "stopping",
             "awaitstop", "awaitexit", "givingup", "unlinking", "linking", "starting",
             "checking", "succeeding", "stoppingnew", "awaitnew", "restarting",
             "rechecking", "returning", "recording", "done", "failed", "rolledback"},
        launcher: Nat, auto: BOOLEAN, target: Releases \cup {Null},
        old: Releases \cup {Null}, goal: Releases \cup {Null},
        heard: Releases \cup {Null}, waited: BOOLEAN]]
  /\ failures \in [Releases -> 0..MaxDays \cup {Null}]

Init ==
  /\ day = 0 /\ published = 0 /\ installed = {0} /\ current = 0
  /\ service = [state |-> "running", release |-> 0, run |-> 1, due |-> TRUE]
  /\ timer = NoTimer /\ check = NoCheck
  /\ status = [phase |-> "idle", target |-> Null, by |-> 1, at |-> 0]
  /\ lock = Null
  /\ worker = [w \in Workers |-> NewWorker]
  /\ failures = [r \in Releases |-> Null]

Over(rec) == rec.pc \in {"done", "failed", "rolledback"}
Live(rec) == rec.pc # "new" /\ ~Over(rec)

\* A worker with more left to do than to write "rolled-back" over "failed".
Engaged(rec) == Live(rec) /\ rec.pc # "recording"

-----------------------------------------------------------------------------
(***************************************************************************)
(* update-status.json.                                                     *)
(***************************************************************************)
Alive(pid) == IF pid \in Workers THEN Live(worker[pid]) \/ lock = pid
              ELSE pid = service.run /\ service.state \notin {"stopped", "crashed"}

\* A reader that only looks at the time.
TooOld == status.at # day

\* readUpdateStatus: an update whose process is gone, or that has not moved
\* for 15 minutes, was interrupted.
Interrupted == status.at # day \/ ~Alive(status.by)

Phase == IF status.phase \in Busy /\ Interrupted THEN "failed" ELSE status.phase

Updating == Phase \in Busy

\* writeUpdateStatus by a process, and with its error ignored.
Written(phase, target, pid) ==
  status' = [phase |-> phase, target |-> target, by |-> pid, at |-> day]

Tried(phase, target, pid) ==
  \/ Written(phase, target, pid)
  \/ "write" \in Faults /\ UNCHANGED status

-----------------------------------------------------------------------------
(***************************************************************************)
(* The coordinator.                                                        *)
(***************************************************************************)
\* checkAndSchedule up to the request to GitHub.  A build whose version is
\* not a release, which is what a missing junction looks like, never asks.
Ask(auto, resting) ==
  \/ /\ current # Null /\ ~Updating
     /\ Written("checking", Null, service.run)
     /\ check' = [NoCheck EXCEPT !.pc = "looking", !.auto = auto, !.resting = resting]
  \/ /\ current = Null \/ Updating \/ "write" \in Faults
     /\ UNCHANGED <<status, check>>

\* A coordinator that always asks.
AnyDay == TRUE

\* checkAutomatically lets a failed update rest for a day.
MayRetry == Phase \in {"failed", "rolled-back"} => status.at # day

FailedToday == {r \in Releases : failures[r] = day}

\* checkAutomatically reads the status; checkAndSchedule will read it again.
\* One goroutine makes the automatic checks, one after the other.
CheckAuto ==
  /\ service.state = "running" /\ service.due
  /\ ~timer.passed /\ (check.pc = "idle" \/ ~check.auto)
  /\ service' = [service EXCEPT !.due = FALSE]
  /\ IF MayRetry
     THEN timer' = [passed |-> TRUE, resting |-> IF Updating THEN {} ELSE FailedToday]
     ELSE UNCHANGED timer
  /\ UNCHANGED <<day, published, installed, current, check, status, lock, worker, failures>>

\* It goes on, unless another check has the mutex.
Proceed ==
  /\ timer.passed
  /\ timer' = NoTimer
  /\ IF check.pc = "idle" THEN Ask(TRUE, timer.resting) ELSE UNCHANGED <<status, check>>
  /\ UNCHANGED <<day, published, installed, current, service, lock, worker, failures>>

\* check-update through the pipe, or POST /v1/update.
CheckManual ==
  /\ service.state = "running" /\ check.pc = "idle"
  /\ Ask(FALSE, {})
  /\ UNCHANGED <<day, published, installed, current, service, timer, lock, worker, failures>>

\* A worker that has reported but whose process, or the goroutine that waits
\* for it, is not through.
Lingering(w) ==
  \/ worker[w].pc = "recording"
  \/ /\ Over(worker[w])
     /\ \/ lock = w
        \/ worker[w].pc # "done" /\ ~worker[w].waited /\ Alive(worker[w].launcher)

\* GitHub answers, or not.
Look ==
  /\ check.pc = "looking"
  /\ \/ /\ Tried("failed", Null, service.run)
        /\ check' = NoCheck
     \/ /\ published = current
        /\ Tried("idle", Null, service.run)
        /\ check' = NoCheck
     \/ /\ published # current
        /\ "linger" \in Faults \/ \A w \in Workers : ~Lingering(w)
        /\ Written("scheduled", published, service.run)
        /\ check' = [check EXCEPT !.pc = "launching", !.target = published]
  /\ UNCHANGED <<day, published, installed, current, service, timer, lock, worker, failures>>

Launch ==
  /\ check.pc = "launching"
  /\ check' = NoCheck
  /\ \/ /\ \E w \in Workers :
             /\ worker[w].pc = "new"
             /\ worker' = [worker EXCEPT ![w] =
                  [NewWorker EXCEPT !.pc = "locking", !.launcher = service.run,
                                    !.auto = check.auto, !.target = check.target]]
        /\ UNCHANGED status
     \/ /\ Tried("failed", Null, service.run)
        /\ UNCHANGED worker
  /\ UNCHANGED <<day, published, installed, current, service, timer, lock, failures>>

\* launchUpdater's goroutine, while its service lives.
Watch(w) ==
  /\ worker[w].pc \in {"failed", "rolledback"} /\ lock # w /\ ~worker[w].waited
  /\ Alive(worker[w].launcher)
  /\ worker' = [worker EXCEPT ![w].waited = TRUE]
  /\ IF Updating THEN Tried("failed", worker[w].target, worker[w].launcher)
                 ELSE UNCHANGED status
  /\ UNCHANGED <<day, published, installed, current, service, timer, check, lock, failures>>

-----------------------------------------------------------------------------
(***************************************************************************)
(* The worker up to the installation.                                      *)
(***************************************************************************)
Move(w, pc) == worker' = [worker EXCEPT ![w].pc = pc]

\* fail writes the failure.
Fail(w, then) ==
  /\ Tried("failed", worker[w].target, w)
  /\ Move(w, then)
  /\ failures' = [failures EXCEPT ![worker[w].target] = day]

\* The process then removes its staging directory and ends.
Failed(w) == Fail(w, "failed")

\* The end of the process closes the lock file.
Leave(w) ==
  /\ Over(worker[w]) /\ lock = w
  /\ lock' = Null
  /\ UNCHANGED <<day, published, installed, current, service, timer, check, status, worker,
                 failures>>

\* A status written under the name of the service that launched the worker.
ByLauncher(w) == worker[w].launcher

ByWorker(w) == w

Stage(w, phase) == Tried(phase, worker[w].target, ByWorker(w))

\* A worker that does not care who else has the file.
AnyLock(w) == TRUE

LockFree(w) == lock = Null

\* A worker that finds the lock taken leaves without a word.
Lock(w) ==
  /\ worker[w].pc = "locking"
  /\ \/ /\ ~LockFree(w)
        /\ Move(w, "failed")
        /\ UNCHANGED <<status, lock, failures>>
     \/ /\ LockFree(w) /\ current # Null
        /\ lock' = w
        /\ worker' = [worker EXCEPT ![w].pc = "downloading", ![w].old = current]
        /\ Stage(w, "downloading")
        /\ UNCHANGED failures
     \/ LockFree(w) /\ lock' = w /\ Failed(w)
  /\ UNCHANGED <<day, published, installed, current, service, timer, check>>

Download(w) ==
  /\ worker[w].pc = "downloading"
  /\ \/ Stage(w, "verifying") /\ Move(w, "verifying") /\ UNCHANGED failures
     \/ Failed(w)
  /\ UNCHANGED <<day, published, installed, current, service, timer, check, lock>>

\* The release that runs is not replaced by itself.
Verify(w) ==
  /\ worker[w].pc = "verifying"
  /\ \/ /\ worker[w].target # worker[w].old
        /\ Stage(w, "installing") /\ Move(w, "installing")
        /\ UNCHANGED failures
     \/ Failed(w)
  /\ UNCHANGED <<day, published, installed, current, service, timer, check, lock>>

\* A directory left by an earlier attempt is removed first.
Install(w) ==
  /\ worker[w].pc = "installing"
  /\ \/ /\ installed' = installed \cup {worker[w].target}
        /\ Stage(w, "restarting") /\ Move(w, "stopping")
        /\ UNCHANGED failures
     \/ /\ installed' \in {installed, installed \ {worker[w].target}}
        /\ Failed(w)
  /\ UNCHANGED <<day, published, current, service, timer, check, lock>>

-----------------------------------------------------------------------------
(***************************************************************************)
(* activateUpdate.                                                         *)
(***************************************************************************)
\* Windows calls the service stopped, also while its process still ends.
Unserved == service.state \in {"stopped", "exiting", "crashed"}

\* stopCompanionService asks the service to stop, or Windows rejects that.
Stopping(w, waiting, then) ==
  \/ /\ Unserved
     /\ Move(w, then)
     /\ UNCHANGED <<service, status, failures>>
  \/ /\ ~Unserved
     /\ service' = [service EXCEPT !.state = "stopping"]
     /\ Move(w, waiting)
     /\ UNCHANGED <<status, failures>>
  \/ /\ Failed(w)
     /\ UNCHANGED service

\* It polls the service for 30 seconds.
Stopped(w, then) ==
  \/ /\ Unserved
     /\ Move(w, then)
     /\ UNCHANGED <<status, failures>>
  \/ "slow" \in Faults /\ ~Unserved /\ Failed(w)

StopOld(w) ==
  /\ worker[w].pc = "stopping"
  /\ Stopping(w, "awaitstop", "awaitexit")
  /\ UNCHANGED <<day, published, installed, current, timer, check, lock>>

AwaitStop(w) ==
  /\ worker[w].pc = "awaitstop"
  /\ Stopped(w, "awaitexit")
  /\ UNCHANGED <<day, published, installed, current, service, timer, check, lock>>

\* sc start of a stopped service whose executable exists.
Startable == Unserved /\ current \in installed /\ service.run < MaxRuns

Started == service' = [state |-> "running", release |-> current,
                       run |-> service.run + 1, due |-> TRUE]

\* The process of the service that launched the worker ends; if it does not,
\* the service is started again before the worker fails.
AwaitExit(w) ==
  /\ worker[w].pc = "awaitexit"
  /\ \/ /\ ~Alive(worker[w].launcher)
        /\ worker' = [worker EXCEPT ![w].pc = "unlinking", ![w].goal = worker[w].target]
        /\ UNCHANGED <<service, status, failures>>
     \/ /\ "slow" \in Faults /\ Alive(worker[w].launcher)
        /\ Move(w, "givingup") /\ UNCHANGED <<status, failures>>
        /\ \/ Startable /\ Started
           \/ UNCHANGED service
  /\ UNCHANGED <<day, published, installed, current, timer, check, lock>>

GiveUp(w) ==
  /\ worker[w].pc = "givingup"
  /\ Failed(w)
  /\ UNCHANGED <<day, published, installed, current, service, timer, check, lock>>

\* A junction that cannot be replaced: back to the old release, or give up.
SwitchFailed(w) ==
  IF worker[w].goal = worker[w].target
  THEN /\ worker' = [worker EXCEPT ![w].pc = "unlinking", ![w].goal = worker[w].old]
       /\ UNCHANGED <<status, failures>>
  ELSE Failed(w)

\* replaceJunction removes the junction and then creates it.
Unlink(w) ==
  /\ worker[w].pc = "unlinking"
  /\ \/ /\ current' = Null
        /\ Move(w, "linking")
        /\ UNCHANGED <<status, failures>>
     \/ /\ current # Null
        /\ SwitchFailed(w)
        /\ UNCHANGED current
  /\ UNCHANGED <<day, published, installed, service, timer, check, lock>>

Link(w) ==
  /\ worker[w].pc = "linking"
  /\ \/ /\ current' = worker[w].goal
        /\ Move(w, IF worker[w].goal = worker[w].target THEN "starting" ELSE "restarting")
        /\ UNCHANGED <<status, failures>>
     \/ /\ SwitchFailed(w)
        /\ UNCHANGED current
  /\ UNCHANGED <<day, published, installed, service, timer, check, lock>>

StartNew(w) ==
  /\ worker[w].pc = "starting"
  /\ \/ Startable /\ Started /\ Move(w, "checking")
     \/ Move(w, "stoppingnew") /\ UNCHANGED service
  /\ UNCHANGED <<day, published, installed, current, timer, check, status, lock, failures>>

\* /health answers with the version behind the junction.
Healthy(version) == service.state = "running" /\ current = version

Answered(w, then) ==
  worker' = [worker EXCEPT ![w].pc = then, ![w].heard = service.release]

CheckNew(w) ==
  /\ worker[w].pc = "checking"
  /\ \/ Healthy(worker[w].target) /\ Answered(w, "succeeding")
     \/ Move(w, "stoppingnew")
  /\ UNCHANGED <<day, published, installed, current, service, timer, check, status, lock,
                 failures>>

\* The tray is started, which takes a while, and then the outcome is written.
ReportNew(w) ==
  /\ worker[w].pc = "succeeding"
  /\ Stage(w, "succeeded") /\ Move(w, "done")
  /\ UNCHANGED <<day, published, installed, current, service, timer, check, lock, failures>>

StopNew(w) ==
  /\ worker[w].pc = "stoppingnew"
  /\ Stopping(w, "awaitnew", "awaitnew")
  /\ UNCHANGED <<day, published, installed, current, timer, check, lock>>

AwaitNew(w) ==
  /\ worker[w].pc = "awaitnew"
  /\ \/ /\ Unserved
        /\ worker' = [worker EXCEPT ![w].pc = "unlinking", ![w].goal = worker[w].old]
        /\ UNCHANGED <<status, failures>>
     \/ "slow" \in Faults /\ ~Unserved /\ Failed(w)
  /\ UNCHANGED <<day, published, installed, current, service, timer, check, lock>>

\* A rollback that goes on whether the service could be started or not.
RestartAnyhow(w) ==
  /\ worker[w].pc = "restarting"
  /\ Move(w, "rechecking")
  /\ (Startable /\ Started) \/ UNCHANGED service
  /\ UNCHANGED <<day, published, installed, current, timer, check, status, lock, failures>>

RestartOld(w) ==
  /\ worker[w].pc = "restarting"
  /\ \/ /\ Startable /\ Started /\ Move(w, "rechecking")
        /\ UNCHANGED <<status, failures>>
     \/ Failed(w) /\ UNCHANGED service
  /\ UNCHANGED <<day, published, installed, current, timer, check, lock>>

CheckOld(w) ==
  /\ worker[w].pc = "rechecking"
  /\ \/ /\ Healthy(worker[w].old) /\ Answered(w, "returning")
        /\ UNCHANGED <<status, failures>>
     \/ Failed(w)
  /\ UNCHANGED <<day, published, installed, current, service, timer, check, lock>>

\* Here too the tray is started first.  The failure is written, then that the
\* old release is back.
ReportOld(w) ==
  /\ worker[w].pc = "returning"
  /\ Fail(w, "recording")
  /\ UNCHANGED <<day, published, installed, current, service, timer, check, lock>>

RecordReturn(w) ==
  /\ worker[w].pc = "recording"
  /\ Stage(w, "rolled-back") /\ Move(w, "rolledback")
  /\ UNCHANGED <<day, published, installed, current, service, timer, check, lock, failures>>

-----------------------------------------------------------------------------
(***************************************************************************)
(* The surroundings.                                                       *)
(***************************************************************************)
\* The service obeys: it answers no more, it says so, its process ends.
Obey ==
  /\ service.state \in {"stopping", "exiting"}
  /\ service' = [service EXCEPT !.state = IF @ = "stopping" THEN "exiting" ELSE "stopped"]
  /\ timer' = NoTimer /\ check' = NoCheck
  /\ UNCHANGED <<day, published, installed, current, status, lock, worker, failures>>

\* The process dies; Windows gives up, or restarts it after 5 seconds or more,
\* longer than a worker takes to reach the lock.
Crash ==
  /\ "crash" \in Faults /\ service.state = "running"
  /\ \E state \in {"crashed", "stopped"} : service' = [service EXCEPT !.state = state]
  /\ timer' = NoTimer /\ check' = NoCheck
  /\ UNCHANGED <<day, published, installed, current, status, lock, worker, failures>>

Recover ==
  /\ service.state = "crashed" /\ Startable
  /\ \A w \in Workers : worker[w].pc # "locking"
  /\ Started
  /\ UNCHANGED <<day, published, installed, current, timer, check, status, lock, worker,
                 failures>>

Publish ==
  /\ published < MaxRelease
  /\ published' = published + 1
  /\ UNCHANGED <<day, installed, current, service, timer, check, status, lock, worker,
                 failures>>

NewDay ==
  /\ day < MaxDays
  /\ \/ "sleep" \in Faults
     \/ ~timer.passed /\ check.pc = "idle" /\ \A w \in Workers : ~Live(worker[w])
  /\ day' = day + 1
  /\ service' = [service EXCEPT !.due = @ \/ service.state = "running"]
  /\ UNCHANGED <<published, installed, current, timer, check, status, lock, worker, failures>>

\* The PC loses power; Windows starts the service if there is one to start.
Reboot ==
  /\ "reboot" \in Faults /\ service.run < MaxRuns
  /\ worker' = [w \in Workers |->
       IF Live(worker[w]) THEN [worker[w] EXCEPT !.pc = "failed"] ELSE worker[w]]
  /\ failures' = [r \in Releases |->
       IF \E w \in Workers : Live(worker[w]) /\ worker[w].target = r THEN day ELSE failures[r]]
  /\ lock' = Null /\ timer' = NoTimer /\ check' = NoCheck
  /\ IF current \in installed THEN Started ELSE service' = [service EXCEPT !.state = "stopped"]
  /\ UNCHANGED <<day, published, installed, current, status>>

Work(w) ==
  \/ Lock(w) \/ Download(w) \/ Verify(w) \/ Install(w)
  \/ StopOld(w) \/ AwaitStop(w) \/ AwaitExit(w) \/ GiveUp(w) \/ Unlink(w) \/ Link(w)
  \/ StartNew(w) \/ CheckNew(w) \/ ReportNew(w) \/ StopNew(w) \/ AwaitNew(w)
  \/ RestartOld(w) \/ CheckOld(w) \/ ReportOld(w) \/ RecordReturn(w) \/ Leave(w)

Coordinate == Proceed \/ Look \/ Launch

Next ==
  \/ CheckAuto \/ CheckManual \/ Coordinate
  \/ Obey \/ Crash \/ Recover
  \/ \E w \in Workers : Watch(w) \/ Work(w)
  \/ Publish \/ NewDay \/ Reboot

Spec == Init /\ [][Next]_vars

\* Every call of Windows and of the network has a time limit; the service
\* obeys a stop.
FairSpec ==
  /\ Spec
  /\ WF_vars(Coordinate) /\ WF_vars(Obey)
  /\ \A w \in Workers : WF_vars(Work(w)) /\ WF_vars(Watch(w))

-----------------------------------------------------------------------------
\* Whatever happens between any two steps, the release behind the junction is
\* on the disk: no worker removes the directory another one is about to
\* activate, or has activated (acquireUpdateLock, runUpdater).
RunningReleaseKept ==
  current # Null => current \in installed

\* The release r has answered the worker, it is the one that was started last
\* and the one behind the junction, and nobody has asked it to stop: if it does
\* not run, it has died since.
Proven(rec, r) ==
  /\ rec.heard = r /\ service.release = r /\ current = r
  /\ service.state \notin {"stopping", "exiting"}

\* An outcome that reaches the status file is true of the process that ran, not
\* just of the junction: after "succeeded" it is the new release that answered,
\* after "rolled-back" the old one, and nothing has replaced or stopped it
\* between its answer and the report (activateUpdate, healthy, runUpdater).
OutcomeTruthful ==
  [][\A w \in Workers :
       status'.by = w /\ status' # status =>
         /\ status'.phase = "succeeded" => Proven(worker[w], worker[w].target)
         /\ status'.phase = "rolled-back" => Proven(worker[w], worker[w].old)]_vars

\* A release whose update failed today is not tried again by an automatic check
\* that began after the failure and with no update or check under way, also
\* after restarts of the service, crashes of the worker and checks by hand
\* ("Do not immediately retry a bad release after rollback restarts the
\* service", checkAutomatically).  Of a check that began before the worker
\* wrote the failure this is not true; see README.md.
KnownFailureRests ==
  [][\A w \in Workers :
       worker[w].pc = "new" /\ worker'[w].pc # "new" =>
         worker'[w].target \notin check.resting]_vars

\* While a worker is at it, the status says so to whoever reads it, across the
\* stop of the service that launched the worker: nobody sees a failed or idle
\* update and starts another (readUpdateStatus, writeUpdateStatus).
WorkIsVisible ==
  \A w \in Workers : lock = w /\ Engaged(worker[w]) => Updating

\* No update stays in progress for ever, whatever dies on the way
\* (updateStatus.active, readUpdateStatus).
UpdateEnds ==
  Updating ~> ~Updating

\* A worker that fails before it touches the junction leaves the service
\* running ("Los fallos previos a activar la nueva version dejan el servicio
\* anterior funcionando", companion/README.md; activateUpdate).
PreviousServiceKept ==
  \A w \in Workers :
    worker[w].pc = "failed" /\ worker[w].goal = Null ~> service.state = "running"
=============================================================================
