----------------------- MODULE CompanionUpdaterProofs -----------------------
(***************************************************************************)
(* Proofs about CompanionUpdater: for any number of workers, releases,     *)
(* days and starts of the service.  Types, the release behind the junction *)
(* and the truth of the outcomes hold under every fault; that a worker is  *)
(* visible, and that a check does not launch what it knew to have failed   *)
(* that day, hold when statuses are written, the PC does not sleep during  *)
(* an update and a worker's process ends before the next answer of GitHub  *)
(* (Calm).                                                                 *)
(***************************************************************************)
EXTENDS CompanionUpdater, TLAPS

Before == {"downloading", "verifying", "installing"}

Activating == {"stopping", "awaitstop", "awaitexit", "givingup", "unlinking", "linking",
               "starting", "checking", "succeeding", "stoppingnew", "awaitnew",
               "restarting", "rechecking", "returning"}

\* Stages in which a worker with the lock is engaged.
Engaging == Before \cup Activating

\* Stages in which a worker holds the lock.
Working == Engaging \cup {"recording"}

\* Stages in which it has not touched the junction.
Untouched == Before \cup {"stopping", "awaitstop", "awaitexit", "givingup"}

ServiceRec == [state: {"stopped", "running", "stopping", "exiting", "crashed"},
               release: Releases, run: Nat, due: BOOLEAN]

StatusRec == [phase: Busy \cup {"idle", "succeeded", "failed", "rolled-back"},
              target: Releases \cup {Null}, by: Nat \cup Workers, at: 0..MaxDays]

TimerRec == [passed: BOOLEAN, resting: SUBSET Releases]

CheckRec == [pc: {"idle", "looking", "launching"}, auto: BOOLEAN,
             target: Releases \cup {Null}, resting: SUBSET Releases]

WorkerRec == [pc: {"new", "locking", "done", "failed", "rolledback"} \cup Working,
              launcher: Nat, auto: BOOLEAN, target: Releases \cup {Null},
              old: Releases \cup {Null}, goal: Releases \cup {Null},
              heard: Releases \cup {Null}, waited: BOOLEAN]

(***************************************************************************)
(* What a worker at work can rely on: it has the lock, so it alone touches *)
(* releases\ and the junction.  The junction is on the old release until   *)
(* it unlinks it, and both releases are on the disk when it links one.     *)
(* What it started is still what was started last when it reports.         *)
(***************************************************************************)
Serving(r) ==
  current = r /\ service.release = r /\ service.state \notin {"stopping", "exiting"}

Holds(w) ==
  LET rec == worker[w] IN
  /\ lock = w
  /\ rec.old \in installed
  /\ rec.pc \in Untouched => current = rec.old
  /\ rec.pc \in Activating \cup {"installing"} => rec.target # rec.old
  /\ rec.pc \in Activating => rec.target \in installed
  /\ rec.pc \in {"unlinking", "linking"} => rec.goal \in {rec.target, rec.old}
  /\ rec.pc = "starting" => current = rec.target
  /\ rec.pc = "restarting" => current = rec.old
  /\ rec.pc \in {"checking", "succeeding"} => Serving(rec.target)
  /\ rec.pc \in {"rechecking", "returning", "recording"} => Serving(rec.old)
  /\ rec.pc = "succeeding" => rec.heard = rec.target
  /\ rec.pc \in {"returning", "recording"} => rec.heard = rec.old

KeepInv ==
  /\ TypeOK
  /\ RunningReleaseKept
  /\ check.pc = "launching" => check.target \in Releases
  /\ \A w \in Workers : worker[w].pc # "new" => worker[w].target \in Releases
  /\ \A w \in Workers : worker[w].pc \in {"new", "locking"} => lock # w
  /\ \A w \in Workers : worker[w].pc \in Working => Holds(w)

(***************************************************************************)
(* Without the faults that hide a worker, the status names the process at  *)
(* work, and there is one such process at most.                            *)
(***************************************************************************)
Calm == Faults \cap {"write", "sleep", "linger"} = {}

InProgress(pid) == status.phase \in Busy /\ status.by = pid /\ status.at = day

NoneEngaged == \A w \in Workers : ~Engaged(worker[w])

OneAtOnce == \A w, v \in Workers : Live(worker[w]) /\ Live(worker[v]) => w = v

\* What runs in the process of a service that has not ended.
Running == service.state \in {"running", "stopping"}

TimerAlive == timer.passed => Running

CheckAlone == check.pc # "idle" => Running /\ NoneEngaged

LaunchVisible == check.pc = "launching" => InProgress(service.run)

LockVisible ==
  \A w \in Workers : worker[w].pc = "locking" =>
    worker[w].launcher = service.run /\ InProgress(service.run)

WorkVisible == \A w \in Workers : worker[w].pc \in Engaging => InProgress(w)

NoneLingers ==
  check.pc = "launching" \/ ~NoneEngaged => \A w \in Workers : ~Lingering(w)

LaunchersKnown ==
  \A w \in Workers : worker[w].pc # "new" => worker[w].launcher <= service.run

VisibleInv ==
  /\ KeepInv
  /\ OneAtOnce /\ TimerAlive /\ CheckAlone /\ NoneLingers /\ LaunchersKnown
  /\ LaunchVisible /\ LockVisible /\ WorkVisible

(***************************************************************************)
(* A release that failed today and is not the running one is on record in  *)
(* the status, until the day is over.  A check that began with nothing on  *)
(* record has no use for the releases that had failed by then: they are    *)
(* not published any more, or it is one of them that runs.                 *)
(***************************************************************************)
Untried == failures[published] = day => published = current

\* Nothing newer than the target has ever failed.
Newest(target) == target <= published /\ \A r \in Releases : failures[r] # Null => r <= target

FailuresKnown ==
  \A r \in Releases : failures[r] # Null => r <= published /\ failures[r] <= day

WorkersNewest == \A w \in Workers : Live(worker[w]) => Newest(worker[w].target)

RecordingKnown ==
  \A w \in Workers : worker[w].pc = "recording" => failures[worker[w].target] = day

Settled(resting) ==
  /\ \A r \in resting : failures[r] # Null
  /\ published \in resting => published = current /\ NoneEngaged /\ check.pc # "launching"

TimerRested == timer.passed => Settled(timer.resting)

LookRested == check.pc = "looking" => Settled(check.resting)

LaunchRested ==
  check.pc = "launching" => Newest(check.target) /\ check.target \notin check.resting

OnRecord == status.at = day /\ status.phase \in Busy \cup {"failed", "rolled-back"}

RetryInv ==
  /\ VisibleInv
  /\ FailuresKnown /\ WorkersNewest /\ RecordingKnown
  /\ TimerRested /\ LookRested /\ LaunchRested
  /\ Untried \/ OnRecord

-----------------------------------------------------------------------------
Stages == {"new", "locking", "done", "failed", "rolledback"} \cup Working

\* TypeOK with its record sets named, before a step and after it.
LEMMA WorkerRecord ==
  WorkerRec = [pc: {"new", "locking", "downloading", "verifying", "installing", "stopping",
             "awaitstop", "awaitexit", "givingup", "unlinking", "linking", "starting",
             "checking", "succeeding", "stoppingnew", "awaitnew", "restarting",
             "rechecking", "returning", "recording", "done", "failed", "rolledback"},
        launcher: Nat, auto: BOOLEAN, target: Releases \cup {Null},
        old: Releases \cup {Null}, goal: Releases \cup {Null},
        heard: Releases \cup {Null}, waited: BOOLEAN]
  <1>1. Stages = {"new", "locking", "downloading", "verifying", "installing", "stopping",
             "awaitstop", "awaitexit", "givingup", "unlinking", "linking", "starting",
             "checking", "succeeding", "stoppingnew", "awaitnew", "restarting",
             "rechecking", "returning", "recording", "done", "failed", "rolledback"}
    BY DEF Stages, Working, Engaging, Before, Activating
  <1> QED BY <1>1 DEF WorkerRec, Stages

LEMMA TypeByName ==
  TypeOK <=>
    /\ day \in 0..MaxDays /\ published \in Releases /\ installed \in SUBSET Releases
    /\ current \in Releases \cup {Null} /\ lock \in Workers \cup {Null}
    /\ service \in ServiceRec /\ timer \in TimerRec
    /\ check \in CheckRec /\ status \in StatusRec
    /\ worker \in [Workers -> WorkerRec]
    /\ failures \in [Releases -> 0..MaxDays \cup {Null}]
  BY WorkerRecord DEF TypeOK, ServiceRec, TimerRec, CheckRec, StatusRec

LEMMA TypedAfter ==
  ASSUME day' \in 0..MaxDays, published' \in Releases, installed' \in SUBSET Releases,
         current' \in Releases \cup {Null}, lock' \in Workers \cup {Null},
         service' \in ServiceRec, timer' \in TimerRec,
         check' \in CheckRec, status' \in StatusRec,
         worker' \in [Workers -> WorkerRec],
         failures' \in [Releases -> 0..MaxDays \cup {Null}]
  PROVE  TypeOK'
  BY WorkerRecord DEF TypeOK, ServiceRec, TimerRec, CheckRec, StatusRec

(***************************************************************************)
(* Effects.  A worker's step changes its own record only, in its stage and *)
(* perhaps in the releases it goes from and to.                            *)
(***************************************************************************)
Moved(w, pc, old, goal) ==
  /\ worker' \in [Workers -> WorkerRec]
  /\ \A v \in Workers \ {w} : worker'[v] = worker[v]
  /\ worker'[w].pc = pc /\ worker'[w].old = old /\ worker'[w].goal = goal
  /\ worker'[w].launcher = worker[w].launcher /\ worker'[w].auto = worker[w].auto
  /\ worker'[w].target = worker[w].target /\ worker'[w].waited = worker[w].waited

\* The release it has heard from, after the step.
Hears(w, r) == worker'[w].heard = r

LEMMA MovedRecord ==
  ASSUME worker \in [Workers -> WorkerRec], NEW w \in Workers, NEW pc \in Stages,
         NEW old \in Releases \cup {Null}, NEW goal \in Releases \cup {Null},
         NEW heard \in Releases \cup {Null},
         worker' = [worker EXCEPT ![w] =
           [@ EXCEPT !.pc = pc, !.old = old, !.goal = goal, !.heard = heard]]
  PROVE  Moved(w, pc, old, goal) /\ Hears(w, heard)
  <1> DEFINE new == [worker[w] EXCEPT !.pc = pc, !.old = old, !.goal = goal, !.heard = heard]
  <1>1. worker' = [worker EXCEPT ![w] = new]
    OBVIOUS
  <1>2. /\ new \in WorkerRec /\ new.pc = pc /\ new.old = old /\ new.goal = goal
        /\ new.launcher = worker[w].launcher /\ new.auto = worker[w].auto
        /\ new.target = worker[w].target /\ new.waited = worker[w].waited
        /\ new.heard = heard
    <2>1. worker[w] \in WorkerRec
      OBVIOUS
    <2> QED BY <2>1 DEF WorkerRec, Stages
  <1> HIDE DEF new
  <1>3. worker' \in [Workers -> WorkerRec] /\ worker'[w] = new
        /\ \A v \in Workers \ {w} : worker'[v] = worker[v]
    BY <1>1, <1>2
  <1> QED BY <1>2, <1>3 DEF Moved, Hears

LEMMA MoveMoved ==
  ASSUME worker \in [Workers -> WorkerRec], NEW w \in Workers, NEW pc \in Stages, Move(w, pc)
  PROVE  /\ Moved(w, pc, worker[w].old, worker[w].goal)
         /\ Hears(w, worker[w].heard)
  <1>1. /\ worker[w] \in WorkerRec /\ worker[w].old \in Releases \cup {Null}
        /\ worker[w].goal \in Releases \cup {Null} /\ worker[w].heard \in Releases \cup {Null}
    BY DEF WorkerRec
  <1>2. [worker[w] EXCEPT !.pc = pc] =
          [worker[w] EXCEPT !.pc = pc, !.old = worker[w].old, !.goal = worker[w].goal,
                            !.heard = worker[w].heard]
    BY <1>1 DEF WorkerRec
  <1>3. worker' = [worker EXCEPT ![w] =
          [@ EXCEPT !.pc = pc, !.old = worker[w].old, !.goal = worker[w].goal,
                    !.heard = worker[w].heard]]
    BY <1>2 DEF Move
  <1> QED BY <1>1, <1>3, MovedRecord

LEMMA GoalMoved ==
  ASSUME worker \in [Workers -> WorkerRec], NEW w \in Workers, NEW pc \in Stages,
         NEW goal \in Releases \cup {Null},
         worker' = [worker EXCEPT ![w].pc = pc, ![w].goal = goal]
  PROVE  Moved(w, pc, worker[w].old, goal)
  <1>1. /\ worker[w] \in WorkerRec /\ worker[w].old \in Releases \cup {Null}
        /\ worker[w].heard \in Releases \cup {Null}
    BY DEF WorkerRec
  <1>2. [worker[w] EXCEPT !.pc = pc, !.goal = goal] =
          [worker[w] EXCEPT !.pc = pc, !.old = worker[w].old, !.goal = goal,
                            !.heard = worker[w].heard]
    BY <1>1 DEF WorkerRec
  <1>3. worker' = [worker EXCEPT ![w] =
          [@ EXCEPT !.pc = pc, !.old = worker[w].old, !.goal = goal, !.heard = worker[w].heard]]
    BY <1>2
  <1> QED BY <1>1, <1>3, MovedRecord

LEMMA OldMoved ==
  ASSUME worker \in [Workers -> WorkerRec], NEW w \in Workers, NEW pc \in Stages,
         NEW old \in Releases \cup {Null},
         worker' = [worker EXCEPT ![w].pc = pc, ![w].old = old]
  PROVE  Moved(w, pc, old, worker[w].goal)
  <1>1. /\ worker[w] \in WorkerRec /\ worker[w].goal \in Releases \cup {Null}
        /\ worker[w].heard \in Releases \cup {Null}
    BY DEF WorkerRec
  <1>2. [worker[w] EXCEPT !.pc = pc, !.old = old] =
          [worker[w] EXCEPT !.pc = pc, !.old = old, !.goal = worker[w].goal,
                            !.heard = worker[w].heard]
    BY <1>1 DEF WorkerRec
  <1>3. worker' = [worker EXCEPT ![w] =
          [@ EXCEPT !.pc = pc, !.old = old, !.goal = worker[w].goal, !.heard = worker[w].heard]]
    BY <1>2
  <1> QED BY <1>1, <1>3, MovedRecord

\* A worker that is answered moves on with the release it heard from.
LEMMA AnsweredMoved ==
  ASSUME TypeOK, NEW w \in Workers, NEW pc \in Stages, Answered(w, pc)
  PROVE  /\ Moved(w, pc, worker[w].old, worker[w].goal)
         /\ Hears(w, service.release)
  <1>1. /\ worker \in [Workers -> WorkerRec] /\ service.release \in Releases \cup {Null}
    BY TypeByName DEF ServiceRec
  <1>2. /\ worker[w] \in WorkerRec /\ worker[w].old \in Releases \cup {Null}
        /\ worker[w].goal \in Releases \cup {Null}
    BY <1>1 DEF WorkerRec
  <1>3. [worker[w] EXCEPT !.pc = pc, !.heard = service.release] =
          [worker[w] EXCEPT !.pc = pc, !.old = worker[w].old, !.goal = worker[w].goal,
                            !.heard = service.release]
    BY <1>1, <1>2 DEF WorkerRec
  <1>4. worker' = [worker EXCEPT ![w] =
          [@ EXCEPT !.pc = pc, !.old = worker[w].old, !.goal = worker[w].goal,
                    !.heard = service.release]]
    BY <1>3 DEF Answered
  <1> QED BY <1>1, <1>2, <1>4, MovedRecord

(***************************************************************************)
(* The alternatives of a worker's step.                                    *)
(***************************************************************************)
\* What it does to the service: nothing, a stop, or a start.
ServiceEffect ==
  \/ UNCHANGED service
  \/ service' = [service EXCEPT !.state = "stopping"] /\ ~Unserved
  \/ Startable /\ Started

LockedOut(w) ==
  /\ worker[w].pc = "locking" /\ lock # Null
  /\ Moved(w, "failed", worker[w].old, worker[w].goal)
  /\ UNCHANGED <<installed, current, service, status, lock, failures>>

\* A step that leaves the worker at work.
GoesOn(w) ==
  /\ worker'[w].pc \in Engaging
  /\ Moved(w, worker'[w].pc, worker'[w].old, worker'[w].goal)
  /\ lock' = w /\ UNCHANGED failures
  /\ \/ UNCHANGED status /\ worker[w].pc \in Engaging
     \/ \E phase \in Busy : Tried(phase, worker[w].target, w)
  /\ ServiceEffect
  /\ current' \in Releases \cup {Null} /\ installed' \in SUBSET Releases
  /\ RunningReleaseKept' /\ Holds(w)'

GivesUp(w) ==
  /\ Moved(w, "failed", worker[w].old, worker[w].goal)
  /\ lock' = w
  /\ failures' = [failures EXCEPT ![worker[w].target] = day]
  /\ Tried("failed", worker[w].target, w)
  /\ ServiceEffect
  /\ UNCHANGED current /\ installed' \in SUBSET Releases
  /\ RunningReleaseKept'

Succeeds(w) ==
  /\ worker[w].pc = "succeeding"
  /\ Moved(w, "done", worker[w].old, worker[w].goal)
  /\ Tried("succeeded", worker[w].target, w)
  /\ UNCHANGED <<installed, current, service, lock, failures>>

\* The failure of a worker that has restored the old release.
Concedes(w) ==
  /\ worker[w].pc = "returning"
  /\ Moved(w, "recording", worker[w].old, worker[w].goal)
  /\ failures' = [failures EXCEPT ![worker[w].target] = day]
  /\ Tried("failed", worker[w].target, w)
  /\ UNCHANGED <<installed, current, service, lock>>
  /\ Holds(w)'

RollsBack(w) ==
  /\ worker[w].pc = "recording"
  /\ Moved(w, "rolledback", worker[w].old, worker[w].goal)
  /\ Tried("rolled-back", worker[w].target, w)
  /\ UNCHANGED <<installed, current, service, lock, failures>>

\* What a worker does that has the lock, or takes it, and is not through.
Advances(w) == GoesOn(w) \/ GivesUp(w) \/ Succeeds(w) \/ Concedes(w)

WorkEffect(w) ==
  /\ UNCHANGED <<day, published, timer, check>>
  /\ \/ Leave(w) \/ LockedOut(w) \/ RollsBack(w)
     \/ /\ worker[w].pc \in Engaging \/ (worker[w].pc = "locking" /\ lock = Null)
        /\ Advances(w)

\* What the invariant says of a worker that takes a step, on its record.
LEMMA AtWork ==
  ASSUME KeepInv, NEW w \in Workers
  PROVE  /\ worker \in [Workers -> WorkerRec] /\ worker[w] \in WorkerRec
         /\ worker[w].pc \in Stages /\ worker[w].old \in Releases \cup {Null}
         /\ worker[w].goal \in Releases \cup {Null}
         /\ worker[w].pc # "new" => worker[w].target \in Releases
         /\ worker[w].pc \in Working => Holds(w) /\ lock = w
         /\ worker[w].pc \in Working => worker[w].old \in Releases
  <1>1. worker \in [Workers -> WorkerRec] /\ installed \in SUBSET Releases
    BY TypeByName DEF KeepInv
  <1>2. worker[w].pc \in Working => Holds(w)
    BY DEF KeepInv
  <1>3. /\ worker[w] \in WorkerRec /\ worker[w].pc \in Stages
        /\ worker[w].old \in Releases \cup {Null} /\ worker[w].goal \in Releases \cup {Null}
    BY <1>1 DEF WorkerRec, Stages
  <1> QED BY <1>1, <1>2, <1>3 DEF KeepInv, Holds

LEMMA FailedGivesUp ==
  ASSUME KeepInv, NEW w \in Workers, worker[w].pc # "new", Failed(w), lock' = w,
         ServiceEffect, UNCHANGED current, installed' \in SUBSET Releases,
         RunningReleaseKept'
  PROVE  GivesUp(w)
  BY AtWork, MoveMoved DEF GivesUp, Failed, Fail, Stages

LEMMA LockEffect ==
  ASSUME KeepInv, NEW w \in Workers, Lock(w)
  PROVE  WorkEffect(w)
  <1>1. /\ worker[w].pc = "locking" /\ UNCHANGED <<day, published, timer, check>>
        /\ UNCHANGED <<installed, current, service>>
    BY DEF Lock
  <1>2. ServiceEffect /\ installed' \in SUBSET Releases /\ RunningReleaseKept'
        /\ current' \in Releases \cup {Null}
    BY <1>1, TypeByName DEF KeepInv, ServiceEffect, RunningReleaseKept
  <1>3. CASE ~LockFree(w) /\ Move(w, "failed") /\ UNCHANGED <<status, lock, failures>>
    BY <1>1, <1>3, AtWork, MoveMoved DEF WorkEffect, Advances, LockedOut, Stages, LockFree
  <1>4. CASE /\ LockFree(w) /\ current # Null /\ lock' = w
             /\ worker' = [worker EXCEPT ![w].pc = "downloading", ![w].old = current]
             /\ Stage(w, "downloading") /\ UNCHANGED failures
    <2>1. current \in Releases /\ current \in installed /\ "downloading" \in Stages
          /\ "downloading" \in Engaging
      BY <1>4, TypeByName DEF KeepInv, RunningReleaseKept, Stages, Working, Engaging, Before
    <2>2. Moved(w, "downloading", current, worker[w].goal)
      BY <1>4, <2>1, AtWork, OldMoved
    <2>3. Holds(w)'
      BY <1>1, <1>4, <2>1, <2>2 DEF Holds, Moved, Activating
    <2>4. Tried("downloading", worker[w].target, w) /\ "downloading" \in Busy
      BY <1>4 DEF Stage, ByWorker, Busy
    <2>5. Moved(w, worker'[w].pc, worker'[w].old, worker'[w].goal) /\ worker'[w].pc \in Engaging
      BY <2>1, <2>2 DEF Moved
    <2>6. GoesOn(w)
      BY <1>2, <1>4, <2>3, <2>4, <2>5 DEF GoesOn
    <2> QED BY <1>1, <1>4, <2>6 DEF WorkEffect, Advances, LockFree
  <1>5. CASE LockFree(w) /\ lock' = w /\ Failed(w)
    <2>1. GivesUp(w)
      BY <1>1, <1>2, <1>5, FailedGivesUp
    <2> QED BY <1>1, <1>5, <2>1 DEF WorkEffect, Advances, LockFree
  <1> QED BY <1>3, <1>4, <1>5 DEF Lock

\* A worker at work that moves on to another stage of its work.
LEMMA MovesOn ==
  ASSUME KeepInv, NEW w \in Workers, worker[w].pc \in Engaging,
         NEW pc \in Engaging, NEW goal \in Releases \cup {Null},
         Moved(w, pc, worker[w].old, goal), UNCHANGED <<lock, failures>>,
         UNCHANGED status \/ \E phase \in Busy : Stage(w, phase),
         ServiceEffect, current' \in Releases \cup {Null}, installed' \in SUBSET Releases,
         RunningReleaseKept', Holds(w)'
  PROVE  GoesOn(w)
  <1>1. Moved(w, worker'[w].pc, worker'[w].old, worker'[w].goal) /\ worker'[w].pc \in Engaging
    BY DEF Moved
  <1>2. lock' = w
    BY DEF Holds
  <1> QED BY <1>1, <1>2 DEF GoesOn, Stage, ByWorker

\* What a step leaves alone.
LEMMA Kept ==
  ASSUME KeepInv
  PROVE  /\ UNCHANGED service => ServiceEffect
         /\ UNCHANGED current => current' \in Releases \cup {Null}
         /\ UNCHANGED installed => installed' \in SUBSET Releases
         /\ UNCHANGED <<current, installed>> => RunningReleaseKept'
         /\ current \in Releases \cup {Null} /\ installed \in SUBSET Releases
  BY TypeByName DEF KeepInv, ServiceEffect, RunningReleaseKept

LEMMA DownloadEffect ==
  ASSUME KeepInv, NEW w \in Workers, Download(w)
  PROVE  WorkEffect(w)
  <1>1. /\ worker[w].pc = "downloading" /\ UNCHANGED <<day, published, timer, check>>
        /\ UNCHANGED <<installed, current, service, lock>>
    BY DEF Download
  <1>2. worker[w].pc \in Engaging /\ Holds(w) /\ lock = w
    BY <1>1, AtWork DEF Working, Engaging, Before
  <1>3. CASE Stage(w, "verifying") /\ Move(w, "verifying") /\ UNCHANGED failures
    <2>1. Moved(w, "verifying", worker[w].old, worker[w].goal) /\ "verifying" \in Engaging
          /\ "verifying" \in Busy
      BY <1>3, AtWork, MoveMoved DEF Stages, Working, Engaging, Before, Busy
    <2>2. Holds(w)'
      BY <1>1, <1>2, <2>1 DEF Holds, Moved, Activating, Untouched, Before
    <2>3. GoesOn(w)
      BY <1>1, <1>2, <1>3, <2>1, <2>2, AtWork, Kept, MovesOn
    <2> QED BY <1>1, <1>2, <2>3 DEF WorkEffect, Advances
  <1>4. CASE Failed(w)
    BY <1>1, <1>2, <1>4, Kept, FailedGivesUp DEF WorkEffect, Advances
  <1> QED BY <1>3, <1>4 DEF Download

LEMMA VerifyEffect ==
  ASSUME KeepInv, NEW w \in Workers, Verify(w)
  PROVE  WorkEffect(w)
  <1>1. /\ worker[w].pc = "verifying" /\ UNCHANGED <<day, published, timer, check>>
        /\ UNCHANGED <<installed, current, service, lock>>
    BY DEF Verify
  <1>2. worker[w].pc \in Engaging /\ Holds(w) /\ lock = w
    BY <1>1, AtWork DEF Working, Engaging, Before
  <1>3. CASE /\ worker[w].target # worker[w].old
             /\ Stage(w, "installing") /\ Move(w, "installing") /\ UNCHANGED failures
    <2>1. Moved(w, "installing", worker[w].old, worker[w].goal) /\ "installing" \in Engaging
          /\ "installing" \in Busy
      BY <1>3, AtWork, MoveMoved DEF Stages, Working, Engaging, Before, Busy
    <2>2. Holds(w)'
      BY <1>1, <1>2, <1>3, <2>1 DEF Holds, Moved, Activating, Untouched, Before
    <2>3. GoesOn(w)
      BY <1>1, <1>2, <1>3, <2>1, <2>2, AtWork, Kept, MovesOn
    <2> QED BY <1>1, <1>2, <2>3 DEF WorkEffect, Advances
  <1>4. CASE Failed(w)
    BY <1>1, <1>2, <1>4, Kept, FailedGivesUp DEF WorkEffect, Advances
  <1> QED BY <1>3, <1>4 DEF Verify

LEMMA InstallEffect ==
  ASSUME KeepInv, NEW w \in Workers, Install(w)
  PROVE  WorkEffect(w)
  <1>1. /\ worker[w].pc = "installing" /\ UNCHANGED <<day, published, timer, check>>
        /\ UNCHANGED <<current, service, lock>>
    BY DEF Install
  <1>2. /\ worker[w].pc \in Engaging /\ Holds(w) /\ lock = w
        /\ worker[w].target \in Releases /\ worker[w].target # worker[w].old
        /\ current = worker[w].old
    BY <1>1, AtWork DEF Working, Engaging, Before, Holds, Untouched
  <1>3. CASE /\ installed' = installed \cup {worker[w].target}
             /\ Stage(w, "restarting") /\ Move(w, "stopping") /\ UNCHANGED failures
    <2>1. Moved(w, "stopping", worker[w].old, worker[w].goal) /\ "stopping" \in Engaging
          /\ "restarting" \in Busy
      BY <1>3, AtWork, MoveMoved DEF Stages, Working, Engaging, Activating, Busy
    <2>2. Holds(w)'
      BY <1>1, <1>2, <1>3, <2>1 DEF Holds, Moved, Activating, Untouched, Before
    <2>3. installed' \in SUBSET Releases /\ RunningReleaseKept'
      BY <1>1, <1>2, <1>3, Kept DEF KeepInv, RunningReleaseKept
    <2>4. GoesOn(w)
      BY <1>1, <1>2, <1>3, <2>1, <2>2, <2>3, AtWork, Kept, MovesOn
    <2> QED BY <1>1, <1>2, <2>4 DEF WorkEffect, Advances
  <1>4. CASE installed' \in {installed, installed \ {worker[w].target}} /\ Failed(w)
    <2>1. installed' \in SUBSET Releases /\ RunningReleaseKept'
      BY <1>1, <1>2, <1>4, Kept DEF KeepInv, RunningReleaseKept
    <2>2. GivesUp(w)
      BY <1>1, <1>2, <1>4, <2>1, Kept, FailedGivesUp
    <2> QED BY <1>1, <1>2, <2>2 DEF WorkEffect, Advances
  <1> QED BY <1>3, <1>4 DEF Install

\* A stop that is asked for, here of the old service or of the new one.
LEMMA StoppingEffect ==
  ASSUME KeepInv, NEW w \in Workers, worker[w].pc \in Engaging,
         NEW waiting \in Engaging, NEW then \in Engaging, Stopping(w, waiting, then),
         UNCHANGED <<installed, current, lock>>,
         \A pc \in {waiting, then} : Moved(w, pc, worker[w].old, worker[w].goal) => Holds(w)'
  PROVE  GoesOn(w) \/ GivesUp(w)
  <1>1. lock' = w /\ worker[w].pc # "new"
    BY AtWork DEF Working, Engaging, Before, Activating
  <1>2. waiting \in Stages /\ then \in Stages
    BY DEF Stages, Working
  <1>3. CASE Unserved /\ Move(w, then) /\ UNCHANGED <<service, status, failures>>
    <2>1. Moved(w, then, worker[w].old, worker[w].goal)
      BY <1>2, <1>3, AtWork, MoveMoved
    <2> QED BY <1>3, <2>1, AtWork, Kept, MovesOn
  <1>4. CASE /\ ~Unserved /\ service' = [service EXCEPT !.state = "stopping"]
             /\ Move(w, waiting) /\ UNCHANGED <<status, failures>>
    <2>1. Moved(w, waiting, worker[w].old, worker[w].goal)
      BY <1>2, <1>4, AtWork, MoveMoved
    <2>2. ServiceEffect
      BY <1>4 DEF ServiceEffect
    <2> QED BY <1>4, <2>1, <2>2, AtWork, Kept, MovesOn
  <1>5. CASE Failed(w) /\ UNCHANGED service
    BY <1>1, <1>5, Kept, FailedGivesUp
  <1> QED BY <1>3, <1>4, <1>5 DEF Stopping

LEMMA StopOldEffect ==
  ASSUME KeepInv, NEW w \in Workers, StopOld(w)
  PROVE  WorkEffect(w)
  <1>1. /\ worker[w].pc = "stopping" /\ UNCHANGED <<day, published, timer, check>>
        /\ UNCHANGED <<installed, current, lock>>
    BY DEF StopOld
  <1>2. worker[w].pc \in Engaging /\ Holds(w)
    BY <1>1, AtWork DEF Working, Engaging, Activating
  <1>3. \A pc \in {"awaitstop", "awaitexit"} :
          Moved(w, pc, worker[w].old, worker[w].goal) => Holds(w)'
    BY <1>1, <1>2 DEF Holds, Moved, Activating, Untouched, Before
  <1>4. "awaitstop" \in Engaging /\ "awaitexit" \in Engaging
    BY DEF Working, Engaging, Activating
  <1>5. Stopping(w, "awaitstop", "awaitexit")
    BY DEF StopOld
  <1>6. GoesOn(w) \/ GivesUp(w)
    BY <1>1, <1>2, <1>3, <1>4, <1>5, StoppingEffect
  <1> QED BY <1>1, <1>2, <1>6 DEF WorkEffect, Advances

LEMMA AwaitStopEffect ==
  ASSUME KeepInv, NEW w \in Workers, AwaitStop(w)
  PROVE  WorkEffect(w)
  <1>1. /\ worker[w].pc = "awaitstop" /\ UNCHANGED <<day, published, timer, check>>
        /\ UNCHANGED <<installed, current, service, lock>>
    BY DEF AwaitStop
  <1>2. worker[w].pc \in Engaging /\ Holds(w) /\ lock = w
    BY <1>1, AtWork DEF Working, Engaging, Activating
  <1>3. CASE Move(w, "awaitexit") /\ UNCHANGED <<status, failures>>
    <2>1. Moved(w, "awaitexit", worker[w].old, worker[w].goal) /\ "awaitexit" \in Engaging
      BY <1>3, AtWork, MoveMoved DEF Stages, Working, Engaging, Activating
    <2>2. Holds(w)'
      BY <1>1, <1>2, <2>1 DEF Holds, Moved, Activating, Untouched, Before
    <2>3. GoesOn(w)
      BY <1>1, <1>2, <1>3, <2>1, <2>2, AtWork, Kept, MovesOn
    <2> QED BY <1>1, <1>2, <2>3 DEF WorkEffect, Advances
  <1>4. CASE Failed(w)
    BY <1>1, <1>2, <1>4, Kept, FailedGivesUp DEF WorkEffect, Advances
  <1> QED BY <1>3, <1>4 DEF AwaitStop, Stopped

LEMMA AwaitExitEffect ==
  ASSUME KeepInv, NEW w \in Workers, AwaitExit(w)
  PROVE  WorkEffect(w)
  <1>1. /\ worker[w].pc = "awaitexit" /\ UNCHANGED <<day, published, timer, check>>
        /\ UNCHANGED <<installed, current, lock>>
    BY DEF AwaitExit
  <1>2. worker[w].pc \in Engaging /\ Holds(w) /\ lock = w /\ worker[w].target \in Releases
    BY <1>1, AtWork DEF Working, Engaging, Activating
  <1>3. CASE /\ worker' = [worker EXCEPT ![w].pc = "unlinking", ![w].goal = worker[w].target]
             /\ UNCHANGED <<service, status, failures>>
    <2>1. Moved(w, "unlinking", worker[w].old, worker[w].target) /\ "unlinking" \in Engaging
      BY <1>2, <1>3, AtWork, GoalMoved DEF Stages, Working, Engaging, Activating
    <2>2. Holds(w)'
      BY <1>1, <1>2, <2>1 DEF Holds, Moved, Activating, Untouched, Before
    <2>3. GoesOn(w)
      BY <1>1, <1>2, <1>3, <2>1, <2>2, AtWork, Kept, MovesOn
    <2> QED BY <1>1, <1>2, <2>3 DEF WorkEffect, Advances
  <1>4. CASE /\ Move(w, "givingup") /\ UNCHANGED <<status, failures>>
             /\ (Startable /\ Started) \/ UNCHANGED service
    <2>1. ServiceEffect
      BY <1>4 DEF ServiceEffect
    <2>2. Moved(w, "givingup", worker[w].old, worker[w].goal) /\ "givingup" \in Engaging
      BY <1>4, AtWork, MoveMoved DEF Stages, Working, Engaging, Activating
    <2>3. Holds(w)'
      BY <1>1, <1>2, <2>2 DEF Holds, Moved, Activating, Untouched, Before
    <2>4. GoesOn(w)
      BY <1>1, <1>2, <1>4, <2>1, <2>2, <2>3, AtWork, Kept, MovesOn
    <2> QED BY <1>1, <1>2, <2>4 DEF WorkEffect, Advances
  <1> QED BY <1>3, <1>4 DEF AwaitExit

LEMMA GiveUpEffect ==
  ASSUME KeepInv, NEW w \in Workers, GiveUp(w)
  PROVE  WorkEffect(w)
  <1>1. /\ worker[w].pc = "givingup" /\ UNCHANGED <<day, published, timer, check>>
        /\ UNCHANGED <<installed, current, service, lock>> /\ Failed(w)
    BY DEF GiveUp
  <1>2. worker[w].pc \in Engaging /\ lock = w
    BY <1>1, AtWork DEF Working, Engaging, Activating
  <1> QED BY <1>1, <1>2, Kept, FailedGivesUp DEF WorkEffect, Advances

\* A junction that cannot be replaced, now that one of the two was tried.
LEMMA SwitchFailedEffect ==
  ASSUME KeepInv, NEW w \in Workers, worker[w].pc \in {"unlinking", "linking"},
         SwitchFailed(w), UNCHANGED <<installed, current, service, lock>>
  PROVE  GoesOn(w) \/ GivesUp(w)
  <1>1. worker[w].pc \in Engaging /\ Holds(w) /\ lock = w /\ worker[w].old \in Releases
    BY AtWork DEF Working, Engaging, Activating
  <1>2. CASE /\ worker' = [worker EXCEPT ![w].pc = "unlinking", ![w].goal = worker[w].old]
             /\ UNCHANGED <<status, failures>>
    <2>1. Moved(w, "unlinking", worker[w].old, worker[w].old) /\ "unlinking" \in Engaging
      BY <1>1, <1>2, AtWork, GoalMoved DEF Stages, Working, Engaging, Activating
    <2>2. Holds(w)'
      BY <1>1, <2>1 DEF Holds, Moved, Activating, Untouched, Before
    <2> QED BY <1>1, <1>2, <2>1, <2>2, AtWork, Kept, MovesOn
  <1>3. CASE Failed(w)
    BY <1>1, <1>3, Kept, FailedGivesUp
  <1> QED BY <1>2, <1>3 DEF SwitchFailed

LEMMA UnlinkEffect ==
  ASSUME KeepInv, NEW w \in Workers, Unlink(w)
  PROVE  WorkEffect(w)
  <1>1. /\ worker[w].pc = "unlinking" /\ UNCHANGED <<day, published, timer, check>>
        /\ UNCHANGED <<installed, service, lock>>
    BY DEF Unlink
  <1>2. worker[w].pc \in Engaging /\ Holds(w) /\ lock = w
    BY <1>1, AtWork DEF Working, Engaging, Activating
  <1>3. CASE current' = Null /\ Move(w, "linking") /\ UNCHANGED <<status, failures>>
    <2>1. Moved(w, "linking", worker[w].old, worker[w].goal) /\ "linking" \in Engaging
      BY <1>3, AtWork, MoveMoved DEF Stages, Working, Engaging, Activating
    <2>2. Holds(w)'
      BY <1>1, <1>2, <2>1 DEF Holds, Moved, Activating, Untouched, Before
    <2>3. RunningReleaseKept' /\ current' \in Releases \cup {Null}
      BY <1>3 DEF RunningReleaseKept
    <2>4. GoesOn(w)
      BY <1>1, <1>2, <1>3, <2>1, <2>2, <2>3, AtWork, Kept, MovesOn
    <2> QED BY <1>1, <1>2, <2>4 DEF WorkEffect, Advances
  <1>4. CASE SwitchFailed(w) /\ UNCHANGED current
    BY <1>1, <1>2, <1>4, SwitchFailedEffect DEF WorkEffect, Advances
  <1> QED BY <1>3, <1>4 DEF Unlink

LEMMA LinkEffect ==
  ASSUME KeepInv, NEW w \in Workers, Link(w)
  PROVE  WorkEffect(w)
  <1>1. /\ worker[w].pc = "linking" /\ UNCHANGED <<day, published, timer, check>>
        /\ UNCHANGED <<installed, service, lock>>
    BY DEF Link
  <1>2. /\ worker[w].pc \in Engaging /\ Holds(w) /\ lock = w
        /\ worker[w].goal \in {worker[w].target, worker[w].old}
        /\ worker[w].target \in installed /\ worker[w].old \in installed
    BY <1>1, AtWork DEF Working, Engaging, Activating, Holds
  <1> DEFINE next == IF worker[w].goal = worker[w].target THEN "starting" ELSE "restarting"
  <1>3. CASE current' = worker[w].goal /\ Move(w, next) /\ UNCHANGED <<status, failures>>
    <2>1. next \in Stages /\ next \in Engaging
      BY DEF Stages, Working, Engaging, Activating
    <2>2. Moved(w, next, worker[w].old, worker[w].goal)
      BY <1>3, <2>1, AtWork, MoveMoved
    <2>3. Holds(w)'
      BY <1>1, <1>2, <1>3, <2>2 DEF Holds, Moved, Activating, Untouched, Before
    <2>4. RunningReleaseKept' /\ current' \in Releases \cup {Null}
      BY <1>1, <1>2, <1>3, Kept DEF RunningReleaseKept
    <2> HIDE DEF next
    <2>5. GoesOn(w)
      BY <1>1, <1>2, <1>3, <2>1, <2>2, <2>3, <2>4, AtWork, Kept, MovesOn
    <2> QED BY <1>1, <1>2, <2>5 DEF WorkEffect, Advances
  <1>4. CASE SwitchFailed(w) /\ UNCHANGED current
    BY <1>1, <1>2, <1>4, SwitchFailedEffect DEF WorkEffect, Advances
  <1> QED BY <1>3, <1>4 DEF Link

LEMMA StartedRelease ==
  ASSUME TypeOK, Started
  PROVE  service'.release = current /\ service'.run = service.run + 1
         /\ service'.state = "running"
  BY DEF Started

LEMMA StartNewEffect ==
  ASSUME KeepInv, NEW w \in Workers, StartNew(w)
  PROVE  WorkEffect(w)
  <1>1. /\ worker[w].pc = "starting" /\ UNCHANGED <<day, published, timer, check>>
        /\ UNCHANGED <<installed, current, status, lock, failures>>
    BY DEF StartNew
  <1>2. worker[w].pc \in Engaging /\ Holds(w) /\ lock = w /\ current = worker[w].target
    BY <1>1, AtWork DEF Working, Engaging, Activating, Holds
  <1>3. CASE Startable /\ Started /\ Move(w, "checking")
    <2>1. Moved(w, "checking", worker[w].old, worker[w].goal) /\ "checking" \in Engaging
      BY <1>3, AtWork, MoveMoved DEF Stages, Working, Engaging, Activating
    <2>2. service'.release = current /\ service'.state = "running"
      BY <1>3, StartedRelease DEF KeepInv
    <2>3. Holds(w)'
      BY <1>1, <1>2, <2>1, <2>2 DEF Holds, Serving, Moved, Hears, Activating, Untouched, Before
    <2>4. ServiceEffect
      BY <1>3 DEF ServiceEffect
    <2>5. GoesOn(w)
      BY <1>1, <1>2, <1>3, <2>1, <2>3, <2>4, AtWork, Kept, MovesOn
    <2> QED BY <1>1, <1>2, <2>5 DEF WorkEffect, Advances
  <1>4. CASE Move(w, "stoppingnew") /\ UNCHANGED service
    <2>1. Moved(w, "stoppingnew", worker[w].old, worker[w].goal) /\ "stoppingnew" \in Engaging
      BY <1>4, AtWork, MoveMoved DEF Stages, Working, Engaging, Activating
    <2>2. Holds(w)'
      BY <1>1, <1>2, <2>1 DEF Holds, Moved, Activating, Untouched, Before
    <2>3. GoesOn(w)
      BY <1>1, <1>2, <1>4, <2>1, <2>2, AtWork, Kept, MovesOn
    <2> QED BY <1>1, <1>2, <2>3 DEF WorkEffect, Advances
  <1> QED BY <1>3, <1>4 DEF StartNew

LEMMA CheckNewEffect ==
  ASSUME KeepInv, NEW w \in Workers, CheckNew(w)
  PROVE  WorkEffect(w)
  <1>1. /\ worker[w].pc = "checking" /\ UNCHANGED <<day, published, timer, check>>
        /\ UNCHANGED <<installed, current, service, status, lock, failures>> /\ TypeOK
    BY DEF CheckNew, KeepInv
  <1>2. worker[w].pc \in Engaging /\ Holds(w) /\ lock = w
    BY <1>1, AtWork DEF Working, Engaging, Activating
  <1>3. CASE Answered(w, "succeeding")
    <2>1. /\ Moved(w, "succeeding", worker[w].old, worker[w].goal) /\ "succeeding" \in Engaging
          /\ Hears(w, service.release)
      BY <1>1, <1>3, AnsweredMoved DEF Stages, Working, Engaging, Activating
    <2>2. Holds(w)'
      BY <1>1, <1>2, <2>1 DEF Holds, Serving, Moved, Hears, Activating, Untouched, Before
    <2>3. GoesOn(w)
      BY <1>1, <1>2, <2>1, <2>2, AtWork, Kept, MovesOn
    <2> QED BY <1>1, <1>2, <2>3 DEF WorkEffect, Advances
  <1>4. CASE Move(w, "stoppingnew")
    <2>1. Moved(w, "stoppingnew", worker[w].old, worker[w].goal) /\ "stoppingnew" \in Engaging
      BY <1>4, AtWork, MoveMoved DEF Stages, Working, Engaging, Activating
    <2>2. Holds(w)'
      BY <1>1, <1>2, <2>1 DEF Holds, Moved, Activating, Untouched, Before
    <2>3. GoesOn(w)
      BY <1>1, <1>2, <2>1, <2>2, AtWork, Kept, MovesOn
    <2> QED BY <1>1, <1>2, <2>3 DEF WorkEffect, Advances
  <1> QED BY <1>3, <1>4 DEF CheckNew

LEMMA ReportNewEffect ==
  ASSUME KeepInv, NEW w \in Workers, ReportNew(w)
  PROVE  WorkEffect(w)
  <1>1. /\ worker[w].pc = "succeeding" /\ UNCHANGED <<day, published, timer, check>>
        /\ UNCHANGED <<installed, current, service, lock, failures>>
        /\ Stage(w, "succeeded") /\ Move(w, "done")
    BY DEF ReportNew
  <1>2. worker[w].pc \in Engaging
    BY <1>1 DEF Engaging, Activating
  <1>3. Moved(w, "done", worker[w].old, worker[w].goal)
    BY <1>1, AtWork, MoveMoved DEF Stages
  <1>4. Succeeds(w)
    BY <1>1, <1>3 DEF Succeeds, Stage, ByWorker
  <1> QED BY <1>1, <1>2, <1>4 DEF WorkEffect, Advances

LEMMA StopNewEffect ==
  ASSUME KeepInv, NEW w \in Workers, StopNew(w)
  PROVE  WorkEffect(w)
  <1>1. /\ worker[w].pc = "stoppingnew" /\ UNCHANGED <<day, published, timer, check>>
        /\ UNCHANGED <<installed, current, lock>>
    BY DEF StopNew
  <1>2. worker[w].pc \in Engaging /\ Holds(w)
    BY <1>1, AtWork DEF Working, Engaging, Activating
  <1>3. \A pc \in {"awaitnew", "awaitnew"} :
          Moved(w, pc, worker[w].old, worker[w].goal) => Holds(w)'
    BY <1>1, <1>2 DEF Holds, Moved, Activating, Untouched, Before
  <1>4. "awaitnew" \in Engaging
    BY DEF Working, Engaging, Activating
  <1>5. Stopping(w, "awaitnew", "awaitnew")
    BY DEF StopNew
  <1>6. GoesOn(w) \/ GivesUp(w)
    BY <1>1, <1>2, <1>3, <1>4, <1>5, StoppingEffect
  <1> QED BY <1>1, <1>2, <1>6 DEF WorkEffect, Advances

LEMMA AwaitNewEffect ==
  ASSUME KeepInv, NEW w \in Workers, AwaitNew(w)
  PROVE  WorkEffect(w)
  <1>1. /\ worker[w].pc = "awaitnew" /\ UNCHANGED <<day, published, timer, check>>
        /\ UNCHANGED <<installed, current, service, lock>>
    BY DEF AwaitNew
  <1>2. worker[w].pc \in Engaging /\ Holds(w) /\ lock = w /\ worker[w].old \in Releases
    BY <1>1, AtWork DEF Working, Engaging, Activating
  <1>3. CASE /\ worker' = [worker EXCEPT ![w].pc = "unlinking", ![w].goal = worker[w].old]
             /\ UNCHANGED <<status, failures>>
    <2>1. Moved(w, "unlinking", worker[w].old, worker[w].old) /\ "unlinking" \in Engaging
      BY <1>2, <1>3, AtWork, GoalMoved DEF Stages, Working, Engaging, Activating
    <2>2. Holds(w)'
      BY <1>1, <1>2, <2>1 DEF Holds, Moved, Activating, Untouched, Before
    <2>3. GoesOn(w)
      BY <1>1, <1>2, <1>3, <2>1, <2>2, AtWork, Kept, MovesOn
    <2> QED BY <1>1, <1>2, <2>3 DEF WorkEffect, Advances
  <1>4. CASE Failed(w)
    BY <1>1, <1>2, <1>4, Kept, FailedGivesUp DEF WorkEffect, Advances
  <1> QED BY <1>3, <1>4 DEF AwaitNew

LEMMA RestartOldEffect ==
  ASSUME KeepInv, NEW w \in Workers, RestartOld(w)
  PROVE  WorkEffect(w)
  <1>1. /\ worker[w].pc = "restarting" /\ UNCHANGED <<day, published, timer, check>>
        /\ UNCHANGED <<installed, current, lock>>
    BY DEF RestartOld
  <1>2. worker[w].pc \in Engaging /\ Holds(w) /\ lock = w /\ current = worker[w].old
    BY <1>1, AtWork DEF Working, Engaging, Activating, Holds
  <1>3. CASE Startable /\ Started /\ Move(w, "rechecking") /\ UNCHANGED <<status, failures>>
    <2>1. Moved(w, "rechecking", worker[w].old, worker[w].goal) /\ "rechecking" \in Engaging
      BY <1>3, AtWork, MoveMoved DEF Stages, Working, Engaging, Activating
    <2>2. service'.release = current /\ service'.state = "running"
      BY <1>3, StartedRelease DEF KeepInv
    <2>3. Holds(w)'
      BY <1>1, <1>2, <2>1, <2>2 DEF Holds, Serving, Moved, Hears, Activating, Untouched, Before
    <2>4. ServiceEffect
      BY <1>3 DEF ServiceEffect
    <2>5. GoesOn(w)
      BY <1>1, <1>2, <1>3, <2>1, <2>3, <2>4, AtWork, Kept, MovesOn
    <2> QED BY <1>1, <1>2, <2>5 DEF WorkEffect, Advances
  <1>4. CASE Failed(w) /\ UNCHANGED service
    BY <1>1, <1>2, <1>4, Kept, FailedGivesUp DEF WorkEffect, Advances
  <1> QED BY <1>3, <1>4 DEF RestartOld

LEMMA CheckOldEffect ==
  ASSUME KeepInv, NEW w \in Workers, CheckOld(w)
  PROVE  WorkEffect(w)
  <1>1. /\ worker[w].pc = "rechecking" /\ UNCHANGED <<day, published, timer, check>>
        /\ UNCHANGED <<installed, current, service, lock>> /\ TypeOK
    BY DEF CheckOld, KeepInv
  <1>2. worker[w].pc \in Engaging /\ Holds(w) /\ lock = w
    BY <1>1, AtWork DEF Working, Engaging, Activating
  <1>3. CASE Answered(w, "returning") /\ UNCHANGED <<status, failures>>
    <2>1. /\ Moved(w, "returning", worker[w].old, worker[w].goal) /\ "returning" \in Engaging
          /\ Hears(w, service.release)
      BY <1>1, <1>3, AnsweredMoved DEF Stages, Working, Engaging, Activating
    <2>2. Holds(w)'
      BY <1>1, <1>2, <2>1 DEF Holds, Serving, Moved, Hears, Activating, Untouched, Before
    <2>3. GoesOn(w)
      BY <1>1, <1>2, <1>3, <2>1, <2>2, AtWork, Kept, MovesOn
    <2> QED BY <1>1, <1>2, <2>3 DEF WorkEffect, Advances
  <1>4. CASE Failed(w)
    BY <1>1, <1>2, <1>4, Kept, FailedGivesUp DEF WorkEffect, Advances
  <1> QED BY <1>3, <1>4 DEF CheckOld

LEMMA ReportOldEffect ==
  ASSUME KeepInv, NEW w \in Workers, ReportOld(w)
  PROVE  WorkEffect(w)
  <1>1. /\ worker[w].pc = "returning" /\ UNCHANGED <<day, published, timer, check>>
        /\ UNCHANGED <<installed, current, service, lock>> /\ Fail(w, "recording")
    BY DEF ReportOld
  <1>2. worker[w].pc \in Engaging /\ Holds(w) /\ lock = w
    BY <1>1, AtWork DEF Working, Engaging, Activating
  <1>3. /\ Moved(w, "recording", worker[w].old, worker[w].goal)
        /\ Hears(w, worker[w].heard)
    BY <1>1, AtWork, MoveMoved DEF Fail, Stages, Working
  <1>4. Holds(w)'
    BY <1>1, <1>2, <1>3 DEF Holds, Serving, Moved, Hears, Activating, Untouched, Before
  <1>5. Concedes(w)
    BY <1>1, <1>3, <1>4 DEF Concedes, Fail
  <1> QED BY <1>1, <1>2, <1>5 DEF WorkEffect, Advances

LEMMA RecordReturnEffect ==
  ASSUME KeepInv, NEW w \in Workers, RecordReturn(w)
  PROVE  WorkEffect(w)
  <1>1. /\ worker[w].pc = "recording" /\ UNCHANGED <<day, published, timer, check>>
        /\ UNCHANGED <<installed, current, service, lock, failures>>
        /\ Stage(w, "rolled-back") /\ Move(w, "rolledback")
    BY DEF RecordReturn
  <1>2. Moved(w, "rolledback", worker[w].old, worker[w].goal)
    BY <1>1, AtWork, MoveMoved DEF Stages
  <1>3. RollsBack(w)
    BY <1>1, <1>2 DEF RollsBack, Stage, ByWorker
  <1> QED BY <1>1, <1>3 DEF WorkEffect

LEMMA WorkHasEffect ==
  ASSUME KeepInv, NEW w \in Workers, Work(w)
  PROVE  WorkEffect(w)
  <1>1. Leave(w) => WorkEffect(w)
    BY DEF WorkEffect, Leave
  <1> QED BY <1>1, LockEffect, DownloadEffect, VerifyEffect, InstallEffect, StopOldEffect,
             AwaitStopEffect, AwaitExitEffect, GiveUpEffect, UnlinkEffect, LinkEffect,
             StartNewEffect, CheckNewEffect, ReportNewEffect, StopNewEffect, AwaitNewEffect,
             RestartOldEffect, CheckOldEffect, ReportOldEffect, RecordReturnEffect DEF Work

-----------------------------------------------------------------------------
(***************************************************************************)
(* Types and the release behind the junction.                              *)
(***************************************************************************)
LEMMA ServiceTyped ==
  ASSUME TypeOK, ServiceEffect
  PROVE  /\ service' \in ServiceRec
         /\ service'.run \in Nat /\ service.run <= service'.run
         /\ service'.run # service.run => service'.run = service.run + 1
         /\ service'.run = service.run /\ service'.state \notin {"stopped", "crashed"} =>
              service.state \notin {"stopped", "crashed"}
         /\ service'.run = service.run /\ service.state \notin {"stopped", "crashed"} =>
              service'.state \notin {"stopped", "crashed"}
         /\ service.state \in {"running", "stopping"} =>
              service'.state \in {"running", "stopping"}
  <1>1. service \in ServiceRec /\ installed \in SUBSET Releases /\ service.run \in Nat
    BY TypeByName DEF ServiceRec
  <1>2. CASE UNCHANGED service
    BY <1>1, <1>2
  <1>3. CASE service' = [service EXCEPT !.state = "stopping"] /\ ~Unserved
    BY <1>1, <1>3 DEF ServiceRec, Unserved
  <1>4. CASE Startable /\ Started
    <2>1. service' = [state |-> "running", release |-> current,
                      run |-> service.run + 1, due |-> TRUE] /\ current \in Releases
      BY <1>1, <1>4 DEF Startable, Started
    <2> QED BY <1>1, <2>1 DEF ServiceRec
  <1> QED BY <1>2, <1>3, <1>4 DEF ServiceEffect

LEMMA TriedTyped ==
  ASSUME TypeOK, NEW phase \in Busy \cup {"idle", "succeeded", "failed", "rolled-back"},
         NEW target \in Releases \cup {Null}, NEW pid \in Nat \cup Workers,
         Tried(phase, target, pid) \/ Written(phase, target, pid)
  PROVE  status' \in StatusRec
  BY TypeByName DEF Tried, Written, StatusRec

LEMMA FailuresTyped ==
  ASSUME TypeOK, NEW r \in Releases,
         UNCHANGED failures \/ failures' = [failures EXCEPT ![r] = day]
  PROVE  failures' \in [Releases -> 0..MaxDays \cup {Null}]
  BY TypeByName

\* The types after a worker's step.
LEMMA WorkTyped ==
  ASSUME KeepInv, NEW w \in Workers, WorkEffect(w)
  PROVE  TypeOK'
  <1>1. /\ TypeOK /\ UNCHANGED <<day, published, timer, check>>
        /\ worker[w] \in WorkerRec /\ worker[w].target \in Releases \cup {Null}
    BY AtWork DEF KeepInv, WorkEffect, WorkerRec
  <1>2. worker[w].pc \in Working \cup {"locking"} => worker[w].target \in Releases
    BY AtWork DEF Working, Engaging, Before, Activating
  <1>3. CASE Leave(w)
    BY <1>1, <1>3 DEF Leave, TypeOK
  <1>4. CASE LockedOut(w)
    BY <1>1, <1>4, TypeByName, TypedAfter DEF LockedOut, Moved
  <1>5. CASE RollsBack(w)
    <2>1. status' \in StatusRec
      BY <1>1, <1>5, TriedTyped DEF RollsBack
    <2> QED BY <1>1, <1>5, <2>1, TypeByName, TypedAfter DEF RollsBack, Moved
  <1>6. CASE /\ worker[w].pc \in Engaging \/ (worker[w].pc = "locking" /\ lock = Null)
             /\ Advances(w)
    <2>1. worker[w].target \in Releases
      BY <1>2, <1>6 DEF Working
    <2>2. CASE GoesOn(w)
      <3>1. status' \in StatusRec
        BY <1>1, <2>1, <2>2, TriedTyped, TypeByName DEF GoesOn
      <3> QED BY <1>1, <2>2, <3>1, ServiceTyped, TypeByName, TypedAfter DEF GoesOn, Moved
    <2>3. CASE GivesUp(w)
      <3>1. status' \in StatusRec
        BY <1>1, <2>1, <2>3, TriedTyped DEF GivesUp
      <3>2. failures' \in [Releases -> 0..MaxDays \cup {Null}]
        BY <1>1, <2>1, <2>3, FailuresTyped DEF GivesUp
      <3> QED BY <1>1, <2>3, <3>1, <3>2, ServiceTyped, TypeByName, TypedAfter DEF GivesUp, Moved
    <2>4. CASE Succeeds(w)
      <3>1. status' \in StatusRec
        BY <1>1, <2>1, <2>4, TriedTyped DEF Succeeds
      <3> QED BY <1>1, <2>4, <3>1, TypeByName, TypedAfter DEF Succeeds, Moved
    <2>5. CASE Concedes(w)
      <3>1. status' \in StatusRec
        BY <1>1, <2>1, <2>5, TriedTyped DEF Concedes
      <3>2. failures' \in [Releases -> 0..MaxDays \cup {Null}]
        BY <1>1, <2>1, <2>5, FailuresTyped DEF Concedes
      <3> QED BY <1>1, <2>5, <3>1, <3>2, TypeByName, TypedAfter DEF Concedes, Moved
    <2> QED BY <1>6, <2>2, <2>3, <2>4, <2>5 DEF Advances
  <1> QED BY <1>3, <1>4, <1>5, <1>6 DEF WorkEffect

LEMMA WorkKeeps ==
  ASSUME KeepInv, NEW w \in Workers, Work(w)
  PROVE  KeepInv'
  <1>1. WorkEffect(w) /\ TypeOK'
    BY WorkHasEffect, WorkTyped
  <1>2. check'.pc = "launching" => check'.target \in Releases
    BY <1>1 DEF WorkEffect, KeepInv
  <1>3. CASE Leave(w)
    <2>1. \A v \in Workers : worker[v].pc \notin Working
      BY <1>3, AtWork DEF Leave, Over, Working, Engaging, Before, Activating
    <2>2. Null \notin Workers
      BY WorkerAssumption
    <2>3. UNCHANGED <<installed, current, worker>> /\ lock' = Null
      BY <1>3 DEF Leave
    <2>4. \A v \in Workers : worker'[v].pc \notin Working
      BY <2>1, <2>3
    <2> QED BY <1>1, <1>2, <2>2, <2>3, <2>4 DEF KeepInv, RunningReleaseKept
  <1>4. CASE LockedOut(w)
    <2>1. /\ UNCHANGED <<installed, current, service, lock>>
          /\ worker'[w].pc = "failed" /\ worker'[w].target = worker[w].target
          /\ worker[w].pc = "locking" /\ \A v \in Workers \ {w} : worker'[v] = worker[v]
      BY <1>4 DEF LockedOut, Moved
    <2>2. \A v \in Workers : worker'[v].pc \in Working => Holds(v)'
      <3> SUFFICES ASSUME NEW v \in Workers, worker'[v].pc \in Working
                   PROVE  Holds(v)'
        OBVIOUS
      <3>1. v # w
        BY <2>1 DEF Working, Engaging, Before, Activating
      <3>2. worker'[v] = worker[v] /\ Holds(v)
        BY <2>1, <3>1, AtWork
      <3> QED BY <2>1, <3>2 DEF Holds, Serving
    <2>3. \A v \in Workers : worker'[v].pc # "new" => worker'[v].target \in Releases
      BY <2>1 DEF KeepInv
    <2>4. \A v \in Workers : worker'[v].pc \in {"new", "locking"} => lock' # v
      BY <2>1 DEF KeepInv
    <2> QED BY <1>1, <1>2, <2>1, <2>2, <2>3, <2>4 DEF KeepInv, RunningReleaseKept
  <1>5. CASE \/ RollsBack(w)
             \/ /\ worker[w].pc \in Engaging \/ (worker[w].pc = "locking" /\ lock = Null)
                /\ Advances(w)
    <2>1. worker[w].pc \in Working \/ (worker[w].pc = "locking" /\ lock = Null)
      BY <1>5 DEF RollsBack, Working
    <2>2. worker[w].pc \in Working => lock = w
      BY AtWork
    <2>3. /\ lock' = w /\ RunningReleaseKept'
          /\ \A v \in Workers \ {w} : worker'[v] = worker[v]
          /\ worker'[w].target = worker[w].target /\ worker'[w].pc \notin {"new", "locking"}
          /\ worker'[w].pc \in Working => Holds(w)'
      <3>1. CASE GoesOn(w)
        BY <3>1 DEF GoesOn, Moved, Engaging, Before, Activating
      <3>2. CASE GivesUp(w)
        BY <3>2 DEF GivesUp, Moved, Working, Engaging, Before, Activating
      <3>3. CASE Succeeds(w) \/ RollsBack(w)
        <4>1. worker[w].pc \in Working
          BY <3>3 DEF Succeeds, RollsBack, Working, Engaging, Activating
        <4> QED BY <2>2, <3>3, <4>1, Kept
                DEF Succeeds, RollsBack, Moved, Working, Engaging, Before, Activating
      <3>4. CASE Concedes(w)
        <4>1. worker[w].pc \in Working
          BY <3>4 DEF Concedes, Working, Engaging, Activating
        <4> QED BY <2>2, <3>4, <4>1, Kept DEF Concedes, Moved
      <3> QED BY <1>5, <3>1, <3>2, <3>3, <3>4 DEF Advances
    <2>4. worker[w].pc # "new" /\ worker[w].target \in Releases
      BY <2>1, AtWork DEF Working, Engaging, Before, Activating
    <2>5. \A v \in Workers \ {w} : worker'[v].pc \notin Working
      <3> SUFFICES ASSUME NEW v \in Workers \ {w}, worker[v].pc \in Working
                   PROVE  FALSE
        BY <2>3
      <3>1. lock = v
        BY AtWork
      <3> QED BY <2>1, <2>2, <3>1, WorkerAssumption
    <2>6. \A v \in Workers : worker'[v].pc \in Working => Holds(v)'
      <3> SUFFICES ASSUME NEW v \in Workers, worker'[v].pc \in Working
                   PROVE  Holds(v)'
        OBVIOUS
      <3>1. v = w
        BY <2>5
      <3> QED BY <2>3, <3>1
    <2>7. \A v \in Workers : worker'[v].pc # "new" => worker'[v].target \in Releases
      BY <2>3, <2>4 DEF KeepInv
    <2>8. \A v \in Workers : worker'[v].pc \in {"new", "locking"} => lock' # v
      BY <2>3
    <2> QED BY <1>1, <1>2, <2>3, <2>6, <2>7, <2>8 DEF KeepInv
  <1> QED BY <1>1, <1>3, <1>4, <1>5 DEF WorkEffect

\* A step of the coordinator, the service or the surroundings leaves the disk
\* and the stages of the workers alone.
LEMMA OthersKeep ==
  ASSUME KeepInv, TypeOK', UNCHANGED <<installed, current, lock>>,
         service'.release \in {service.release, current},
         service'.state \in {"stopping", "exiting"} => service.state \in {"stopping", "exiting"},
         \A v \in Workers : /\ worker'[v].pc = worker[v].pc /\ worker'[v].old = worker[v].old
                            /\ worker'[v].goal = worker[v].goal
                            /\ worker'[v].target = worker[v].target
                            /\ worker'[v].heard = worker[v].heard,
         check'.pc = "launching" => check'.target \in Releases
  PROVE  KeepInv'
  <1>1. \A v \in Workers : worker'[v].pc \in Working => Holds(v)'
    <2> SUFFICES ASSUME NEW v \in Workers, worker'[v].pc \in Working
                 PROVE  Holds(v)'
      OBVIOUS
    <2>1. Holds(v)
      BY AtWork
    <2>2. \A r : Serving(r) => Serving(r)'
      BY DEF Serving
    <2> QED BY <2>1, <2>2 DEF Holds
  <1> QED BY <1>1 DEF KeepInv, RunningReleaseKept

LEMMA CheckFields ==
  ASSUME check \in CheckRec, NEW target \in Releases \cup {Null}
  PROVE  /\ [check EXCEPT !.pc = "launching", !.target = target] \in CheckRec
         /\ [check EXCEPT !.pc = "launching", !.target = target].pc = "launching"
         /\ [check EXCEPT !.pc = "launching", !.target = target].target = target
         /\ [check EXCEPT !.pc = "launching", !.target = target].resting = check.resting
  BY DEF CheckRec

\* Nothing under way.
LEMMA Idle ==
  /\ NoCheck \in CheckRec /\ NoCheck.pc = "idle"
  /\ NoTimer \in TimerRec /\ ~NoTimer.passed
  BY DEF NoCheck, CheckRec, NoTimer, TimerRec

\* A question to GitHub is put on record first.
AskEffect(resting) ==
  \/ /\ current # Null /\ ~Updating
     /\ Written("checking", Null, service.run)
     /\ check' \in CheckRec /\ check'.pc = "looking" /\ check'.resting = resting
  \/ UNCHANGED <<status, check>>

LEMMA AskHasEffect ==
  ASSUME TypeOK, NEW auto \in BOOLEAN, NEW resting \in SUBSET Releases, Ask(auto, resting)
  PROVE  AskEffect(resting) /\ check' \in CheckRec /\ status' \in StatusRec
         /\ (check'.pc = "launching" => UNCHANGED check)
  <1>1. check \in CheckRec /\ status \in StatusRec /\ service.run \in Nat
    BY TypeByName DEF ServiceRec
  <1>2. CASE UNCHANGED <<status, check>>
    BY <1>1, <1>2 DEF AskEffect
  <1>3. CASE /\ current # Null /\ ~Updating
             /\ Written("checking", Null, service.run)
             /\ check' = [NoCheck EXCEPT !.pc = "looking", !.auto = auto, !.resting = resting]
    <2>1. status' \in StatusRec
      BY <1>1, <1>3, TriedTyped DEF Busy
    <2>2. check' \in CheckRec /\ check'.pc = "looking" /\ check'.resting = resting
      <3> DEFINE new == [NoCheck EXCEPT !.pc = "looking", !.auto = auto, !.resting = resting]
      <3>1. new \in CheckRec /\ new.pc = "looking" /\ new.resting = resting
        BY DEF NoCheck, CheckRec
      <3>2. check' = new
        BY <1>3
      <3> HIDE DEF new
      <3> QED BY <3>1, <3>2
    <2> QED BY <1>3, <2>1, <2>2 DEF AskEffect
  <1> QED BY <1>2, <1>3 DEF Ask

\* An automatic check remembers what rests, and marks the question as asked.
LEMMA CheckAutoEffect ==
  ASSUME TypeOK, CheckAuto
  PROVE  /\ service' \in ServiceRec /\ service'.release = service.release
         /\ service'.run = service.run /\ service'.state = service.state
         /\ service.state = "running" /\ timer' \in TimerRec
         /\ \/ UNCHANGED timer
            \/ MayRetry /\ timer'.resting = IF Updating THEN {} ELSE FailedToday
         /\ UNCHANGED <<day, published, installed, current, check, status, lock, worker, failures>>
  <1>1. service \in ServiceRec /\ timer \in TimerRec /\ FailedToday \in SUBSET Releases
    BY TypeByName DEF FailedToday
  <1> DEFINE resting == IF Updating THEN {} ELSE FailedToday
  <1>2. resting \in SUBSET Releases
    BY <1>1
  <1> HIDE DEF resting
  <1>3. UNCHANGED timer \/ (MayRetry /\ timer' = [passed |-> TRUE, resting |-> resting])
    BY DEF CheckAuto, resting
  <1>4. timer' \in TimerRec /\ (UNCHANGED timer \/ (MayRetry /\ timer'.resting = resting))
    <2>1. CASE UNCHANGED timer
      BY <1>1, <2>1
    <2>2. CASE MayRetry /\ timer' = [passed |-> TRUE, resting |-> resting]
      BY <1>2, <2>2 DEF TimerRec
    <2> QED BY <1>3, <2>1, <2>2
  <1>5. /\ service' \in ServiceRec /\ service'.release = service.release
        /\ service'.run = service.run /\ service'.state = service.state
    BY <1>1 DEF CheckAuto, ServiceRec
  <1> QED BY <1>4, <1>5 DEF CheckAuto, resting

LEMMA CheckAutoKeeps ==
  ASSUME KeepInv, CheckAuto
  PROVE  KeepInv'
  <1>1. /\ TypeOK /\ service' \in ServiceRec /\ service'.release = service.release
        /\ service'.state = service.state /\ timer' \in TimerRec
        /\ UNCHANGED <<day, published, installed, current, check, status, lock, worker, failures>>
    BY CheckAutoEffect DEF KeepInv
  <1>2. TypeOK'
    BY <1>1, TypeByName, TypedAfter
  <1> QED BY <1>1, <1>2, OthersKeep DEF KeepInv

LEMMA ProceedEffect ==
  ASSUME TypeOK, Proceed
  PROVE  /\ timer.passed /\ timer' = NoTimer
         /\ check' \in CheckRec /\ status' \in StatusRec
         /\ (check'.pc = "launching" => UNCHANGED check)
         /\ UNCHANGED <<status, check>> \/ (check.pc = "idle" /\ AskEffect(timer.resting))
         /\ UNCHANGED <<day, published, installed, current, service, lock, worker, failures>>
  <1>1. /\ check \in CheckRec /\ status \in StatusRec /\ timer.resting \in SUBSET Releases
    BY TypeByName DEF TimerRec
  <1>2. UNCHANGED <<status, check>> \/ (check.pc = "idle" /\ Ask(TRUE, timer.resting))
    BY DEF Proceed
  <1> QED BY <1>1, <1>2, AskHasEffect DEF Proceed

LEMMA ProceedKeeps ==
  ASSUME KeepInv, Proceed
  PROVE  KeepInv'
  <1>1. /\ TypeOK /\ timer' = NoTimer /\ check' \in CheckRec /\ status' \in StatusRec
        /\ (check'.pc = "launching" => UNCHANGED check)
        /\ UNCHANGED <<day, published, installed, current, service, lock, worker, failures>>
    BY ProceedEffect DEF KeepInv
  <1>2. TypeOK'
    BY <1>1, Idle, TypeByName, TypedAfter
  <1>3. check'.pc = "launching" => check'.target \in Releases
    BY <1>1 DEF KeepInv
  <1> QED BY <1>1, <1>2, <1>3, OthersKeep

LEMMA CheckManualKeeps ==
  ASSUME KeepInv, CheckManual
  PROVE  KeepInv'
  <1>1. /\ TypeOK /\ Ask(FALSE, {})
        /\ UNCHANGED <<day, published, installed, current, service, timer, lock, worker, failures>>
    BY DEF CheckManual, KeepInv
  <1>2. check' \in CheckRec /\ status' \in StatusRec /\ (check'.pc = "launching" => UNCHANGED check)
    BY <1>1, AskHasEffect
  <1>3. TypeOK'
    BY <1>1, <1>2, TypeByName, TypedAfter
  <1>4. check'.pc = "launching" => check'.target \in Releases
    BY <1>2 DEF KeepInv
  <1> QED BY <1>1, <1>3, <1>4, OthersKeep

LEMMA LookKeeps ==
  ASSUME KeepInv, Look
  PROVE  KeepInv'
  <1>1. /\ TypeOK /\ published \in Releases /\ check \in CheckRec /\ service.run \in Nat
        /\ UNCHANGED <<day, published, installed, current, service, timer, lock, worker, failures>>
    BY TypeByName DEF Look, KeepInv, ServiceRec
  <1>2. \/ (Tried("failed", Null, service.run) \/ Tried("idle", Null, service.run))
           /\ check' = NoCheck
        \/ /\ Written("scheduled", published, service.run)
           /\ check' = [check EXCEPT !.pc = "launching", !.target = published]
    BY DEF Look
  <1>3. status' \in StatusRec
    <2>1. "scheduled" \in Busy
      BY DEF Busy
    <2> QED BY <1>1, <1>2, <2>1, TriedTyped
  <1>4. check' \in CheckRec /\ (check'.pc = "launching" => check'.target \in Releases)
    <2>1. CASE check' = NoCheck
      BY <2>1 DEF NoCheck, CheckRec
    <2>2. CASE check' = [check EXCEPT !.pc = "launching", !.target = published]
      BY <1>1, <2>2, CheckFields
    <2> QED BY <1>2, <2>1, <2>2
  <1>5. TypeOK'
    BY <1>1, <1>3, <1>4, TypeByName, TypedAfter
  <1> QED BY <1>1, <1>4, <1>5, OthersKeep

\* One worker is launched, with the release that was found.
Launched(w) ==
  /\ worker[w].pc = "new" /\ UNCHANGED status
  /\ worker' \in [Workers -> WorkerRec]
  /\ \A v \in Workers \ {w} : worker'[v] = worker[v]
  /\ worker'[w].pc = "locking" /\ worker'[w].launcher = service.run
  /\ worker'[w].auto = check.auto /\ worker'[w].target = check.target
  /\ worker'[w].goal = Null

LEMMA LaunchHasEffect ==
  ASSUME TypeOK, Launch
  PROVE  /\ check.pc = "launching" /\ check' = NoCheck
         /\ UNCHANGED <<day, published, installed, current, service, timer, lock, failures>>
         /\ \/ \E w \in Workers : Launched(w)
            \/ Tried("failed", Null, service.run) /\ UNCHANGED worker
  <1>1. /\ worker \in [Workers -> WorkerRec] /\ service.run \in Nat
        /\ check.auto \in BOOLEAN /\ check.target \in Releases \cup {Null}
    BY TypeByName DEF ServiceRec, CheckRec
  <1>2. ASSUME NEW w \in Workers, worker[w].pc = "new", UNCHANGED status,
               worker' = [worker EXCEPT ![w] =
                  [NewWorker EXCEPT !.pc = "locking", !.launcher = service.run,
                                    !.auto = check.auto, !.target = check.target]]
        PROVE  Launched(w)
    <2> DEFINE new == [NewWorker EXCEPT !.pc = "locking", !.launcher = service.run,
                                        !.auto = check.auto, !.target = check.target]
    <2>1. /\ new \in WorkerRec /\ new.pc = "locking" /\ new.launcher = service.run
          /\ new.auto = check.auto /\ new.target = check.target /\ new.goal = Null
      BY <1>1 DEF NewWorker, WorkerRec
    <2>2. worker' = [worker EXCEPT ![w] = new]
      BY <1>2
    <2> HIDE DEF new
    <2>3. /\ worker' \in [Workers -> WorkerRec] /\ worker'[w] = new
          /\ \A v \in Workers \ {w} : worker'[v] = worker[v]
      BY <1>1, <2>1, <2>2
    <2> QED BY <1>2, <2>1, <2>3 DEF Launched
  <1>3. \/ \E w \in Workers : Launched(w)
        \/ Tried("failed", Null, service.run) /\ UNCHANGED worker
    BY <1>2 DEF Launch
  <1> QED BY <1>3 DEF Launch

LEMMA LaunchKeeps ==
  ASSUME KeepInv, Launch
  PROVE  KeepInv'
  <1>1. TypeOK /\ service.run \in Nat /\ NoCheck \in CheckRec /\ NoCheck.pc = "idle"
    BY TypeByName, Idle DEF KeepInv, ServiceRec
  <1>2. /\ check.pc = "launching" /\ check' = NoCheck
        /\ UNCHANGED <<day, published, installed, current, service, timer, lock, failures>>
        /\ \/ \E w \in Workers : Launched(w)
           \/ Tried("failed", Null, service.run) /\ UNCHANGED worker
    BY <1>1, LaunchHasEffect
  <1>3. CASE Tried("failed", Null, service.run) /\ UNCHANGED worker
    <2>1. TypeOK'
      BY <1>1, <1>2, <1>3, TriedTyped, TypeByName, TypedAfter
    <2> QED BY <1>1, <1>2, <1>3, <2>1, OthersKeep
  <1>4. ASSUME NEW w \in Workers, Launched(w)
        PROVE  KeepInv'
    <2>1. TypeOK'
      BY <1>1, <1>2, <1>4, TypeByName, TypedAfter DEF Launched
    <2>2. \A v \in Workers : worker'[v].pc \in Working => Holds(v)'
      <3> SUFFICES ASSUME NEW v \in Workers, worker'[v].pc \in Working
                   PROVE  Holds(v)'
        OBVIOUS
      <3>1. v # w
        BY <1>4 DEF Launched, Working, Engaging, Before, Activating
      <3>2. worker'[v] = worker[v] /\ Holds(v)
        BY <1>4, <3>1, AtWork DEF Launched
      <3> QED BY <1>2, <3>2 DEF Holds, Serving
    <2>3. \A v \in Workers : worker'[v].pc # "new" => worker'[v].target \in Releases
      BY <1>2, <1>4 DEF Launched, KeepInv
    <2>4. \A v \in Workers : worker'[v].pc \in {"new", "locking"} => lock' # v
      BY <1>2, <1>4 DEF Launched, KeepInv
    <2> QED BY <1>1, <1>2, <2>1, <2>2, <2>3, <2>4 DEF KeepInv, RunningReleaseKept
  <1> QED BY <1>2, <1>3, <1>4

LEMMA SurroundingsKeep ==
  ASSUME KeepInv, Obey \/ Crash \/ Recover \/ Publish \/ NewDay
  PROVE  KeepInv'
  <1> DEFINE Halting(state) == state \in {"stopping", "exiting"}
  <1>1. /\ TypeOK /\ service \in ServiceRec /\ service.run \in Nat
        /\ NoCheck \in CheckRec /\ NoCheck.pc = "idle" /\ NoTimer \in TimerRec
    BY TypeByName, Idle DEF KeepInv, ServiceRec
  <1>2. CASE Obey
    <2>1. /\ service' \in ServiceRec /\ service'.release = service.release /\ check' = NoCheck
          /\ timer' = NoTimer /\ (Halting(service'.state) => Halting(service.state))
          /\ UNCHANGED <<day, published, installed, current, status, lock, worker, failures>>
      BY <1>1, <1>2 DEF Obey, ServiceRec
    <2>2. TypeOK'
      BY <1>1, <2>1, TypeByName, TypedAfter
    <2> QED BY <1>1, <2>1, <2>2, OthersKeep
  <1>3. CASE Crash
    <2>1. /\ service' \in ServiceRec /\ service'.release = service.release /\ check' = NoCheck
          /\ timer' = NoTimer /\ (Halting(service'.state) => Halting(service.state))
          /\ UNCHANGED <<day, published, installed, current, status, lock, worker, failures>>
      BY <1>1, <1>3 DEF Crash, ServiceRec
    <2>2. TypeOK'
      BY <1>1, <2>1, TypeByName, TypedAfter
    <2> QED BY <1>1, <2>1, <2>2, OthersKeep
  <1>4. CASE Recover
    <2>1. /\ service' \in ServiceRec /\ service'.release = current
          /\ service'.state = "running"
          /\ UNCHANGED <<day, published, installed, current, timer, check, status, lock, worker,
                         failures>>
      BY <1>1, <1>4, ServiceTyped, StartedRelease DEF Recover, ServiceEffect
    <2>2. TypeOK'
      BY <1>1, <2>1, TypeByName, TypedAfter
    <2> QED BY <1>1, <2>1, <2>2, OthersKeep DEF KeepInv
  <1>5. CASE Publish
    <2>1. /\ published' \in Releases
          /\ UNCHANGED <<day, installed, current, service, timer, check, status, lock, worker,
                         failures>>
      BY <1>1, <1>5, TypeByName, WorkerAssumption DEF Publish, Releases
    <2>2. TypeOK'
      BY <1>1, <2>1, TypeByName, TypedAfter
    <2> QED BY <1>1, <2>1, <2>2, OthersKeep DEF KeepInv
  <1>6. CASE NewDay
    <2>1. UNCHANGED <<published, installed, current, timer, check, status, lock, worker, failures>>
      BY <1>6 DEF NewDay
    <2>2. day' \in 0..MaxDays
      BY <1>1, <1>6, TypeByName, WorkerAssumption DEF NewDay
    <2>3. /\ service' \in ServiceRec /\ service'.release = service.release
          /\ service'.state = service.state
      BY <1>1, <1>6 DEF NewDay, ServiceRec
    <2>4. TypeOK'
      BY <1>1, <2>1, <2>2, <2>3, TypeByName, TypedAfter
    <2> QED BY <1>1, <2>1, <2>3, <2>4, OthersKeep DEF KeepInv
  <1> QED BY <1>2, <1>3, <1>4, <1>5, <1>6

\* The watcher of a worker that ended only marks it as waited for.
Waited(w) ==
  /\ worker' \in [Workers -> WorkerRec]
  /\ \A v \in Workers \ {w} : worker'[v] = worker[v]
  /\ worker'[w].pc = worker[w].pc /\ worker'[w].old = worker[w].old
  /\ worker'[w].goal = worker[w].goal /\ worker'[w].target = worker[w].target
  /\ worker'[w].launcher = worker[w].launcher /\ worker'[w].auto = worker[w].auto
  /\ worker'[w].heard = worker[w].heard /\ worker'[w].waited

LEMMA WatchHasEffect ==
  ASSUME TypeOK, NEW w \in Workers, Watch(w)
  PROVE  /\ Waited(w) /\ Lingering(w)
         /\ Tried("failed", worker[w].target, worker[w].launcher) \/ UNCHANGED status
         /\ UNCHANGED <<day, published, installed, current, service, timer, check, lock, failures>>
  <1>1. worker \in [Workers -> WorkerRec] /\ worker[w] \in WorkerRec
    BY TypeByName
  <1> DEFINE new == [worker[w] EXCEPT !.waited = TRUE]
  <1>2. worker' = [worker EXCEPT ![w] = new]
    BY DEF Watch
  <1>3. /\ new \in WorkerRec /\ new.pc = worker[w].pc /\ new.old = worker[w].old
        /\ new.goal = worker[w].goal /\ new.target = worker[w].target
        /\ new.launcher = worker[w].launcher /\ new.auto = worker[w].auto /\ new.waited
        /\ new.heard = worker[w].heard
    BY <1>1 DEF WorkerRec
  <1> HIDE DEF new
  <1>4. worker' \in [Workers -> WorkerRec] /\ worker'[w] = new
        /\ \A v \in Workers \ {w} : worker'[v] = worker[v]
    BY <1>1, <1>2, <1>3
  <1>5. Lingering(w)
    BY DEF Watch, Lingering, Over
  <1>6. Waited(w)
    BY <1>3, <1>4 DEF Waited
  <1> QED BY <1>5, <1>6 DEF Watch

LEMMA WatchKeeps ==
  ASSUME KeepInv, NEW w \in Workers, Watch(w)
  PROVE  KeepInv'
  <1>1. /\ TypeOK /\ worker[w] \in WorkerRec /\ worker[w].target \in Releases \cup {Null}
        /\ worker[w].launcher \in Nat
    BY AtWork DEF KeepInv, WorkerRec
  <1>2. /\ Waited(w)
        /\ Tried("failed", worker[w].target, worker[w].launcher) \/ UNCHANGED status
        /\ UNCHANGED <<day, published, installed, current, service, timer, check, lock, failures>>
    BY <1>1, WatchHasEffect
  <1>3. status' \in StatusRec
    BY <1>1, <1>2, TriedTyped, TypeByName
  <1>4. TypeOK'
    BY <1>1, <1>2, <1>3, TypeByName, TypedAfter DEF Waited
  <1> QED BY <1>2, <1>4, OthersKeep DEF Waited, KeepInv

\* A loss of power ends every process.
Killed ==
  /\ worker' \in [Workers -> WorkerRec]
  /\ \A w \in Workers : /\ ~Live(worker'[w]) /\ worker'[w].target = worker[w].target
                        /\ worker'[w].launcher = worker[w].launcher
                        /\ worker'[w].pc \in {"failed", worker[w].pc}
                        /\ worker'[w].auto = worker[w].auto
                        /\ worker[w].pc = "new" => worker'[w].pc = "new"

LEMMA RebootHasEffect ==
  ASSUME TypeOK, Reboot
  PROVE  /\ Killed /\ lock' = Null /\ check' = NoCheck /\ timer' = NoTimer
         /\ service' \in ServiceRec /\ service.run <= service'.run
         /\ failures' \in [Releases -> 0..MaxDays \cup {Null}]
         /\ \A r \in Releases : failures'[r] \in {day, failures[r]}
         /\ \A r \in Releases : failures'[r] # failures[r] =>
              \E w \in Workers : Live(worker[w]) /\ worker[w].target = r
         /\ UNCHANGED <<day, published, installed, current, status>>
  <1>1. /\ worker \in [Workers -> WorkerRec] /\ service \in ServiceRec /\ service.run \in Nat
        /\ failures \in [Releases -> 0..MaxDays \cup {Null}] /\ day \in 0..MaxDays
        /\ installed \in SUBSET Releases
    BY TypeByName DEF ServiceRec
  <1>2. worker' = [w \in Workers |->
       IF Live(worker[w]) THEN [worker[w] EXCEPT !.pc = "failed"] ELSE worker[w]]
    BY DEF Reboot
  <1>3. ASSUME NEW w \in Workers
        PROVE  /\ worker'[w] \in WorkerRec /\ ~Live(worker'[w])
               /\ worker'[w].target = worker[w].target
               /\ worker'[w].launcher = worker[w].launcher
               /\ worker'[w].auto = worker[w].auto
               /\ worker'[w].pc \in {"failed", worker[w].pc}
               /\ worker[w].pc = "new" => worker'[w].pc = "new"
    <2>1. worker[w] \in WorkerRec
      BY <1>1
    <2>2. CASE Live(worker[w])
      <3>1. worker'[w] = [worker[w] EXCEPT !.pc = "failed"]
        BY <1>2, <2>2
      <3> QED BY <2>1, <2>2, <3>1 DEF WorkerRec, Live, Over
    <2>3. CASE ~Live(worker[w])
      BY <1>2, <2>1, <2>3
    <2> QED BY <2>2, <2>3
  <1>4. Killed
    BY <1>2, <1>3 DEF Killed
  <1>5. service' \in ServiceRec /\ service.run <= service'.run
    <2>1. CASE current \in installed
      <3>1. service' = [state |-> "running", release |-> current,
                        run |-> service.run + 1, due |-> TRUE] /\ current \in Releases
        BY <1>1, <2>1 DEF Reboot, Started
      <3> QED BY <1>1, <3>1 DEF ServiceRec
    <2>2. CASE current \notin installed
      <3>1. service' = [service EXCEPT !.state = "stopped"]
        BY <2>2 DEF Reboot
      <3> QED BY <1>1, <3>1 DEF ServiceRec
    <2> QED BY <2>1, <2>2
  <1>6. failures' = [r \in Releases |->
       IF \E w \in Workers : Live(worker[w]) /\ worker[w].target = r THEN day ELSE failures[r]]
    BY DEF Reboot
  <1>7. /\ failures' \in [Releases -> 0..MaxDays \cup {Null}]
        /\ \A r \in Releases : failures'[r] \in {day, failures[r]}
        /\ \A r \in Releases : failures'[r] # failures[r] =>
             \E w \in Workers : Live(worker[w]) /\ worker[w].target = r
    BY <1>1, <1>6
  <1> QED BY <1>4, <1>5, <1>7 DEF Reboot

LEMMA RebootKeeps ==
  ASSUME KeepInv, Reboot
  PROVE  KeepInv'
  <1>1. TypeOK /\ NoCheck \in CheckRec /\ NoCheck.pc = "idle" /\ NoTimer \in TimerRec
    BY Idle DEF KeepInv
  <1>2. /\ Killed /\ lock' = Null /\ check' = NoCheck /\ timer' = NoTimer
        /\ service' \in ServiceRec
        /\ failures' \in [Releases -> 0..MaxDays \cup {Null}]
        /\ UNCHANGED <<day, published, installed, current, status>>
    BY <1>1, RebootHasEffect
  <1>3. TypeOK'
    BY <1>1, <1>2, TypeByName, TypedAfter DEF Killed
  <1>4. \A w \in Workers : worker'[w].pc \notin Working
    BY <1>2 DEF Killed, Live, Over, Working, Engaging, Before, Activating
  <1>5. \A w \in Workers : worker'[w].pc # "new" => worker'[w].target \in Releases
    BY <1>2 DEF Killed, KeepInv
  <1>6. Null \notin Workers
    BY WorkerAssumption
  <1> QED BY <1>1, <1>2, <1>3, <1>4, <1>5, <1>6 DEF KeepInv, RunningReleaseKept

LEMMA KeepInit == Init => KeepInv
  <1> SUFFICES ASSUME Init PROVE KeepInv
    OBVIOUS
  <1>1. /\ 0 \in Releases /\ 0 \in 0..MaxDays
    BY WorkerAssumption DEF Releases
  <1>2. NewWorker \in WorkerRec /\ NewWorker.pc = "new"
    BY DEF NewWorker, WorkerRec
  <1>3. NoCheck \in CheckRec /\ NoCheck.pc = "idle" /\ NoTimer \in TimerRec
    BY Idle
  <1>4. service \in ServiceRec /\ status \in StatusRec
    BY <1>1 DEF Init, ServiceRec, StatusRec
  <1>5. worker \in [Workers -> WorkerRec] /\ \A w \in Workers : worker[w].pc = "new"
    BY <1>2 DEF Init
  <1>6. TypeOK
    BY <1>1, <1>3, <1>4, <1>5, TypeByName DEF Init
  <1> QED BY <1>3, <1>5, <1>6, WorkerAssumption
           DEF KeepInv, Init, RunningReleaseKept, Working, Engaging, Before, Activating

LEMMA KeepStep == KeepInv /\ [Next]_vars => KeepInv'
  <1> SUFFICES ASSUME KeepInv, [Next]_vars PROVE KeepInv'
    OBVIOUS
  <1>1. CASE UNCHANGED vars
    BY <1>1 DEF KeepInv, vars, TypeOK, RunningReleaseKept, Holds, Serving
  <1>2. CASE Next
    BY <1>2, CheckAutoKeeps, ProceedKeeps, CheckManualKeeps, LookKeeps, LaunchKeeps, SurroundingsKeep,
       WatchKeeps, WorkKeeps, RebootKeeps DEF Next, Coordinate
  <1> QED BY <1>1, <1>2

LEMMA SpecKeep == Spec => []KeepInv
  BY KeepInit, KeepStep, PTL DEF Spec

(* Every variable keeps its type, whatever fails and in whatever order the *)
(* processes run (runUpdater, activateUpdate, checkAndSchedule).           *)
THEOREM TypeCorrect == Spec => []TypeOK
  <1>1. KeepInv => TypeOK
    BY DEF KeepInv
  <1> QED BY <1>1, SpecKeep, PTL

(* Under every fault, the release behind the junction is on the disk:      *)
(* while a worker is at it nobody else installs or removes a directory     *)
(* (acquireUpdateLock, runUpdater).                                        *)
THEOREM RunningReleaseKeptTheorem == Spec => []RunningReleaseKept
  <1>1. KeepInv => RunningReleaseKept
    BY DEF KeepInv
  <1> QED BY <1>1, SpecKeep, PTL

-----------------------------------------------------------------------------
(***************************************************************************)
(* The truth of the outcomes.                                              *)
(***************************************************************************)
LEMMA TriedFields ==
  ASSUME NEW phase, NEW target, NEW pid,
         Tried(phase, target, pid) \/ Written(phase, target, pid)
  PROVE  \/ UNCHANGED status
         \/ /\ status'.phase = phase /\ status'.by = pid
            /\ status'.target = target /\ status'.at = day
  BY DEF Tried, Written

Truthful ==
  \A w \in Workers :
    status'.by = w /\ status' # status =>
      /\ status'.phase = "succeeded" => Proven(worker[w], worker[w].target)
      /\ status'.phase = "rolled-back" => Proven(worker[w], worker[w].old)

LEMMA NoWorkIsTruthful ==
  ASSUME KeepInv, Next, \A w \in Workers : ~Work(w)
  PROVE  Truthful
  <1>1. TypeOK /\ service.run \in Nat
    BY TypeByName DEF KeepInv, ServiceRec
  <1>2. UNCHANGED status \/ status'.by \in Nat
    <2>1. CASE Proceed
      BY <1>1, <2>1, TriedFields DEF Proceed, Ask
    <2>2. CASE CheckManual
      BY <1>1, <2>2, TriedFields DEF CheckManual, Ask
    <2>3. CASE Look
      BY <1>1, <2>3, TriedFields DEF Look
    <2>4. CASE Launch
      BY <1>1, <2>4, TriedFields DEF Launch
    <2>5. CASE CheckAuto \/ Obey \/ Crash \/ Recover \/ Publish \/ NewDay \/ Reboot
      BY <2>5 DEF CheckAuto, Obey, Crash, Recover, Publish, NewDay, Reboot
    <2>6. ASSUME NEW w \in Workers, Watch(w)
          PROVE  UNCHANGED status \/ status'.by \in Nat
      <3>1. worker[w].launcher \in Nat
        BY AtWork DEF WorkerRec
      <3> QED BY <1>1, <2>6, <3>1, WatchHasEffect, TriedFields
    <2> QED BY <2>1, <2>2, <2>3, <2>4, <2>5, <2>6 DEF Next, Coordinate
  <1> QED BY <1>2, WorkerAssumption DEF Truthful

LEMMA WorkIsTruthful ==
  ASSUME KeepInv, NEW v \in Workers, Work(v)
  PROVE  Truthful
  <1> SUFFICES ASSUME NEW w \in Workers, status'.by = w, status' # status,
                      status'.phase \in {"succeeded", "rolled-back"}
               PROVE  /\ status'.phase = "succeeded" => Proven(worker[w], worker[w].target)
                      /\ status'.phase = "rolled-back" => Proven(worker[w], worker[w].old)
    BY DEF Truthful
  <1>1. WorkEffect(v)
    BY WorkHasEffect
  <1>2. CASE Leave(v) \/ LockedOut(v)
    BY <1>2 DEF Leave, LockedOut
  <1>3. CASE GoesOn(v)
    <2>1. PICK phase \in Busy : Tried(phase, worker[v].target, v)
      BY <1>3 DEF GoesOn
    <2> QED BY <2>1, TriedFields DEF Busy
  <1>4. CASE GivesUp(v) \/ Concedes(v)
    BY <1>4, TriedFields DEF GivesUp, Concedes
  <1>5. CASE Succeeds(v)
    <2>1. status'.by = v /\ status'.phase = "succeeded"
      BY <1>5, TriedFields DEF Succeeds
    <2>2. Holds(v) /\ worker[v].pc = "succeeding"
      BY <1>5, AtWork DEF Succeeds, Working, Engaging, Activating
    <2> QED BY <2>1, <2>2 DEF Holds, Serving, Proven
  <1>6. CASE RollsBack(v)
    <2>1. status'.by = v /\ status'.phase = "rolled-back"
      BY <1>6, TriedFields DEF RollsBack
    <2>2. Holds(v) /\ worker[v].pc = "recording"
      BY <1>6, AtWork DEF RollsBack, Working
    <2> QED BY <2>1, <2>2 DEF Holds, Serving, Proven
  <1> QED BY <1>1, <1>2, <1>3, <1>4, <1>5, <1>6 DEF WorkEffect, Advances

(* Under every fault, an outcome in the status file is true of what         *)
(* happened: the release it speaks of answered the worker, and until the    *)
(* worker has written nothing else was started, nobody asked the service to *)
(* stop, and the junction stayed (activateUpdate, healthy, runUpdater).     *)
THEOREM OutcomeTruthfulTheorem == Spec => OutcomeTruthful
  <1>1. KeepInv /\ [Next]_vars => [Truthful]_vars
    BY NoWorkIsTruthful, WorkIsTruthful
  <1> HIDE DEF Truthful
  <1>2. Spec => [][Truthful]_vars
    BY <1>1, SpecKeep, PTL DEF Spec
  <1> QED BY <1>2 DEF OutcomeTruthful, Truthful

-----------------------------------------------------------------------------
(***************************************************************************)
(* The worker that is visible.                                             *)
(***************************************************************************)
LEMMA CalmWrites ==
  ASSUME Calm, NEW phase, NEW target, NEW pid, Tried(phase, target, pid)
  PROVE  Written(phase, target, pid)
  BY DEF Calm, Tried

LEMMA LiveStages ==
  ASSUME NEW rec, rec.pc \in Stages
  PROVE  /\ Live(rec) <=> rec.pc \in Working \cup {"locking"}
         /\ Engaged(rec) <=> rec.pc \in Engaging \cup {"locking"}
  BY DEF Engaged, Live, Over, Stages, Working, Engaging, Before, Activating

LEMMA WorkerStages ==
  ASSUME KeepInv, NEW w \in Workers
  PROVE  /\ Live(worker[w]) <=> worker[w].pc \in Working \cup {"locking"}
         /\ Engaged(worker[w]) <=> worker[w].pc \in Engaging \cup {"locking"}
         /\ worker[w].launcher \in Nat /\ worker[w].launcher \notin Workers
  <1>1. worker[w].pc \in Stages /\ worker[w].launcher \in Nat
    BY AtWork DEF WorkerRec
  <1> QED BY <1>1, LiveStages, WorkerAssumption

LEMMA AfterStages ==
  ASSUME KeepInv', NEW w \in Workers
  PROVE  /\ Live(worker'[w]) <=> worker'[w].pc \in Working \cup {"locking"}
         /\ Engaged(worker'[w]) <=> worker'[w].pc \in Engaging \cup {"locking"}
  <1>1. worker' \in [Workers -> WorkerRec]
    BY WorkerRecord DEF KeepInv, TypeOK
  <1>2. worker'[w].pc \in Stages
    BY <1>1 DEF WorkerRec, Stages
  <1> QED BY <1>2, LiveStages

LEMMA AliveService ==
  ASSUME NEW pid \in Nat
  PROVE  Alive(pid) <=> pid = service.run /\ service.state \notin {"stopped", "crashed"}
  BY WorkerAssumption DEF Alive

\* An engaged worker shows, to whoever is there to look.
LEMMA EngagedUpdating ==
  ASSUME VisibleInv, NEW w \in Workers, Engaged(worker[w]),
         worker[w].pc \in Engaging \/ Running
  PROVE  Updating
  <1>1. KeepInv /\ service.run \in Nat
    BY TypeByName DEF VisibleInv, KeepInv, ServiceRec
  <1>2. CASE worker[w].pc \in Engaging
    <2>1. InProgress(w) /\ Alive(w)
      BY <1>1, <1>2 DEF VisibleInv, WorkVisible, Alive, Engaged
    <2> QED BY <2>1 DEF Updating, Phase, Interrupted, InProgress
  <1>3. CASE worker[w].pc = "locking"
    <2>1. InProgress(service.run) /\ Running
      BY <1>3 DEF VisibleInv, LockVisible, Engaging, Before, Activating
    <2>2. Alive(service.run)
      BY <1>1, <2>1, AliveService DEF Running
    <2> QED BY <2>1, <2>2 DEF Updating, Phase, Interrupted, InProgress
  <1> QED BY <1>1, <1>2, <1>3, WorkerStages

\* Nothing is in progress afterwards but, perhaps, a question to GitHub.
LEMMA QuietVisible ==
  ASSUME KeepInv', NoneEngaged', OneAtOnce', LaunchersKnown', TimerAlive',
         check'.pc = "idle" \/ (check'.pc = "looking" /\ Running')
  PROVE  VisibleInv'
  <1>1. \A w \in Workers : ~Engaged(worker'[w])
    BY DEF NoneEngaged
  <1>2. \A w \in Workers : worker'[w].pc \notin Engaging \cup {"locking"}
    BY <1>1, AfterStages
  <1>3. CheckAlone' /\ NoneLingers' /\ LaunchVisible' /\ LockVisible' /\ WorkVisible'
    BY <1>1, <1>2 DEF NoneEngaged, CheckAlone, NoneLingers, LaunchVisible, LockVisible,
                      WorkVisible
  <1> QED BY <1>3 DEF VisibleInv

\* A step that leaves the status, the workers and their service as they are.
LEMMA FrameVisible ==
  ASSUME VisibleInv, KeepInv', UNCHANGED <<day, check, status, lock, worker>>,
         service'.run = service.run, service'.state = service.state, TimerAlive'
  PROVE  VisibleInv'
  <1>1. OneAtOnce' /\ CheckAlone' /\ LaunchersKnown'
    BY DEF VisibleInv, OneAtOnce, CheckAlone, LaunchersKnown, NoneEngaged, Running
  <1>2. LaunchVisible' /\ LockVisible' /\ WorkVisible'
    BY DEF VisibleInv, LaunchVisible, LockVisible, WorkVisible, InProgress
  <1>3. NoneLingers'
    BY DEF VisibleInv, NoneLingers, NoneEngaged, Lingering, Alive
  <1> QED BY <1>1, <1>2, <1>3 DEF VisibleInv

\* A process that is dead stays dead.
StaysDead == \A pid \in Nat : pid <= service.run /\ Alive(pid)' => Alive(pid)

LEMMA AliveServiceAfter ==
  ASSUME NEW pid \in Nat
  PROVE  Alive(pid)' <=> pid = service'.run /\ service'.state \notin {"stopped", "crashed"}
  BY WorkerAssumption DEF Alive

LEMMA EffectStaysDead ==
  ASSUME TypeOK, ServiceEffect
  PROVE  StaysDead
  <1> SUFFICES ASSUME NEW pid \in Nat, pid <= service.run, Alive(pid)'
               PROVE  Alive(pid)
    BY DEF StaysDead
  <1>1. service.run \in Nat
    BY TypeByName DEF ServiceRec
  <1>2. pid = service'.run /\ service'.state \notin {"stopped", "crashed"}
    BY AliveServiceAfter
  <1>3. service.run = service'.run
    BY <1>1, <1>2, ServiceTyped
  <1> QED BY <1>2, <1>3, AliveService, ServiceTyped

\* The service stops or starts, with no question to GitHub under way.
LEMMA ServiceVisible ==
  ASSUME VisibleInv, KeepInv', UNCHANGED <<day, status, lock, worker>>, check'.pc = "idle",
         service'.run \in Nat, service.run <= service'.run, StaysDead, TimerAlive',
         service'.run = service.run \/ \A w \in Workers : worker[w].pc # "locking"
  PROVE  VisibleInv'
  <1>1. KeepInv /\ service.run \in Nat
    BY TypeByName DEF VisibleInv, KeepInv, ServiceRec
  <1>2. OneAtOnce' /\ CheckAlone' /\ LaunchVisible'
    BY DEF VisibleInv, OneAtOnce, CheckAlone, LaunchVisible
  <1>3. LaunchersKnown'
    <2> SUFFICES ASSUME NEW w \in Workers, worker[w].pc # "new"
                 PROVE  worker[w].launcher <= service'.run
      BY DEF LaunchersKnown
    <2>1. worker[w].launcher <= service.run /\ worker[w].launcher \in Nat
      BY <1>1, WorkerStages DEF VisibleInv, LaunchersKnown
    <2> QED BY <1>1, <2>1
  <1>4. LockVisible' /\ WorkVisible'
    BY DEF VisibleInv, LockVisible, WorkVisible, InProgress
  <1>5. NoneLingers'
    <2> SUFFICES ASSUME ~NoneEngaged, NEW w \in Workers, Lingering(w)'
                 PROVE  FALSE
      BY DEF NoneLingers, NoneEngaged
    <2>1. ~Lingering(w)
      BY DEF VisibleInv, NoneLingers
    <2>2. Over(worker[w]) /\ lock # w /\ worker[w].pc # "done" /\ ~worker[w].waited
          /\ Alive(worker[w].launcher)'
      BY <2>1 DEF Lingering
    <2>3. worker[w].launcher <= service.run /\ worker[w].launcher \in Nat
      BY <1>1, <2>2, WorkerStages DEF VisibleInv, LaunchersKnown, Over
    <2>4. Alive(worker[w].launcher)
      BY <2>2, <2>3 DEF StaysDead, Alive
    <2> QED BY <2>1, <2>2, <2>4 DEF Lingering
  <1> QED BY <1>2, <1>3, <1>4, <1>5 DEF VisibleInv

LEMMA AskVisible ==
  ASSUME VisibleInv, KeepInv', NEW resting, AskEffect(resting), Running,
         UNCHANGED <<day, service, lock, worker>>, TimerAlive'
  PROVE  VisibleInv'
  <1>1. CASE UNCHANGED <<status, check>>
    BY <1>1, FrameVisible
  <1>2. CASE ~Updating /\ check'.pc = "looking"
    <2>1. NoneEngaged' /\ Running'
      BY <1>2, EngagedUpdating DEF NoneEngaged, Running
    <2>2. LaunchersKnown' /\ OneAtOnce'
      BY DEF VisibleInv, LaunchersKnown, OneAtOnce
    <2> QED BY <1>2, <2>1, <2>2, QuietVisible
  <1> QED BY <1>1, <1>2 DEF AskEffect

LEMMA ChecksVisible ==
  ASSUME VisibleInv, CheckAuto \/ Proceed \/ CheckManual
  PROVE  VisibleInv'
  <1>1. KeepInv /\ KeepInv' /\ TypeOK
    BY CheckAutoKeeps, ProceedKeeps, CheckManualKeeps DEF VisibleInv, KeepInv
  <1>2. CASE CheckAuto
    <2>1. /\ service'.run = service.run /\ service'.state = service.state
          /\ service.state = "running"
          /\ UNCHANGED <<day, published, installed, current, check, status, lock, worker,
                         failures>>
      BY <1>1, <1>2, CheckAutoEffect
    <2>2. TimerAlive'
      BY <2>1 DEF TimerAlive, Running
    <2> QED BY <1>1, <2>1, <2>2, FrameVisible
  <1>3. CASE Proceed
    <2>1. /\ timer.passed /\ timer' = NoTimer
          /\ UNCHANGED <<status, check>> \/ AskEffect(timer.resting)
          /\ UNCHANGED <<day, published, installed, current, service, lock, worker, failures>>
      BY <1>1, <1>3, ProceedEffect
    <2>2. Running /\ TimerAlive'
      BY <2>1, Idle DEF VisibleInv, TimerAlive
    <2>3. AskEffect(timer.resting)
      BY <2>1 DEF AskEffect
    <2> QED BY <1>1, <2>1, <2>2, <2>3, AskVisible
  <1>4. CASE CheckManual
    <2>1. /\ Ask(FALSE, {}) /\ service.state = "running"
          /\ UNCHANGED <<day, service, timer, lock, worker>>
      BY <1>4 DEF CheckManual
    <2>2. AskEffect({})
      BY <1>1, <2>1, AskHasEffect
    <2>3. Running /\ TimerAlive'
      BY <2>1 DEF Running, TimerAlive
    <2> QED BY <1>1, <2>1, <2>2, <2>3, AskVisible
  <1> QED BY <1>2, <1>3, <1>4

LEMMA LookVisible ==
  ASSUME Calm, VisibleInv, Look
  PROVE  VisibleInv'
  <1>1. KeepInv /\ KeepInv' /\ check \in CheckRec /\ NoCheck.pc = "idle"
    BY LookKeeps, TypeByName, Idle DEF VisibleInv, KeepInv
  <1>2. /\ UNCHANGED <<day, published, installed, current, service, timer, lock, worker, failures>>
        /\ check.pc = "looking"
    BY DEF Look
  <1>3. NoneEngaged /\ NoneEngaged' /\ Running /\ LaunchersKnown' /\ OneAtOnce' /\ TimerAlive'
    BY <1>2 DEF VisibleInv, CheckAlone, NoneEngaged, LaunchersKnown, OneAtOnce, TimerAlive,
                Running
  <1>4. CASE check' = NoCheck
    BY <1>1, <1>3, <1>4, QuietVisible
  <1>5. CASE /\ \A w \in Workers : ~Lingering(w)
             /\ Written("scheduled", published, service.run)
             /\ check' = [check EXCEPT !.pc = "launching", !.target = published]
    <2>1. check'.pc = "launching"
      BY <1>1, <1>5 DEF CheckRec
    <2>2. InProgress(service.run)'
      BY <1>2, <1>5 DEF Written, InProgress, Busy
    <2>3. NoneLingers'
      BY <1>2, <1>5 DEF NoneLingers, Lingering, Alive
    <2>4. \A w \in Workers : worker'[w].pc \notin Engaging \cup {"locking"}
      BY <1>1, <1>3, AfterStages DEF NoneEngaged
    <2>5. CheckAlone' /\ LockVisible' /\ WorkVisible'
      BY <1>2, <1>3, <2>4 DEF CheckAlone, LockVisible, WorkVisible, Running
    <2>6. LaunchVisible'
      BY <1>2, <2>2 DEF LaunchVisible, InProgress
    <2> QED BY <1>1, <1>3, <2>3, <2>5, <2>6 DEF VisibleInv
  <1> QED BY <1>4, <1>5 DEF Look, Calm

LEMMA LaunchVisibly ==
  ASSUME Calm, VisibleInv, Launch
  PROVE  VisibleInv'
  <1>1. KeepInv /\ KeepInv' /\ TypeOK /\ NoCheck.pc = "idle" /\ service.run \in Nat
    BY LaunchKeeps, TypeByName, Idle DEF VisibleInv, KeepInv, ServiceRec
  <1>2. /\ check.pc = "launching" /\ check' = NoCheck
        /\ UNCHANGED <<day, published, installed, current, service, timer, lock, failures>>
        /\ \/ \E w \in Workers : Launched(w)
           \/ Tried("failed", Null, service.run) /\ UNCHANGED worker
    BY <1>1, LaunchHasEffect
  <1>3. NoneEngaged /\ InProgress(service.run) /\ (\A w \in Workers : ~Lingering(w)) /\ TimerAlive'
    BY <1>2 DEF VisibleInv, CheckAlone, LaunchVisible, NoneLingers, TimerAlive, Running
  <1>4. CASE UNCHANGED worker
    <2>1. NoneEngaged' /\ LaunchersKnown' /\ OneAtOnce'
      BY <1>2, <1>3, <1>4 DEF VisibleInv, LaunchersKnown, NoneEngaged, OneAtOnce
    <2> QED BY <1>1, <1>2, <1>3, <2>1, QuietVisible
  <1>5. ASSUME NEW w \in Workers, Launched(w)
        PROVE  VisibleInv'
    <2>1. /\ UNCHANGED status /\ worker'[w].pc = "locking" /\ worker'[w].launcher = service.run
          /\ \A v \in Workers \ {w} : worker'[v] = worker[v]
      BY <1>5 DEF Launched
    <2>2. \A v \in Workers \ {w} : ~Live(worker'[v])
      BY <1>3, <2>1 DEF NoneEngaged, Engaged, Lingering
    <2>3. \A v \in Workers \ {w} : worker'[v].pc \notin Working \cup {"locking"}
      BY <1>1, <2>2, AfterStages
    <2>4. OneAtOnce' /\ CheckAlone' /\ LaunchVisible'
      BY <1>1, <1>2, <2>2 DEF OneAtOnce, CheckAlone, LaunchVisible
    <2>5. LaunchersKnown'
      BY <1>1, <1>2, <2>1 DEF VisibleInv, LaunchersKnown
    <2>6. InProgress(service.run)'
      BY <1>2, <1>3, <2>1 DEF InProgress
    <2>7. LockVisible' /\ WorkVisible'
      BY <1>2, <2>1, <2>3, <2>6
         DEF LockVisible, WorkVisible, Working, Engaging, Before, Activating, InProgress
    <2>8. NoneLingers'
      <3>1. \A v \in Workers : ~Lingering(v)'
        <4> SUFFICES ASSUME NEW v \in Workers, Lingering(v)' PROVE FALSE
          OBVIOUS
        <4>1. v # w
          BY <2>1 DEF Lingering, Over
        <4>2. worker'[v] = worker[v] /\ worker[v].launcher \in Nat
          BY <1>1, <2>1, <4>1, WorkerStages
        <4>3. Lingering(v)
          BY <1>2, <4>2, WorkerAssumption DEF Lingering, Alive
        <4> QED BY <1>3, <4>3
      <3> QED BY <3>1 DEF NoneLingers
    <2> QED BY <1>1, <1>3, <2>4, <2>5, <2>7, <2>8 DEF VisibleInv
  <1> QED BY <1>2, <1>4, <1>5

LEMMA SurroundingsVisible ==
  ASSUME Calm, VisibleInv, Obey \/ Crash \/ Recover \/ Publish \/ NewDay \/ Reboot
  PROVE  VisibleInv'
  <1>1. /\ KeepInv /\ KeepInv' /\ TypeOK /\ NoCheck.pc = "idle" /\ ~NoTimer.passed
        /\ service \in ServiceRec /\ service.run \in Nat
    BY SurroundingsKeep, RebootKeeps, TypeByName, Idle DEF VisibleInv, KeepInv, ServiceRec
  <1>2. CASE Obey \/ Crash
    <2>1. /\ UNCHANGED <<day, status, lock, worker>> /\ check'.pc = "idle" /\ timer' = NoTimer
          /\ service'.run = service.run /\ service.state \notin {"stopped", "crashed"}
      BY <1>1, <1>2 DEF Obey, Crash, ServiceRec
    <2>2. StaysDead
      BY <2>1, AliveService, AliveServiceAfter DEF StaysDead
    <2>3. TimerAlive'
      BY <1>1, <2>1 DEF TimerAlive
    <2> QED BY <1>1, <2>1, <2>2, <2>3, ServiceVisible
  <1>3. CASE Recover
    <2>1. /\ UNCHANGED <<day, status, lock, worker, check, timer>> /\ ServiceEffect
          /\ \A w \in Workers : worker[w].pc # "locking"
      BY <1>3 DEF Recover, ServiceEffect
    <2>2. ~Running
      BY <1>3 DEF Recover, Running
    <2>3. check'.pc = "idle" /\ TimerAlive'
      BY <2>1, <2>2 DEF VisibleInv, CheckAlone, TimerAlive
    <2>4. StaysDead /\ service'.run \in Nat /\ service.run <= service'.run
      BY <1>1, <2>1, ServiceTyped, EffectStaysDead
    <2> QED BY <1>1, <2>1, <2>3, <2>4, ServiceVisible
  <1>4. CASE Publish
    <2>1. TimerAlive' /\ UNCHANGED <<day, check, status, lock, worker, service>>
      BY <1>4 DEF Publish, VisibleInv, TimerAlive, Running
    <2> QED BY <1>1, <2>1, FrameVisible
  <1>5. CASE NewDay
    <2>1. /\ check'.pc = "idle" /\ \A w \in Workers : ~Live(worker[w])
          /\ UNCHANGED worker /\ service'.run = service.run /\ ~timer'.passed
      BY <1>1, <1>5 DEF NewDay, Calm, ServiceRec
    <2>2. LaunchersKnown' /\ NoneEngaged' /\ OneAtOnce' /\ TimerAlive'
      BY <2>1 DEF VisibleInv, LaunchersKnown, NoneEngaged, Engaged, OneAtOnce, TimerAlive
    <2> QED BY <1>1, <2>1, <2>2, QuietVisible
  <1>6. CASE Reboot
    <2>1. /\ Killed /\ check'.pc = "idle" /\ timer' = NoTimer
          /\ service.run <= service'.run /\ service'.run \in Nat
      BY <1>1, <1>6, RebootHasEffect DEF ServiceRec
    <2>2. NoneEngaged' /\ OneAtOnce' /\ TimerAlive'
      BY <1>1, <2>1 DEF Killed, NoneEngaged, Engaged, OneAtOnce, TimerAlive
    <2>3. LaunchersKnown'
      <3> SUFFICES ASSUME NEW w \in Workers, worker'[w].pc # "new"
                   PROVE  worker'[w].launcher <= service'.run
        BY DEF LaunchersKnown
      <3>1. worker'[w].launcher = worker[w].launcher /\ worker[w].pc # "new"
        BY <2>1 DEF Killed
      <3>2. worker[w].launcher <= service.run /\ worker[w].launcher \in Nat
        BY <1>1, <3>1, WorkerStages DEF VisibleInv, LaunchersKnown
      <3> QED BY <1>1, <2>1, <3>1, <3>2
    <2> QED BY <1>1, <2>1, <2>2, <2>3, QuietVisible
  <1> QED BY <1>2, <1>3, <1>4, <1>5, <1>6

\* A worker that is not through while no worker is engaged: a question to
\* GitHub may be under way, a launch may not.
LEMMA LingersAlone ==
  ASSUME VisibleInv, NEW w \in Workers, Lingering(w)
  PROVE  /\ NoneEngaged /\ check.pc # "launching"
         /\ check.pc = "idle" \/ (check.pc = "looking" /\ Running)
  <1>1. check \in CheckRec
    BY TypeByName DEF VisibleInv, KeepInv
  <1>2. NoneEngaged /\ check.pc # "launching"
    BY DEF VisibleInv, NoneLingers
  <1> QED BY <1>1, <1>2 DEF VisibleInv, CheckAlone, CheckRec

LEMMA WatchVisible ==
  ASSUME VisibleInv, NEW w \in Workers, Watch(w)
  PROVE  VisibleInv'
  <1>1. KeepInv /\ KeepInv' /\ TypeOK
    BY WatchKeeps DEF VisibleInv, KeepInv
  <1>2. Waited(w) /\ Lingering(w) /\ UNCHANGED <<timer, check, service>>
    BY <1>1, WatchHasEffect
  <1>3. NoneEngaged /\ (check.pc = "idle" \/ (check.pc = "looking" /\ Running))
    BY <1>2, LingersAlone
  <1>4. \A v \in Workers : worker'[v].pc = worker[v].pc /\ worker'[v].launcher = worker[v].launcher
    BY <1>2 DEF Waited
  <1>5. NoneEngaged' /\ LaunchersKnown' /\ OneAtOnce' /\ TimerAlive'
    BY <1>2, <1>3, <1>4 DEF NoneEngaged, Engaged, Live, Over, VisibleInv, LaunchersKnown,
                            OneAtOnce, TimerAlive, Running
  <1>6. check'.pc = "idle" \/ (check'.pc = "looking" /\ Running')
    BY <1>2, <1>3 DEF Running
  <1> QED BY <1>1, <1>5, <1>6, QuietVisible

\* A worker at work is the only thing under way, and it is the service's.
LEMMA WorksAlone ==
  ASSUME VisibleInv, NEW w \in Workers, Work(w), ~Leave(w), ~RollsBack(w)
  PROVE  /\ Live(worker[w]) /\ Engaged(worker[w])
         /\ check.pc = "idle" /\ check'.pc = "idle" /\ UNCHANGED <<day, published, timer>>
         /\ \A v \in Workers \ {w} : ~Live(worker[v]) /\ worker'[v] = worker[v]
         /\ worker'[w].launcher = worker[w].launcher
         /\ worker'[w].target = worker[w].target
         /\ worker[w].target \in Releases
         /\ GoesOn(w) \/ GivesUp(w) \/ Succeeds(w) \/ Concedes(w)
         /\ ServiceEffect
  <1>1. KeepInv /\ WorkEffect(w)
    BY WorkHasEffect DEF VisibleInv
  <1>2. worker[w].pc \in Engaging \cup {"locking"}
    BY <1>1 DEF WorkEffect, LockedOut
  <1>3. Live(worker[w]) /\ Engaged(worker[w])
    BY <1>1, <1>2, WorkerStages DEF Working
  <1>4. check.pc = "idle" /\ \A v \in Workers \ {w} : ~Live(worker[v])
    BY <1>3 DEF VisibleInv, CheckAlone, OneAtOnce, NoneEngaged
  <1>5. ~LockedOut(w)
    <2> SUFFICES ASSUME worker[w].pc = "locking", lock # Null PROVE FALSE
      BY DEF LockedOut
    <2>1. lock \in Workers /\ ~Lingering(lock)
      BY <1>1, <1>3, TypeByName DEF VisibleInv, KeepInv, NoneLingers, NoneEngaged
    <2>2. ~Over(worker[lock]) /\ lock # w
      BY <1>1, <2>1 DEF Lingering, KeepInv
    <2>3. worker[lock].pc = "new"
      BY <1>4, <2>1, <2>2 DEF Live
    <2> QED BY <1>1, <2>1, <2>3 DEF KeepInv
  <1>6. GoesOn(w) \/ GivesUp(w) \/ Succeeds(w) \/ Concedes(w)
    BY <1>1, <1>5 DEF WorkEffect, Advances
  <1>7. /\ \A v \in Workers \ {w} : worker'[v] = worker[v]
        /\ worker'[w].launcher = worker[w].launcher /\ worker'[w].target = worker[w].target
    BY <1>6 DEF GoesOn, GivesUp, Succeeds, Concedes, Moved
  <1>8. worker[w].target \in Releases
    BY <1>1, <1>2, AtWork DEF Engaging, Before, Activating
  <1>9. ServiceEffect
    BY <1>1, <1>6, Kept DEF GoesOn, GivesUp, Succeeds, Concedes
  <1> QED BY <1>1, <1>3, <1>4, <1>6, <1>7, <1>8, <1>9 DEF WorkEffect

\* A worker that records that the old release is back has reported already.
LEMMA RecordVisible ==
  ASSUME VisibleInv, KeepInv', NEW w \in Workers, RollsBack(w),
         UNCHANGED <<day, published, timer, check>>
  PROVE  VisibleInv'
  <1>1. worker[w].pc = "recording" /\ worker'[w].pc = "rolledback"
        /\ worker'[w].launcher = worker[w].launcher /\ UNCHANGED service
        /\ \A v \in Workers \ {w} : worker'[v] = worker[v]
    BY DEF RollsBack, Moved
  <1>2. NoneEngaged /\ (check.pc = "idle" \/ (check.pc = "looking" /\ Running))
    BY <1>1, LingersAlone DEF Lingering
  <1>3. \A v \in Workers : worker'[v].launcher = worker[v].launcher
          /\ (worker'[v].pc # "new" => worker[v].pc # "new")
          /\ (Live(worker'[v]) => Live(worker[v]))
          /\ (Engaged(worker'[v]) => Engaged(worker[v]))
    BY <1>1 DEF Engaged, Live, Over
  <1>4. NoneEngaged' /\ LaunchersKnown' /\ OneAtOnce' /\ TimerAlive'
    BY <1>1, <1>2, <1>3 DEF NoneEngaged, VisibleInv, LaunchersKnown, OneAtOnce, TimerAlive,
                            Running
  <1>5. check'.pc = "idle" \/ (check'.pc = "looking" /\ Running')
    BY <1>1, <1>2 DEF Running
  <1> QED BY <1>4, <1>5, QuietVisible

LEMMA WorkVisibly ==
  ASSUME Calm, VisibleInv, NEW w \in Workers, Work(w)
  PROVE  VisibleInv'
  <1>1. /\ KeepInv /\ KeepInv' /\ TypeOK /\ service.run \in Nat
    BY WorkKeeps, TypeByName DEF VisibleInv, KeepInv, ServiceRec
  <1>2. CASE Leave(w)
    <2>1. /\ UNCHANGED <<day, service, timer, check, status, worker>> /\ Lingering(w)
      BY <1>2 DEF Leave, Lingering
    <2>2. NoneEngaged /\ (check.pc = "idle" \/ (check.pc = "looking" /\ Running))
      BY <2>1, LingersAlone
    <2>3. NoneEngaged' /\ LaunchersKnown' /\ OneAtOnce' /\ TimerAlive'
      BY <2>1, <2>2 DEF NoneEngaged, VisibleInv, LaunchersKnown, OneAtOnce, TimerAlive, Running
    <2>4. check'.pc = "idle" \/ (check'.pc = "looking" /\ Running')
      BY <2>1, <2>2 DEF Running
    <2> QED BY <1>1, <2>3, <2>4, QuietVisible
  <1>3. CASE RollsBack(w)
    <2>1. UNCHANGED <<day, published, timer, check>>
      BY <1>1, WorkHasEffect DEF WorkEffect
    <2> QED BY <1>1, <1>3, <2>1, RecordVisible
  <1>4. CASE ~Leave(w) /\ ~RollsBack(w)
    <2>1. /\ Live(worker[w]) /\ Engaged(worker[w]) /\ check.pc = "idle" /\ check'.pc = "idle"
          /\ UNCHANGED <<day, published, timer>>
          /\ \A v \in Workers \ {w} : ~Live(worker[v]) /\ worker'[v] = worker[v]
          /\ worker'[w].launcher = worker[w].launcher
          /\ GoesOn(w) \/ GivesUp(w) \/ Succeeds(w) \/ Concedes(w)
          /\ ServiceEffect
      BY <1>4, WorksAlone
    <2>2. service'.run \in Nat /\ service.run <= service'.run /\ StaysDead
      BY <1>1, <2>1, ServiceTyped, EffectStaysDead
    <2>3. LaunchersKnown'
      <3> SUFFICES ASSUME NEW v \in Workers, worker'[v].pc # "new"
                   PROVE  worker'[v].launcher <= service'.run
        BY DEF LaunchersKnown
      <3>1. worker'[v].launcher = worker[v].launcher /\ worker[v].pc # "new"
        BY <2>1 DEF Live
      <3>2. worker[v].launcher <= service.run /\ worker[v].launcher \in Nat
        BY <1>1, <3>1, WorkerStages DEF VisibleInv, LaunchersKnown
      <3> QED BY <1>1, <2>2, <3>1, <3>2
    <2>4. OneAtOnce'
      BY <2>1 DEF OneAtOnce
    <2>5. TimerAlive'
      <3>1. Running => Running'
        BY <1>1, <2>1, ServiceTyped DEF Running
      <3> QED BY <2>1, <3>1 DEF VisibleInv, TimerAlive
    <2>6. CASE ~GoesOn(w)
      <3>1. ~Engaged(worker'[w])
        BY <2>1, <2>6 DEF GivesUp, Succeeds, Concedes, Moved, Engaged, Live, Over
      <3>2. NoneEngaged'
        BY <2>1, <3>1 DEF NoneEngaged, Engaged
      <3> QED BY <1>1, <2>1, <2>3, <2>4, <2>5, <3>2, QuietVisible
    <2>7. CASE GoesOn(w)
      <3>1. worker'[w].pc \in Engaging /\ lock' = w
        BY <2>7 DEF GoesOn
      <3>2. \A v \in Workers \ {w} : worker'[v].pc \notin Working \cup {"locking"}
        BY <1>1, <2>1, WorkerStages
      <3>3. CheckAlone' /\ LaunchVisible' /\ LockVisible'
        BY <2>1, <3>1, <3>2
           DEF CheckAlone, LaunchVisible, LockVisible, Engaging, Before, Activating
      <3>4. InProgress(w)'
        <4>1. CASE UNCHANGED status /\ worker[w].pc \in Engaging
          BY <2>1, <4>1 DEF VisibleInv, WorkVisible, InProgress
        <4>2. ASSUME NEW phase \in Busy, Tried(phase, worker[w].target, w)
              PROVE  InProgress(w)'
          BY <2>1, <4>2, CalmWrites DEF Written, InProgress
        <4> QED BY <2>7, <4>1, <4>2 DEF GoesOn
      <3>5. WorkVisible'
        BY <3>2, <3>4 DEF WorkVisible, Working
      <3>6. NoneLingers'
        <4> SUFFICES ASSUME NEW v \in Workers, Lingering(v)' PROVE FALSE
          BY DEF NoneLingers
        <4>1. v # w
          BY <3>1 DEF Lingering, Over, Engaging, Before, Activating
        <4>2. worker'[v] = worker[v] /\ ~Lingering(v)
          BY <2>1, <4>1 DEF VisibleInv, NoneLingers, NoneEngaged
        <4>3. Over(worker[v]) /\ worker[v].pc # "done" /\ ~worker[v].waited
              /\ Alive(worker[v].launcher)'
          BY <3>1, <4>1, <4>2 DEF Lingering
        <4>4. /\ worker[v].launcher <= service.run /\ worker[v].launcher \in Nat
              /\ worker'[v].launcher = worker[v].launcher
          BY <1>1, <4>2, <4>3, WorkerStages DEF VisibleInv, LaunchersKnown, Over
        <4>5. Alive(worker[v].launcher)
          BY <2>2, <4>3, <4>4, WorkerAssumption DEF StaysDead, Alive
        <4> QED BY <4>2, <4>3, <4>5 DEF Lingering
      <3> QED BY <1>1, <2>3, <2>4, <2>5, <3>3, <3>5, <3>6 DEF VisibleInv
    <2> QED BY <2>6, <2>7
  <1> QED BY <1>2, <1>3, <1>4

LEMMA VisibleInit == Init => VisibleInv
  <1> SUFFICES ASSUME Init PROVE VisibleInv
    OBVIOUS
  <1>1. /\ KeepInv /\ check.pc = "idle" /\ ~timer.passed
        /\ \A w \in Workers : worker[w].pc = "new"
    BY KeepInit, Idle DEF Init, NewWorker
  <1> QED BY <1>1 DEF VisibleInv, OneAtOnce, TimerAlive, CheckAlone, NoneLingers, NoneEngaged,
          LaunchersKnown, LaunchVisible, LockVisible, WorkVisible, Engaged, Live, Engaging,
          Before, Activating

LEMMA VisibleStep ==
  ASSUME Calm
  PROVE  VisibleInv /\ [Next]_vars => VisibleInv'
  <1> SUFFICES ASSUME VisibleInv, [Next]_vars PROVE VisibleInv'
    OBVIOUS
  <1>1. KeepInv'
    BY KeepStep DEF VisibleInv
  <1>2. CASE UNCHANGED vars
    <2>1. TimerAlive'
      BY <1>2 DEF vars, VisibleInv, TimerAlive, Running
    <2> QED BY <1>1, <1>2, <2>1, FrameVisible DEF vars
  <1>3. CASE Next
    BY <1>3, ChecksVisible, LookVisible, LaunchVisibly, SurroundingsVisible, WatchVisible,
       WorkVisibly DEF Next, Coordinate
  <1> QED BY <1>2, <1>3

LEMMA SpecVisible ==
  ASSUME Calm
  PROVE  Spec => []VisibleInv
  BY VisibleInit, VisibleStep, PTL DEF Spec

(* When statuses are written, the PC does not sleep during an update and   *)
(* processes end in time, then however the service stops, dies and starts, *)
(* a worker at work shows in the status (readUpdateStatus).                *)
THEOREM WorkIsVisibleTheorem ==
  ASSUME Calm
  PROVE  Spec => []WorkIsVisible
  <1>1. VisibleInv => WorkIsVisible
    <2> SUFFICES ASSUME VisibleInv, NEW w \in Workers, lock = w, Engaged(worker[w])
                 PROVE  Updating
      BY DEF WorkIsVisible
    <2>1. worker[w].pc \in Engaging
      BY WorkerStages DEF VisibleInv, KeepInv
    <2> QED BY <2>1, EngagedUpdating
  <1> QED BY <1>1, SpecVisible, PTL

-----------------------------------------------------------------------------
(***************************************************************************)
(* The release that was known to have failed rests for the day.            *)
(***************************************************************************)
LEMMA RetryTypes ==
  ASSUME VisibleInv
  PROVE  /\ TypeOK /\ day \in Nat /\ Null # day /\ published \in Releases /\ Releases \subseteq Nat
         /\ check \in CheckRec /\ timer.resting \subseteq Releases /\ check.resting \subseteq Releases
         /\ \A r \in Releases : failures[r] = Null \/ failures[r] \in Nat
         /\ failures \in [Releases -> 0..MaxDays \cup {Null}]
  BY TypeByName, WorkerAssumption DEF VisibleInv, KeepInv, Releases, TimerRec, CheckRec

\* What failed, what runs and what is published stay; a status that is
\* written keeps a failure on record.
LEMMA RetryFrame ==
  ASSUME RetryInv, VisibleInv', UNCHANGED <<day, published, current, failures>>,
         \A w \in Workers :
           /\ worker'[w].target = worker[w].target
           /\ Live(worker'[w]) => Live(worker[w])
           /\ worker'[w].pc = "recording" => worker[w].pc = "recording",
         NoneEngaged => NoneEngaged',
         check'.pc = "idle" \/ UNCHANGED check,
         ~timer'.passed \/ UNCHANGED timer,
         UNCHANGED status \/ OnRecord'
  PROVE  RetryInv'
  <1>1. FailuresKnown' /\ RecordingKnown'
    BY DEF RetryInv, FailuresKnown, RecordingKnown
  <1>2. WorkersNewest'
    BY DEF RetryInv, WorkersNewest, Newest
  <1>3. TimerRested'
    BY DEF RetryInv, TimerRested, Settled
  <1>4. LookRested' /\ LaunchRested'
    BY DEF RetryInv, LookRested, LaunchRested, Newest, Settled
  <1>5. Untried' \/ OnRecord'
    BY DEF RetryInv, Untried, OnRecord
  <1> QED BY <1>1, <1>2, <1>3, <1>4, <1>5 DEF RetryInv

\* A check that may go on, with nothing under way, leaves nothing behind that
\* could still be tried.
LEMMA QuietSettled ==
  ASSUME RetryInv, MayRetry, ~Updating, service.state = "running"
  PROVE  Settled(FailedToday)
  <1>1. VisibleInv /\ Null # day /\ service.run \in Nat
    BY RetryTypes, TypeByName DEF RetryInv, ServiceRec
  <1>2. Untried
    <2> SUFFICES ASSUME OnRecord PROVE FALSE
      BY DEF RetryInv
    <2>1. Phase \in {"failed", "rolled-back"}
      BY DEF OnRecord, Updating, Phase
    <2> QED BY <2>1 DEF MayRetry, OnRecord
  <1>3. NoneEngaged
    BY <1>1, EngagedUpdating DEF NoneEngaged, Running
  <1>4. check.pc # "launching"
    <2> SUFFICES ASSUME InProgress(service.run) PROVE FALSE
      BY <1>1 DEF VisibleInv, LaunchVisible
    <2>1. Alive(service.run)
      BY <1>1, AliveService
    <2> QED BY <2>1 DEF InProgress, Updating, Phase, Interrupted
  <1> QED BY <1>1, <1>2, <1>3, <1>4 DEF Settled, FailedToday, Untried

LEMMA CheckAutoRests ==
  ASSUME RetryInv, CheckAuto
  PROVE  RetryInv'
  <1>1. TypeOK /\ VisibleInv'
    BY ChecksVisible, RetryTypes DEF RetryInv
  <1>2. /\ service.state = "running"
        /\ UNCHANGED timer
           \/ (MayRetry /\ timer'.resting = IF Updating THEN {} ELSE FailedToday)
        /\ UNCHANGED <<day, published, installed, current, check, status, lock, worker, failures>>
    BY <1>1, CheckAutoEffect
  <1>3. CASE UNCHANGED timer
    <2>1. NoneEngaged => NoneEngaged'
      BY <1>2 DEF NoneEngaged
    <2> QED BY <1>1, <1>2, <1>3, <2>1, RetryFrame
  <1>4. CASE MayRetry /\ timer'.resting = IF Updating THEN {} ELSE FailedToday
    <2>1. FailuresKnown' /\ RecordingKnown' /\ WorkersNewest'
      BY <1>2 DEF RetryInv, FailuresKnown, RecordingKnown, WorkersNewest, Newest
    <2>2. LookRested' /\ LaunchRested'
      BY <1>2 DEF RetryInv, LookRested, LaunchRested, Newest, Settled, NoneEngaged
    <2>3. TimerRested'
      <3>1. CASE timer'.resting = {}
        BY <3>1 DEF TimerRested, Settled
      <3>2. CASE ~Updating /\ timer'.resting = FailedToday
        <4>1. Settled(timer'.resting)
          BY <1>2, <1>4, <3>2, QuietSettled
        <4> QED BY <1>2, <4>1 DEF TimerRested, Settled, NoneEngaged
      <3> QED BY <1>4, <3>1, <3>2
    <2>4. Untried' \/ OnRecord'
      BY <1>2 DEF RetryInv, Untried, OnRecord
    <2> QED BY <1>1, <2>1, <2>2, <2>3, <2>4 DEF RetryInv
  <1> QED BY <1>2, <1>3, <1>4

\* A question to GitHub takes over what rests.
LEMMA AskRests ==
  ASSUME RetryInv, VisibleInv', NEW resting, AskEffect(resting), Settled(resting),
         UNCHANGED <<day, published, current, worker, failures>>,
         ~timer'.passed \/ UNCHANGED timer
  PROVE  RetryInv'
  <1>1. CASE UNCHANGED <<status, check>>
    <2>1. NoneEngaged => NoneEngaged'
      BY DEF NoneEngaged
    <2> QED BY <1>1, <2>1, RetryFrame
  <1>2. CASE /\ Written("checking", Null, service.run)
             /\ check'.pc = "looking" /\ check'.resting = resting
    <2>1. FailuresKnown' /\ RecordingKnown' /\ WorkersNewest' /\ LaunchRested'
      BY <1>2 DEF RetryInv, FailuresKnown, RecordingKnown, WorkersNewest, LaunchRested, Newest
    <2>2. TimerRested'
      BY <1>2 DEF RetryInv, TimerRested, Settled, NoneEngaged
    <2>3. LookRested'
      BY <1>2 DEF LookRested, Settled, NoneEngaged
    <2>4. OnRecord'
      BY <1>2 DEF Written, OnRecord, Busy
    <2> QED BY <2>1, <2>2, <2>3, <2>4 DEF RetryInv
  <1> QED BY <1>1, <1>2 DEF AskEffect

LEMMA ChecksRest ==
  ASSUME RetryInv, CheckAuto \/ Proceed \/ CheckManual
  PROVE  RetryInv'
  <1>1. TypeOK /\ VisibleInv'
    BY ChecksVisible, RetryTypes DEF RetryInv
  <1>2. CASE Proceed
    <2>1. /\ timer.passed /\ timer' = NoTimer /\ AskEffect(timer.resting)
          /\ UNCHANGED <<day, published, current, worker, failures>>
      BY <1>1, <1>2, ProceedEffect DEF AskEffect
    <2>2. Settled(timer.resting) /\ ~timer'.passed
      BY <2>1, Idle DEF RetryInv, TimerRested
    <2> QED BY <1>1, <2>1, <2>2, AskRests
  <1>3. CASE CheckManual
    <2>1. /\ AskEffect({})
          /\ UNCHANGED <<day, published, current, worker, failures, timer>>
      BY <1>1, <1>3, AskHasEffect DEF CheckManual
    <2>2. Settled({})
      BY DEF Settled
    <2> QED BY <1>1, <2>1, <2>2, AskRests
  <1> QED BY <1>2, <1>3, CheckAutoRests

LEMMA LookRests ==
  ASSUME Calm, RetryInv, Look
  PROVE  RetryInv'
  <1>1. VisibleInv /\ VisibleInv' /\ check \in CheckRec /\ NoCheck.pc = "idle"
    BY LookVisible, RetryTypes, Idle DEF RetryInv
  <1>2. /\ UNCHANGED <<day, published, installed, current, service, timer, lock, worker, failures>>
        /\ check.pc = "looking" /\ Settled(check.resting)
    BY DEF Look, RetryInv, LookRested
  <1>3. NoneEngaged => NoneEngaged'
    BY <1>2 DEF NoneEngaged
  <1>4. CASE Tried("failed", Null, service.run) /\ check' = NoCheck
    <2>1. OnRecord'
      BY <1>2, <1>4, CalmWrites DEF Written, OnRecord
    <2> QED BY <1>1, <1>2, <1>3, <1>4, <2>1, RetryFrame
  <1>5. CASE published = current /\ check' = NoCheck
    <2>1. FailuresKnown' /\ RecordingKnown' /\ WorkersNewest' /\ Untried'
      BY <1>2, <1>5 DEF RetryInv, FailuresKnown, RecordingKnown, WorkersNewest, Newest, Untried
    <2>2. TimerRested' /\ LookRested' /\ LaunchRested'
      BY <1>1, <1>2, <1>3, <1>5 DEF RetryInv, TimerRested, LookRested, LaunchRested, Settled
    <2> QED BY <1>1, <2>1, <2>2 DEF RetryInv
  <1>6. CASE /\ published # current /\ Written("scheduled", published, service.run)
             /\ check' = [check EXCEPT !.pc = "launching", !.target = published]
    <2>1. published \in Releases /\ Releases \subseteq Nat
      BY <1>1, RetryTypes
    <2>2. check'.pc = "launching" /\ check'.target = published /\ check'.resting = check.resting
      BY <1>1, <1>6, <2>1, CheckFields
    <2>3. Newest(published)
      BY <2>1 DEF Newest, RetryInv, FailuresKnown
    <2>4. LaunchRested' /\ LookRested'
      BY <1>2, <1>6, <2>2, <2>3 DEF LaunchRested, LookRested, Settled, Newest
    <2>5. TimerRested'
      BY <1>2, <1>6 DEF RetryInv, TimerRested, Settled
    <2>6. FailuresKnown' /\ RecordingKnown' /\ WorkersNewest'
      BY <1>2 DEF RetryInv, FailuresKnown, RecordingKnown, WorkersNewest, Newest
    <2>7. OnRecord'
      BY <1>2, <1>6 DEF Written, OnRecord, Busy
    <2> QED BY <1>1, <2>4, <2>5, <2>6, <2>7 DEF RetryInv
  <1> QED BY <1>4, <1>5, <1>6 DEF Look

LEMMA LaunchRests ==
  ASSUME Calm, RetryInv, Launch
  PROVE  RetryInv'
  <1>1. VisibleInv /\ VisibleInv' /\ TypeOK /\ NoCheck.pc = "idle"
    BY LaunchVisibly, RetryTypes, Idle DEF RetryInv
  <1>2. /\ check.pc = "launching" /\ check' = NoCheck
        /\ UNCHANGED <<day, published, installed, current, service, timer, lock, failures>>
        /\ \/ \E w \in Workers : Launched(w)
           \/ Tried("failed", Null, service.run) /\ UNCHANGED worker
    BY <1>1, LaunchHasEffect
  <1>3. CASE Tried("failed", Null, service.run) /\ UNCHANGED worker
    <2>1. OnRecord'
      BY <1>2, <1>3, CalmWrites DEF Written, OnRecord
    <2>2. NoneEngaged => NoneEngaged'
      BY <1>3 DEF NoneEngaged
    <2> QED BY <1>1, <1>2, <1>3, <2>1, <2>2, RetryFrame
  <1>4. ASSUME NEW w \in Workers, Launched(w)
        PROVE  RetryInv'
    <2>1. /\ UNCHANGED status /\ worker'[w].target = check.target /\ worker'[w].pc = "locking"
          /\ \A v \in Workers \ {w} : worker'[v] = worker[v]
      BY <1>4 DEF Launched
    <2>2. WorkersNewest'
      BY <1>2, <2>1 DEF RetryInv, WorkersNewest, LaunchRested, Newest
    <2>3. FailuresKnown' /\ RecordingKnown'
      BY <1>2, <2>1 DEF RetryInv, FailuresKnown, RecordingKnown
    <2>4. TimerRested' /\ LookRested' /\ LaunchRested'
      BY <1>1, <1>2 DEF RetryInv, TimerRested, LookRested, LaunchRested, Settled
    <2>5. Untried' \/ OnRecord'
      BY <1>2, <2>1 DEF RetryInv, Untried, OnRecord
    <2> QED BY <1>1, <2>2, <2>3, <2>4, <2>5 DEF RetryInv
  <1> QED BY <1>2, <1>3, <1>4

\* A worker that may still fail keeps that on record.
LEMMA EngagedOnRecord ==
  ASSUME VisibleInv, NEW w \in Workers, Engaged(worker[w])
  PROVE  OnRecord
  <1>1. worker[w].pc \in Engaging \cup {"locking"}
    BY WorkerStages DEF VisibleInv
  <1> QED BY <1>1 DEF VisibleInv, LockVisible, WorkVisible, InProgress, OnRecord

LEMMA PublishRests ==
  ASSUME RetryInv, VisibleInv', Publish
  PROVE  RetryInv'
  <1>1. /\ VisibleInv /\ published \in Releases /\ Releases \subseteq Nat
        /\ \A r \in Releases : failures[r] # Null => r <= published /\ failures[r] <= day
        /\ timer.resting \subseteq Releases /\ check.resting \subseteq Releases
        /\ Null # day
    BY RetryTypes DEF RetryInv, FailuresKnown
  <1>2. /\ published' = published + 1 /\ published' \in Releases /\ published \in Nat
        /\ UNCHANGED <<day, current, timer, check, status, worker, failures>>
    BY <1>1, WorkerAssumption DEF Publish, Releases
  <1>3. FailuresKnown' /\ RecordingKnown'
    <2>1. ASSUME NEW r \in Releases, failures[r] # Null
          PROVE  r <= published' /\ failures[r] <= day
      <3>1. r <= published /\ failures[r] <= day /\ r \in Nat
        BY <1>1, <2>1
      <3> QED BY <1>2, <3>1
    <2> QED BY <1>2, <2>1 DEF FailuresKnown, RetryInv, RecordingKnown
  <1>4. failures[published'] = Null
    <2> SUFFICES ASSUME failures[published'] # Null PROVE FALSE
      OBVIOUS
    <2>1. published' <= published
      BY <1>1, <1>2
    <2> QED BY <1>2, <2>1
  <1>5. Untried'
    BY <1>1, <1>2, <1>4 DEF Untried
  <1>6. \A r \in Releases : Newest(r) => r <= published'
    <2> SUFFICES ASSUME NEW r \in Releases, r <= published PROVE r <= published'
      BY DEF Newest
    <2>1. r \in Nat
      BY <1>1
    <2> QED BY <1>2, <2>1
  <1>7. WorkersNewest'
    <2> SUFFICES ASSUME NEW w \in Workers, Live(worker[w])
                 PROVE  Newest(worker[w].target)'
      BY <1>2 DEF WorkersNewest
    <2>1. Newest(worker[w].target)
      BY DEF RetryInv, WorkersNewest
    <2>2. worker[w].target \in Releases
      BY <1>1, AtWork DEF VisibleInv, Live
    <2> QED BY <1>2, <1>6, <2>1, <2>2 DEF Newest
  <1>8. LaunchRested'
    <2> SUFFICES ASSUME check.pc = "launching"
                 PROVE  Newest(check.target)' /\ check.target \notin check.resting
      BY <1>2 DEF LaunchRested
    <2>1. check.target \in Releases
      BY <1>1 DEF VisibleInv, KeepInv
    <2> QED BY <1>2, <1>6, <2>1 DEF RetryInv, LaunchRested, Newest
  <1>9. TimerRested' /\ LookRested'
    BY <1>2, <1>4 DEF RetryInv, TimerRested, LookRested, Settled
  <1> QED BY <1>3, <1>5, <1>7, <1>8, <1>9 DEF RetryInv

LEMMA NewDayRests ==
  ASSUME Calm, RetryInv, VisibleInv', NewDay
  PROVE  RetryInv'
  <1>1. VisibleInv /\ published \in Releases /\ day \in Nat /\ Null \notin Nat
    BY RetryTypes, WorkerAssumption DEF RetryInv
  <1>2. /\ day' = day + 1 /\ check.pc = "idle" /\ ~timer.passed
        /\ \A w \in Workers : ~Live(worker[w])
        /\ UNCHANGED <<published, current, timer, check, status, worker, failures>>
    BY DEF NewDay, Calm
  <1>3. \A r \in Releases : failures[r] # Null =>
          failures[r] \in Nat /\ failures[r] <= day /\ r <= published
    BY <1>1, RetryTypes DEF RetryInv, FailuresKnown
  <1>4. FailuresKnown'
    <2> SUFFICES ASSUME NEW r \in Releases, failures[r] # Null
                 PROVE  r <= published /\ failures[r] <= day'
      BY <1>2 DEF FailuresKnown
    <2>1. failures[r] \in Nat /\ failures[r] <= day /\ r <= published
      BY <1>3
    <2> QED BY <1>1, <1>2, <2>1
  <1>5. Untried'
    <2> SUFFICES ASSUME failures[published] = day + 1 PROVE FALSE
      BY <1>2 DEF Untried
    <2>1. failures[published] # Null
      BY <1>1
    <2>2. failures[published] <= day
      BY <1>1, <1>3, <2>1
    <2> QED BY <1>1, <2>2
  <1>6. RecordingKnown' /\ WorkersNewest'
    BY <1>2 DEF RecordingKnown, WorkersNewest, Live, Over
  <1>7. TimerRested' /\ LookRested' /\ LaunchRested'
    BY <1>2 DEF TimerRested, LookRested, LaunchRested
  <1> QED BY <1>4, <1>5, <1>6, <1>7 DEF RetryInv

LEMMA RebootRests ==
  ASSUME RetryInv, VisibleInv', Reboot
  PROVE  RetryInv'
  <1>1. /\ VisibleInv /\ TypeOK /\ day \in Nat /\ published \in Releases
        /\ NoCheck.pc = "idle" /\ ~NoTimer.passed
    BY RetryTypes, Idle DEF RetryInv
  <1>2. /\ Killed /\ check' = NoCheck /\ timer' = NoTimer
        /\ UNCHANGED <<day, published, current, status>>
        /\ \A r \in Releases : failures'[r] \in {day, failures[r]}
        /\ \A r \in Releases : failures'[r] # failures[r] =>
             \E w \in Workers : Live(worker[w]) /\ worker[w].target = r
    BY <1>1, RebootHasEffect
  <1>3. \A w \in Workers : ~Live(worker'[w])
    BY <1>2 DEF Killed
  <1>4. RecordingKnown' /\ WorkersNewest' /\ TimerRested' /\ LookRested' /\ LaunchRested'
    BY <1>1, <1>2, <1>3
       DEF RecordingKnown, WorkersNewest, TimerRested, LookRested, LaunchRested, Live, Over
  <1>5. FailuresKnown'
    <2> SUFFICES ASSUME NEW r \in Releases, failures'[r] # Null
                 PROVE  r <= published /\ failures'[r] <= day
      BY <1>2 DEF FailuresKnown
    <2>1. CASE failures'[r] = failures[r]
      BY <2>1 DEF RetryInv, FailuresKnown
    <2>2. CASE failures'[r] # failures[r]
      <3>1. failures'[r] = day /\ Newest(r)
        BY <1>2, <2>2 DEF RetryInv, WorkersNewest
      <3> QED BY <1>1, <3>1 DEF Newest
    <2> QED BY <2>1, <2>2
  <1>6. Untried' \/ OnRecord'
    <2>1. CASE NoneEngaged
      <3>1. failures'[published] = failures[published]
        <4> SUFFICES ASSUME failures'[published] # failures[published] PROVE FALSE
          OBVIOUS
        <4>1. PICK w \in Workers : Live(worker[w]) /\ worker[w].target = published
          BY <1>1, <1>2
        <4>2. worker[w].pc = "recording"
          BY <2>1, <4>1 DEF NoneEngaged, Engaged
        <4>3. failures[published] = day
          BY <4>1, <4>2 DEF RetryInv, RecordingKnown
        <4> QED BY <1>1, <1>2, <4>3
      <3> QED BY <1>2, <3>1 DEF RetryInv, Untried, OnRecord
    <2>2. CASE ~NoneEngaged
      <3>1. OnRecord
        BY <1>1, <2>2, EngagedOnRecord DEF NoneEngaged
      <3> QED BY <1>2, <3>1 DEF OnRecord
    <2> QED BY <2>1, <2>2
  <1> QED BY <1>4, <1>5, <1>6 DEF RetryInv

LEMMA SurroundingsRest ==
  ASSUME Calm, RetryInv, Obey \/ Crash \/ Recover \/ Publish \/ NewDay \/ Reboot
  PROVE  RetryInv'
  <1>1. VisibleInv' /\ NoCheck.pc = "idle" /\ ~NoTimer.passed
    BY SurroundingsVisible, Idle DEF RetryInv
  <1>2. CASE Obey \/ Crash \/ Recover
    <2>1. /\ UNCHANGED <<day, published, current, failures, status, worker>>
          /\ check'.pc = "idle" \/ UNCHANGED check
          /\ ~timer'.passed \/ UNCHANGED timer
      BY <1>1, <1>2 DEF Obey, Crash, Recover
    <2>2. NoneEngaged => NoneEngaged'
      BY <2>1 DEF NoneEngaged
    <2> QED BY <1>1, <2>1, <2>2, RetryFrame
  <1> QED BY <1>1, <1>2, PublishRests, NewDayRests, RebootRests

LEMMA WatchRests ==
  ASSUME Calm, RetryInv, NEW w \in Workers, Watch(w)
  PROVE  RetryInv'
  <1>1. VisibleInv /\ VisibleInv' /\ TypeOK
    BY WatchVisible, RetryTypes DEF RetryInv
  <1>2. /\ Waited(w) /\ UNCHANGED <<day, published, current, timer, check, failures>>
        /\ Tried("failed", worker[w].target, worker[w].launcher) \/ UNCHANGED status
    BY <1>1, WatchHasEffect
  <1>3. \A v \in Workers :
          worker'[v].target = worker[v].target /\ worker'[v].pc = worker[v].pc
    BY <1>2 DEF Waited
  <1>4. /\ \A v \in Workers : Live(worker'[v]) => Live(worker[v])
        /\ NoneEngaged => NoneEngaged'
    BY <1>3 DEF Live, Over, NoneEngaged, Engaged
  <1>5. UNCHANGED status \/ OnRecord'
    BY <1>2, CalmWrites DEF Written, OnRecord
  <1> QED BY <1>1, <1>2, <1>3, <1>4, <1>5, RetryFrame

\* While a worker is engaged no release of an earlier check can be launched.
LEMMA EngagedRests ==
  ASSUME RetryInv, NEW w \in Workers, Engaged(worker[w]), UNCHANGED <<published, timer>>,
         \A r \in Releases : failures[r] # Null => failures'[r] # Null
  PROVE  TimerRested'
  <1>1. timer.resting \subseteq Releases
    BY RetryTypes DEF RetryInv
  <1>2. timer.passed => published \notin timer.resting
    BY DEF RetryInv, TimerRested, Settled, NoneEngaged
  <1> QED BY <1>1, <1>2 DEF RetryInv, TimerRested, Settled

\* A worker that fails puts its failure on record.
LEMMA FailureRests ==
  ASSUME Calm, RetryInv, VisibleInv', NEW w \in Workers, Work(w), ~Leave(w), ~RollsBack(w),
         GivesUp(w) \/ Concedes(w)
  PROVE  RetryInv'
  <1>1. /\ VisibleInv /\ day \in Nat /\ Null # day /\ Releases \subseteq Nat
        /\ failures \in [Releases -> 0..MaxDays \cup {Null}]
    BY RetryTypes DEF RetryInv
  <1>2. /\ Live(worker[w]) /\ Engaged(worker[w]) /\ check'.pc = "idle"
        /\ UNCHANGED <<day, published, timer>>
        /\ \A v \in Workers \ {w} : ~Live(worker[v]) /\ worker'[v] = worker[v]
        /\ worker'[w].target = worker[w].target /\ worker[w].target \in Releases
    BY <1>1, WorksAlone
  <1>3. failures' = [failures EXCEPT ![worker[w].target] = day]
    BY DEF GivesUp, Concedes
  <1>4. /\ \A r \in Releases : r = worker[w].target => failures'[r] = day
        /\ \A r \in Releases : r # worker[w].target => failures'[r] = failures[r]
    BY <1>1, <1>3
  <1>5. OnRecord'
    <2>1. Written("failed", worker[w].target, w)
      BY CalmWrites DEF GivesUp, Concedes
    <2> QED BY <1>2, <2>1 DEF Written, OnRecord
  <1>6. TimerRested' /\ LookRested' /\ LaunchRested'
    BY <1>1, <1>2, <1>4, EngagedRests DEF LookRested, LaunchRested
  <1>7. Newest(worker[w].target)
    BY <1>2 DEF RetryInv, WorkersNewest
  <1>8. WorkersNewest'
    <2> SUFFICES ASSUME NEW v \in Workers, Live(worker'[v])
                 PROVE  Newest(worker[w].target)' /\ worker'[v].target = worker[w].target
      BY <1>2 DEF WorkersNewest, Newest
    <2>1. v = w
      BY <1>2
    <2>2. ASSUME NEW r \in Releases, failures'[r] # Null
          PROVE  r <= worker[w].target
      <3>1. r \in Nat
        BY <1>1
      <3> QED BY <1>4, <1>7, <2>2, <3>1 DEF Newest
    <2> QED BY <1>2, <1>7, <2>1, <2>2 DEF Newest
  <1>9. RecordingKnown'
    BY <1>2, <1>4 DEF RecordingKnown, Live, Over
  <1>10. FailuresKnown'
    <2> SUFFICES ASSUME NEW r \in Releases, failures'[r] # Null
                 PROVE  r <= published /\ failures'[r] <= day
      BY <1>2 DEF FailuresKnown
    <2>1. CASE r = worker[w].target
      BY <1>1, <1>4, <1>7, <2>1 DEF Newest
    <2>2. CASE r # worker[w].target
      BY <1>4, <2>2 DEF RetryInv, FailuresKnown
    <2> QED BY <2>1, <2>2
  <1> QED BY <1>5, <1>6, <1>8, <1>9, <1>10 DEF RetryInv

LEMMA WorkRests ==
  ASSUME Calm, RetryInv, NEW w \in Workers, Work(w)
  PROVE  RetryInv'
  <1>1. VisibleInv /\ VisibleInv' /\ KeepInv
    BY WorkVisibly DEF RetryInv, VisibleInv
  <1>2. CASE Leave(w)
    <2>1. UNCHANGED <<day, published, current, timer, check, status, worker, failures>>
      BY <1>2 DEF Leave
    <2>2. NoneEngaged => NoneEngaged'
      BY <2>1 DEF NoneEngaged
    <2> QED BY <1>1, <2>1, <2>2, RetryFrame
  <1>3. CASE RollsBack(w)
    <2>1. /\ UNCHANGED <<day, published, current, timer, check, failures>>
          /\ worker'[w].pc = "rolledback" /\ worker'[w].target = worker[w].target
          /\ \A v \in Workers \ {w} : worker'[v] = worker[v]
      BY <1>1, <1>3, WorkHasEffect DEF WorkEffect, RollsBack, Moved
    <2>2. \A v \in Workers :
            /\ worker'[v].target = worker[v].target
            /\ Live(worker'[v]) => Live(worker[v])
            /\ worker'[v].pc = "recording" => worker[v].pc = "recording"
            /\ Engaged(worker'[v]) => Engaged(worker[v])
      BY <2>1 DEF Live, Over, Engaged
    <2>3. NoneEngaged => NoneEngaged'
      BY <2>2 DEF NoneEngaged
    <2>4. OnRecord'
      <3>1. Written("rolled-back", worker[w].target, w)
        BY <1>3, CalmWrites DEF RollsBack
      <3> QED BY <2>1, <3>1 DEF Written, OnRecord
    <2> QED BY <1>1, <2>1, <2>2, <2>3, <2>4, RetryFrame
  <1>4. CASE ~Leave(w) /\ ~RollsBack(w)
    <2>1. /\ Live(worker[w]) /\ Engaged(worker[w]) /\ check'.pc = "idle"
          /\ UNCHANGED <<day, published, timer>>
          /\ \A v \in Workers \ {w} : ~Live(worker[v]) /\ worker'[v] = worker[v]
          /\ worker'[w].target = worker[w].target /\ worker[w].target \in Releases
          /\ GoesOn(w) \/ GivesUp(w) \/ Succeeds(w) \/ Concedes(w)
      BY <1>1, <1>4, WorksAlone
    <2>2. CASE GivesUp(w) \/ Concedes(w)
      BY <1>1, <1>4, <2>2, FailureRests
    <2>3. CASE GoesOn(w) \/ Succeeds(w)
      <3>1. UNCHANGED failures /\ worker'[w].pc # "recording"
        BY <2>3 DEF GoesOn, Succeeds, Moved, Engaging, Before, Activating
      <3>2. FailuresKnown' /\ WorkersNewest' /\ LookRested' /\ LaunchRested'
        BY <2>1, <3>1 DEF RetryInv, FailuresKnown, WorkersNewest, Newest, LookRested,
                          LaunchRested
      <3>3. RecordingKnown'
        BY <2>1, <3>1 DEF RecordingKnown, Live, Over
      <3>4. TimerRested'
        BY <2>1, <3>1, EngagedRests
      <3>5. CASE GoesOn(w)
        <4>1. InProgress(w)'
          BY <1>1, <3>5 DEF VisibleInv, WorkVisible, GoesOn
        <4>2. OnRecord'
          BY <4>1 DEF InProgress, OnRecord
        <4> QED BY <1>1, <3>2, <3>3, <3>4, <4>2 DEF RetryInv
      <3>6. CASE Succeeds(w)
        <4>1. UNCHANGED current /\ worker[w].pc = "succeeding"
          BY <3>6 DEF Succeeds
        <4>2. current = worker[w].target
          BY <1>1, <4>1, AtWork DEF Holds, Serving, Working, Engaging, Activating
        <4>3. Newest(worker[w].target)
          BY <2>1 DEF RetryInv, WorkersNewest
        <4>4. Untried'
          <5> SUFFICES ASSUME failures[published] = day PROVE published = current
            BY <2>1, <3>1, <4>1 DEF Untried
          <5>1. published \in Releases /\ failures[published] # Null /\ Releases \subseteq Nat
            BY <1>1, RetryTypes
          <5>2. published <= worker[w].target /\ worker[w].target <= published
            BY <4>3, <5>1 DEF Newest
          <5>3. published \in Nat /\ worker[w].target \in Nat
            BY <2>1, <5>1
          <5> QED BY <4>2, <5>2, <5>3
        <4> QED BY <1>1, <3>2, <3>3, <3>4, <4>4 DEF RetryInv
      <3> QED BY <2>3, <3>5, <3>6
    <2> QED BY <2>1, <2>2, <2>3
  <1> QED BY <1>2, <1>3, <1>4

LEMMA RetryInit == Init => RetryInv
  <1> SUFFICES ASSUME Init PROVE RetryInv
    OBVIOUS
  <1>1. VisibleInv
    BY VisibleInit
  <1>2. /\ \A r \in Releases : failures[r] = Null
        /\ \A w \in Workers : worker[w].pc = "new"
        /\ check.pc = "idle" /\ ~timer.passed
    BY Idle DEF Init, NewWorker
  <1>3. Null # day /\ published \in Releases
    BY <1>1, RetryTypes
  <1> QED BY <1>1, <1>2, <1>3
          DEF RetryInv, FailuresKnown, WorkersNewest, RecordingKnown, TimerRested, LookRested,
              LaunchRested, Untried, Live

LEMMA RetryStep ==
  ASSUME Calm
  PROVE  RetryInv /\ [Next]_vars => RetryInv'
  <1> SUFFICES ASSUME RetryInv, [Next]_vars PROVE RetryInv'
    OBVIOUS
  <1>1. CASE UNCHANGED vars
    <2>1. VisibleInv'
      BY <1>1, VisibleStep DEF RetryInv
    <2>2. NoneEngaged => NoneEngaged'
      BY <1>1 DEF vars, NoneEngaged
    <2> QED BY <1>1, <2>1, <2>2, RetryFrame DEF vars
  <1>2. CASE Next
    BY <1>2, ChecksRest, LookRests, LaunchRests, SurroundingsRest, WatchRests, WorkRests
       DEF Next, Coordinate
  <1> QED BY <1>1, <1>2

LEMMA SpecRetry ==
  ASSUME Calm
  PROVE  Spec => []RetryInv
  BY RetryInit, RetryStep, PTL DEF Spec

Rested ==
  \A w \in Workers :
    worker[w].pc = "new" /\ worker'[w].pc # "new" => worker'[w].target \notin check.resting

LEMMA StepRested ==
  ASSUME RetryInv, Next
  PROVE  Rested
  <1>1. VisibleInv /\ KeepInv /\ TypeOK
    BY RetryTypes DEF RetryInv, VisibleInv
  <1>2. CASE Launch
    <2>1. check.pc = "launching" /\ ((\E w \in Workers : Launched(w)) \/ UNCHANGED worker)
      BY <1>1, <1>2, LaunchHasEffect
    <2> QED BY <2>1 DEF Launched, Rested, RetryInv, LaunchRested
  <1>3. ASSUME NEW v \in Workers, Work(v)
        PROVE  Rested
    <2>1. CASE Leave(v)
      BY <2>1 DEF Leave, Rested
    <2>2. CASE RollsBack(v)
      BY <2>2 DEF RollsBack, Moved, Rested
    <2>3. CASE ~Leave(v) /\ ~RollsBack(v)
      <3>1. Live(worker[v]) /\ \A w \in Workers \ {v} : worker'[w] = worker[w]
        BY <1>1, <1>3, <2>3, WorksAlone
      <3> QED BY <3>1 DEF Rested, Live
    <2> QED BY <2>1, <2>2, <2>3
  <1>4. ASSUME NEW v \in Workers, Watch(v)
        PROVE  Rested
    BY <1>1, <1>4, WatchHasEffect DEF Waited, Rested
  <1>5. CASE Reboot
    BY <1>1, <1>5, RebootHasEffect DEF Killed, Rested
  <1>6. CASE \/ CheckAuto \/ Proceed \/ CheckManual \/ Look
             \/ Obey \/ Crash \/ Recover \/ Publish \/ NewDay
    BY <1>6 DEF CheckAuto, Proceed, CheckManual, Look, Obey, Crash, Recover, Publish, NewDay,
                Rested
  <1> QED BY <1>2, <1>3, <1>4, <1>5, <1>6 DEF Next, Coordinate

(* Under the same assumption, a release whose update had failed that day   *)
(* when an automatic check began, with nothing under way, is not what the  *)
(* check launches, across restarts of the service, lost power and checks   *)
(* by hand (checkAutomatically, checkAndSchedule, writeUpdateStatus).      *)
THEOREM KnownFailureRestsTheorem ==
  ASSUME Calm
  PROVE  Spec => KnownFailureRests
  <1>1. RetryInv /\ [Next]_vars => [Rested]_vars
    BY StepRested DEF Rested, vars
  <1> HIDE DEF Rested
  <1>2. Spec => [][Rested]_vars
    BY <1>1, SpecRetry, PTL DEF Spec
  <1> QED BY <1>2 DEF KnownFailureRests, Rested

=============================================================================
