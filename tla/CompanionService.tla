-------------------------- MODULE CompanionService --------------------------
(***************************************************************************)
(* The Windows Companion service: its HTTP handlers (api.go), the replay   *)
(* guard, the power executor (shutdown_windows.go) and the pairing secret  *)
(* (config_windows.go), with the panel's side of a signed exchange         *)
(* (requestCompanionPayload of server/core/remote.ts).                     *)
(*                                                                         *)
(* Each HTTP request runs in a goroutine of its own: a delivery.  A step   *)
(* is the code between two points where another goroutine, a rotation or   *)
(* a stop of the service can matter: a lock, a read of the clock that is   *)
(* used later, a command given to Windows.  The network may deliver a      *)
(* message late, several times or never, and may lose the answer.          *)
(*                                                                         *)
(* A message is signed by the key it was sent with; it is well formed, and *)
(* its nonce is the message itself (randomBytes never repeats one).  Bodies *)
(* that fail validation end before any state changes and are left out.     *)
(* /v1/update has its own module.                                          *)
(***************************************************************************)
EXTENDS Integers

CONSTANTS
  Msgs,        \* messages the panel may sign, each once
  Deliveries,  \* HTTP requests that may reach the service, each used once
  Action,      \* Msgs -> what the message asks for
  Secrets,     \* pairing secrets
  Null,
  Window,      \* verifyRequest: 60 seconds either way
  Retention,   \* tryUse: nonces are kept for 5 minutes
  Cooldown,    \* shutdownCooldown
  Stall,       \* assumed: longest pause of a goroutine within authenticate
  MaxSkew,     \* bound: difference between the clocks of panel and PC
  MaxRuns,     \* bound: how often the service is started
  MaxTime      \* bound: the clock stops here

ASSUME NullAssumption ==
  /\ Null \notin Int /\ Null \notin Secrets /\ Null \notin Msgs
  /\ Null \notin [key: Secrets, ts: Int]
  /\ Null \notin {"rejected", "ok", "accepted", "refused", "error"}

ASSUME ServiceAssumption ==
  /\ Action \in [Msgs -> {"status", "shutdown", "suspend"}]
  /\ Secrets # {}
  /\ Window \in Nat /\ Retention \in Nat /\ Stall \in Nat
  /\ Cooldown \in Nat \ {0}
  /\ MaxSkew \in Nat /\ MaxRuns \in Nat /\ MaxTime \in Nat

\* What the retention of nonces has to cover.
ASSUME RetentionAssumption == 2 * Window + Stall <= Retention

VARIABLES
  clock,
  \* The panel.
  paired,    \* the secret stored for the device
  sent,      \* Msgs -> key and timestamp of the message, or Null
  result,    \* Msgs -> what the panel concluded
  \* The service.
  run,       \* history: number of the current run
  up,        \* the process is alive
  memory,    \* cfg.EncryptedSecret of the running process
  disk,      \* the same field in config.json
  issued,    \* history: secrets generated so far
  shown,     \* history: the code answered by the last rotation, if it succeeded
  nonces,    \* replayGuard.values: Msgs -> stamp, or Null
  holder,    \* the delivery that holds shutdownExecutor.mu across a command
  last,      \* shutdownExecutor.last
  suspend,   \* the goroutine of trySuspend; not idle = pending
  delivery   \* Deliveries -> progress of the handler

panel == <<paired, sent, result>>
config == <<memory, disk, issued, shown>>
executor == <<holder, last, suspend>>
vars == <<clock, panel, run, up, config, nonces, executor, delivery>>

Stamp == Nat \cup {Null}
Ended == {"answered", "gone"}

DeliveryRec ==
  [pc: {"new", "keyed", "verified", "stamped", "accepted", "recorded", "timed",
        "running", "answering"} \cup Ended,
   msg: Msgs \cup {Null},
   run: Nat,                      \* history: the run that serves it
   key: Secrets \cup {Null},      \* secret read by authenticate, then by writeSigned
   at: Stamp,                     \* verifyRequest's time
   now: Stamp,                    \* time.Now() of the current call
   used: Stamp,                   \* stamp of its nonce, if it was accepted
   began: Stamp,                  \* `last' when its command was admitted
   over: Stamp,                   \* `last' when that command was over
   status: {Null, "rejected", "ok", "accepted", "refused", "error"}]

NewDelivery == [pc |-> "new", msg |-> Null, run |-> 0, key |-> Null, at |-> Null,
                now |-> Null, used |-> Null, began |-> Null, over |-> Null,
                status |-> Null]

Idle == [phase |-> "idle", by |-> Null]

TypeOK ==
  /\ clock \in Nat
  /\ paired \in Secrets
  /\ sent \in [Msgs -> [key: Secrets, ts: Int] \cup {Null}]
  /\ result \in [Msgs -> {"unsent", "waiting", "accepted", "failed"}]
  /\ run \in Nat
  /\ up \in BOOLEAN
  /\ memory \in Secrets /\ disk \in Secrets
  /\ issued \in SUBSET Secrets
  /\ shown \in Secrets \cup {Null}
  /\ nonces \in [Msgs -> Stamp]
  /\ holder \in Deliveries \cup {Null}
  /\ last \in Stamp
  /\ suspend \in [phase: {"idle", "waiting", "running"}, by: Deliveries \cup {Null}]
  /\ delivery \in [Deliveries -> DeliveryRec]

\* A paired PC whose service is running.
Init ==
  /\ clock = 0
  /\ \E k \in Secrets :
       /\ paired = k /\ memory = k /\ disk = k
       /\ issued = {k}
       /\ shown = Null
  /\ sent = [m \in Msgs |-> Null]
  /\ result = [m \in Msgs |-> "unsent"]
  /\ run = 1 /\ up = TRUE
  /\ nonces = [m \in Msgs |-> Null]
  /\ holder = Null /\ last = Null /\ suspend = Idle
  /\ delivery = [d \in Deliveries |-> NewDelivery]

-----------------------------------------------------------------------------
(***************************************************************************)
(* Time.  A goroutine is not frozen for longer than Stall between the      *)
(* check of its timestamp and that of its nonce.                           *)
(***************************************************************************)
Tick ==
  /\ clock < MaxTime
  /\ \A d \in Deliveries :
       delivery[d].pc \in {"verified", "stamped"} => clock < delivery[d].at + Stall
  /\ clock' = clock + 1
  /\ UNCHANGED <<panel, run, up, config, nonces, executor, delivery>>

(***************************************************************************)
(* The panel: requestCompanionPayload.                                     *)
(***************************************************************************)
\* The user copies the pairing code from the tray into the panel.
Pair ==
  /\ up
  /\ paired' = memory
  /\ UNCHANGED <<clock, sent, result, run, up, config, nonces, executor, delivery>>

Send(m) ==
  /\ result[m] = "unsent"
  /\ \E skew \in -MaxSkew..MaxSkew :
       sent' = [sent EXCEPT ![m] = [key |-> paired, ts |-> clock + skew]]
  /\ result' = [result EXCEPT ![m] = "waiting"]
  /\ UNCHANGED <<clock, paired, run, up, config, nonces, executor, delivery>>

\* The panel believes an answer signed with the key of its request.
Verdict(answer, message) ==
  IF answer.key = message.key /\ answer.status \in {"ok", "accepted"}
  THEN "accepted"
  ELSE "failed"

Receive(m, d) ==
  /\ result[m] = "waiting"
  /\ delivery[d].msg = m /\ delivery[d].pc = "answered"
  /\ result' = [result EXCEPT ![m] = Verdict(delivery[d], sent[m])]
  /\ UNCHANGED <<clock, paired, sent, run, up, config, nonces, executor, delivery>>

\* COMPANION_TIMEOUT_MS, or no connection: the request may still be running.
GiveUp(m) ==
  /\ result[m] = "waiting"
  /\ result' = [result EXCEPT ![m] = "failed"]
  /\ UNCHANGED <<clock, paired, sent, run, up, config, nonces, executor, delivery>>

(***************************************************************************)
(* authenticate.                                                           *)
(***************************************************************************)
Set(d, rec) ==
  /\ delivery' = [delivery EXCEPT ![d] = rec]
  /\ UNCHANGED <<clock, panel, run, up>>

\* Plain, unsigned answers: writePlainStatus.
Rejected(rec) == [NewDelivery EXCEPT !.pc = "answered", !.msg = rec.msg,
                                     !.run = rec.run, !.status = "rejected"]

Answering(rec, status) == [rec EXCEPT !.pc = "answering", !.status = status]

\* The request arrives; config.secret() is read.
Arrive(d, m) ==
  /\ up
  /\ delivery[d].pc = "new"
  /\ sent[m] # Null
  /\ Set(d, [NewDelivery EXCEPT !.pc = "keyed", !.msg = m, !.run = run, !.key = memory])
  /\ UNCHANGED <<config, nonces, executor>>

InWindow(ts, now) == ts >= now - Window /\ ts <= now + Window

\* verifyRequest with the time after the secret was read.
Verify(d) ==
  LET message == sent[delivery[d].msg]
      valid == delivery[d].key = message.key /\ InWindow(message.ts, clock)
  IN
  /\ delivery[d].pc = "keyed"
  /\ \/ valid /\ Set(d, [delivery[d] EXCEPT !.pc = "verified", !.at = clock])
     \/ ~valid /\ Set(d, Rejected(delivery[d]))
  /\ UNCHANGED <<config, nonces, executor>>

\* tryUse's time.Now(), before the lock.
ReadNow(d) ==
  /\ delivery[d].pc = "verified"
  /\ Set(d, [delivery[d] EXCEPT !.pc = "stamped", !.now = clock])
  /\ UNCHANGED <<config, nonces, executor>>

\* A guard that forgets a nonce as soon as its own stamp leaves the window.
ExpiredEarly(stamp, now) == stamp # Null => now - stamp > Window

Expired(stamp, now) == stamp # Null => now - stamp > Retention

\* tryUse under the lock: forget old nonces, then admit or refuse this one.
TryUse(d) ==
  LET now == delivery[d].now
      m == delivery[d].msg
      swept == [n \in Msgs |-> IF Expired(nonces[n], now) THEN Null ELSE nonces[n]]
  IN
  /\ delivery[d].pc = "stamped"
  /\ \/ /\ swept[m] # Null
        /\ nonces' = swept
        /\ Set(d, Rejected(delivery[d]))
     \/ /\ swept[m] = Null
        /\ nonces' = [swept EXCEPT ![m] = now]
        /\ Set(d, [delivery[d] EXCEPT !.pc = "accepted", !.used = now,
                                       !.key = Null, !.at = Null, !.now = Null])
  /\ UNCHANGED <<config, executor>>

(***************************************************************************)
(* The accepted request.                                                   *)
(***************************************************************************)
\* recordServerCall rewrites config.json from memory; a failure is only
\* logged.  A status request is then answered.
Record(d) ==
  /\ delivery[d].pc = "accepted"
  /\ disk' \in {memory, disk}
  /\ Set(d, IF Action[delivery[d].msg] = "status"
            THEN Answering(delivery[d], "ok")
            ELSE [delivery[d] EXCEPT !.pc = "recorded"])
  /\ UNCHANGED <<memory, issued, shown, nonces, executor>>

\* trySchedule's time.Now(), before the lock.
ShutdownNow(d) ==
  /\ delivery[d].pc = "recorded" /\ Action[delivery[d].msg] = "shutdown"
  /\ Set(d, [delivery[d] EXCEPT !.pc = "timed", !.now = clock])
  /\ UNCHANGED <<config, nonces, executor>>

\* Off by one second.
CooledDownLate(now) == last # Null => now - last > Cooldown

CooledDown(now) == last # Null => now - last >= Cooldown

Admits(now) == suspend.phase = "idle" /\ CooledDown(now)

\* trySchedule gets the lock: refuse, or keep the lock while shutdown.exe runs.
ShutdownStart(d) ==
  LET now == delivery[d].now IN
  /\ delivery[d].pc = "timed" /\ holder = Null
  /\ \/ /\ ~Admits(now)
        /\ Set(d, Answering(delivery[d], "refused"))
        /\ UNCHANGED executor
     \/ /\ Admits(now)
        /\ last' = now
        /\ holder' = d
        /\ Set(d, [delivery[d] EXCEPT !.pc = "running", !.now = Null,
                                       !.began = now, !.over = now])
        /\ UNCHANGED suspend
  /\ UNCHANGED <<config, nonces>>

\* An answer before Windows said whether it takes the command.
AlwaysTaken(taken) == "accepted"

ShutdownStatus(taken) == IF taken THEN "accepted" ELSE "error"

\* A trySchedule that unlocks on success only.
LockKeptOnError(d, taken) == IF taken THEN Null ELSE d

HolderAfter(d, taken) == Null

ShutdownEnd(d, taken) ==
  /\ delivery[d].pc = "running"
  /\ holder' = HolderAfter(d, taken)
  /\ Set(d, [delivery[d] EXCEPT !.pc = "answering", !.status = ShutdownStatus(taken),
                                !.began = IF taken THEN @ ELSE Null,
                                !.over = IF taken THEN @ ELSE Null])
  /\ UNCHANGED <<config, nonces, last, suspend>>

\* trySuspend under the lock: refuse, fail to prepare, or start the goroutine.
TrySuspend(d) ==
  /\ delivery[d].pc = "recorded" /\ Action[delivery[d].msg] = "suspend"
  /\ holder = Null
  /\ \/ /\ ~Admits(clock)
        /\ Set(d, [Answering(delivery[d], "refused") EXCEPT !.now = clock])
        /\ UNCHANGED executor
     \/ /\ Admits(clock)
        /\ Set(d, Answering(delivery[d], "error"))
        /\ UNCHANGED executor
     \/ /\ Admits(clock)
        /\ last' = clock
        /\ suspend' = [phase |-> "waiting", by |-> d]
        /\ Set(d, [Answering(delivery[d], "accepted") EXCEPT !.began = clock])
        /\ UNCHANGED holder
  /\ UNCHANGED <<config, nonces>>

\* After 300 ms the goroutine calls SetSuspendState, which returns on resume.
SuspendStart ==
  /\ suspend.phase = "waiting"
  /\ suspend' = [suspend EXCEPT !.phase = "running"]
  /\ UNCHANGED <<clock, panel, run, up, config, nonces, holder, last, delivery>>

\* A goroutine that leaves `last' at the time of scheduling.
LastKept(now) == last

LastAfterSuspend(now) == now

\* It succeeded or failed; either way the executor is free again.
SuspendEnd ==
  /\ suspend.phase = "running" /\ holder = Null
  /\ suspend' = Idle
  /\ last' = LastAfterSuspend(clock)
  /\ Set(suspend.by, [delivery[suspend.by] EXCEPT !.over = clock])
  /\ UNCHANGED <<config, nonces, holder>>

\* writeSigned reads the secret again.
Respond(d) ==
  /\ delivery[d].pc = "answering"
  /\ Set(d, [delivery[d] EXCEPT !.pc = "answered", !.key = memory, !.now = Null])
  /\ UNCHANGED <<config, nonces, executor>>

(***************************************************************************)
(* rotateSecret, from the pipe; stops and starts of the service.           *)
(***************************************************************************)
\* A rotation that never reaches config.json.
NotSaved(secret) == disk

Saved(secret) == secret

Rotate ==
  /\ up
  /\ \E k \in Secrets \ issued :
       /\ memory' = k
       /\ issued' = issued \cup {k}
       /\ \/ disk' = Saved(k) /\ shown' = k
          \/ disk' = disk /\ shown' = Null
  /\ UNCHANGED <<clock, panel, run, up, nonces, executor, delivery>>

InFlight(rec) == rec.pc \notin {"new"} \cup Ended

\* A stop that did not wait for the handlers, a crash, or the PC going down.
Stop ==
  /\ up
  /\ up' = FALSE
  /\ delivery' = [d \in Deliveries |-> IF InFlight(delivery[d])
                                       THEN [delivery[d] EXCEPT !.pc = "gone", !.key = Null,
                                              !.at = Null, !.now = Null, !.status = Null]
                                       ELSE delivery[d]]
  /\ holder' = Null /\ suspend' = Idle
  /\ UNCHANGED <<clock, panel, run, config, nonces, last>>

\* loadConfig and newRuntimeState.
Start ==
  /\ ~up /\ run < MaxRuns
  /\ up' = TRUE
  /\ run' = run + 1
  /\ memory' = disk
  /\ nonces' = [m \in Msgs |-> Null]
  /\ last' = Null
  /\ UNCHANGED <<clock, panel, disk, issued, shown, holder, suspend, delivery>>

Handle(d) ==
  \/ Verify(d) \/ ReadNow(d) \/ TryUse(d) \/ Record(d)
  \/ ShutdownNow(d) \/ ShutdownStart(d) \/ (\E taken \in BOOLEAN : ShutdownEnd(d, taken))
  \/ TrySuspend(d) \/ Respond(d)

Suspension == SuspendStart \/ SuspendEnd

Next ==
  \/ Tick
  \/ Pair \/ Rotate
  \/ \E m \in Msgs : Send(m) \/ GiveUp(m)
  \/ \E m \in Msgs, d \in Deliveries : Receive(m, d) \/ Arrive(d, m)
  \/ \E d \in Deliveries : Handle(d)
  \/ Suspension
  \/ Stop \/ Start

Spec == Init /\ [][Next]_vars

(***************************************************************************)
(* Goroutines run; shutdown.exe is killed after four seconds;              *)
(* SetSuspendState returns once the PC is awake.                           *)
(***************************************************************************)
FairSpec ==
  /\ Spec
  /\ \A d \in Deliveries : WF_vars(Handle(d))
  /\ WF_vars(Suspension)

-----------------------------------------------------------------------------
\* Of all the deliveries of one message that a run of the service handles,
\* one at most gets past the replay guard: a nonce is never forgotten while
\* the signed timestamp could still be accepted (authenticate, tryUse).
AcceptedOnce ==
  \A d1, d2 \in Deliveries :
    /\ d1 # d2
    /\ delivery[d1].msg = delivery[d2].msg
    /\ delivery[d1].run = delivery[d2].run
    => delivery[d1].used = Null \/ delivery[d2].used = Null

\* The second of two commands one run gives to Windows starts at least a
\* cooldown after the first was given and, if the first is a suspension,
\* also after the PC came back from it (trySchedule, trySuspend).
CommandsSpaced ==
  \A d1, d2 \in Deliveries :
    /\ d1 # d2
    /\ delivery[d1].began # Null /\ delivery[d2].began # Null
    /\ delivery[d1].run = delivery[d2].run
    /\ delivery[d1].began <= delivery[d2].began
    => /\ delivery[d1].over # Null
       /\ delivery[d1].over + Cooldown <= delivery[d2].began

\* A request is refused for the cooldown only while a suspension of the same
\* run is pending or less than a cooldown has passed since a command was
\* given to Windows, even if Windows did not take that command.
RefusedForCause ==
  [][\A d \in Deliveries :
       delivery[d].status = Null /\ delivery'[d].status = "refused" =>
         \/ \E other \in Deliveries \ {d} :
              delivery[other].began # Null /\ delivery[other].over = Null
         \/ last # Null /\ delivery'[d].now < last + Cooldown]_vars

\* When the panel reports success, the PC was given the command, and not
\* just a duplicate of the request or a request that Windows turned down
\* ("A 202 means Windows accepted the command, not merely that a goroutine
\* started", trySchedule).
SuccessIsReal ==
  \A m \in Msgs :
    result[m] = "accepted" /\ Action[m] # "status" =>
      \E d \in Deliveries : delivery[d].msg = m /\ delivery[d].began # Null

\* The code a rotation answered stays the one the service accepts and will
\* load again, across recorded calls, stops and starts, until the next
\* rotation (rotateSecret, recordServerCall, loadConfig).
ShownCodeDurable ==
  shown # Null => disk = shown /\ (up => memory = shown)

\* A pending suspension never blocks the executor for good, and every
\* request the service took is answered or ends with the process.
RequestsEnd ==
  /\ suspend.phase # "idle" ~> suspend.phase = "idle"
  /\ \A d \in Deliveries : delivery[d].pc # "new" ~> delivery[d].pc \in Ended
=============================================================================
