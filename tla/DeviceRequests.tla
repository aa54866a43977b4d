--------------------------- MODULE DeviceRequests ---------------------------
(***************************************************************************)
(* The homelab server's device handlers over one SQLite file: wakeDevice   *)
(* and powerDevice/shutdownDevice of server/core/service.ts, the device    *)
(* routes of server/api/devices and the statements of DeviceStore that     *)
(* they run.                                                               *)
(*                                                                         *)
(* A step is one SQL statement, or the arrival of a network answer.  A     *)
(* Node process runs one handler at a time between two awaits: loop[p]     *)
(* holds the request whose synchronous section occupies the event loop of  *)
(* process p.  With one process every synchronous section is atomic; with  *)
(* several processes on the same file (claimWake's comment, and the tests  *)
(* that open a database twice) their statements interleave.                *)
(*                                                                         *)
(* Each request is used once.  `now' is the instant a store method took    *)
(* from Date.now() when it was called, which may be older than the         *)
(* statement that uses it: SQLite makes a writer wait for the file lock.   *)
(***************************************************************************)
EXTENDS DeviceRows

CONSTANTS
  Procs,          \* server processes sharing the database file
  WakeReqs,       \* POST /devices/:id/wake
  PowerReqs,      \* POST /devices/:id/power and /devices/:id/shutdown
  EditReqs,       \* PATCH /devices/:id
  ProbeReqs,      \* the probe of one device within GET /devices/status
  ProcOf,         \* the process that serves each request
  Inputs,         \* request bodies that may be submitted
  SshConfigured,  \* settings.ssh is present
  MaxTime         \* bound: the clock stops here

Reqs == WakeReqs \cup PowerReqs \cup EditReqs \cup ProbeReqs

ASSUME RequestAssumption ==
  /\ ProcOf \in [Reqs -> Procs]
  /\ Inputs \subseteq Input
  /\ SshConfigured \in BOOLEAN
  /\ MaxTime \in Nat

\* A request is handled by one route.
ASSUME KindAssumption ==
  /\ WakeReqs \cap (PowerReqs \cup EditReqs \cup ProbeReqs) = {}
  /\ PowerReqs \cap (EditReqs \cup ProbeReqs) = {}
  /\ EditReqs \cap ProbeReqs = {}

VARIABLES
  devices,    \* the devices table: Ids -> row, Unused or Deleted
  clock,      \* Date.now()
  loop,       \* Procs -> the requests in a synchronous section: one at most
  wake,       \* WakeReqs -> progress of the handler
  power,      \* PowerReqs -> progress of the handler
  edit,       \* EditReqs -> progress of the handler
  probe,      \* ProbeReqs -> progress of the probe
  edits,      \* history: Ids -> number of UPDATEs by update()
  targets     \* history: Ids -> number of those that changed the target

vars == <<devices, clock, loop, wake, power, edit, probe, edits, targets>>
history == <<edits, targets>>

\* "refused": answered 429.  "done": any other answer, or the process died.
Ended == {"done", "refused"}

WakeRec == [pc: {"new", "claim", "read", "sending", "mark", "get"} \cup Ended,
            dev: Ids \cup {Null},
            now: Stamp,                 \* Date.now() of the current store call
            claim: Stamp,               \* stamp it wrote, if granted
            mac: Macs \cup {Null},      \* target of the packet
            sent: BOOLEAN]              \* history: the socket confirmed it

Target == [address: Addresses, method: {"ssh", "companion"}, cred: Creds]

PowerRec == [pc: {"new", "method", "target", "claim", "secret", "sending"} \cup Ended,
             dev: Ids \cup {Null},
             suspend: BOOLEAN,           \* sleep or hibernate
             now: Stamp,
             target: Target \cup {Null}, \* claimShutdown's row, then what is sent
             claim: Stamp,
             epoch: Nat]                 \* history: targets[dev] at the claim

EditRec == [pc: {"new", "parse", "current", "write", "get"} \cup Ended,
            dev: Ids \cup {Null},
            now: Stamp,
            input: Inputs \cup {Null},
            parsed: Input \cup {Null}]

Snapshot == [mac: Macs, address: Addresses \cup {Null}, updatedAt: Nat]

ProbeRec == [pc: {"new", "probing", "checked"} \cup Ended,
             dev: Ids \cup {Null},
             snapshot: Snapshot \cup {Null},  \* the row list() returned
             started: Nat,                    \* history: when list() ran
             version: Nat,                    \* history: edits[dev] then
             checkedAt: Stamp]                \* Null unless the answer was positive

NewWake == [pc |-> "new", dev |-> Null, now |-> Null, claim |-> Null,
            mac |-> Null, sent |-> FALSE]
NewPower == [pc |-> "new", dev |-> Null, suspend |-> FALSE, now |-> Null,
             target |-> Null, claim |-> Null, epoch |-> 0]
NewEdit == [pc |-> "new", dev |-> Null, now |-> Null, input |-> Null,
            parsed |-> Null]
NewProbe == [pc |-> "new", dev |-> Null, snapshot |-> Null, started |-> 0,
             version |-> 0, checkedAt |-> Null]

TypeOK ==
  /\ devices \in [Ids -> Row \cup {Unused, Deleted}]
  /\ clock \in Nat
  /\ loop \in [Procs -> SUBSET Reqs]
  /\ wake \in [WakeReqs -> WakeRec]
  /\ power \in [PowerReqs -> PowerRec]
  /\ edit \in [EditReqs -> EditRec]
  /\ probe \in [ProbeReqs -> ProbeRec]
  /\ edits \in [Ids -> Nat]
  /\ targets \in [Ids -> Nat]

\* A device registered before migration 3 has no address and no SSH user.
LegacyRow(mac) == InsertedRow([mac |-> mac, address |-> Null, method |-> "ssh",
                               cred |-> Null], 0)

Init ==
  /\ devices \in [Ids -> {Unused} \cup {LegacyRow(m) : m \in Macs}]
  /\ \A d1, d2 \in Ids : d1 # d2 /\ IsRow(devices[d1]) /\ IsRow(devices[d2])
                           => devices[d1].mac # devices[d2].mac
  /\ clock = 0
  /\ loop = [p \in Procs |-> {}]
  /\ wake = [r \in WakeReqs |-> NewWake]
  /\ power = [r \in PowerReqs |-> NewPower]
  /\ edit = [r \in EditReqs |-> NewEdit]
  /\ probe = [r \in ProbeReqs |-> NewProbe]
  /\ edits = [d \in Ids |-> 0]
  /\ targets = [d \in Ids |-> 0]

-----------------------------------------------------------------------------
(***************************************************************************)
(* The event loop.                                                         *)
(***************************************************************************)
\* If the store's calls were awaited, handlers would interleave at each one.
AlwaysFree(p) == TRUE

Free(p) == loop[p] = {}
Enter(r) == Free(ProcOf[r]) /\ loop' = [loop EXCEPT ![ProcOf[r]] = @ \cup {r}]
Running(r) == r \in loop[ProcOf[r]]
Leave(r) == loop' = [loop EXCEPT ![ProcOf[r]] = @ \ {r}]

Tick ==
  /\ clock < MaxTime
  /\ clock' = clock + 1
  /\ UNCHANGED <<devices, loop, wake, power, edit, probe, history>>

(***************************************************************************)
(* POST and DELETE on /devices: one statement each.                        *)
(***************************************************************************)
MacTaken(mac, d) == \E e \in Ids \ {d} : IsRow(devices[e]) /\ devices[e].mac = mac

Create(p, d, in) ==
  /\ Free(p)
  /\ devices[d] = Unused
  /\ InputAccepted(in, Null)
  /\ ~MacTaken(in.mac, d)
  /\ devices' = [devices EXCEPT ![d] = InsertedRow(Parsed(in, Null), clock)]
  /\ UNCHANGED <<clock, loop, wake, power, edit, probe, history>>

Delete(p, d) ==
  /\ Free(p)
  /\ IsRow(devices[d])
  /\ devices' = [devices EXCEPT ![d] = Deleted]
  /\ UNCHANGED <<clock, loop, wake, power, edit, probe, history>>

(***************************************************************************)
(* wakeDevice.                                                             *)
(***************************************************************************)
SetWake(r, rec) ==
  /\ wake' = [wake EXCEPT ![r] = rec]
  /\ UNCHANGED <<clock, power, edit, probe, history>>

\* The handler ends; only what it did to the world is remembered.
EndedWake(rec) ==
  [NewWake EXCEPT !.pc = "done", !.dev = rec.dev, !.claim = rec.claim,
                  !.sent = rec.sent,
                  !.mac = IF rec.sent THEN rec.mac ELSE Null,
                  !.now = IF rec.sent THEN rec.now ELSE Null]

WakeBegin(r, d) ==
  /\ wake[r].pc = "new"
  /\ Enter(r)
  /\ SetWake(r, [wake[r] EXCEPT !.pc = "claim", !.dev = d, !.now = clock])
  /\ UNCHANGED devices

\* claimWake's UPDATE ... WHERE lastAttemptMs IS NULL OR lastAttemptMs <= ?
WakeClaim(r) ==
  LET d == wake[r].dev
      now == wake[r].now
      granted == IsRow(devices[d]) /\ WakeClaimable(devices[d], now)
  IN
  /\ wake[r].pc = "claim" /\ Running(r)
  /\ \/ /\ granted
        /\ devices' = [devices EXCEPT ![d] = AttemptedRow(@, now)]
        /\ SetWake(r, [wake[r] EXCEPT !.pc = "read", !.claim = now])
     \/ /\ ~granted
        /\ SetWake(r, [wake[r] EXCEPT !.pc = "read"])
        /\ UNCHANGED devices
  /\ UNCHANGED loop

\* claimWake's SELECT: 404, 429, or the packet is handed to the network.
WakeRead(r) ==
  LET row == devices[wake[r].dev] IN
  /\ wake[r].pc = "read" /\ Running(r)
  /\ \/ /\ ~IsRow(row)
        /\ SetWake(r, EndedWake(wake[r]))
     \/ /\ IsRow(row) /\ wake[r].claim = Null
        /\ SetWake(r, [wake[r] EXCEPT !.pc = "refused"])
     \/ /\ IsRow(row) /\ wake[r].claim # Null
        /\ SetWake(r, [wake[r] EXCEPT !.pc = "sending", !.mac = row.mac])
  /\ Leave(r)
  /\ UNCHANGED devices

\* The UDP callback reports success; markSent starts in the same turn.
WakeSent(r) ==
  /\ wake[r].pc = "sending"
  /\ Enter(r)
  /\ SetWake(r, [wake[r] EXCEPT !.pc = "mark", !.sent = TRUE, !.now = clock])
  /\ UNCHANGED devices

\* Bind, socket or timeout error: 502.
WakeSendFailed(r) ==
  /\ wake[r].pc = "sending" /\ Free(ProcOf[r])
  /\ SetWake(r, EndedWake(wake[r]))
  /\ UNCHANGED <<devices, loop>>

\* markSent's UPDATE ... WHERE id = ? AND mac = ?; 409 if it changed no row.
WakeMark(r) ==
  LET d == wake[r].dev
      matches == IsRow(devices[d]) /\ devices[d].mac = wake[r].mac
  IN
  /\ wake[r].pc = "mark" /\ Running(r)
  /\ \/ /\ matches
        /\ devices' = [devices EXCEPT ![d] = SentRow(@, wake[r].now)]
        /\ SetWake(r, [wake[r] EXCEPT !.pc = "get"])
        /\ UNCHANGED loop
     \/ /\ ~matches
        /\ SetWake(r, EndedWake(wake[r]))
        /\ Leave(r)
        /\ UNCHANGED devices

\* markSent's SELECT of the row to answer with: 200, or 404.
WakeGet(r) ==
  /\ wake[r].pc = "get" /\ Running(r)
  /\ SetWake(r, EndedWake(wake[r]))
  /\ Leave(r)
  /\ UNCHANGED devices

\* The steps the server takes by itself; a confirmed send needs the network.
WakeOwnStep(r) ==
  WakeClaim(r) \/ WakeRead(r) \/ WakeSendFailed(r) \/ WakeMark(r) \/ WakeGet(r)

WakeStep(r) == WakeOwnStep(r) \/ WakeSent(r)

(***************************************************************************)
(* powerDevice and shutdownDevice, with the send callbacks of the routes.  *)
(***************************************************************************)
SetPower(r, rec) ==
  /\ power' = [power EXCEPT ![r] = rec]
  /\ UNCHANGED <<clock, wake, edit, probe, history>>

EndedPower(rec) ==
  [NewPower EXCEPT !.pc = "done", !.dev = rec.dev,
                   !.claim = rec.claim, !.epoch = rec.epoch]

\* 404, 409 or 503: the handler ends without sending anything.
PowerError(r, rec) ==
  /\ SetPower(r, EndedPower(rec))
  /\ Leave(r)

\* A shutdown goes straight to claimShutdown, which takes the time now.
PowerBegin(r, d, suspend) ==
  /\ power[r].pc = "new"
  /\ Enter(r)
  /\ SetPower(r, [power[r] EXCEPT !.pc = IF suspend THEN "method" ELSE "target",
                                  !.dev = d, !.suspend = suspend,
                                  !.now = IF suspend THEN Null ELSE clock])
  /\ UNCHANGED devices

\* store.get(id).remoteMethod, for sleep and hibernate.
PowerMethod(r) ==
  LET row == devices[power[r].dev]
      companion == IsRow(row) /\ row.method = "companion"
  IN
  /\ power[r].pc = "method" /\ Running(r)
  /\ \/ ~companion /\ PowerError(r, power[r])
     \/ /\ companion
        /\ SetPower(r, [power[r] EXCEPT !.pc = "target", !.now = clock])
        /\ UNCHANGED loop
  /\ UNCHANGED devices

\* claimShutdown's SELECT: this row is the target if the claim succeeds.
PowerTarget(r) ==
  LET row == devices[power[r].dev]
      configured == IsRow(row) /\ ShutdownConfigured(row)
  IN
  /\ power[r].pc = "target" /\ Running(r)
  /\ \/ ~configured /\ PowerError(r, power[r])
     \/ /\ configured
        /\ SetPower(r, [power[r] EXCEPT !.pc = "claim",
                          !.target = [address |-> row.address, method |-> row.method,
                                      cred |-> row.cred]])
        /\ UNCHANGED loop
  /\ UNCHANGED devices

\* claimShutdown's UPDATE; then the send callback runs in the same turn.
PowerClaim(r) ==
  LET d == power[r].dev
      now == power[r].now
      claimed == [power[r] EXCEPT !.claim = now, !.epoch = targets[d]]
      granted == IsRow(devices[d]) /\ ShutdownClaimable(devices[d], now)
      companion == power[r].target.method = "companion"
      sshReady == ~power[r].suspend /\ SshConfigured
  IN
  /\ power[r].pc = "claim" /\ Running(r)
  /\ \/ /\ ~granted
        /\ SetPower(r, [power[r] EXCEPT !.pc = "refused", !.target = Null,
                                        !.epoch = targets[d]])
        /\ Leave(r)
        /\ UNCHANGED devices
     \/ /\ granted
        /\ devices' = [devices EXCEPT ![d] = ShutdownRow(@, now)]
        /\ \/ /\ companion
              /\ SetPower(r, [claimed EXCEPT !.pc = "secret"])
              /\ UNCHANGED loop
           \/ ~companion /\ ~sshReady /\ PowerError(r, claimed)
           \/ /\ ~companion /\ sshReady
              /\ SetPower(r, [claimed EXCEPT !.pc = "sending"])
              /\ Leave(r)

\* store.companionSecret(device.id): a second SELECT, after the claim.
PowerSecret(r) ==
  LET row == devices[power[r].dev]
      paired == IsRow(row) /\ row.method = "companion" /\ row.cred # Null
  IN
  /\ power[r].pc = "secret" /\ Running(r)
  /\ \/ ~paired /\ PowerError(r, power[r])
     \/ /\ paired
        /\ SetPower(r, [power[r] EXCEPT !.pc = "sending", !.target.cred = row.cred])
        /\ Leave(r)
  /\ UNCHANGED devices

\* Accepted (200), refused (409), failed or not answered in time (502).
PowerAnswer(r) ==
  /\ power[r].pc = "sending" /\ Free(ProcOf[r])
  /\ SetPower(r, EndedPower(power[r]))
  /\ UNCHANGED <<devices, loop>>

PowerStep(r) ==
  \/ PowerMethod(r) \/ PowerTarget(r) \/ PowerClaim(r)
  \/ PowerSecret(r) \/ PowerAnswer(r)

(***************************************************************************)
(* PATCH /devices/:id.                                                     *)
(***************************************************************************)
SetEdit(r, rec) ==
  /\ edit' = [edit EXCEPT ![r] = rec]
  /\ UNCHANGED <<clock, wake, power, probe>>

EndedEdit == [NewEdit EXCEPT !.pc = "done"]

EditEnd(r) ==
  /\ SetEdit(r, EndedEdit)
  /\ Leave(r)
  /\ UNCHANGED <<devices, history>>

EditBegin(r, d, in) ==
  /\ edit[r].pc = "new"
  /\ Enter(r)
  /\ SetEdit(r, [edit[r] EXCEPT !.pc = "parse", !.dev = d, !.input = in])
  /\ UNCHANGED <<devices, history>>

\* parseDeviceInput(body, store.get(id)): 404, 400, or update() takes the time.
EditParse(r) ==
  LET row == devices[edit[r].dev]
      in == edit[r].input
      accepted == IsRow(row) /\ InputAccepted(in, row.method)
  IN
  /\ edit[r].pc = "parse" /\ Running(r)
  /\ \/ ~accepted /\ EditEnd(r)
     \/ /\ accepted
        /\ SetEdit(r, [edit[r] EXCEPT !.pc = "current", !.now = clock,
                                      !.parsed = Parsed(in, row.method)])
        /\ UNCHANGED <<devices, loop, history>>

\* update()'s own SELECT decides which secret the new row keeps: 404, 400.
EditCurrent(r) ==
  LET row == devices[edit[r].dev]
      cred == EffectiveCred(edit[r].parsed, row)
      usable == IsRow(row) /\ CredUsable(edit[r].parsed.method, cred)
  IN
  /\ edit[r].pc = "current" /\ Running(r)
  /\ \/ ~usable /\ EditEnd(r)
     \/ /\ usable
        /\ SetEdit(r, [edit[r] EXCEPT !.pc = "write", !.parsed.cred = cred])
        /\ UNCHANGED <<devices, loop, history>>

\* update()'s UPDATE: 409 if the MAC is taken; changing no row is no error.
EditWrite(r) ==
  LET d == edit[r].dev
      row == devices[d]
      new == edit[r].parsed
  IN
  /\ edit[r].pc = "write" /\ Running(r)
  /\ \/ IsRow(row) /\ MacTaken(new.mac, d) /\ EditEnd(r)
     \/ /\ IsRow(row) /\ ~MacTaken(new.mac, d)
        /\ devices' = [devices EXCEPT ![d] = UpdatedRow(row, new, edit[r].now)]
        /\ edits' = [edits EXCEPT ![d] = @ + 1]
        /\ targets' = [targets EXCEPT ![d] = IF SameTarget(row, new) THEN @ ELSE @ + 1]
        /\ SetEdit(r, [edit[r] EXCEPT !.pc = "get"])
        /\ UNCHANGED loop
     \/ /\ ~IsRow(row)
        /\ SetEdit(r, [edit[r] EXCEPT !.pc = "get"])
        /\ UNCHANGED <<devices, loop, history>>

\* update()'s last SELECT: 200, or 404.
EditGet(r) == edit[r].pc = "get" /\ Running(r) /\ EditEnd(r)

EditStep(r) == EditParse(r) \/ EditCurrent(r) \/ EditWrite(r) \/ EditGet(r)

(***************************************************************************)
(* GET /devices/status, for one device.                                    *)
(***************************************************************************)
SetProbe(r, rec) ==
  /\ probe' = [probe EXCEPT ![r] = rec]
  /\ UNCHANGED <<clock, loop, wake, power, edit, history>>

EndedProbe(rec) ==
  IF rec.checkedAt = Null
  THEN [NewProbe EXCEPT !.pc = "done"]
  ELSE [rec EXCEPT !.pc = "done"]

\* store.list(): the probe keeps this copy of the row.
ProbeBegin(r, d) ==
  /\ probe[r].pc = "new" /\ Free(ProcOf[r])
  /\ IsRow(devices[d])
  /\ SetProbe(r, [probe[r] EXCEPT
                    !.pc = "probing", !.dev = d,
                    !.snapshot = [mac |-> devices[d].mac, address |-> devices[d].address,
                                  updatedAt |-> devices[d].updatedAt],
                    !.started = clock, !.version = edits[d]])
  /\ UNCHANGED devices

\* checkDeviceStatus ends: ping and remote check of the copied address.
ProbeChecked(r) ==
  /\ probe[r].pc = "probing" /\ Free(ProcOf[r])
  /\ \E positive \in IF probe[r].snapshot.address = Null THEN {FALSE} ELSE BOOLEAN :
       SetProbe(r, [probe[r] EXCEPT !.pc = "checked",
                                    !.checkedAt = IF positive THEN clock ELSE Null])
  /\ UNCHANGED devices

\* recordStatus, once the probes of all the other devices have ended too.
ProbeRecord(r) ==
  LET d == probe[r].dev
      matches == IsRow(devices[d]) /\ ProbeMatches(devices[d], probe[r].snapshot)
  IN
  /\ probe[r].pc = "checked" /\ Free(ProcOf[r])
  /\ devices' = IF matches
                THEN [devices EXCEPT ![d] = SeenRow(@, probe[r].checkedAt)]
                ELSE devices
  /\ SetProbe(r, EndedProbe(probe[r]))

ProbeStep(r) == ProbeChecked(r) \/ ProbeRecord(r)

(***************************************************************************)
(* Failures.  A statement throws (busy timeout, disk): no change, and the  *)
(* handler answers 500.  A process dies: its handlers end unanswered, the  *)
(* table stays.                                                            *)
(***************************************************************************)
InFlight(rec) == rec.pc \notin {"new"} \cup Ended

StatementFails(r) ==
  /\ Running(r)
  /\ \/ r \in WakeReqs /\ InFlight(wake[r]) /\ SetWake(r, EndedWake(wake[r]))
     \/ r \in PowerReqs /\ InFlight(power[r]) /\ SetPower(r, EndedPower(power[r]))
     \/ r \in EditReqs /\ InFlight(edit[r]) /\ SetEdit(r, EndedEdit) /\ UNCHANGED history
  /\ Leave(r)
  /\ UNCHANGED devices

Crash(p) ==
  /\ loop' = [loop EXCEPT ![p] = {}]
  /\ wake' = [r \in WakeReqs |->
                IF ProcOf[r] = p /\ InFlight(wake[r]) THEN EndedWake(wake[r]) ELSE wake[r]]
  /\ power' = [r \in PowerReqs |->
                IF ProcOf[r] = p /\ InFlight(power[r]) THEN EndedPower(power[r]) ELSE power[r]]
  /\ edit' = [r \in EditReqs |->
                IF ProcOf[r] = p /\ InFlight(edit[r]) THEN EndedEdit ELSE edit[r]]
  /\ probe' = [r \in ProbeReqs |->
                IF ProcOf[r] = p /\ InFlight(probe[r]) THEN EndedProbe(probe[r]) ELSE probe[r]]
  /\ UNCHANGED <<devices, clock, history>>

-----------------------------------------------------------------------------
\* A request that has begun goes on.
Progress ==
  \/ \E r \in WakeReqs : WakeStep(r)
  \/ \E r \in PowerReqs : PowerStep(r)
  \/ \E r \in EditReqs : EditStep(r)
  \/ \E r \in ProbeReqs : ProbeStep(r)

Arrival ==
  \/ \E p \in Procs, d \in Ids, in \in Inputs : Create(p, d, in)
  \/ \E p \in Procs, d \in Ids : Delete(p, d)
  \/ \E r \in WakeReqs, d \in Ids : WakeBegin(r, d)
  \/ \E r \in PowerReqs, d \in Ids, suspend \in BOOLEAN : PowerBegin(r, d, suspend)
  \/ \E r \in EditReqs, d \in Ids, in \in Inputs : EditBegin(r, d, in)
  \/ \E r \in ProbeReqs, d \in Ids : ProbeBegin(r, d)

Failure ==
  \/ \E r \in Reqs : StatementFails(r)
  \/ \E p \in Procs : Crash(p)

Next == Tick \/ Arrival \/ Progress \/ Failure

Spec == Init /\ [][Next]_vars

-----------------------------------------------------------------------------
(***************************************************************************)
(* Properties of any number of server processes.                           *)
(***************************************************************************)

\* Two wake claims the store granted for one device carry stamps at least
\* WAKE_COOLDOWN_MS apart, whatever edits, crashes or other processes do
\* in between (claimWake).
WakeSpacing ==
  \A r1, r2 \in WakeReqs :
    /\ r1 # r2
    /\ wake[r1].claim # Null /\ wake[r2].claim # Null
    /\ wake[r1].dev = wake[r2].dev
    => \/ wake[r1].claim + WakeCooldown <= wake[r2].claim
       \/ wake[r2].claim + WakeCooldown <= wake[r1].claim

\* Two power claims closer than SHUTDOWN_COOLDOWN_MS on one device have an
\* edit between them that changed its address, method or credential: only
\* that resets the cooldown (claimShutdown, update).
ShutdownSpacing ==
  \A r1, r2 \in PowerReqs :
    /\ r1 # r2
    /\ power[r1].claim # Null /\ power[r2].claim # Null
    /\ power[r1].dev = power[r2].dev
    /\ power[r1].epoch = power[r2].epoch
    => \/ power[r1].claim + ShutdownCooldown <= power[r2].claim
       \/ power[r2].claim + ShutdownCooldown <= power[r1].claim

\* A request is answered 429 only while the cooldown of a claim that was
\* granted to another request for the same device is running (claimWake).
WakeRefusalJustified ==
  \A r \in WakeReqs : wake[r].pc = "refused" =>
    \E other \in WakeReqs \ {r} :
      /\ wake[other].dev = wake[r].dev
      /\ wake[other].claim # Null
      /\ wake[r].now < wake[other].claim + WakeCooldown

\* lastSentAt is the instant at which some request saw its packet leave for
\* the MAC the row has now: edits during the send and a failed send never
\* leave a stamp behind (wakeDevice, markSent, update).
SentStampTruthful ==
  \A d \in Ids :
    IsRow(devices[d]) /\ devices[d].lastSentAt # Null =>
      \E r \in WakeReqs :
        /\ wake[r].dev = d
        /\ wake[r].sent
        /\ wake[r].mac = devices[d].mac
        /\ wake[r].now = devices[d].lastSentAt

\* lastSeenAt is the instant of a positive probe that was started for the
\* MAC and the address the row has now (recordStatus, update).
SeenStampTruthful ==
  \A d \in Ids :
    IsRow(devices[d]) /\ devices[d].lastSeenAt # Null =>
      \E r \in ProbeReqs :
        /\ probe[r].dev = d
        /\ probe[r].snapshot.mac = devices[d].mac
        /\ probe[r].snapshot.address = devices[d].address
        /\ probe[r].checkedAt = devices[d].lastSeenAt

\* While a device keeps its MAC and address, lastSeenAt is neither erased
\* nor moved back by probes that end in another order than they started
\* (recordStatus's comment: "older probes cannot move the timestamp back").
SeenNeverMovesBack ==
  [][\A d \in Ids :
       /\ IsRow(devices[d]) /\ IsRow(devices'[d])
       /\ devices[d].mac = devices'[d].mac
       /\ devices[d].address = devices'[d].address
       /\ devices[d].lastSeenAt # Null
       => /\ devices'[d].lastSeenAt # Null
          /\ devices'[d].lastSeenAt >= devices[d].lastSeenAt]_vars

\* A companion row always has a secret and an address and a row without
\* remote control never keeps a credential, even when two processes edit
\* the row between each other's reads (parseDeviceInput, update).
RowsConfigured ==
  \A d \in Ids :
    IsRow(devices[d]) =>
      /\ devices[d].method = "companion" =>
           devices[d].cred # Null /\ devices[d].address # Null
      /\ devices[d].method = "none" => devices[d].cred = Null

(***************************************************************************)
(* Properties of one server process, the deployment of the systemd unit:   *)
(* they rest on synchronous sections being atomic.                         *)
(***************************************************************************)

\* A power command leaves for the address, by the method and with the
\* credential its row has at that moment, although claimShutdown returns
\* the row it read before its UPDATE and the secret is read after it.
CommandMatchesRow ==
  [][\A r \in PowerReqs :
       power[r].pc # "sending" /\ power'[r].pc = "sending" =>
         LET row == devices[power[r].dev] IN
         /\ IsRow(row)
         /\ power'[r].target = [address |-> row.address, method |-> row.method,
                                cred |-> row.cred]]_vars

\* A power request is answered 429 only while the cooldown of a claim for
\* the same target of the same device is running: an edit that retargets a
\* device also lifts its cooldown (claimShutdown, update).
ShutdownRefusalJustified ==
  \A r \in PowerReqs : power[r].pc = "refused" =>
    \E other \in PowerReqs \ {r} :
      /\ power[other].dev = power[r].dev
      /\ power[other].claim # Null
      /\ power[other].epoch = power[r].epoch
      /\ power[r].now < power[other].claim + ShutdownCooldown

\* An edit with a blank pairing code leaves the secret that is in the row
\* when it is written, never one read earlier (update).
BlankCodeKeepsSecret ==
  [][\A r \in EditReqs :
       LET d == edit[r].dev IN
       /\ edit[r].pc = "write" /\ edit'[r].pc = "get"
       /\ IsRow(devices[d])
       /\ edit[r].parsed.method = "companion" /\ edit[r].input.cred = Null
       => devices'[d].cred = devices[d].cred]_vars

\* A probe is recorded only if the device was not edited since the probe
\* copied its row.  updatedAt has millisecond resolution, so the one
\* exception is a probe started in the very instant of the previous edit.
ProbesOfEditedDropped ==
  [][\A r \in ProbeReqs :
       devices' # devices /\ probe[r].pc = "checked" /\ probe'[r].pc = "done" =>
         \/ edits[probe[r].dev] = probe[r].version
         \/ probe[r].started = probe[r].snapshot.updatedAt]_vars
=============================================================================
