------------------------ MODULE DeviceRequestsProofs ------------------------
(***************************************************************************)
(* Theorems about DeviceRequests, for any number of devices, requests and  *)
(* server processes, any clock and any cooldowns.                          *)
(***************************************************************************)
EXTENDS DeviceRequests, TLAPS

-----------------------------------------------------------------------------
(***************************************************************************)
(* What the row operators return.                                          *)
(***************************************************************************)

\* An accepted body becomes a complete DeviceInput (parseDeviceInput).
LEMMA ParsedType ==
  ASSUME NEW in \in Input, NEW m \in Methods \cup {Null}
  PROVE  /\ Parsed(in, m) \in Input
         /\ Parsed(in, m).method \in Methods
         /\ Parsed(in, m).mac = in.mac
BY NullAssumption DEF Parsed, ParsedMethod, Input, Methods

\* INSERT stores a well-formed row (create).
LEMMA InsertedRowType ==
  ASSUME NEW in \in Input, in.method \in Methods, NEW now \in Nat
  PROVE  InsertedRow(in, now) \in Row
BY DEF InsertedRow, Row, Input, Stamp

\* UPDATE stores a well-formed row (update).
LEMMA UpdatedRowType ==
  ASSUME NEW row \in Row, NEW new \in Input, new.method \in Methods, NEW now \in Nat
  PROVE  UpdatedRow(row, new, now) \in Row
BY DEF UpdatedRow, Row, Input, Stamp

\* recordStatus stores a well-formed row.
LEMMA SeenRowType ==
  ASSUME NEW row \in Row, NEW seenAt \in Stamp
  PROVE  SeenRow(row, seenAt) \in Row
BY DEF SeenRow, Row, Stamp

\* A value of the devices table that is a row has a row's fields.
LEMMA RowType ==
  ASSUME TypeOK, NEW d \in Ids, IsRow(devices[d])
  PROVE  devices[d] \in Row
BY DEF TypeOK, IsRow

\* Every request record starts and ends well-typed.
LEMMA RecordTypes ==
  /\ NewWake \in WakeRec
  /\ NewPower \in PowerRec
  /\ NewEdit \in EditRec
  /\ EndedEdit \in EditRec
  /\ NewProbe \in ProbeRec
  /\ \A rec \in WakeRec : EndedWake(rec) \in WakeRec
  /\ \A rec \in PowerRec : EndedPower(rec) \in PowerRec
  /\ \A rec \in ProbeRec : EndedProbe(rec) \in ProbeRec
<1> USE DEF Ended, Stamp
<1>1. NewWake \in WakeRec /\ \A rec \in WakeRec : EndedWake(rec) \in WakeRec
  BY DEF NewWake, WakeRec, EndedWake
<1>2. NewPower \in PowerRec /\ \A rec \in PowerRec : EndedPower(rec) \in PowerRec
  BY DEF NewPower, PowerRec, EndedPower
<1>3. NewEdit \in EditRec /\ EndedEdit \in EditRec
  BY DEF NewEdit, EditRec, EndedEdit
<1>4. NewProbe \in ProbeRec /\ \A rec \in ProbeRec : EndedProbe(rec) \in ProbeRec
  BY DEF NewProbe, ProbeRec, EndedProbe
<1> QED BY <1>1, <1>2, <1>3, <1>4

-----------------------------------------------------------------------------
(***************************************************************************)
(* Type correctness.                                                       *)
(***************************************************************************)
LEMMA InitTypeOK == Init => TypeOK
<1> SUFFICES ASSUME Init PROVE TypeOK
  OBVIOUS
<1>1. ASSUME NEW m \in Macs PROVE LegacyRow(m) \in Row
  BY NullAssumption DEF LegacyRow, InsertedRow, Row, Methods, Stamp
<1>2. devices \in [Ids -> Row \cup {Unused, Deleted}]
  BY <1>1 DEF Init
<1> QED BY <1>2, RecordTypes DEF Init, TypeOK


\* A handler in progress knows its device, and the instant its store call took.
InFlightOK ==
  /\ \A r \in WakeReqs :
       /\ wake[r].pc # "new" => wake[r].dev \in Ids
       /\ InFlight(wake[r]) => wake[r].now \in Nat
  /\ \A r \in PowerReqs :
       /\ power[r].pc # "new" => power[r].dev \in Ids
       /\ power[r].pc \in {"target", "claim"} => power[r].now \in Nat
       /\ power[r].pc \in {"claim", "secret", "sending"} => power[r].target \in Target
  /\ \A r \in EditReqs :
       /\ InFlight(edit[r]) => edit[r].dev \in Ids /\ edit[r].input \in Inputs
       /\ edit[r].pc \in {"current", "write"} =>
            /\ edit[r].now \in Nat
            /\ edit[r].parsed \in Input
            /\ edit[r].parsed.method \in Methods
  /\ \A r \in ProbeReqs :
       InFlight(probe[r]) => probe[r].dev \in Ids /\ probe[r].snapshot \in Snapshot

TypeInv == TypeOK /\ InFlightOK

LEMMA InitTypeInv == Init => TypeInv
BY InitTypeOK DEF Init, TypeInv, InFlightOK, InFlight, NewWake, NewPower, NewEdit, NewProbe

LEMMA RowUpdateTypes ==
  ASSUME NEW row \in Row, NEW now \in Stamp
  PROVE  /\ AttemptedRow(row, now) \in Row
         /\ ShutdownRow(row, now) \in Row
         /\ SentRow(row, now) \in Row
BY DEF AttemptedRow, ShutdownRow, SentRow, Row

LEMMA LoopType ==
  ASSUME TypeOK, NEW r \in Reqs, Enter(r) \/ Leave(r) \/ UNCHANGED loop
  PROVE  loop' \in [Procs -> SUBSET Reqs]
BY DEF TypeOK, Enter, Leave

LEMMA DevicesType ==
  ASSUME TypeOK, NEW d \in Ids, NEW row \in Row \cup {Unused, Deleted},
         devices' = [devices EXCEPT ![d] = row]
  PROVE  devices' \in [Ids -> Row \cup {Unused, Deleted}]
BY DEF TypeOK

\* A step that only moves one wake request, with its effect on its device.
LEMMA SetWakeTypeInv ==
  ASSUME TypeInv, NEW r \in WakeReqs, NEW rec \in WakeRec, SetWake(r, rec),
         devices' \in [Ids -> Row \cup {Unused, Deleted}],
         Enter(r) \/ Leave(r) \/ UNCHANGED loop,
         rec.pc # "new" => rec.dev \in Ids,
         InFlight(rec) => rec.now \in Nat
  PROVE  TypeInv'
<1>1. TypeOK'
  BY LoopType DEF TypeInv, TypeOK, SetWake, history, Reqs
<1>2. InFlightOK'
  BY DEF TypeInv, TypeOK, InFlightOK, SetWake, history
<1> QED BY <1>1, <1>2 DEF TypeInv

LEMMA WakeTypeInv ==
  ASSUME TypeInv, NEW r \in WakeReqs,
         (\E d \in Ids : WakeBegin(r, d)) \/ WakeStep(r)
  PROVE  TypeInv'
<1> DEFINE rec == wake[r]  d == wake[r].dev
<1>0. /\ TypeOK
      /\ rec \in WakeRec
      /\ rec.pc # "new" => d \in Ids
      /\ InFlight(rec) => rec.now \in Nat
      /\ devices \in [Ids -> Row \cup {Unused, Deleted}]
      /\ clock \in Nat
  BY DEF TypeInv, TypeOK, InFlightOK
<1>1. ASSUME NEW e \in Ids, WakeBegin(r, e) PROVE TypeInv'
  <2> DEFINE new == [rec EXCEPT !.pc = "claim", !.dev = e, !.now = clock]
  <2>1. new \in WakeRec /\ new.dev \in Ids /\ new.now \in Nat
    BY <1>0 DEF WakeRec, Stamp
  <2> QED BY <1>0, <1>1, <2>1, SetWakeTypeInv DEF WakeBegin
<1>2. CASE WakeClaim(r)
  <2> DEFINE new == IF UNCHANGED devices THEN [rec EXCEPT !.pc = "read"]
                    ELSE [rec EXCEPT !.pc = "read", !.claim = rec.now]
  <2>1. d \in Ids /\ rec.now \in Nat
    BY <1>0, <1>2 DEF WakeClaim, InFlight, Ended
  <2>2. CASE IsRow(devices[d]) /\ WakeClaimable(devices[d], rec.now)
    <3>1. [rec EXCEPT !.pc = "read", !.claim = rec.now] \in WakeRec
      BY <1>0, <2>1 DEF WakeRec, Stamp
    <3>2. AttemptedRow(devices[d], rec.now) \in Row
      BY <1>0, <2>1, <2>2, RowType, RowUpdateTypes DEF Stamp
    <3>3. devices' \in [Ids -> Row \cup {Unused, Deleted}]
      BY <1>0, <1>2, <2>1, <2>2, <3>2 DEF WakeClaim
    <3> QED BY <1>0, <1>2, <2>1, <2>2, <3>1, <3>3, SetWakeTypeInv DEF WakeClaim, WakeRec
  <2>3. CASE ~(IsRow(devices[d]) /\ WakeClaimable(devices[d], rec.now))
    <3>1. [rec EXCEPT !.pc = "read"] \in WakeRec
      BY <1>0 DEF WakeRec
    <3> QED BY <1>0, <1>2, <2>1, <2>3, <3>1, SetWakeTypeInv DEF WakeClaim, WakeRec
  <2> QED BY <2>2, <2>3
<1>3. CASE WakeRead(r)
  <2>1. d \in Ids /\ rec.now \in Nat
    BY <1>0, <1>3 DEF WakeRead, InFlight, Ended
  <2>2. EndedWake(rec) \in WakeRec /\ EndedWake(rec).dev = d /\ ~InFlight(EndedWake(rec))
    BY <1>0, RecordTypes DEF EndedWake, NewWake, InFlight, Ended
  <2>3. [rec EXCEPT !.pc = "refused"] \in WakeRec
    BY <1>0 DEF WakeRec, Ended
  <2>4. IsRow(devices[d]) => [rec EXCEPT !.pc = "sending", !.mac = devices[d].mac] \in WakeRec
    BY <1>0, <2>1, RowType DEF WakeRec, Row
  <2> QED BY <1>0, <1>3, <2>1, <2>2, <2>3, <2>4, SetWakeTypeInv DEF WakeRead, WakeRec
<1>4. CASE WakeSent(r)
  <2>1. d \in Ids
    BY <1>0, <1>4 DEF WakeSent
  <2>2. [rec EXCEPT !.pc = "mark", !.sent = TRUE, !.now = clock] \in WakeRec
    BY <1>0 DEF WakeRec, Stamp
  <2> QED BY <1>0, <1>4, <2>1, <2>2, SetWakeTypeInv DEF WakeSent, WakeRec
<1>5. CASE WakeSendFailed(r) \/ WakeGet(r)
  <2>1. d \in Ids
    BY <1>0, <1>5 DEF WakeSendFailed, WakeGet
  <2>2. EndedWake(rec) \in WakeRec /\ EndedWake(rec).dev = d /\ ~InFlight(EndedWake(rec))
    BY <1>0, RecordTypes DEF EndedWake, NewWake, InFlight, Ended
  <2> QED BY <1>0, <1>5, <2>1, <2>2, SetWakeTypeInv DEF WakeSendFailed, WakeGet
<1>6. CASE WakeMark(r)
  <2>1. d \in Ids /\ rec.now \in Nat
    BY <1>0, <1>6 DEF WakeMark, InFlight, Ended
  <2>2. EndedWake(rec) \in WakeRec /\ EndedWake(rec).dev = d /\ ~InFlight(EndedWake(rec))
    BY <1>0, RecordTypes DEF EndedWake, NewWake, InFlight, Ended
  <2>3. [rec EXCEPT !.pc = "get"] \in WakeRec
    BY <1>0 DEF WakeRec
  <2>4. IsRow(devices[d]) => SentRow(devices[d], rec.now) \in Row
    BY <1>0, <2>1, RowType, RowUpdateTypes DEF Stamp
  <2>5. devices' \in [Ids -> Row \cup {Unused, Deleted}]
    BY <1>0, <1>6, <2>1, <2>4 DEF WakeMark
  <2> QED BY <1>0, <1>6, <2>1, <2>2, <2>3, <2>5, SetWakeTypeInv DEF WakeMark, WakeRec
<1> QED BY <1>1, <1>2, <1>3, <1>4, <1>5, <1>6 DEF WakeStep, WakeOwnStep

\* A step that only moves one power request, with its effect on its device.
LEMMA SetPowerTypeInv ==
  ASSUME TypeInv, NEW r \in PowerReqs, NEW rec \in PowerRec, SetPower(r, rec),
         devices' \in [Ids -> Row \cup {Unused, Deleted}],
         Enter(r) \/ Leave(r) \/ UNCHANGED loop,
         rec.pc # "new" => rec.dev \in Ids,
         rec.pc \in {"target", "claim"} => rec.now \in Nat,
         rec.pc \in {"claim", "secret", "sending"} => rec.target \in Target
  PROVE  TypeInv'
<1>1. TypeOK'
  BY LoopType DEF TypeInv, TypeOK, SetPower, history, Reqs
<1>2. InFlightOK'
  BY DEF TypeInv, TypeOK, InFlightOK, SetPower, history
<1> QED BY <1>1, <1>2 DEF TypeInv

LEMMA PowerTypeInv ==
  ASSUME TypeInv, NEW r \in PowerReqs,
         (\E d \in Ids, suspend \in BOOLEAN : PowerBegin(r, d, suspend)) \/ PowerStep(r)
  PROVE  TypeInv'
<1> DEFINE rec == power[r]  d == power[r].dev
<1>0. /\ TypeOK
      /\ rec \in PowerRec
      /\ rec.pc # "new" => d \in Ids
      /\ rec.pc \in {"target", "claim"} => rec.now \in Nat
      /\ rec.pc \in {"claim", "secret", "sending"} => rec.target \in Target
      /\ devices \in [Ids -> Row \cup {Unused, Deleted}]
      /\ clock \in Nat
      /\ targets \in [Ids -> Nat]
  BY DEF TypeInv, TypeOK, InFlightOK
<1>e. ASSUME NEW any \in PowerRec
      PROVE  /\ EndedPower(any) \in PowerRec
             /\ EndedPower(any).pc = "done"
             /\ EndedPower(any).dev = any.dev
  BY RecordTypes DEF EndedPower, NewPower
<1>1. ASSUME NEW e \in Ids, NEW suspend \in BOOLEAN, PowerBegin(r, e, suspend)
      PROVE  TypeInv'
  <2> DEFINE new == [rec EXCEPT !.pc = IF suspend THEN "method" ELSE "target",
                                !.dev = e, !.suspend = suspend,
                                !.now = IF suspend THEN Null ELSE clock]
  <2>1. new \in PowerRec /\ new.dev \in Ids /\ (new.pc = "target" => new.now \in Nat)
        /\ new.pc \in {"method", "target"}
    BY <1>0 DEF PowerRec, Stamp
  <2> QED BY <1>0, <1>1, <2>1, SetPowerTypeInv DEF PowerBegin
<1>2. CASE PowerMethod(r)
  <2>1. d \in Ids
    BY <1>0, <1>2 DEF PowerMethod
  <2>2. [rec EXCEPT !.pc = "target", !.now = clock] \in PowerRec
    BY <1>0 DEF PowerRec, Stamp
  <2> QED BY <1>0, <1>2, <1>e, <2>1, <2>2, SetPowerTypeInv DEF PowerMethod, PowerError, PowerRec
<1>3. CASE PowerTarget(r)
  <2> DEFINE target == [address |-> devices[d].address, method |-> devices[d].method,
                        cred |-> devices[d].cred]
  <2>1. d \in Ids /\ rec.now \in Nat
    BY <1>0, <1>3 DEF PowerTarget
  <2>2. CASE IsRow(devices[d]) /\ ShutdownConfigured(devices[d])
    <3>1. target \in Target
      BY <1>0, <2>1, <2>2, RowType DEF ShutdownConfigured, Target, Row, Methods
    <3>2. [rec EXCEPT !.pc = "claim", !.target = target] \in PowerRec
      BY <1>0, <3>1 DEF PowerRec
    <3> QED BY <1>0, <1>3, <2>1, <2>2, <3>1, <3>2, SetPowerTypeInv DEF PowerTarget, PowerRec
  <2>3. CASE ~(IsRow(devices[d]) /\ ShutdownConfigured(devices[d]))
    BY <1>0, <1>3, <1>e, <2>1, <2>3, SetPowerTypeInv DEF PowerTarget, PowerError
  <2> QED BY <2>2, <2>3
<1>4. CASE PowerClaim(r)
  <2> DEFINE claimed == [rec EXCEPT !.claim = rec.now, !.epoch = targets[d]]
             refused == [rec EXCEPT !.pc = "refused", !.target = Null, !.epoch = targets[d]]
             granted == IsRow(devices[d]) /\ ShutdownClaimable(devices[d], rec.now)
  <2>1. d \in Ids /\ rec.now \in Nat /\ rec.target \in Target /\ targets[d] \in Nat
    BY <1>0, <1>4 DEF PowerClaim
  <2>2. CASE granted
    <3>1. /\ claimed \in PowerRec
          /\ [claimed EXCEPT !.pc = "secret"] \in PowerRec
          /\ [claimed EXCEPT !.pc = "sending"] \in PowerRec
          /\ claimed.dev = d /\ claimed.target = rec.target
      BY <1>0, <2>1 DEF PowerRec, Stamp
    <3>2. ShutdownRow(devices[d], rec.now) \in Row
      BY <1>0, <2>1, <2>2, RowType, RowUpdateTypes DEF Stamp
    <3>3. devices' \in [Ids -> Row \cup {Unused, Deleted}]
      BY <1>0, <1>4, <2>1, <2>2, <3>2 DEF PowerClaim
    <3> HIDE DEF claimed
    <3>4. CASE SetPower(r, [claimed EXCEPT !.pc = "secret"]) /\ UNCHANGED loop
      BY <1>0, <2>1, <3>1, <3>3, <3>4, SetPowerTypeInv DEF PowerRec
    <3>5. CASE PowerError(r, claimed)
      BY <1>0, <1>e, <2>1, <3>1, <3>3, <3>5, SetPowerTypeInv DEF PowerError
    <3>6. CASE SetPower(r, [claimed EXCEPT !.pc = "sending"]) /\ Leave(r)
      BY <1>0, <2>1, <3>1, <3>3, <3>6, SetPowerTypeInv DEF PowerRec
    <3> QED BY <1>4, <2>2, <3>4, <3>5, <3>6 DEF PowerClaim, claimed
  <2>3. CASE ~granted
    <3>1. refused \in PowerRec
      BY <1>0, <2>1 DEF PowerRec, Ended
    <3> QED BY <1>0, <1>4, <2>1, <2>3, <3>1, SetPowerTypeInv DEF PowerClaim, PowerRec
  <2> QED BY <2>2, <2>3
<1>5. CASE PowerSecret(r)
  <2> DEFINE paired == /\ IsRow(devices[d]) /\ devices[d].method = "companion"
                       /\ devices[d].cred # Null
             new == [rec EXCEPT !.pc = "sending", !.target.cred = devices[d].cred]
  <2>1. d \in Ids /\ rec.target \in Target
    BY <1>0, <1>5 DEF PowerSecret
  <2>2. CASE paired
    <3>1. [rec.target EXCEPT !.cred = devices[d].cred] \in Target
      BY <1>0, <2>1, <2>2, RowType DEF Target, Row
    <3>2. /\ new \in PowerRec
          /\ new.target \in Target /\ new.dev = d /\ new.pc = "sending"
      BY <1>0, <3>1 DEF PowerRec
    <3> QED BY <1>0, <1>5, <2>1, <2>2, <3>2, SetPowerTypeInv DEF PowerSecret
  <2>3. CASE ~paired
    BY <1>0, <1>5, <1>e, <2>1, <2>3, SetPowerTypeInv DEF PowerSecret, PowerError
  <2> QED BY <2>2, <2>3
<1>6. CASE PowerAnswer(r)
  BY <1>0, <1>6, <1>e, SetPowerTypeInv DEF PowerAnswer
<1> QED BY <1>1, <1>2, <1>3, <1>4, <1>5, <1>6 DEF PowerStep

\* A step that only moves one edit request, with its effect on its device.
LEMMA SetEditTypeInv ==
  ASSUME TypeInv, NEW r \in EditReqs, NEW rec \in EditRec, SetEdit(r, rec),
         devices' \in [Ids -> Row \cup {Unused, Deleted}],
         edits' \in [Ids -> Nat], targets' \in [Ids -> Nat],
         Enter(r) \/ Leave(r) \/ UNCHANGED loop,
         InFlight(rec) => rec.dev \in Ids /\ rec.input \in Inputs,
         rec.pc \in {"current", "write"} =>
           rec.now \in Nat /\ rec.parsed \in Input /\ rec.parsed.method \in Methods
  PROVE  TypeInv'
<1>1. TypeOK'
  BY LoopType DEF TypeInv, TypeOK, SetEdit, Reqs
<1>2. InFlightOK'
  BY DEF TypeInv, TypeOK, InFlightOK, SetEdit
<1> QED BY <1>1, <1>2 DEF TypeInv

LEMMA EditTypeInv ==
  ASSUME TypeInv, NEW r \in EditReqs,
         (\E d \in Ids, in \in Inputs : EditBegin(r, d, in)) \/ EditStep(r)
  PROVE  TypeInv'
<1> DEFINE rec == edit[r]  d == edit[r].dev
<1>0. /\ TypeOK
      /\ rec \in EditRec
      /\ InFlight(rec) => d \in Ids /\ rec.input \in Inputs
      /\ rec.pc \in {"current", "write"} =>
           rec.now \in Nat /\ rec.parsed \in Input /\ rec.parsed.method \in Methods
      /\ devices \in [Ids -> Row \cup {Unused, Deleted}]
      /\ clock \in Nat
      /\ edits \in [Ids -> Nat]
      /\ targets \in [Ids -> Nat]
  BY DEF TypeInv, TypeOK, InFlightOK
<1>e. ASSUME EditEnd(r) PROVE TypeInv'
  <2>1. EndedEdit \in EditRec /\ EndedEdit.pc = "done" /\ ~InFlight(EndedEdit)
    BY RecordTypes DEF EndedEdit, NewEdit, InFlight, Ended
  <2> QED BY <1>0, <1>e, <2>1, SetEditTypeInv DEF EditEnd, history
<1>1. ASSUME NEW e \in Ids, NEW in \in Inputs, EditBegin(r, e, in) PROVE TypeInv'
  <2>1. [rec EXCEPT !.pc = "parse", !.dev = e, !.input = in] \in EditRec
    BY <1>0 DEF EditRec
  <2> QED BY <1>0, <1>1, <2>1, SetEditTypeInv DEF EditBegin, EditRec, history
<1>2. CASE EditParse(r)
  <2> DEFINE parsed == Parsed(rec.input, devices[d].method)
             new == [rec EXCEPT !.pc = "current", !.now = clock, !.parsed = parsed]
             accepted == IsRow(devices[d]) /\ InputAccepted(rec.input, devices[d].method)
  <2>1. d \in Ids /\ rec.input \in Inputs
    BY <1>0, <1>2 DEF EditParse, InFlight, Ended
  <2>2. CASE accepted
    <3>1. parsed \in Input /\ parsed.method \in Methods
      BY <1>0, <2>1, <2>2, RowType, ParsedType, RequestAssumption DEF Row
    <3> HIDE DEF parsed
    <3>2. /\ new \in EditRec /\ new.dev = d /\ new.input = rec.input
          /\ new.now = clock /\ new.parsed = parsed /\ new.pc = "current"
      BY <1>0, <3>1 DEF EditRec, Stamp
    <3> QED BY <1>0, <1>2, <2>1, <2>2, <3>1, <3>2, SetEditTypeInv DEF EditParse, parsed, history
  <2>3. CASE ~accepted
    BY <1>2, <1>e, <2>3 DEF EditParse
  <2> QED BY <2>2, <2>3
<1>3. CASE EditCurrent(r)
  <2> DEFINE cred == EffectiveCred(rec.parsed, devices[d])
             parsed == [rec.parsed EXCEPT !.cred = cred]
             new == [rec EXCEPT !.pc = "write", !.parsed.cred = cred]
             usable == IsRow(devices[d]) /\ CredUsable(rec.parsed.method, cred)
  <2>1. /\ d \in Ids /\ rec.input \in Inputs
        /\ rec.now \in Nat /\ rec.parsed \in Input /\ rec.parsed.method \in Methods
    BY <1>0, <1>3 DEF EditCurrent, InFlight, Ended
  <2>2. CASE usable
    <3>1. cred \in Creds \cup {Null}
      BY <1>0, <2>1, <2>2, RowType DEF EffectiveCred, Row, Input
    <3> HIDE DEF cred
    <3>2. parsed \in Input /\ parsed.method \in Methods
      BY <2>1, <3>1 DEF Input
    <3>3. /\ new \in EditRec /\ new.dev = d /\ new.input = rec.input
          /\ new.now = rec.now /\ new.parsed = parsed /\ new.pc = "write"
      BY <1>0, <2>1, <3>2 DEF EditRec
    <3>4. SetEdit(r, new) /\ UNCHANGED <<devices, loop, history>>
      BY <1>3, <2>2 DEF EditCurrent, cred
    <3> QED BY <1>0, <2>1, <3>2, <3>3, <3>4, SetEditTypeInv DEF history
  <2>3. CASE ~usable
    BY <1>3, <1>e, <2>3 DEF EditCurrent
  <2> QED BY <2>2, <2>3
<1>4. CASE EditWrite(r)
  <2> DEFINE new == [rec EXCEPT !.pc = "get"]
  <2>1. /\ d \in Ids /\ rec.input \in Inputs
        /\ rec.now \in Nat /\ rec.parsed \in Input /\ rec.parsed.method \in Methods
    BY <1>0, <1>4 DEF EditWrite, InFlight, Ended
  <2>2. new \in EditRec /\ new.dev = d /\ new.input = rec.input /\ new.pc = "get"
    BY <1>0 DEF EditRec
  <2>3. IsRow(devices[d]) => UpdatedRow(devices[d], rec.parsed, rec.now) \in Row
    BY <1>0, <2>1, RowType, UpdatedRowType
  <2>4. CASE EditEnd(r)
    BY <1>e, <2>4
  <2>5. CASE ~EditEnd(r)
    <3>1. /\ SetEdit(r, new) /\ UNCHANGED loop
          /\ \/ UNCHANGED <<devices, history>>
             \/ /\ IsRow(devices[d])
                /\ devices' = [devices EXCEPT ![d] = UpdatedRow(devices[d], rec.parsed, rec.now)]
                /\ edits' = [edits EXCEPT ![d] = @ + 1]
                /\ targets' = [targets EXCEPT ![d] = IF SameTarget(devices[d], rec.parsed)
                                                     THEN @ ELSE @ + 1]
      BY <1>4, <2>5 DEF EditWrite
    <3>2. devices' \in [Ids -> Row \cup {Unused, Deleted}]
      BY <1>0, <2>1, <2>3, <3>1
    <3>3. edits' \in [Ids -> Nat] /\ targets' \in [Ids -> Nat]
      BY <1>0, <2>1, <3>1 DEF history
    <3> QED BY <2>1, <2>2, <3>1, <3>2, <3>3, SetEditTypeInv
  <2> QED BY <2>4, <2>5
<1>5. CASE EditGet(r)
  BY <1>5, <1>e DEF EditGet
<1> QED BY <1>1, <1>2, <1>3, <1>4, <1>5 DEF EditStep

\* A step that only moves one probe, with its effect on its device.
LEMMA SetProbeTypeInv ==
  ASSUME TypeInv, NEW r \in ProbeReqs, NEW rec \in ProbeRec, SetProbe(r, rec),
         devices' \in [Ids -> Row \cup {Unused, Deleted}],
         InFlight(rec) => rec.dev \in Ids /\ rec.snapshot \in Snapshot
  PROVE  TypeInv'
<1>1. TypeOK'
  BY DEF TypeInv, TypeOK, SetProbe, history
<1>2. InFlightOK'
  BY DEF TypeInv, TypeOK, InFlightOK, SetProbe, history
<1> QED BY <1>1, <1>2 DEF TypeInv

LEMMA ProbeTypeInv ==
  ASSUME TypeInv, NEW r \in ProbeReqs, (\E d \in Ids : ProbeBegin(r, d)) \/ ProbeStep(r)
  PROVE  TypeInv'
<1> DEFINE rec == probe[r]  d == probe[r].dev
<1>0. /\ TypeOK
      /\ rec \in ProbeRec
      /\ InFlight(rec) => d \in Ids /\ rec.snapshot \in Snapshot
      /\ devices \in [Ids -> Row \cup {Unused, Deleted}]
      /\ clock \in Nat
      /\ edits \in [Ids -> Nat]
  BY DEF TypeInv, TypeOK, InFlightOK
<1>1. ASSUME NEW e \in Ids, ProbeBegin(r, e) PROVE TypeInv'
  <2> DEFINE copy == [mac |-> devices[e].mac, address |-> devices[e].address,
                      updatedAt |-> devices[e].updatedAt]
             new == [rec EXCEPT !.pc = "probing", !.dev = e, !.snapshot = copy,
                                !.started = clock, !.version = edits[e]]
  <2>1. copy \in Snapshot
    BY <1>0, <1>1, RowType DEF ProbeBegin, Row, Snapshot
  <2>2. new \in ProbeRec /\ new.dev = e /\ new.snapshot = copy
    BY <1>0, <2>1 DEF ProbeRec
  <2> QED BY <1>0, <1>1, <2>1, <2>2, SetProbeTypeInv DEF ProbeBegin
<1>2. CASE ProbeChecked(r)
  <2>1. d \in Ids /\ rec.snapshot \in Snapshot
    BY <1>0, <1>2 DEF ProbeChecked, InFlight, Ended
  <2>2. PICK positive \in BOOLEAN :
          SetProbe(r, [rec EXCEPT !.pc = "checked",
                                  !.checkedAt = IF positive THEN clock ELSE Null])
    BY <1>2 DEF ProbeChecked
  <2> DEFINE new == [rec EXCEPT !.pc = "checked",
                                !.checkedAt = IF positive THEN clock ELSE Null]
  <2>3. new \in ProbeRec /\ new.dev = d /\ new.snapshot = rec.snapshot
    BY <1>0 DEF ProbeRec, Stamp
  <2>4. UNCHANGED devices
    BY <1>2 DEF ProbeChecked
  <2> QED BY <1>0, <2>1, <2>2, <2>3, <2>4, SetProbeTypeInv
<1>3. CASE ProbeRecord(r)
  <2>1. d \in Ids /\ rec.checkedAt \in Stamp
    BY <1>0, <1>3 DEF ProbeRecord, InFlight, Ended, ProbeRec
  <2>2. IsRow(devices[d]) => SeenRow(devices[d], rec.checkedAt) \in Row
    BY <1>0, <2>1, RowType, SeenRowType
  <2>3. devices' \in [Ids -> Row \cup {Unused, Deleted}]
    BY <1>0, <1>3, <2>1, <2>2 DEF ProbeRecord
  <2>4. EndedProbe(rec) \in ProbeRec /\ ~InFlight(EndedProbe(rec))
    BY <1>0, RecordTypes DEF EndedProbe, NewProbe, InFlight, Ended, ProbeRec
  <2> QED BY <1>3, <2>3, <2>4, SetProbeTypeInv DEF ProbeRecord
<1> QED BY <1>1, <1>2, <1>3 DEF ProbeStep

\* The handlers without a request record, the clock and the failures.
LEMMA OtherTypeInv ==
  ASSUME TypeInv,
         \/ Tick
         \/ \E p \in Procs, d \in Ids, in \in Inputs : Create(p, d, in)
         \/ \E p \in Procs, d \in Ids : Delete(p, d)
         \/ Failure
  PROVE  TypeInv'
<1>0. TypeOK /\ InFlightOK
  BY DEF TypeInv
<1>1. CASE Tick
  <2>1. TypeOK'
    BY <1>0, <1>1 DEF Tick, TypeOK, history
  <2>2. InFlightOK'
    BY <1>0, <1>1 DEF Tick, InFlightOK, history
  <2> QED BY <2>1, <2>2 DEF TypeInv
<1>2. ASSUME NEW p \in Procs, NEW d \in Ids, NEW in \in Inputs, Create(p, d, in)
      PROVE  TypeInv'
  <2>1. InsertedRow(Parsed(in, Null), clock) \in Row
    BY <1>0, ParsedType, InsertedRowType, RequestAssumption DEF TypeOK
  <2>2. TypeOK'
    BY <1>0, <1>2, <2>1 DEF Create, TypeOK, history
  <2>3. InFlightOK'
    BY <1>0, <1>2 DEF Create, InFlightOK, history
  <2> QED BY <2>2, <2>3 DEF TypeInv
<1>3. ASSUME NEW p \in Procs, NEW d \in Ids, Delete(p, d) PROVE TypeInv'
  <2>1. TypeOK'
    BY <1>0, <1>3 DEF Delete, TypeOK, history
  <2>2. InFlightOK'
    BY <1>0, <1>3 DEF Delete, InFlightOK, history
  <2> QED BY <2>1, <2>2 DEF TypeInv
<1>4. ASSUME NEW r \in Reqs, StatementFails(r) PROVE TypeInv'
  <2>0. devices' \in [Ids -> Row \cup {Unused, Deleted}] /\ Leave(r)
    BY <1>0, <1>4 DEF StatementFails, TypeOK
  <2>1. CASE r \in WakeReqs /\ InFlight(wake[r]) /\ SetWake(r, EndedWake(wake[r]))
    <3>1. EndedWake(wake[r]) \in WakeRec /\ ~InFlight(EndedWake(wake[r]))
      BY <1>0, <2>1, RecordTypes DEF EndedWake, NewWake, InFlight, Ended, TypeOK
    <3>2. EndedWake(wake[r]).dev \in Ids
      BY <1>0, <2>1 DEF InFlightOK, EndedWake, NewWake, InFlight
    <3> QED BY <2>0, <2>1, <3>1, <3>2, SetWakeTypeInv
  <2>2. CASE r \in PowerReqs /\ InFlight(power[r]) /\ SetPower(r, EndedPower(power[r]))
    <3>1. EndedPower(power[r]) \in PowerRec /\ EndedPower(power[r]).pc = "done"
      BY <1>0, <2>2, RecordTypes DEF EndedPower, NewPower, TypeOK
    <3>2. EndedPower(power[r]).dev \in Ids
      BY <1>0, <2>2 DEF InFlightOK, EndedPower, NewPower, InFlight
    <3> QED BY <2>0, <2>2, <3>1, <3>2, SetPowerTypeInv
  <2>3. CASE r \in EditReqs /\ SetEdit(r, EndedEdit) /\ UNCHANGED history
    <3>1. EndedEdit \in EditRec /\ EndedEdit.pc = "done" /\ ~InFlight(EndedEdit)
      BY RecordTypes DEF EndedEdit, NewEdit, InFlight, Ended
    <3>2. edits' \in [Ids -> Nat] /\ targets' \in [Ids -> Nat]
      BY <1>0, <2>3 DEF history, TypeOK
    <3> QED BY <2>0, <2>3, <3>1, <3>2, SetEditTypeInv
  <2> QED BY <1>4, <2>1, <2>2, <2>3 DEF StatementFails
<1>5. ASSUME NEW p \in Procs, Crash(p) PROVE TypeInv'
  <2>1. /\ loop' \in [Procs -> SUBSET Reqs]
        /\ UNCHANGED <<devices, clock, edits, targets>>
    BY <1>0, <1>5 DEF Crash, TypeOK, history
  <2>2. wake' \in [WakeReqs -> WakeRec]
    BY <1>0, <1>5, RecordTypes DEF Crash, TypeOK
  <2>3. power' \in [PowerReqs -> PowerRec]
    BY <1>0, <1>5, RecordTypes DEF Crash, TypeOK
  <2>4. edit' \in [EditReqs -> EditRec]
    BY <1>0, <1>5, RecordTypes DEF Crash, TypeOK
  <2>5. probe' \in [ProbeReqs -> ProbeRec]
    BY <1>0, <1>5, RecordTypes DEF Crash, TypeOK
  <2>6. TypeOK'
    BY <1>0, <2>1, <2>2, <2>3, <2>4, <2>5 DEF TypeOK
  <2>7. ASSUME NEW r \in WakeReqs
        PROVE  /\ wake'[r].pc # "new" => wake'[r].dev \in Ids
               /\ InFlight(wake'[r]) => wake'[r].now \in Nat
    <3>1. wake'[r] = wake[r] \/ (InFlight(wake[r]) /\ wake'[r] = EndedWake(wake[r]))
      BY <1>5 DEF Crash
    <3>2. ~InFlight(EndedWake(wake[r])) /\ EndedWake(wake[r]).dev = wake[r].dev
      BY DEF EndedWake, NewWake, InFlight, Ended
    <3> QED BY <1>0, <3>1, <3>2 DEF InFlightOK, InFlight
  <2>8. ASSUME NEW r \in PowerReqs
        PROVE  /\ power'[r].pc # "new" => power'[r].dev \in Ids
               /\ power'[r].pc \in {"target", "claim"} => power'[r].now \in Nat
               /\ power'[r].pc \in {"claim", "secret", "sending"} =>
                    power'[r].target \in Target
    <3>1. power'[r] = power[r] \/ (InFlight(power[r]) /\ power'[r] = EndedPower(power[r]))
      BY <1>5 DEF Crash
    <3>2. EndedPower(power[r]).pc = "done" /\ EndedPower(power[r]).dev = power[r].dev
      BY DEF EndedPower, NewPower
    <3> QED BY <1>0, <3>1, <3>2 DEF InFlightOK, InFlight
  <2>9. ASSUME NEW r \in EditReqs
        PROVE  /\ InFlight(edit'[r]) => edit'[r].dev \in Ids /\ edit'[r].input \in Inputs
               /\ edit'[r].pc \in {"current", "write"} =>
                    /\ edit'[r].now \in Nat
                    /\ edit'[r].parsed \in Input
                    /\ edit'[r].parsed.method \in Methods
    <3>1. edit'[r] = edit[r] \/ edit'[r] = EndedEdit
      BY <1>5 DEF Crash
    <3>2. EndedEdit.pc = "done" /\ ~InFlight(EndedEdit)
      BY DEF EndedEdit, NewEdit, InFlight, Ended
    <3> QED BY <1>0, <3>1, <3>2 DEF InFlightOK
  <2>10. ASSUME NEW r \in ProbeReqs
         PROVE  InFlight(probe'[r]) =>
                  probe'[r].dev \in Ids /\ probe'[r].snapshot \in Snapshot
    <3>1. probe'[r] = probe[r] \/ probe'[r] = EndedProbe(probe[r])
      BY <1>5 DEF Crash
    <3>2. probe[r] \in ProbeRec
      BY <1>0 DEF TypeOK
    <3>3. ~InFlight(EndedProbe(probe[r]))
      BY <3>2 DEF EndedProbe, NewProbe, InFlight, Ended, ProbeRec
    <3> QED BY <1>0, <3>1, <3>3 DEF InFlightOK
  <2>11. InFlightOK'
    BY <2>7, <2>8, <2>9, <2>10 DEF InFlightOK
  <2> QED BY <2>6, <2>11 DEF TypeInv
<1> QED BY <1>1, <1>2, <1>3, <1>4, <1>5 DEF Failure

LEMMA NextTypeInv == TypeInv /\ [Next]_vars => TypeInv'
<1> SUFFICES ASSUME TypeInv, [Next]_vars PROVE TypeInv'
  OBVIOUS
<1>1. CASE UNCHANGED vars
  BY <1>1 DEF vars, TypeInv, TypeOK, InFlightOK
<1>2. CASE Next
  BY <1>2, WakeTypeInv, PowerTypeInv, EditTypeInv, ProbeTypeInv, OtherTypeInv
  DEF Next, Arrival, Progress
<1> QED BY <1>1, <1>2

\* Every reachable state is well-typed, and every handler in progress holds
\* the device, the instant and the target that its next statement uses.
THEOREM TypeCorrect == Spec => []TypeInv
BY InitTypeInv, NextTypeInv, PTL DEF Spec

\* The type invariant checked by TLC.
THEOREM TypeOKTheorem == Spec => []TypeOK
BY TypeCorrect, PTL DEF TypeInv

-----------------------------------------------------------------------------
(***************************************************************************)
(* Spacing of the wake claims.                                             *)
(*                                                                         *)
(* The store compares a claim with the last stamp of the row only, so the  *)
(* property is not inductive: WakeInv adds that the row's stamp is at      *)
(* least every stamp ever granted for it, that a request claims once, and  *)
(* that a device with a grant has a row or had one (an id is not reused).  *)
(***************************************************************************)
WakeStampInv ==
  \A r \in WakeReqs :
    /\ wake[r].pc \in {"new", "claim"} => wake[r].claim = Null
    /\ wake[r].claim # Null =>
         /\ devices[wake[r].dev] # Unused
         /\ IsRow(devices[wake[r].dev]) =>
              /\ devices[wake[r].dev].lastAttemptMs # Null
              /\ wake[r].claim <= devices[wake[r].dev].lastAttemptMs

WakeInv == TypeInv /\ WakeStampInv /\ WakeSpacing

\* The UPDATE of claimWake when its WHERE clause holds.
WakeGrant(r) ==
  LET d == wake[r].dev IN
  /\ wake[r].pc = "claim"
  /\ IsRow(devices[d]) /\ WakeClaimable(devices[d], wake[r].now)
  /\ devices' = [devices EXCEPT ![d] = AttemptedRow(@, wake[r].now)]
  /\ wake' = [wake EXCEPT ![r] = [wake[r] EXCEPT !.pc = "read", !.claim = wake[r].now]]

\* Every other step leaves the granted stamps and lastAttemptMs alone.
WakeClaimsKept ==
  \A r \in WakeReqs :
    /\ wake'[r].claim = wake[r].claim
    /\ wake[r].pc # "new" => wake'[r].dev = wake[r].dev
    /\ wake'[r].pc \in {"new", "claim"} => wake[r].pc \in {"new", "claim"}

AttemptsKept ==
  \A d \in Ids :
    /\ devices'[d] = Unused => devices[d] = Unused
    /\ IsRow(devices'[d]) =>
         \/ devices[d] = Unused
         \/ IsRow(devices[d]) /\ devices'[d].lastAttemptMs = devices[d].lastAttemptMs

LEMMA EndedWakeKeeps ==
  ASSUME NEW rec
  PROVE  /\ EndedWake(rec).claim = rec.claim
         /\ EndedWake(rec).dev = rec.dev
         /\ EndedWake(rec).pc = "done"
BY DEF EndedWake, NewWake

\* An UPDATE of one row that is not a claim keeps lastAttemptMs.
LEMMA OtherUpdatesKeepAttempt ==
  ASSUME NEW row \in Row, NEW new, NEW now
  PROVE  /\ UpdatedRow(row, new, now).lastAttemptMs = row.lastAttemptMs
         /\ ShutdownRow(row, now).lastAttemptMs = row.lastAttemptMs
         /\ SentRow(row, now).lastAttemptMs = row.lastAttemptMs
         /\ SeenRow(row, now).lastAttemptMs = row.lastAttemptMs
BY DEF UpdatedRow, ShutdownRow, SentRow, SeenRow, Row

\* A device step that writes another column of one existing row, or deletes
\* it, keeps every lastAttemptMs.
LEMMA OneRowKeepsAttempts ==
  ASSUME TypeInv, NEW d \in Ids, NEW x,
         devices' = [devices EXCEPT ![d] = x],
         x # Unused,
         IsRow(x) => \/ devices[d] = Unused
                     \/ IsRow(devices[d]) /\ x.lastAttemptMs = devices[d].lastAttemptMs
  PROVE  AttemptsKept
<1>1. devices \in [Ids -> Row \cup {Unused, Deleted}]
  BY DEF TypeInv, TypeOK
<1> QED BY <1>1 DEF AttemptsKept, IsRow

LEMMA SameDevicesKeepAttempts == UNCHANGED devices => AttemptsKept
BY DEF AttemptsKept, IsRow

LEMMA WakeEffect ==
  ASSUME TypeInv, Next
  PROVE  \/ WakeClaimsKept /\ AttemptsKept
         \/ \E r \in WakeReqs : WakeGrant(r)
<1>0. /\ devices \in [Ids -> Row \cup {Unused, Deleted}]
      /\ wake \in [WakeReqs -> WakeRec]
      /\ edit \in [EditReqs -> EditRec]
      /\ InFlightOK
  BY DEF TypeInv, TypeOK
<1>n. Unused # Deleted /\ Unused \notin Row
  BY AbsenceAssumption
<1>s. UNCHANGED wake => WakeClaimsKept
  BY DEF WakeClaimsKept
<1>w. ASSUME NEW r \in WakeReqs, NEW rec, wake' = [wake EXCEPT ![r] = rec],
             rec.claim = wake[r].claim,
             wake[r].pc # "new" => rec.dev = wake[r].dev,
             rec.pc \in {"new", "claim"} => wake[r].pc \in {"new", "claim"}
      PROVE  WakeClaimsKept
  BY <1>0, <1>w DEF WakeClaimsKept
<1>1. CASE Tick
  BY <1>1, <1>s, SameDevicesKeepAttempts DEF Tick
<1>2. ASSUME NEW p \in Procs, NEW d \in Ids, NEW in \in Inputs, Create(p, d, in)
      PROVE  WakeClaimsKept /\ AttemptsKept
  <2>1. InsertedRow(Parsed(in, Null), clock) \in Row
    BY ParsedType, InsertedRowType, RequestAssumption DEF TypeInv, TypeOK
  <2> QED BY <1>2, <1>s, <1>n, <2>1, OneRowKeepsAttempts DEF Create
<1>3. ASSUME NEW p \in Procs, NEW d \in Ids, Delete(p, d)
      PROVE  WakeClaimsKept /\ AttemptsKept
  BY <1>3, <1>s, <1>n, OneRowKeepsAttempts DEF Delete, IsRow
<1>4. ASSUME NEW r \in WakeReqs, NEW d \in Ids, WakeBegin(r, d)
      PROVE  WakeClaimsKept /\ AttemptsKept
  <2> DEFINE new == [wake[r] EXCEPT !.pc = "claim", !.dev = d, !.now = clock]
  <2>1. wake[r].pc = "new" /\ wake' = [wake EXCEPT ![r] = new] /\ UNCHANGED devices
    BY <1>4 DEF WakeBegin, SetWake
  <2>2. new.claim = wake[r].claim
    BY <1>0 DEF WakeRec
  <2> QED BY <1>w, <2>1, <2>2, SameDevicesKeepAttempts
<1>5. ASSUME NEW r \in WakeReqs, WakeStep(r)
      PROVE  (WakeClaimsKept /\ AttemptsKept) \/ WakeGrant(r)
  <2>e. ASSUME wake' = [wake EXCEPT ![r] = EndedWake(wake[r])]
        PROVE  WakeClaimsKept
    BY <1>w, <2>e, EndedWakeKeeps
  <2>f. wake[r] \in WakeRec
    BY <1>0
  <2>1. CASE WakeClaim(r)
    <3>1. CASE IsRow(devices[wake[r].dev]) /\ WakeClaimable(devices[wake[r].dev], wake[r].now)
      BY <2>1, <3>1 DEF WakeClaim, SetWake, WakeGrant
    <3>2. CASE ~(IsRow(devices[wake[r].dev]) /\ WakeClaimable(devices[wake[r].dev], wake[r].now))
      <4> DEFINE new == [wake[r] EXCEPT !.pc = "read"]
      <4>1. wake' = [wake EXCEPT ![r] = new] /\ UNCHANGED devices
        BY <2>1, <3>2 DEF WakeClaim, SetWake
      <4>2. new.claim = wake[r].claim /\ new.dev = wake[r].dev /\ new.pc = "read"
        BY <2>f DEF WakeRec
      <4> QED BY <1>w, <4>1, <4>2, SameDevicesKeepAttempts
    <3> QED BY <3>1, <3>2
  <2>2. CASE WakeRead(r)
    <3> DEFINE sending == [wake[r] EXCEPT !.pc = "sending", !.mac = devices[wake[r].dev].mac]
               refused == [wake[r] EXCEPT !.pc = "refused"]
    <3>1. /\ sending.claim = wake[r].claim /\ sending.dev = wake[r].dev /\ sending.pc = "sending"
          /\ refused.claim = wake[r].claim /\ refused.dev = wake[r].dev /\ refused.pc = "refused"
      BY <2>f DEF WakeRec
    <3>2. /\ \/ wake' = [wake EXCEPT ![r] = EndedWake(wake[r])]
             \/ wake' = [wake EXCEPT ![r] = refused]
             \/ wake' = [wake EXCEPT ![r] = sending]
          /\ UNCHANGED devices
      BY <2>2 DEF WakeRead, SetWake
    <3> QED BY <1>w, <2>e, <3>1, <3>2, SameDevicesKeepAttempts
  <2>3. CASE WakeSent(r)
    <3> DEFINE new == [wake[r] EXCEPT !.pc = "mark", !.sent = TRUE, !.now = clock]
    <3>1. wake' = [wake EXCEPT ![r] = new] /\ UNCHANGED devices
      BY <2>3 DEF WakeSent, SetWake
    <3>2. new.claim = wake[r].claim /\ new.dev = wake[r].dev /\ new.pc = "mark"
      BY <2>f DEF WakeRec
    <3> QED BY <1>w, <3>1, <3>2, SameDevicesKeepAttempts
  <2>4. CASE WakeSendFailed(r) \/ WakeGet(r)
    BY <2>4, <2>e, SameDevicesKeepAttempts DEF WakeSendFailed, WakeGet, SetWake
  <2>5. CASE WakeMark(r)
    <3> DEFINE d == wake[r].dev
               new == [wake[r] EXCEPT !.pc = "get"]
    <3>1. d \in Ids
      BY <1>0, <2>5 DEF WakeMark, InFlightOK
    <3>2. CASE IsRow(devices[d]) /\ devices[d].mac = wake[r].mac
      <4>1. /\ wake' = [wake EXCEPT ![r] = new]
            /\ devices' = [devices EXCEPT ![d] = SentRow(devices[d], wake[r].now)]
        BY <1>0, <2>5, <3>1, <3>2 DEF WakeMark, SetWake
      <4>2. new.claim = wake[r].claim /\ new.dev = wake[r].dev /\ new.pc = "get"
        BY <2>f DEF WakeRec
      <4>3. devices[d] \in Row /\ wake[r].now \in Stamp
        BY <2>f, <3>1, <3>2, RowType DEF TypeInv, WakeRec
      <4>4. /\ SentRow(devices[d], wake[r].now) # Unused
            /\ SentRow(devices[d], wake[r].now).lastAttemptMs = devices[d].lastAttemptMs
        BY <1>n, <4>3, RowUpdateTypes, OtherUpdatesKeepAttempt
      <4>5. WakeClaimsKept
        BY <1>w, <4>1, <4>2
      <4>6. AttemptsKept
        BY <3>1, <3>2, <4>1, <4>4, OneRowKeepsAttempts
      <4> QED BY <4>5, <4>6
    <3>3. CASE ~(IsRow(devices[d]) /\ devices[d].mac = wake[r].mac)
      BY <2>5, <2>e, <3>3, SameDevicesKeepAttempts DEF WakeMark, SetWake
    <3> QED BY <3>2, <3>3
  <2> QED BY <1>5, <2>1, <2>2, <2>3, <2>4, <2>5 DEF WakeStep, WakeOwnStep
<1>6. ASSUME NEW r \in PowerReqs,
             (\E d \in Ids, suspend \in BOOLEAN : PowerBegin(r, d, suspend)) \/ PowerStep(r)
      PROVE  WakeClaimsKept /\ AttemptsKept
  <2>1. UNCHANGED wake
    BY <1>6 DEF PowerBegin, PowerStep, PowerMethod, PowerTarget, PowerClaim, PowerSecret,
                PowerAnswer, PowerError, SetPower
  <2>2. CASE UNCHANGED devices
    BY <2>1, <2>2, <1>s, SameDevicesKeepAttempts
  <2>3. CASE ~UNCHANGED devices
    <3> DEFINE d == power[r].dev
    <3>1. PowerClaim(r)
      BY <1>6, <2>3 DEF PowerBegin, PowerStep, PowerMethod, PowerTarget, PowerSecret, PowerAnswer
    <3>2. d \in Ids /\ power[r].now \in Stamp
      BY <1>0, <3>1 DEF PowerClaim, InFlightOK, Stamp
    <3>3. IsRow(devices[d]) /\ devices' = [devices EXCEPT ![d] = ShutdownRow(devices[d], power[r].now)]
      BY <1>0, <2>3, <3>1, <3>2 DEF PowerClaim
    <3>4. devices[d] \in Row
      BY <3>2, <3>3, RowType DEF TypeInv
    <3>5. /\ ShutdownRow(devices[d], power[r].now) # Unused
          /\ ShutdownRow(devices[d], power[r].now).lastAttemptMs = devices[d].lastAttemptMs
      BY <1>n, <3>2, <3>4, RowUpdateTypes, OtherUpdatesKeepAttempt
    <3> QED BY <2>1, <1>s, <3>2, <3>3, <3>5, OneRowKeepsAttempts
  <2> QED BY <2>2, <2>3
<1>7. ASSUME NEW r \in EditReqs,
             (\E d \in Ids, in \in Inputs : EditBegin(r, d, in)) \/ EditStep(r)
      PROVE  WakeClaimsKept /\ AttemptsKept
  <2>1. UNCHANGED wake
    BY <1>7 DEF EditBegin, EditStep, EditParse, EditCurrent, EditWrite, EditGet, EditEnd, SetEdit
  <2>2. CASE UNCHANGED devices
    BY <2>1, <2>2, <1>s, SameDevicesKeepAttempts
  <2>3. CASE ~UNCHANGED devices
    <3> DEFINE d == edit[r].dev
               new == UpdatedRow(devices[d], edit[r].parsed, edit[r].now)
    <3>1. EditWrite(r)
      BY <1>7, <2>3 DEF EditBegin, EditStep, EditParse, EditCurrent, EditGet, EditEnd
    <3>2. /\ d \in Ids /\ edit[r].now \in Nat
          /\ edit[r].parsed \in Input /\ edit[r].parsed.method \in Methods
      BY <1>0, <3>1 DEF EditWrite, InFlightOK, InFlight, Ended
    <3>3. IsRow(devices[d]) /\ devices' = [devices EXCEPT ![d] = new]
      BY <2>3, <3>1 DEF EditWrite, EditEnd
    <3>4. devices[d] \in Row
      BY <3>2, <3>3, RowType DEF TypeInv
    <3>5. new # Unused /\ new.lastAttemptMs = devices[d].lastAttemptMs
      BY <1>n, <3>2, <3>4, UpdatedRowType, OtherUpdatesKeepAttempt
    <3> QED BY <2>1, <1>s, <3>2, <3>3, <3>5, OneRowKeepsAttempts
  <2> QED BY <2>2, <2>3
<1>8. ASSUME NEW r \in ProbeReqs, (\E d \in Ids : ProbeBegin(r, d)) \/ ProbeStep(r)
      PROVE  WakeClaimsKept /\ AttemptsKept
  <2>1. UNCHANGED wake
    BY <1>8 DEF ProbeBegin, ProbeStep, ProbeChecked, ProbeRecord, SetProbe
  <2>2. CASE UNCHANGED devices
    BY <2>1, <2>2, <1>s, SameDevicesKeepAttempts
  <2>3. CASE ~UNCHANGED devices
    <3> DEFINE d == probe[r].dev
               new == SeenRow(devices[d], probe[r].checkedAt)
    <3>1. ProbeRecord(r)
      BY <1>8, <2>3 DEF ProbeBegin, ProbeStep, ProbeChecked
    <3>2. d \in Ids /\ probe[r].checkedAt \in Stamp
      BY <1>0, <3>1 DEF ProbeRecord, InFlightOK, InFlight, Ended, TypeInv, TypeOK, ProbeRec
    <3>3. IsRow(devices[d]) /\ devices' = [devices EXCEPT ![d] = new]
      BY <2>3, <3>1 DEF ProbeRecord
    <3>4. devices[d] \in Row
      BY <3>2, <3>3, RowType DEF TypeInv
    <3>5. new # Unused /\ new.lastAttemptMs = devices[d].lastAttemptMs
      BY <1>n, <3>2, <3>4, SeenRowType, OtherUpdatesKeepAttempt
    <3> QED BY <2>1, <1>s, <3>2, <3>3, <3>5, OneRowKeepsAttempts
  <2> QED BY <2>2, <2>3
<1>9. ASSUME NEW r \in Reqs, StatementFails(r) PROVE WakeClaimsKept /\ AttemptsKept
  <2>1. UNCHANGED devices
    BY <1>9 DEF StatementFails
  <2>2. CASE UNCHANGED wake
    BY <2>1, <2>2, <1>s, SameDevicesKeepAttempts
  <2>3. CASE r \in WakeReqs /\ wake' = [wake EXCEPT ![r] = EndedWake(wake[r])]
    BY <2>1, <2>3, <1>w, EndedWakeKeeps, SameDevicesKeepAttempts
  <2> QED BY <1>9, <2>2, <2>3 DEF StatementFails, SetWake, SetPower, SetEdit
<1>10. ASSUME NEW p \in Procs, Crash(p) PROVE WakeClaimsKept /\ AttemptsKept
  <2>1. UNCHANGED devices /\ \A r \in WakeReqs : wake'[r] \in {wake[r], EndedWake(wake[r])}
    BY <1>10 DEF Crash
  <2> QED BY <2>1, EndedWakeKeeps, SameDevicesKeepAttempts DEF WakeClaimsKept
<1> QED BY <1>1, <1>2, <1>3, <1>4, <1>5, <1>6, <1>7, <1>8, <1>9, <1>10
    DEF Next, Arrival, Progress, Failure

LEMMA WakeGrantKeepsInv ==
  ASSUME WakeInv, NEW r \in WakeReqs, WakeGrant(r)
  PROVE  (WakeStampInv /\ WakeSpacing)'
<1> DEFINE d == wake[r].dev
           now == wake[r].now
<1>0. /\ devices \in [Ids -> Row \cup {Unused, Deleted}]
      /\ wake \in [WakeReqs -> WakeRec]
      /\ wake[r] \in WakeRec
      /\ d \in Ids /\ now \in Nat
      /\ \A q \in WakeReqs : wake[q].claim # Null => wake[q].claim \in Nat
      /\ \A q \in WakeReqs : wake[q].pc # "new" => wake[q].dev \in Ids
      /\ WakeCooldown \in Nat /\ WakeCooldown > 0
      /\ Unused # Deleted /\ Unused \notin Row /\ Deleted \notin Row
      /\ Null \notin Nat
  BY CooldownAssumption, AbsenceAssumption, NullAssumption
  DEF WakeInv, TypeInv, TypeOK, InFlightOK, InFlight, Ended, WakeGrant, WakeRec, Stamp
<1>1. /\ wake'[r].claim = now /\ wake'[r].dev = d /\ wake'[r].pc = "read"
      /\ \A q \in WakeReqs \ {r} : wake'[q] = wake[q]
  BY <1>0 DEF WakeGrant, WakeRec
<1>2. devices[d] \in Row /\ IsRow(devices[d]) /\ WakeClaimable(devices[d], now)
  BY <1>0 DEF WakeGrant, IsRow
<1>3. /\ devices'[d] = AttemptedRow(devices[d], now)
      /\ devices'[d] \in Row /\ devices'[d].lastAttemptMs = now
      /\ \A e \in Ids \ {d} : devices'[e] = devices[e]
  <2>1. devices'[d] = AttemptedRow(devices[d], now) /\ \A e \in Ids \ {d} : devices'[e] = devices[e]
    BY <1>0 DEF WakeGrant
  <2>2. AttemptedRow(devices[d], now) \in Row
    BY <1>0, <1>2, RowUpdateTypes DEF Stamp
  <2>3. AttemptedRow(devices[d], now).lastAttemptMs = now
    BY <1>2 DEF AttemptedRow, Row
  <2> QED BY <2>1, <2>2, <2>3
<1>4. ASSUME NEW q \in WakeReqs \ {r}, wake[q].claim # Null, wake[q].dev = d
      PROVE  wake[q].claim + WakeCooldown <= now
  <2>1. devices[d].lastAttemptMs # Null /\ wake[q].claim <= devices[d].lastAttemptMs
    BY <1>2, <1>4 DEF WakeInv, WakeStampInv
  <2>2. devices[d].lastAttemptMs <= now - WakeCooldown
    BY <1>2, <2>1 DEF WakeClaimable
  <2>3. devices[d].lastAttemptMs \in Nat
    BY <1>2, <2>1 DEF Row, Stamp
  <2> QED BY <1>0, <1>4, <2>1, <2>2, <2>3
<1>5. WakeStampInv'
  <2> SUFFICES ASSUME NEW q \in WakeReqs
               PROVE  /\ wake'[q].pc \in {"new", "claim"} => wake'[q].claim = Null
                      /\ wake'[q].claim # Null =>
                           /\ devices'[wake'[q].dev] # Unused
                           /\ IsRow(devices'[wake'[q].dev]) =>
                                /\ devices'[wake'[q].dev].lastAttemptMs # Null
                                /\ wake'[q].claim <= devices'[wake'[q].dev].lastAttemptMs
    BY DEF WakeStampInv, IsRow
  <2>1. CASE q = r
    BY <1>0, <1>1, <1>3, <2>1
  <2>2. CASE q # r /\ wake[q].dev = d
    <3>1. wake[q].claim # Null => wake[q].claim <= now
      BY <1>0, <1>4, <2>2
    <3> QED BY <1>0, <1>1, <1>3, <2>2, <3>1 DEF WakeInv, WakeStampInv
  <2>3. CASE q # r /\ wake[q].dev # d
    <3>1. wake[q].claim # Null => wake[q].dev \in Ids \ {d}
      BY <1>0, <2>3 DEF WakeInv, WakeStampInv
    <3> QED BY <1>1, <1>3, <2>3, <3>1 DEF WakeInv, WakeStampInv
  <2> QED BY <2>1, <2>2, <2>3
<1>6. WakeSpacing'
  <2> SUFFICES ASSUME NEW q1 \in WakeReqs, NEW q2 \in WakeReqs, q1 # q2,
                      wake'[q1].claim # Null, wake'[q2].claim # Null,
                      wake'[q1].dev = wake'[q2].dev
               PROVE  \/ wake'[q1].claim + WakeCooldown <= wake'[q2].claim
                      \/ wake'[q2].claim + WakeCooldown <= wake'[q1].claim
    BY DEF WakeSpacing
  <2>1. CASE q1 = r
    BY <1>1, <1>4, <2>1
  <2>2. CASE q2 = r
    BY <1>1, <1>4, <2>2
  <2>3. CASE q1 # r /\ q2 # r
    BY <1>1, <2>3 DEF WakeInv, WakeSpacing
  <2> QED BY <2>1, <2>2, <2>3
<1> QED BY <1>5, <1>6

LEMMA OtherStepKeepsWakeInv ==
  ASSUME WakeInv, WakeClaimsKept, AttemptsKept
  PROVE  (WakeStampInv /\ WakeSpacing)'
<1>0. ASSUME NEW q \in WakeReqs, wake[q].claim # Null
      PROVE  wake[q].pc # "new" /\ wake[q].dev \in Ids /\ wake'[q].dev = wake[q].dev
  BY <1>0 DEF WakeInv, WakeStampInv, TypeInv, InFlightOK, WakeClaimsKept
<1>1. WakeStampInv'
  <2> SUFFICES ASSUME NEW q \in WakeReqs
               PROVE  /\ wake'[q].pc \in {"new", "claim"} => wake'[q].claim = Null
                      /\ wake'[q].claim # Null =>
                           /\ devices'[wake'[q].dev] # Unused
                           /\ IsRow(devices'[wake'[q].dev]) =>
                                /\ devices'[wake'[q].dev].lastAttemptMs # Null
                                /\ wake'[q].claim <= devices'[wake'[q].dev].lastAttemptMs
    BY DEF WakeStampInv, IsRow
  <2> QED BY <1>0 DEF WakeInv, WakeStampInv, WakeClaimsKept, AttemptsKept
<1>2. WakeSpacing'
  BY <1>0 DEF WakeInv, WakeSpacing, WakeClaimsKept
<1> QED BY <1>1, <1>2

\* The store grants two wakes of one device only WAKE_COOLDOWN_MS apart, for
\* every interleaving of the statements of any number of server processes,
\* with edits, deletions, failed statements and crashes anywhere between.
THEOREM WakeSpacingTheorem == Spec => []WakeSpacing
<1>1. Init => WakeInv
  BY InitTypeInv DEF Init, WakeInv, WakeStampInv, WakeSpacing, NewWake
<1>2. ASSUME WakeInv, [Next]_vars PROVE WakeInv'
  <2>1. TypeInv'
    BY <1>2, NextTypeInv DEF WakeInv
  <2>2. CASE UNCHANGED vars
    BY <1>2, <2>1, <2>2 DEF vars, WakeInv, WakeStampInv, WakeSpacing, IsRow
  <2>3. CASE Next
    BY <1>2, <2>1, <2>3, WakeEffect, WakeGrantKeepsInv, OtherStepKeepsWakeInv DEF WakeInv
  <2> QED BY <1>2, <2>2, <2>3
<1> QED BY <1>1, <1>2, PTL DEF Spec, WakeInv

-----------------------------------------------------------------------------
(***************************************************************************)
(* Rows that can be used.                                                  *)
(*                                                                         *)
(* update() writes what it decided two statements earlier, so RowsConfigured *)
(* is inductive only together with what a parsed body guarantees at each   *)
(* stage: an address from parseDeviceInput on, a secret from update()'s    *)
(* own SELECT on.                                                          *)
(***************************************************************************)
Configured(x) ==
  /\ x.method = "companion" => x.cred # Null /\ x.address # Null
  /\ x.method = "none" => x.cred = Null

Prepared(x) ==
  /\ x.method = "companion" => x.address # Null
  /\ x.method = "none" => x.cred = Null

EditsPrepared ==
  \A r \in EditReqs :
    /\ edit[r].pc = "current" => Prepared(edit[r].parsed)
    /\ edit[r].pc = "write" => Configured(edit[r].parsed)

ConfigInv == TypeInv /\ RowsConfigured /\ EditsPrepared

\* A step that leaves what a row is configured with.
ConfigsKept ==
  \A d \in Ids :
    IsRow(devices'[d]) =>
      /\ IsRow(devices[d])
      /\ devices'[d].method = devices[d].method
      /\ devices'[d].cred = devices[d].cred
      /\ devices'[d].address = devices[d].address

\* Edits go on as they were, or end.
EditsKept ==
  \A r \in EditReqs : edit'[r] = edit[r] \/ edit'[r].pc \notin {"current", "write"}

LEMMA KeptConfigInv ==
  ASSUME ConfigInv, ConfigsKept, EditsKept
  PROVE  RowsConfigured' /\ EditsPrepared'
<1>1. RowsConfigured'
  <2> SUFFICES ASSUME NEW d \in Ids, IsRow(devices'[d])
               PROVE  /\ devices'[d].method = "companion" =>
                           devices'[d].cred # Null /\ devices'[d].address # Null
                      /\ devices'[d].method = "none" => devices'[d].cred = Null
    BY DEF RowsConfigured, IsRow
  <2> QED BY DEF ConfigInv, RowsConfigured, ConfigsKept
<1>2. EditsPrepared'
  BY DEF ConfigInv, EditsPrepared, EditsKept
<1> QED BY <1>1, <1>2

\* Claims, stamps, probes and deletions touch nothing a row is configured with.
LEMMA OneRowKeepsConfigs ==
  ASSUME TypeOK, NEW d \in Ids, NEW row,
         devices' = [devices EXCEPT ![d] = row],
         IsRow(row) => /\ IsRow(devices[d])
                       /\ row.method = devices[d].method
                       /\ row.cred = devices[d].cred
                       /\ row.address = devices[d].address
  PROVE  ConfigsKept
BY DEF TypeOK, ConfigsKept

LEMMA SameDevicesKeepConfigs == UNCHANGED devices => ConfigsKept
BY DEF ConfigsKept

LEMMA StampsKeepConfig ==
  ASSUME NEW row \in Row, NEW now \in Stamp
  PROVE  /\ \A new \in {AttemptedRow(row, now), ShutdownRow(row, now), SentRow(row, now), SeenRow(row, now)} :
              new.method = row.method /\ new.cred = row.cred /\ new.address = row.address
BY DEF AttemptedRow, ShutdownRow, SentRow, SeenRow, Row

LEMMA WakeKeepsConfig ==
  ASSUME TypeInv, NEW r \in WakeReqs, (\E d \in Ids : WakeBegin(r, d)) \/ WakeStep(r)
  PROVE  ConfigsKept /\ EditsKept
<1> DEFINE d == wake[r].dev
<1>0. /\ TypeOK
      /\ wake[r].pc # "new" => d \in Ids
      /\ wake[r].now \in Stamp
  BY DEF TypeInv, TypeOK, InFlightOK, WakeRec
<1>s. ASSUME UNCHANGED <<devices, edit>> PROVE ConfigsKept /\ EditsKept
  BY <1>s, SameDevicesKeepConfigs DEF EditsKept
<1>1. ASSUME NEW e \in Ids, WakeBegin(r, e) PROVE ConfigsKept /\ EditsKept
  BY <1>1, <1>s DEF WakeBegin, SetWake
<1>2. CASE WakeClaim(r) \/ WakeMark(r)
  <2>1. d \in Ids
    BY <1>0, <1>2 DEF WakeClaim, WakeMark
  <2>2. UNCHANGED edit
    BY <1>2 DEF WakeClaim, WakeMark, SetWake
  <2>3. CASE UNCHANGED devices
    BY <1>s, <2>2, <2>3
  <2>4. CASE ~UNCHANGED devices
    <3>1. /\ IsRow(devices[d])
          /\ \/ devices' = [devices EXCEPT ![d] = AttemptedRow(devices[d], wake[r].now)]
             \/ devices' = [devices EXCEPT ![d] = SentRow(devices[d], wake[r].now)]
      BY <1>2, <2>4 DEF WakeClaim, WakeMark
    <3>2. devices[d] \in Row
      BY <1>0, <2>1, <3>1, RowType
    <3> HIDE DEF d
    <3> QED BY <1>0, <2>1, <2>2, <3>1, <3>2, StampsKeepConfig, OneRowKeepsConfigs DEF EditsKept
  <2> QED BY <2>3, <2>4
<1>3. CASE WakeRead(r)
  BY <1>3, <1>s DEF WakeRead, SetWake
<1>4. CASE WakeSent(r) \/ WakeSendFailed(r) \/ WakeGet(r)
  BY <1>4, <1>s DEF WakeSent, WakeSendFailed, WakeGet, SetWake
<1> QED BY <1>1, <1>2, <1>3, <1>4 DEF WakeStep, WakeOwnStep

LEMMA PowerKeepsConfig ==
  ASSUME TypeInv, NEW r \in PowerReqs,
         (\E d \in Ids, suspend \in BOOLEAN : PowerBegin(r, d, suspend)) \/ PowerStep(r)
  PROVE  ConfigsKept /\ EditsKept
<1> DEFINE d == power[r].dev
<1>0. /\ TypeOK
      /\ power[r].pc # "new" => d \in Ids
      /\ power[r].now \in Stamp
  BY DEF TypeInv, TypeOK, InFlightOK, PowerRec
<1>s. ASSUME UNCHANGED <<devices, edit>> PROVE ConfigsKept /\ EditsKept
  BY <1>s, SameDevicesKeepConfigs DEF EditsKept
<1>1. ASSUME NEW e \in Ids, NEW suspend \in BOOLEAN, PowerBegin(r, e, suspend) PROVE ConfigsKept /\ EditsKept
  BY <1>1, <1>s DEF PowerBegin, SetPower
<1>2. CASE PowerClaim(r)
  <2>1. d \in Ids
    BY <1>0, <1>2 DEF PowerClaim
  <2>2. UNCHANGED edit
    BY <1>2 DEF PowerClaim, PowerError, SetPower
  <2>3. CASE UNCHANGED devices
    BY <1>s, <2>2, <2>3
  <2>4. CASE ~UNCHANGED devices
    <3>1. /\ IsRow(devices[d])
          /\ devices' = [devices EXCEPT ![d] = ShutdownRow(devices[d], power[r].now)]
      BY <1>2, <2>4 DEF PowerClaim
    <3>2. devices[d] \in Row
      BY <1>0, <2>1, <3>1, RowType
    <3> HIDE DEF d
    <3> QED BY <1>0, <2>1, <2>2, <3>1, <3>2, StampsKeepConfig, OneRowKeepsConfigs DEF EditsKept
  <2> QED BY <2>3, <2>4
<1>3. CASE PowerMethod(r)
  BY <1>3, <1>s DEF PowerMethod, PowerError, SetPower
<1>4. CASE PowerTarget(r)
  BY <1>4, <1>s DEF PowerTarget, PowerError, SetPower
<1>5. CASE PowerSecret(r)
  BY <1>5, <1>s DEF PowerSecret, PowerError, SetPower
<1>6. CASE PowerAnswer(r)
  BY <1>6, <1>s DEF PowerAnswer, SetPower
<1> QED BY <1>1, <1>2, <1>3, <1>4, <1>5, <1>6 DEF PowerStep

LEMMA ProbeKeepsConfig ==
  ASSUME TypeInv, NEW r \in ProbeReqs, (\E d \in Ids : ProbeBegin(r, d)) \/ ProbeStep(r)
  PROVE  ConfigsKept /\ EditsKept
<1> DEFINE d == probe[r].dev
<1>0. /\ TypeOK
      /\ InFlight(probe[r]) => d \in Ids
      /\ probe[r].checkedAt \in Stamp
  BY DEF TypeInv, TypeOK, InFlightOK, ProbeRec
<1>s. ASSUME UNCHANGED <<devices, edit>> PROVE ConfigsKept /\ EditsKept
  BY <1>s, SameDevicesKeepConfigs DEF EditsKept
<1>1. ASSUME NEW e \in Ids, ProbeBegin(r, e) PROVE ConfigsKept /\ EditsKept
  BY <1>1, <1>s DEF ProbeBegin, SetProbe
<1>2. CASE ProbeChecked(r)
  BY <1>2, <1>s DEF ProbeChecked, SetProbe
<1>3. CASE ProbeRecord(r)
  <2>1. d \in Ids
    BY <1>0, <1>3 DEF ProbeRecord, InFlight, Ended
  <2>2. UNCHANGED edit
    BY <1>3 DEF ProbeRecord, SetProbe
  <2>3. CASE UNCHANGED devices
    BY <1>s, <2>2, <2>3
  <2>4. CASE ~UNCHANGED devices
    <3>1. /\ IsRow(devices[d])
          /\ devices' = [devices EXCEPT ![d] = SeenRow(devices[d], probe[r].checkedAt)]
      BY <1>3, <2>4 DEF ProbeRecord
    <3>2. devices[d] \in Row
      BY <1>0, <2>1, <3>1, RowType
    <3> HIDE DEF d
    <3> QED BY <1>0, <2>1, <2>2, <3>1, <3>2, StampsKeepConfig, OneRowKeepsConfigs DEF EditsKept
  <2> QED BY <2>3, <2>4
<1> QED BY <1>1, <1>2, <1>3 DEF ProbeStep

LEMMA FailureKeepsConfig ==
  ASSUME TypeInv, Failure
  PROVE  ConfigsKept /\ EditsKept
<1>0. TypeOK
  BY DEF TypeInv
<1>1. EndedEdit.pc = "done"
  BY DEF EndedEdit, NewEdit
<1>2. ASSUME NEW r \in Reqs, StatementFails(r) PROVE ConfigsKept /\ EditsKept
  <2>1. UNCHANGED devices
    BY <1>2 DEF StatementFails
  <2>2. EditsKept
    BY <1>0, <1>1, <1>2 DEF StatementFails, SetWake, SetPower, SetEdit, EditsKept, TypeOK
  <2> QED BY <2>1, <2>2, SameDevicesKeepConfigs
<1>3. ASSUME NEW p \in Procs, Crash(p) PROVE ConfigsKept /\ EditsKept
  <2>1. UNCHANGED devices
    BY <1>3 DEF Crash
  <2>2. EditsKept
    BY <1>1, <1>3 DEF Crash, EditsKept
  <2> QED BY <2>1, <2>2, SameDevicesKeepConfigs
<1> QED BY <1>2, <1>3 DEF Failure

-----------------------------------------------------------------------------
\* A row that create() or update() writes is configured, whatever the others are.
LEMMA ConfiguredRowKeepsInv ==
  ASSUME ConfigInv, NEW d \in Ids, NEW row, Configured(row),
         devices' = [devices EXCEPT ![d] = row],
         EditsKept
  PROVE  RowsConfigured' /\ EditsPrepared'
<1>1. devices \in [Ids -> Row \cup {Unused, Deleted}]
  BY DEF ConfigInv, TypeInv, TypeOK
<1>2. \A e \in Ids : IsRow(devices'[e]) => e = d \/ (IsRow(devices[e]) /\ devices'[e] = devices[e])
  BY <1>1
<1>3. devices'[d] = row
  BY <1>1
<1>4. RowsConfigured'
  <2> SUFFICES ASSUME NEW e \in Ids, IsRow(devices'[e]) PROVE Configured(devices'[e])
    BY DEF RowsConfigured, IsRow, Configured
  <2> QED BY <1>2, <1>3 DEF ConfigInv, RowsConfigured, Configured
<1>5. EditsPrepared'
  BY DEF ConfigInv, EditsPrepared, EditsKept
<1> QED BY <1>4, <1>5

\* One edit goes on, the table stays.
LEMMA OneEditKeepsInv ==
  ASSUME ConfigInv, NEW r \in EditReqs, NEW rec,
         edit' = [edit EXCEPT ![r] = rec], UNCHANGED devices,
         rec.pc = "current" => Prepared(rec.parsed),
         rec.pc = "write" => Configured(rec.parsed)
  PROVE  RowsConfigured' /\ EditsPrepared'
<1>1. edit \in [EditReqs -> EditRec]
  BY DEF ConfigInv, TypeInv, TypeOK
<1>2. RowsConfigured'
  BY DEF ConfigInv, RowsConfigured, IsRow
<1>3. EditsPrepared'
  BY <1>1 DEF ConfigInv, EditsPrepared
<1> QED BY <1>2, <1>3

LEMMA CreateKeepsConfig ==
  ASSUME ConfigInv, NEW p \in Procs, NEW d \in Ids, NEW in \in Inputs, Create(p, d, in)
  PROVE  RowsConfigured' /\ EditsPrepared'
<1>1. in \in Input /\ InputAccepted(in, Null)
  BY RequestAssumption DEF Create
<1>2. Configured(InsertedRow(Parsed(in, Null), clock))
  BY <1>1, NullAssumption DEF InputAccepted, Parsed, ParsedMethod, InsertedRow, Configured, Input, Methods
<1>3. EditsKept
  BY DEF Create, EditsKept
<1> QED BY <1>2, <1>3, ConfiguredRowKeepsInv DEF Create

LEMMA EditKeepsConfig ==
  ASSUME ConfigInv, NEW r \in EditReqs,
         (\E d \in Ids, in \in Inputs : EditBegin(r, d, in)) \/ EditStep(r)
  PROVE  RowsConfigured' /\ EditsPrepared'
<1> DEFINE rec == edit[r]  d == edit[r].dev
<1>0. /\ rec \in EditRec
      /\ edit \in [EditReqs -> EditRec]
      /\ InFlight(rec) => d \in Ids /\ rec.input \in Inputs
      /\ rec.pc \in {"current", "write"} => rec.parsed \in Input /\ rec.parsed.method \in Methods
      /\ devices \in [Ids -> Row \cup {Unused, Deleted}]
  BY DEF ConfigInv, TypeInv, TypeOK, InFlightOK
<1>e. ASSUME EditEnd(r) PROVE RowsConfigured' /\ EditsPrepared'
  <2>1. EndedEdit.pc = "done"
    BY DEF EndedEdit, NewEdit
  <2> QED BY <1>e, <2>1, OneEditKeepsInv DEF EditEnd, SetEdit
<1>1. ASSUME NEW e \in Ids, NEW in \in Inputs, EditBegin(r, e, in)
      PROVE  RowsConfigured' /\ EditsPrepared'
  <2> DEFINE new == [rec EXCEPT !.pc = "parse", !.dev = e, !.input = in]
  <2>1. new.pc = "parse"
    BY <1>0 DEF EditRec
  <2>2. edit' = [edit EXCEPT ![r] = new] /\ UNCHANGED devices
    BY <1>1 DEF EditBegin, SetEdit
  <2> HIDE DEF new
  <2> QED BY <2>1, <2>2, OneEditKeepsInv
<1>2. CASE EditParse(r)
  <2> DEFINE parsed == Parsed(rec.input, devices[d].method)
             new == [rec EXCEPT !.pc = "current", !.now = clock, !.parsed = parsed]
             accepted == IsRow(devices[d]) /\ InputAccepted(rec.input, devices[d].method)
  <2>1. rec.input \in Input
    BY <1>0, <1>2, RequestAssumption DEF EditParse, InFlight, Ended
  <2>2. CASE accepted
    <3>1. Prepared(parsed)
      BY <2>1, <2>2 DEF InputAccepted, Parsed, Prepared, Input
    <3> HIDE DEF parsed
    <3>2. new.pc = "current" /\ new.parsed = parsed
      BY <1>0 DEF EditRec
    <3>3. SetEdit(r, new) /\ UNCHANGED devices
      BY <1>2, <2>2 DEF EditParse, parsed
    <3> QED BY <3>1, <3>2, <3>3, OneEditKeepsInv DEF SetEdit
  <2>3. CASE ~accepted
    BY <1>2, <1>e, <2>3 DEF EditParse
  <2> QED BY <2>2, <2>3
<1>3. CASE EditCurrent(r)
  <2> DEFINE cred == EffectiveCred(rec.parsed, devices[d])
             parsed == [rec.parsed EXCEPT !.cred = cred]
             new == [rec EXCEPT !.pc = "write", !.parsed.cred = cred]
             usable == IsRow(devices[d]) /\ CredUsable(rec.parsed.method, cred)
  <2>1. rec.parsed \in Input /\ Prepared(rec.parsed)
    BY <1>0, <1>3 DEF EditCurrent, ConfigInv, EditsPrepared
  <2>2. CASE usable
    <3>1. Configured(parsed)
      BY <2>1, <2>2 DEF EffectiveCred, CredUsable, Prepared, Configured, Input
    <3> HIDE DEF cred
    <3>2. new.pc = "write" /\ new.parsed = parsed
      BY <1>0 DEF EditRec
    <3>3. SetEdit(r, new) /\ UNCHANGED devices
      BY <1>3, <2>2 DEF EditCurrent, cred
    <3> QED BY <3>1, <3>2, <3>3, OneEditKeepsInv DEF SetEdit
  <2>3. CASE ~usable
    BY <1>3, <1>e, <2>3 DEF EditCurrent
  <2> QED BY <2>2, <2>3
<1>4. CASE EditWrite(r)
  <2> DEFINE new == [rec EXCEPT !.pc = "get"]
  <2>1. d \in Ids /\ Configured(rec.parsed)
    BY <1>0, <1>4 DEF EditWrite, InFlight, Ended, ConfigInv, EditsPrepared
  <2>2. new.pc = "get"
    BY <1>0 DEF EditRec
  <2>3. Configured(UpdatedRow(devices[d], rec.parsed, rec.now))
    BY <2>1 DEF UpdatedRow, Configured
  <2>4. CASE EditEnd(r)
    BY <1>e, <2>4
  <2>5. CASE ~EditEnd(r) /\ UNCHANGED devices
    <3>1. edit' = [edit EXCEPT ![r] = new]
      BY <1>4, <2>5 DEF EditWrite, SetEdit
    <3> QED BY <2>2, <2>5, <3>1, OneEditKeepsInv
  <2>6. CASE ~EditEnd(r) /\ ~UNCHANGED devices
    <3>1. /\ edit' = [edit EXCEPT ![r] = new]
          /\ devices' = [devices EXCEPT ![d] = UpdatedRow(devices[d], rec.parsed, rec.now)]
      BY <1>4, <2>6 DEF EditWrite, SetEdit
    <3>2. EditsKept
      BY <1>0, <2>2, <3>1 DEF EditsKept
    <3> QED BY <2>1, <2>3, <3>1, <3>2, ConfiguredRowKeepsInv
  <2> QED BY <2>4, <2>5, <2>6
<1>5. CASE EditGet(r)
  BY <1>5, <1>e DEF EditGet
<1> QED BY <1>1, <1>2, <1>3, <1>4, <1>5 DEF EditStep

\* A companion row has a secret and an address and a row without remote control
\* no credential, for any number of processes whose edits, creations and
\* deletions interleave (parseDeviceInput, create, update).
THEOREM RowsConfiguredTheorem == Spec => []RowsConfigured
<1>1. Init => ConfigInv
  <2> SUFFICES ASSUME Init PROVE ConfigInv
    OBVIOUS
  <2>1. \A m \in Macs : Configured(LegacyRow(m))
    BY DEF LegacyRow, InsertedRow, Configured
  <2>2. RowsConfigured
    BY <2>1 DEF Init, RowsConfigured, IsRow, Configured
  <2>3. EditsPrepared
    BY DEF Init, NewEdit, EditsPrepared
  <2> QED BY <2>2, <2>3, InitTypeInv DEF ConfigInv
<1>2. ASSUME ConfigInv, [Next]_vars PROVE ConfigInv'
  <2>1. TypeInv'
    BY <1>2, NextTypeInv DEF ConfigInv
  <2>2. TypeInv /\ TypeOK
    BY <1>2 DEF ConfigInv, TypeInv
  <2>k. ASSUME ConfigsKept, EditsKept PROVE ConfigInv'
    BY <1>2, <2>1, <2>k, KeptConfigInv DEF ConfigInv
  <2>3. CASE UNCHANGED vars
    BY <2>3, <2>k, SameDevicesKeepConfigs DEF vars, EditsKept
  <2>4. CASE Tick
    BY <2>4, <2>k, SameDevicesKeepConfigs DEF Tick, EditsKept
  <2>5. ASSUME NEW p \in Procs, NEW d \in Ids, Delete(p, d) PROVE ConfigInv'
    <3>1. ~IsRow(Deleted)
      BY DEF IsRow
    <3>2. ConfigsKept
      BY <2>2, <2>5, <3>1, OneRowKeepsConfigs DEF Delete
    <3> QED BY <2>5, <2>k, <3>2 DEF Delete, EditsKept
  <2>c. ASSUME RowsConfigured', EditsPrepared' PROVE ConfigInv'
    BY <2>1, <2>c DEF ConfigInv
  <2>6. CASE Arrival
    BY <2>c, <1>2, <2>2, <2>5, <2>6, <2>k, CreateKeepsConfig, EditKeepsConfig, WakeKeepsConfig,
       PowerKeepsConfig, ProbeKeepsConfig DEF Arrival
  <2>7. CASE Progress
    BY <2>c, <1>2, <2>2, <2>7, <2>k, EditKeepsConfig, WakeKeepsConfig, PowerKeepsConfig,
       ProbeKeepsConfig DEF Progress
  <2>8. CASE Failure
    BY <2>2, <2>8, <2>k, FailureKeepsConfig
  <2> QED BY <1>2, <2>3, <2>4, <2>6, <2>7, <2>8 DEF Next
<1> QED BY <1>1, <1>2, PTL DEF Spec, ConfigInv

-----------------------------------------------------------------------------
(***************************************************************************)
(* What one step does to one row and to one request.                       *)
(*                                                                         *)
(* The rest of the theorems need no more of Next than these lemmas say: a  *)
(* row is inserted, deleted, or rewritten by one of the five UPDATEs, and  *)
(* a request takes a step of its own handler or ends unanswered.           *)
(***************************************************************************)
HistoryKept(d) == edits'[d] = edits[d] /\ targets'[d] = targets[d]

RowKept(d) == devices'[d] = devices[d] /\ HistoryKept(d)

\* create() and delete() run in one synchronous section of some process.
RowInserted(d) ==
  /\ \E p \in Procs : Free(p)
  /\ devices[d] = Unused /\ HistoryKept(d)
  /\ devices'[d] \in Row
  /\ devices'[d].lastAttemptMs = Null /\ devices'[d].lastSentAt = Null
  /\ devices'[d].lastSeenAt = Null /\ devices'[d].lastShutdownAttemptMs = Null
  /\ devices'[d].updatedAt = clock

RowDeleted(d) ==
  /\ \E p \in Procs : Free(p)
  /\ IsRow(devices[d]) /\ devices'[d] = Deleted /\ HistoryKept(d)

RowAttempted(d) ==
  \E r \in WakeReqs :
    /\ wake[r].dev = d /\ wake[r].now \in Nat /\ WakeClaim(r)
    /\ IsRow(devices[d]) /\ WakeClaimable(devices[d], wake[r].now)
    /\ wake'[r] = [wake[r] EXCEPT !.pc = "read", !.claim = wake[r].now]
    /\ devices'[d] = AttemptedRow(devices[d], wake[r].now) /\ HistoryKept(d)

RowSent(d) ==
  \E r \in WakeReqs :
    /\ wake[r].dev = d /\ wake[r].now \in Nat /\ WakeMark(r)
    /\ IsRow(devices[d]) /\ devices[d].mac = wake[r].mac
    /\ devices'[d] = SentRow(devices[d], wake[r].now) /\ HistoryKept(d)

RowClaimed(d) ==
  \E r \in PowerReqs :
    /\ power[r].dev = d /\ power[r].now \in Nat /\ PowerClaim(r)
    /\ IsRow(devices[d]) /\ ShutdownClaimable(devices[d], power[r].now)
    /\ devices'[d] = ShutdownRow(devices[d], power[r].now) /\ HistoryKept(d)

RowEdited(d) ==
  \E r \in EditReqs :
    /\ edit[r].dev = d /\ edit[r].now \in Nat /\ EditWrite(r)
    /\ edit[r].parsed \in Input /\ edit[r].parsed.method \in Methods
    /\ IsRow(devices[d])
    /\ devices'[d] = UpdatedRow(devices[d], edit[r].parsed, edit[r].now)
    /\ edits'[d] = edits[d] + 1
    /\ targets'[d] = IF SameTarget(devices[d], edit[r].parsed) THEN targets[d] ELSE targets[d] + 1

RowProbed(d) ==
  \E r \in ProbeReqs :
    /\ probe[r].dev = d /\ probe[r].checkedAt \in Stamp /\ ProbeRecord(r)
    /\ IsRow(devices[d]) /\ ProbeMatches(devices[d], probe[r].snapshot)
    /\ devices'[d] = SeenRow(devices[d], probe[r].checkedAt) /\ HistoryKept(d)

\* An action that sets one row leaves the others.
LEMMA OneRowSet ==
  ASSUME TypeInv, NEW d \in Ids, NEW e, NEW row, devices' = [devices EXCEPT ![e] = row]
  PROVE  IF d = e THEN devices'[d] = row ELSE devices'[d] = devices[d]
BY DEF TypeInv, TypeOK

LEMMA SameRows ==
  ASSUME UNCHANGED <<devices, history>>, NEW d
  PROVE  RowKept(d)
BY DEF RowKept, HistoryKept, history

LEMMA ArrivalRowEffect ==
  ASSUME TypeInv, Arrival, NEW d \in Ids
  PROVE  RowKept(d) \/ RowInserted(d) \/ RowDeleted(d)
<1>1. ASSUME NEW p \in Procs, NEW e \in Ids, NEW in \in Inputs, Create(p, e, in)
      PROVE  RowKept(d) \/ RowInserted(d)
  <2> DEFINE row == InsertedRow(Parsed(in, Null), clock)
  <2>1. /\ row \in Row /\ row.lastAttemptMs = Null /\ row.lastSentAt = Null /\ row.lastSeenAt = Null
        /\ row.lastShutdownAttemptMs = Null /\ row.updatedAt = clock
    <3>1. row \in Row
      BY ParsedType, InsertedRowType, RequestAssumption DEF TypeInv, TypeOK
    <3> QED BY <3>1 DEF InsertedRow
  <2>2. /\ Free(p) /\ devices[e] = Unused /\ UNCHANGED history
        /\ devices' = [devices EXCEPT ![e] = row]
    BY <1>1 DEF Create
  <2> HIDE DEF row
  <2> QED BY <2>1, <2>2, OneRowSet DEF RowKept, RowInserted, HistoryKept, history
<1>2. ASSUME NEW p \in Procs, NEW e \in Ids, Delete(p, e)
      PROVE  RowKept(d) \/ RowDeleted(d)
  BY <1>2, OneRowSet DEF Delete, RowKept, RowDeleted, HistoryKept, history
<1>3. ASSUME NEW r \in WakeReqs, NEW e \in Ids, WakeBegin(r, e) PROVE RowKept(d)
  BY <1>3, SameRows DEF WakeBegin, SetWake
<1>4. ASSUME NEW r \in PowerReqs, NEW e \in Ids, NEW suspend \in BOOLEAN, PowerBegin(r, e, suspend)
      PROVE  RowKept(d)
  BY <1>4, SameRows DEF PowerBegin, SetPower
<1>5. ASSUME NEW r \in EditReqs, NEW e \in Ids, NEW in \in Inputs, EditBegin(r, e, in)
      PROVE  RowKept(d)
  BY <1>5, SameRows DEF EditBegin
<1>6. ASSUME NEW r \in ProbeReqs, NEW e \in Ids, ProbeBegin(r, e) PROVE RowKept(d)
  BY <1>6, SameRows DEF ProbeBegin, SetProbe
<1> QED BY <1>1, <1>2, <1>3, <1>4, <1>5, <1>6 DEF Arrival

LEMMA WakeRowEffect ==
  ASSUME TypeInv, NEW r \in WakeReqs, WakeStep(r), NEW d \in Ids
  PROVE  RowKept(d) \/ RowAttempted(d) \/ RowSent(d)
<1> DEFINE e == wake[r].dev
           now == wake[r].now
<1>1. UNCHANGED history
  BY DEF WakeStep, WakeOwnStep, WakeClaim, WakeRead, WakeSent, WakeSendFailed, WakeMark, WakeGet, SetWake
<1>2. CASE UNCHANGED devices
  BY <1>1, <1>2, SameRows
<1>3. CASE WakeClaim(r) /\ IsRow(devices[e]) /\ WakeClaimable(devices[e], now)
  <2>1. now \in Nat /\ wake \in [WakeReqs -> WakeRec]
    BY <1>3 DEF TypeInv, TypeOK, InFlightOK, InFlight, Ended, WakeClaim
  <2>2. /\ devices' = [devices EXCEPT ![e] = AttemptedRow(devices[e], now)]
        /\ wake'[r] = [wake[r] EXCEPT !.pc = "read", !.claim = now]
    <3>1. e \in Ids
      BY <1>3 DEF TypeInv, InFlightOK, WakeClaim
    <3> QED BY <1>3, <2>1, <3>1 DEF WakeClaim, SetWake, TypeInv, TypeOK
  <2> QED BY <1>1, <1>3, <2>1, <2>2, OneRowSet DEF RowKept, RowAttempted, HistoryKept, history
<1>4. CASE WakeMark(r) /\ IsRow(devices[e]) /\ devices[e].mac = wake[r].mac
  <2>1. now \in Nat
    BY <1>4 DEF TypeInv, InFlightOK, InFlight, Ended, WakeMark
  <2>2. devices' = [devices EXCEPT ![e] = SentRow(devices[e], now)]
    <3>1. e \in Ids
      BY <1>4 DEF TypeInv, InFlightOK, WakeMark
    <3> QED BY <1>4, <3>1 DEF WakeMark, TypeInv, TypeOK
  <2> QED BY <1>1, <1>4, <2>1, <2>2, OneRowSet DEF RowKept, RowSent, HistoryKept, history
<1> QED BY <1>2, <1>3, <1>4
    DEF WakeStep, WakeOwnStep, WakeClaim, WakeRead, WakeSent, WakeSendFailed, WakeMark, WakeGet

LEMMA PowerRowEffect ==
  ASSUME TypeInv, NEW r \in PowerReqs, PowerStep(r), NEW d \in Ids
  PROVE  RowKept(d) \/ RowClaimed(d)
<1> DEFINE e == power[r].dev
           now == power[r].now
<1>1. UNCHANGED history
  BY DEF PowerStep, PowerMethod, PowerTarget, PowerClaim, PowerSecret, PowerAnswer, PowerError, SetPower
<1>2. CASE UNCHANGED devices
  BY <1>1, <1>2, SameRows
<1>3. CASE ~UNCHANGED devices
  <2>1. PowerClaim(r)
    BY <1>3 DEF PowerStep, PowerMethod, PowerTarget, PowerSecret, PowerAnswer
  <2>2. e \in Ids /\ now \in Nat
    BY <2>1 DEF TypeInv, InFlightOK, PowerClaim
  <2>3. /\ IsRow(devices[e]) /\ ShutdownClaimable(devices[e], now)
        /\ devices' = [devices EXCEPT ![e] = ShutdownRow(devices[e], now)]
    BY <1>3, <2>1, <2>2 DEF PowerClaim, TypeInv, TypeOK
  <2> QED BY <1>1, <2>1, <2>2, <2>3, OneRowSet DEF RowKept, RowClaimed, HistoryKept, history
<1> QED BY <1>2, <1>3

LEMMA EditRowEffect ==
  ASSUME TypeInv, NEW r \in EditReqs, EditStep(r), NEW d \in Ids
  PROVE  RowKept(d) \/ RowEdited(d)
<1> DEFINE e == edit[r].dev
           new == edit[r].parsed
           now == edit[r].now
<1>1. CASE UNCHANGED <<devices, history>>
  BY <1>1, SameRows
<1>2. CASE ~UNCHANGED <<devices, history>>
  <2>1. EditWrite(r)
    BY <1>2 DEF EditStep, EditParse, EditCurrent, EditGet, EditEnd
  <2>2. e \in Ids /\ now \in Nat /\ new \in Input /\ new.method \in Methods
    BY <2>1 DEF TypeInv, InFlightOK, InFlight, Ended, EditWrite
  <2>3. /\ IsRow(devices[e])
        /\ devices' = [devices EXCEPT ![e] = UpdatedRow(devices[e], new, now)]
        /\ edits' = [edits EXCEPT ![e] = @ + 1]
        /\ targets' = [targets EXCEPT ![e] = IF SameTarget(devices[e], new) THEN @ ELSE @ + 1]
    BY <1>2, <2>1 DEF EditWrite, EditEnd
  <2>4. edits \in [Ids -> Nat] /\ targets \in [Ids -> Nat]
    BY DEF TypeInv, TypeOK
  <2>5. CASE d # e
    BY <2>3, <2>4, <2>5, OneRowSet DEF RowKept, HistoryKept
  <2>6. CASE d = e
    <3>1. /\ edits'[d] = edits[d] + 1
          /\ targets'[d] = IF SameTarget(devices[d], new) THEN targets[d] ELSE targets[d] + 1
          /\ devices'[d] = UpdatedRow(devices[d], new, now)
      BY <2>2, <2>3, <2>4, <2>6, OneRowSet
    <3> QED BY <2>1, <2>2, <2>3, <2>6, <3>1 DEF RowEdited
  <2> QED BY <2>5, <2>6
<1> QED BY <1>1, <1>2

LEMMA ProbeRowEffect ==
  ASSUME TypeInv, NEW r \in ProbeReqs, ProbeStep(r), NEW d \in Ids
  PROVE  RowKept(d) \/ RowProbed(d)
<1> DEFINE e == probe[r].dev
<1>1. UNCHANGED history
  BY DEF ProbeStep, ProbeChecked, ProbeRecord, SetProbe
<1>2. CASE UNCHANGED devices
  BY <1>1, <1>2, SameRows
<1>3. CASE ~UNCHANGED devices
  <2>1. ProbeRecord(r)
    BY <1>3 DEF ProbeStep, ProbeChecked
  <2>2. e \in Ids /\ probe[r].checkedAt \in Stamp
    BY <2>1 DEF TypeInv, TypeOK, InFlightOK, InFlight, Ended, ProbeRecord, ProbeRec
  <2>3. /\ IsRow(devices[e]) /\ ProbeMatches(devices[e], probe[r].snapshot)
        /\ devices' = [devices EXCEPT ![e] = SeenRow(devices[e], probe[r].checkedAt)]
    BY <1>3, <2>1, <2>2 DEF ProbeRecord, TypeInv, TypeOK
  <2> QED BY <1>1, <2>1, <2>2, <2>3, OneRowSet DEF RowKept, RowProbed, HistoryKept, history
<1> QED BY <1>2, <1>3

LEMMA RowEffect ==
  ASSUME TypeInv, [Next]_vars, NEW d \in Ids
  PROVE  \/ RowKept(d) \/ RowInserted(d) \/ RowDeleted(d) \/ RowAttempted(d)
         \/ RowSent(d) \/ RowClaimed(d) \/ RowEdited(d) \/ RowProbed(d)
<1>1. CASE UNCHANGED vars
  BY <1>1, SameRows DEF vars, history
<1>2. CASE Tick
  BY <1>2, SameRows DEF Tick
<1>3. CASE Failure
  <2>1. UNCHANGED <<devices, history>>
    BY <1>3 DEF Failure, StatementFails, Crash, SetWake, SetPower
  <2> QED BY <2>1, SameRows
<1> QED BY <1>1, <1>2, <1>3, ArrivalRowEffect, WakeRowEffect, PowerRowEffect, EditRowEffect,
           ProbeRowEffect DEF Next, Progress

\* A request that does nothing, begins, takes a step, or ends unanswered.
WakeMoves(r) ==
  \/ UNCHANGED wake[r]
  \/ \E d \in Ids : WakeBegin(r, d)
  \/ WakeStep(r)
  \/ InFlight(wake[r]) /\ wake'[r] = EndedWake(wake[r]) /\ UNCHANGED <<devices, history>>

PowerMoves(r) ==
  \/ UNCHANGED power[r]
  \/ \E d \in Ids, suspend \in BOOLEAN : PowerBegin(r, d, suspend)
  \/ PowerStep(r)
  \/ InFlight(power[r]) /\ power'[r] = EndedPower(power[r]) /\ UNCHANGED <<devices, history>>

EditMoves(r) ==
  \/ UNCHANGED edit[r]
  \/ \E d \in Ids, in \in Inputs : EditBegin(r, d, in)
  \/ EditStep(r)
  \/ edit'[r] = EndedEdit /\ UNCHANGED <<devices, history>>

ProbeMoves(r) ==
  \/ UNCHANGED probe[r]
  \/ \E d \in Ids : ProbeBegin(r, d)
  \/ ProbeStep(r)
  \/ InFlight(probe[r]) /\ probe'[r] = EndedProbe(probe[r]) /\ UNCHANGED <<devices, history>>

\* A handler's step writes its own record only, and none of another kind.
LEMMA WakeStepWrites ==
  ASSUME TypeInv, NEW q \in WakeReqs, (\E d \in Ids : WakeBegin(q, d)) \/ WakeStep(q)
  PROVE  /\ UNCHANGED <<power, edit, probe, clock, history>>
         /\ \A r \in WakeReqs \ {q} : wake'[r] = wake[r]
<1>1. \E rec : SetWake(q, rec)
  BY DEF WakeBegin, WakeStep, WakeOwnStep, WakeClaim, WakeRead, WakeSent, WakeSendFailed, WakeMark, WakeGet
<1> QED BY <1>1 DEF SetWake, TypeInv, TypeOK

LEMMA PowerStepWrites ==
  ASSUME TypeInv, NEW q \in PowerReqs,
         (\E d \in Ids, suspend \in BOOLEAN : PowerBegin(q, d, suspend)) \/ PowerStep(q)
  PROVE  /\ UNCHANGED <<wake, edit, probe, clock, history>>
         /\ \A r \in PowerReqs \ {q} : power'[r] = power[r]
<1>1. \E rec : SetPower(q, rec)
  BY DEF PowerBegin, PowerStep, PowerMethod, PowerTarget, PowerClaim, PowerSecret, PowerAnswer, PowerError
<1> QED BY <1>1 DEF SetPower, TypeInv, TypeOK

LEMMA EditStepWrites ==
  ASSUME TypeInv, NEW q \in EditReqs,
         (\E d \in Ids, in \in Inputs : EditBegin(q, d, in)) \/ EditStep(q)
  PROVE  /\ UNCHANGED <<wake, power, probe, clock>>
         /\ \A r \in EditReqs \ {q} : edit'[r] = edit[r]
<1>1. \E rec : SetEdit(q, rec)
  BY DEF EditBegin, EditStep, EditParse, EditCurrent, EditWrite, EditGet, EditEnd
<1> QED BY <1>1 DEF SetEdit, TypeInv, TypeOK

LEMMA ProbeStepWrites ==
  ASSUME TypeInv, NEW q \in ProbeReqs, (\E d \in Ids : ProbeBegin(q, d)) \/ ProbeStep(q)
  PROVE  /\ UNCHANGED <<loop, wake, power, edit, clock, history>>
         /\ \A r \in ProbeReqs \ {q} : probe'[r] = probe[r]
<1>1. \E rec : SetProbe(q, rec)
  BY DEF ProbeBegin, ProbeStep, ProbeChecked, ProbeRecord
<1> QED BY <1>1 DEF SetProbe, TypeInv, TypeOK

\* Creations, deletions, failures and the clock.
Surroundings ==
  \/ UNCHANGED vars
  \/ Tick
  \/ \E p \in Procs, d \in Ids, in \in Inputs : Create(p, d, in)
  \/ \E p \in Procs, d \in Ids : Delete(p, d)

LEMMA SurroundingsWrite ==
  Surroundings => UNCHANGED <<loop, wake, power, edit, probe, history>>
BY DEF Surroundings, vars, Tick, Create, Delete, history

LEMMA NextKinds ==
  [Next]_vars =>
    \/ Surroundings \/ Failure
    \/ \E q \in WakeReqs : (\E d \in Ids : WakeBegin(q, d)) \/ WakeStep(q)
    \/ \E q \in PowerReqs : (\E d \in Ids, suspend \in BOOLEAN : PowerBegin(q, d, suspend)) \/ PowerStep(q)
    \/ \E q \in EditReqs : (\E d \in Ids, in \in Inputs : EditBegin(q, d, in)) \/ EditStep(q)
    \/ \E q \in ProbeReqs : (\E d \in Ids : ProbeBegin(q, d)) \/ ProbeStep(q)
BY DEF Next, Arrival, Progress, Surroundings

LEMMA FailureWrites ==
  ASSUME TypeInv, Failure
  PROVE  /\ UNCHANGED <<devices, clock, history>>
         /\ \A r \in WakeReqs :
              wake'[r] = wake[r] \/ (InFlight(wake[r]) /\ wake'[r] = EndedWake(wake[r]))
         /\ \A r \in PowerReqs :
              power'[r] = power[r] \/ (InFlight(power[r]) /\ power'[r] = EndedPower(power[r]))
         /\ \A r \in EditReqs : edit'[r] = edit[r] \/ edit'[r] = EndedEdit
         /\ \A r \in ProbeReqs :
              probe'[r] = probe[r] \/ (InFlight(probe[r]) /\ probe'[r] = EndedProbe(probe[r]))
<1>1. ASSUME NEW p \in Procs, Crash(p)
      PROVE  /\ UNCHANGED <<devices, clock, history>>
             /\ \A r \in WakeReqs :
                  wake'[r] = wake[r] \/ (InFlight(wake[r]) /\ wake'[r] = EndedWake(wake[r]))
             /\ \A r \in PowerReqs :
                  power'[r] = power[r] \/ (InFlight(power[r]) /\ power'[r] = EndedPower(power[r]))
             /\ \A r \in EditReqs : edit'[r] = edit[r] \/ edit'[r] = EndedEdit
             /\ \A r \in ProbeReqs :
                  probe'[r] = probe[r] \/ (InFlight(probe[r]) /\ probe'[r] = EndedProbe(probe[r]))
  BY <1>1 DEF Crash
<1>2. ASSUME NEW q \in Reqs, StatementFails(q), UNCHANGED <<power, edit, probe>>
      PROVE  \A r \in WakeReqs :
               wake'[r] = wake[r] \/ (InFlight(wake[r]) /\ wake'[r] = EndedWake(wake[r]))
  BY <1>2 DEF StatementFails, SetWake, SetPower, SetEdit, TypeInv, TypeOK
<1>3. ASSUME NEW q \in Reqs, StatementFails(q), UNCHANGED <<wake, edit, probe>>
      PROVE  \A r \in PowerReqs :
               power'[r] = power[r] \/ (InFlight(power[r]) /\ power'[r] = EndedPower(power[r]))
  BY <1>3 DEF StatementFails, SetWake, SetPower, SetEdit, TypeInv, TypeOK
<1>4. ASSUME NEW q \in Reqs, StatementFails(q), UNCHANGED <<wake, power, probe>>
      PROVE  \A r \in EditReqs : edit'[r] = edit[r] \/ edit'[r] = EndedEdit
  BY <1>4 DEF StatementFails, SetWake, SetPower, SetEdit, TypeInv, TypeOK
<1>5. ASSUME NEW q \in Reqs, StatementFails(q)
      PROVE  /\ UNCHANGED <<devices, clock, history, probe>>
             /\ \/ UNCHANGED <<power, edit>>
                \/ UNCHANGED <<wake, edit>>
                \/ UNCHANGED <<wake, power>>
  BY <1>5 DEF StatementFails, SetWake, SetPower, SetEdit
<1> QED BY <1>1, <1>2, <1>3, <1>4, <1>5 DEF Failure

LEMMA RequestEffect ==
  ASSUME TypeInv, [Next]_vars
  PROVE  /\ \A r \in WakeReqs : WakeMoves(r)
         /\ \A r \in PowerReqs : PowerMoves(r)
         /\ \A r \in EditReqs : EditMoves(r)
         /\ \A r \in ProbeReqs : ProbeMoves(r)
<1>1. CASE Surroundings
  BY <1>1, SurroundingsWrite DEF WakeMoves, PowerMoves, EditMoves, ProbeMoves
<1>2. CASE Failure
  BY <1>2, FailureWrites DEF WakeMoves, PowerMoves, EditMoves, ProbeMoves
<1>3. ASSUME NEW q \in WakeReqs, (\E d \in Ids : WakeBegin(q, d)) \/ WakeStep(q)
      PROVE  /\ \A r \in WakeReqs : WakeMoves(r)
             /\ UNCHANGED <<power, edit, probe>>
  BY <1>3, WakeStepWrites DEF WakeMoves
<1>4. ASSUME NEW q \in PowerReqs,
             (\E d \in Ids, suspend \in BOOLEAN : PowerBegin(q, d, suspend)) \/ PowerStep(q)
      PROVE  /\ \A r \in PowerReqs : PowerMoves(r)
             /\ UNCHANGED <<wake, edit, probe>>
  BY <1>4, PowerStepWrites DEF PowerMoves
<1>5. ASSUME NEW q \in EditReqs,
             (\E d \in Ids, in \in Inputs : EditBegin(q, d, in)) \/ EditStep(q)
      PROVE  /\ \A r \in EditReqs : EditMoves(r)
             /\ UNCHANGED <<wake, power, probe>>
  BY <1>5, EditStepWrites DEF EditMoves
<1>6. ASSUME NEW q \in ProbeReqs, (\E d \in Ids : ProbeBegin(q, d)) \/ ProbeStep(q)
      PROVE  /\ \A r \in ProbeReqs : ProbeMoves(r)
             /\ UNCHANGED <<wake, power, edit>>
  BY <1>6, ProbeStepWrites DEF ProbeMoves
<1> QED BY <1>1, <1>2, <1>3, <1>4, <1>5, <1>6, NextKinds
        DEF WakeMoves, PowerMoves, EditMoves, ProbeMoves

-----------------------------------------------------------------------------
(***************************************************************************)
(* Spacing of the power claims.                                            *)
(*                                                                         *)
(* As for the wake claims, but an update() that retargets the device       *)
(* erases the stamp: the row's stamp bounds the claims of the present      *)
(* epoch only, and no claim is of a later one.                             *)
(***************************************************************************)
Unclaimed == {"new", "method", "target", "claim"}

ShutdownStampInv ==
  \A r \in PowerReqs :
    LET d == power[r].dev IN
    /\ power[r].pc \in Unclaimed => power[r].claim = Null
    /\ power[r].claim # Null =>
         /\ devices[d] # Unused
         /\ power[r].epoch <= targets[d]
         /\ IsRow(devices[d]) /\ power[r].epoch = targets[d] =>
              /\ devices[d].lastShutdownAttemptMs # Null
              /\ power[r].claim <= devices[d].lastShutdownAttemptMs

ShutdownInv == TypeInv /\ ShutdownStampInv /\ ShutdownSpacing

\* claimShutdown's UPDATE when its WHERE clause holds.
ShutdownGrant(r) ==
  LET d == power[r].dev
      now == power[r].now
  IN
  /\ PowerClaim(r) /\ d \in Ids /\ now \in Nat
  /\ IsRow(devices[d]) /\ ShutdownClaimable(devices[d], now)
  /\ power'[r].dev = d /\ power'[r].claim = now /\ power'[r].epoch = targets[d]
  /\ power'[r].pc \in {"secret", "sending", "done"}
  /\ devices'[d] = ShutdownRow(devices[d], now)
  /\ UNCHANGED history
  /\ \A q \in PowerReqs \ {r} : power'[q] = power[q]

\* Every other step leaves what a request has claimed.
ShutdownKept(r) ==
  /\ power'[r].claim = power[r].claim
  /\ power[r].pc # "new" => power'[r].dev = power[r].dev
  /\ power[r].pc \notin Unclaimed => power'[r].epoch = power[r].epoch
  /\ power'[r].pc \in Unclaimed => power[r].pc \in Unclaimed

LEMMA EndedPowerKeeps ==
  ASSUME NEW rec
  PROVE  /\ EndedPower(rec).pc = "done" /\ EndedPower(rec).dev = rec.dev
         /\ EndedPower(rec).claim = rec.claim /\ EndedPower(rec).epoch = rec.epoch
         /\ EndedPower(rec).target = Null
BY DEF EndedPower, NewPower

LEMMA ShutdownEffect ==
  ASSUME TypeInv, NEW r \in PowerReqs, PowerMoves(r)
  PROVE  ShutdownGrant(r) \/ ShutdownKept(r)
<1> DEFINE d == power[r].dev
           now == power[r].now
           granted == IsRow(devices[d]) /\ ShutdownClaimable(devices[d], now)
<1>0. power \in [PowerReqs -> PowerRec] /\ power[r] \in PowerRec
  BY DEF TypeInv, TypeOK
<1>e. ASSUME power'[r] = EndedPower(power[r]) PROVE ShutdownKept(r)
  BY <1>e, EndedPowerKeeps DEF ShutdownKept, Unclaimed
<1>1. ASSUME UNCHANGED power[r] PROVE ShutdownKept(r)
  BY <1>1 DEF ShutdownKept
<1>2. ASSUME NEW e \in Ids, NEW suspend \in BOOLEAN, PowerBegin(r, e, suspend)
      PROVE  ShutdownKept(r)
  BY <1>0, <1>2 DEF PowerBegin, SetPower, ShutdownKept, Unclaimed, PowerRec
<1>3. CASE PowerMethod(r) \/ PowerTarget(r)
  BY <1>0, <1>3, <1>e DEF PowerMethod, PowerTarget, PowerError, SetPower, ShutdownKept, Unclaimed, PowerRec
<1>4. CASE PowerClaim(r) /\ ~granted
  BY <1>0, <1>4 DEF PowerClaim, SetPower, ShutdownKept, Unclaimed, PowerRec
<1>5. CASE PowerClaim(r) /\ granted
  <2> DEFINE claimed == [power[r] EXCEPT !.claim = now, !.epoch = targets[d]]
  <2>1. d \in Ids /\ now \in Nat /\ devices \in [Ids -> Row \cup {Unused, Deleted}]
    BY <1>5 DEF PowerClaim, TypeInv, TypeOK, InFlightOK
  <2>2. claimed.dev = d /\ claimed.claim = now /\ claimed.epoch = targets[d]
    BY <1>0 DEF PowerRec
  <2>3. \/ power'[r] = [claimed EXCEPT !.pc = "secret"]
        \/ power'[r] = [claimed EXCEPT !.pc = "sending"]
        \/ power'[r] = EndedPower(claimed)
    BY <1>0, <1>5 DEF PowerClaim, PowerError, SetPower
  <2>4. /\ power'[r].dev = d /\ power'[r].claim = now /\ power'[r].epoch = targets[d]
        /\ power'[r].pc \in {"secret", "sending", "done"}
    <3>1. claimed \in PowerRec
      BY <1>0, <2>1 DEF PowerRec, Stamp, TypeInv, TypeOK
    <3> HIDE DEF claimed
    <3> DEFINE secret == [claimed EXCEPT !.pc = "secret"]
               sending == [claimed EXCEPT !.pc = "sending"]
    <3>2. \A new \in {secret, sending} : /\ new.pc \in {"secret", "sending"} /\ new.dev = claimed.dev
                                         /\ new.claim = claimed.claim /\ new.epoch = claimed.epoch
      BY <3>1 DEF PowerRec
    <3>3. power'[r] \in {secret, sending} \/ power'[r] = EndedPower(claimed)
      BY <2>3
    <3> HIDE DEF secret, sending
    <3> QED BY <2>2, <3>2, <3>3, EndedPowerKeeps
  <2>5. devices'[d] = ShutdownRow(devices[d], now)
    BY <1>5, <2>1 DEF PowerClaim
  <2>6. UNCHANGED history /\ \A q \in PowerReqs \ {r} : power'[q] = power[q]
    BY <1>5, PowerStepWrites DEF PowerStep
  <2> QED BY <1>5, <2>1, <2>4, <2>5, <2>6 DEF ShutdownGrant
<1>6. CASE PowerSecret(r) \/ PowerAnswer(r)
  BY <1>0, <1>6, <1>e DEF PowerSecret, PowerAnswer, PowerError, SetPower, ShutdownKept, Unclaimed, PowerRec
<1> QED BY <1>1, <1>2, <1>3, <1>4, <1>5, <1>6, <1>e DEF PowerMoves, PowerStep

\* The columns an UPDATE does not write.
LEMMA UpdatesKeep ==
  ASSUME NEW row \in Row, NEW now \in Stamp
  PROVE  /\ AttemptedRow(row, now) \in Row /\ SentRow(row, now) \in Row
         /\ ShutdownRow(row, now) \in Row /\ SeenRow(row, now) \in Row
         /\ AttemptedRow(row, now) = [row EXCEPT !.lastAttemptMs = now]
         /\ SentRow(row, now) = [row EXCEPT !.lastSentAt = now]
         /\ ShutdownRow(row, now) = [row EXCEPT !.lastShutdownAttemptMs = now]
         /\ SeenRow(row, now) \in {row, [row EXCEPT !.lastSeenAt = now]}
BY SeenRowType, RowUpdateTypes DEF AttemptedRow, SentRow, ShutdownRow, SeenRow

LEMMA RowsAreNotMarks == \A row \in Row : row # Unused /\ row # Deleted /\ IsRow(row)
BY AbsenceAssumption DEF IsRow

\* One row's shutdown stamp and epoch: kept, started by a grant, or a new epoch.
ShutdownStampMoves(d) ==
  \/ /\ devices'[d].lastShutdownAttemptMs = devices[d].lastShutdownAttemptMs
     /\ targets'[d] = targets[d]
  \/ /\ \E r \in PowerReqs :
          /\ power[r].dev = d /\ PowerClaim(r)
          /\ devices'[d].lastShutdownAttemptMs = power[r].now /\ power[r].now \in Nat
          /\ ShutdownClaimable(devices[d], power[r].now)
     /\ targets'[d] = targets[d]
  \/ /\ devices'[d].lastShutdownAttemptMs = Null
     /\ targets'[d] = targets[d] + 1

LEMMA ShutdownStampEffect ==
  ASSUME TypeInv, [Next]_vars, NEW d \in Ids
  PROVE  /\ devices[d] # Unused => devices'[d] # Unused
         /\ targets'[d] >= targets[d]
         /\ IsRow(devices'[d]) /\ devices[d] # Unused => IsRow(devices[d]) /\ ShutdownStampMoves(d)
<1>0. targets[d] \in Nat /\ (IsRow(devices[d]) => devices[d] \in Row) /\ \A n \in Nat : n \in Stamp
  BY RowType DEF TypeInv, TypeOK, Stamp
<1>1. CASE RowKept(d)
  BY <1>0, <1>1 DEF RowKept, HistoryKept, ShutdownStampMoves, IsRow
<1>2. CASE RowInserted(d) \/ RowDeleted(d)
  BY <1>0, <1>2, AbsenceAssumption DEF RowInserted, RowDeleted, HistoryKept, IsRow
<1>3. CASE RowAttempted(d) \/ RowSent(d) \/ RowProbed(d)
  <2>1. PICK now \in Stamp : devices'[d] \in {AttemptedRow(devices[d], now), SentRow(devices[d], now),
                                              SeenRow(devices[d], now)}
    BY <1>0, <1>3 DEF RowAttempted, RowSent, RowProbed
  <2>2. IsRow(devices[d]) /\ targets'[d] = targets[d]
    BY <1>3 DEF RowAttempted, RowSent, RowProbed, HistoryKept
  <2>3. /\ devices'[d] \in Row
        /\ devices'[d].lastShutdownAttemptMs = devices[d].lastShutdownAttemptMs
    BY <1>0, <2>1, <2>2, UpdatesKeep DEF Row
  <2> QED BY <1>0, <2>2, <2>3, RowsAreNotMarks DEF ShutdownStampMoves
<1>4. CASE RowClaimed(d)
  <2>1. PICK r \in PowerReqs :
          /\ power[r].dev = d /\ power[r].now \in Nat /\ PowerClaim(r)
          /\ IsRow(devices[d]) /\ ShutdownClaimable(devices[d], power[r].now)
          /\ devices'[d] = ShutdownRow(devices[d], power[r].now) /\ HistoryKept(d)
    BY <1>4 DEF RowClaimed
  <2>2. devices'[d] \in Row /\ devices'[d].lastShutdownAttemptMs = power[r].now
    BY <1>0, <2>1, UpdatesKeep DEF Row
  <2> QED BY <1>0, <2>1, <2>2, RowsAreNotMarks DEF ShutdownStampMoves, HistoryKept
<1>5. CASE RowEdited(d)
  <2>1. PICK r \in EditReqs :
          /\ edit[r].now \in Nat /\ edit[r].parsed \in Input /\ edit[r].parsed.method \in Methods
          /\ IsRow(devices[d])
          /\ devices'[d] = UpdatedRow(devices[d], edit[r].parsed, edit[r].now)
          /\ targets'[d] = IF SameTarget(devices[d], edit[r].parsed) THEN targets[d] ELSE targets[d] + 1
    BY <1>5 DEF RowEdited
  <2>2. devices'[d] \in Row
    BY <1>0, <2>1, UpdatedRowType
  <2>3. devices'[d].lastShutdownAttemptMs =
          IF SameTarget(devices[d], edit[r].parsed) THEN devices[d].lastShutdownAttemptMs ELSE Null
    BY <2>1 DEF UpdatedRow
  <2> QED BY <1>0, <2>1, <2>2, <2>3, RowsAreNotMarks DEF ShutdownStampMoves
<1> QED BY <1>1, <1>2, <1>3, <1>4, <1>5, RowEffect

\* A claim is granted only SHUTDOWN_COOLDOWN_MS after those of the same epoch.
LEMMA GrantIsSpaced ==
  ASSUME ShutdownInv, NEW r \in PowerReqs, NEW d \in Ids, NEW now \in Nat,
         power[r].claim # Null, power[r].dev = d, power[r].epoch = targets[d],
         IsRow(devices[d]), ShutdownClaimable(devices[d], now)
  PROVE  power[r].claim + ShutdownCooldown <= now /\ power[r].claim <= now
<1>1. /\ devices[d].lastShutdownAttemptMs # Null
      /\ power[r].claim <= devices[d].lastShutdownAttemptMs
  BY DEF ShutdownInv, ShutdownStampInv
<1>2. devices[d].lastShutdownAttemptMs <= now - ShutdownCooldown
  BY <1>1 DEF ShutdownClaimable
<1>3. devices[d].lastShutdownAttemptMs \in Nat /\ power[r].claim \in Nat
  BY <1>1, RowType DEF ShutdownInv, TypeInv, TypeOK, PowerRec, Row, Stamp
<1> QED BY <1>1, <1>2, <1>3, CooldownAssumption

\* The stamp of a row goes on bounding a claim that stays.
LEMMA ClaimStaysBounded ==
  ASSUME ShutdownInv, [Next]_vars, NEW r \in PowerReqs, power[r].claim # Null
  PROVE  LET d == power[r].dev IN
         /\ devices'[d] # Unused
         /\ power[r].epoch <= targets'[d]
         /\ IsRow(devices'[d]) /\ power[r].epoch = targets'[d] =>
              /\ devices'[d].lastShutdownAttemptMs # Null
              /\ power[r].claim <= devices'[d].lastShutdownAttemptMs
<1> DEFINE d == power[r].dev
<1>1. /\ TypeInv /\ power[r].pc \notin Unclaimed
      /\ power[r].epoch \in Nat /\ power[r].claim \in Nat
  BY DEF ShutdownInv, ShutdownStampInv, TypeInv, TypeOK, PowerRec, Stamp
<1>2. d \in Ids /\ targets[d] \in Nat
  BY <1>1 DEF TypeInv, TypeOK, InFlightOK, Unclaimed
<1>3. /\ devices[d] # Unused /\ power[r].epoch <= targets[d]
      /\ IsRow(devices[d]) /\ power[r].epoch = targets[d] =>
           /\ devices[d].lastShutdownAttemptMs # Null
           /\ power[r].claim <= devices[d].lastShutdownAttemptMs
  BY DEF ShutdownInv, ShutdownStampInv
<1>4. /\ devices'[d] # Unused /\ targets'[d] >= targets[d]
      /\ IsRow(devices'[d]) => IsRow(devices[d]) /\ ShutdownStampMoves(d)
  BY <1>1, <1>2, <1>3, ShutdownStampEffect
<1>5. targets'[d] \in Nat
  BY <1>1, <1>2, NextTypeInv DEF TypeInv, TypeOK
<1>6. ASSUME IsRow(devices'[d]), power[r].epoch = targets'[d]
      PROVE  /\ devices'[d].lastShutdownAttemptMs # Null
             /\ power[r].claim <= devices'[d].lastShutdownAttemptMs
  <2>1. targets'[d] = targets[d] /\ IsRow(devices[d])
    BY <1>1, <1>2, <1>3, <1>4, <1>5, <1>6
  <2>2. CASE devices'[d].lastShutdownAttemptMs = devices[d].lastShutdownAttemptMs
    BY <1>3, <1>6, <2>1, <2>2
  <2>3. ASSUME NEW q \in PowerReqs, power[q].dev = d, power[q].now \in Nat,
               devices'[d].lastShutdownAttemptMs = power[q].now,
               ShutdownClaimable(devices[d], power[q].now)
        PROVE  /\ devices'[d].lastShutdownAttemptMs # Null
               /\ power[r].claim <= devices'[d].lastShutdownAttemptMs
    BY <1>2, <1>6, <2>1, <2>3, GrantIsSpaced, NullAssumption
  <2> QED BY <1>2, <1>4, <1>6, <2>1, <2>2, <2>3 DEF ShutdownStampMoves
<1> QED BY <1>1, <1>2, <1>3, <1>4, <1>5, <1>6

LEMMA NextShutdownInv ==
  ASSUME ShutdownInv, [Next]_vars
  PROVE  ShutdownInv'
<1>1. TypeInv /\ TypeInv'
  BY NextTypeInv DEF ShutdownInv
<1>2. \A r \in PowerReqs : ShutdownGrant(r) \/ ShutdownKept(r)
  BY <1>1, RequestEffect, ShutdownEffect
<1>3. ASSUME NEW r \in PowerReqs, ShutdownKept(r)
      PROVE  /\ power'[r].pc \in Unclaimed => power'[r].claim = Null
             /\ power'[r].claim # Null =>
                  /\ power[r].claim # Null
                  /\ power'[r].claim = power[r].claim
                  /\ power'[r].dev = power[r].dev /\ power'[r].epoch = power[r].epoch
  BY <1>3 DEF ShutdownKept, ShutdownInv, ShutdownStampInv, Unclaimed
<1>4. ASSUME NEW r \in PowerReqs, ShutdownGrant(r)
      PROVE  LET d == power[r].dev IN
             /\ d \in Ids /\ power'[r].dev = d /\ power'[r].epoch = targets[d]
             /\ power'[r].claim = power[r].now /\ power[r].now \in Nat
             /\ targets'[d] = targets[d] /\ targets[d] \in Nat
             /\ devices'[d] \in Row /\ devices'[d].lastShutdownAttemptMs = power[r].now
  <2> DEFINE d == power[r].dev
  <2>1. /\ d \in Ids /\ devices[d] \in Row /\ power[r].now \in Nat
        /\ devices'[d] = ShutdownRow(devices[d], power[r].now)
        /\ targets'[d] = targets[d] /\ targets[d] \in Nat
    BY <1>1, <1>4, RowType DEF ShutdownGrant, TypeInv, TypeOK, history
  <2>2. devices'[d] \in Row /\ devices'[d].lastShutdownAttemptMs = power[r].now
    BY <2>1, UpdatesKeep DEF Row, Stamp
  <2> QED BY <1>4, <2>1, <2>2 DEF ShutdownGrant
<1>5. ShutdownStampInv'
  <2> SUFFICES ASSUME NEW r \in PowerReqs
               PROVE  LET d == power'[r].dev IN
                      /\ power'[r].pc \in Unclaimed => power'[r].claim = Null
                      /\ power'[r].claim # Null =>
                           /\ devices'[d] # Unused
                           /\ power'[r].epoch <= targets'[d]
                           /\ IsRow(devices'[d]) /\ power'[r].epoch = targets'[d] =>
                                /\ devices'[d].lastShutdownAttemptMs # Null
                                /\ power'[r].claim <= devices'[d].lastShutdownAttemptMs
    BY DEF ShutdownStampInv, IsRow
  <2>1. CASE ShutdownGrant(r)
    <3>1. power'[r].pc \notin Unclaimed
      BY <2>1 DEF ShutdownGrant, Unclaimed
    <3>2. \A n \in Nat : n # Null /\ n <= n
      BY NullAssumption
    <3> QED BY <1>4, <2>1, <3>1, <3>2, RowsAreNotMarks
  <2>2. CASE ShutdownKept(r)
    BY <1>3, <2>2, ClaimStaysBounded
  <2> QED BY <1>2, <2>1, <2>2
<1>6. ASSUME NEW r \in PowerReqs, ShutdownGrant(r), NEW q \in PowerReqs \ {r},
             power'[q].claim # Null, power'[q].dev = power'[r].dev, power'[q].epoch = power'[r].epoch
      PROVE  power'[q].claim + ShutdownCooldown <= power'[r].claim
  <2>1. power'[q] = power[q]
    BY <1>6 DEF ShutdownGrant
  <2> QED BY <1>4, <1>6, <2>1, GrantIsSpaced DEF ShutdownGrant
<1>7. ShutdownSpacing'
  <2> SUFFICES ASSUME NEW q \in PowerReqs, NEW r \in PowerReqs, q # r,
                      power'[q].claim # Null, power'[r].claim # Null,
                      power'[q].dev = power'[r].dev, power'[q].epoch = power'[r].epoch
               PROVE  \/ power'[q].claim + ShutdownCooldown <= power'[r].claim
                      \/ power'[r].claim + ShutdownCooldown <= power'[q].claim
    BY DEF ShutdownSpacing
  <2>1. CASE ShutdownGrant(r)
    BY <1>6, <2>1
  <2>2. CASE ShutdownGrant(q)
    BY <1>6, <2>2
  <2>3. CASE ShutdownKept(q) /\ ShutdownKept(r)
    BY <1>3, <2>3 DEF ShutdownInv, ShutdownSpacing
  <2> QED BY <1>2, <2>1, <2>2, <2>3
<1> QED BY <1>1, <1>5, <1>7 DEF ShutdownInv

\* Two power commands leave for one target of one device only SHUTDOWN_COOLDOWN_MS
\* apart, for every interleaving of the statements of any number of server processes:
\* nothing but an edit that retargets the device lifts the cooldown.
THEOREM ShutdownSpacingTheorem == Spec => []ShutdownSpacing
<1>1. Init => ShutdownInv
  BY InitTypeInv DEF Init, ShutdownInv, ShutdownStampInv, ShutdownSpacing, NewPower
<1> QED BY <1>1, NextShutdownInv, PTL DEF Spec, ShutdownInv

-----------------------------------------------------------------------------
(***************************************************************************)
(* What the stamps of a row tell.                                          *)
(***************************************************************************)
\* A send is confirmed once, and what it was is remembered.
SentInv ==
  /\ TypeInv
  /\ \A r \in WakeReqs :
       /\ wake[r].sent => wake[r].pc \in {"mark", "get", "done"}
       /\ wake[r].pc \in {"mark", "get"} => wake[r].sent
  /\ SentStampTruthful

SentKept(r) ==
  /\ wake[r].sent =>
       /\ wake'[r].sent /\ wake'[r].dev = wake[r].dev
       /\ wake'[r].mac = wake[r].mac /\ wake'[r].now = wake[r].now
  /\ wake'[r].sent => wake'[r].pc \in {"mark", "get", "done"}
  /\ wake'[r].pc \in {"mark", "get"} => wake'[r].sent

LEMMA SentEffect ==
  ASSUME SentInv, NEW r \in WakeReqs, WakeMoves(r)
  PROVE  SentKept(r)
<1>0. /\ wake \in [WakeReqs -> WakeRec] /\ wake[r] \in WakeRec
      /\ wake[r].sent => wake[r].pc \in {"mark", "get", "done"}
      /\ wake[r].pc \in {"mark", "get"} => wake[r].sent
  BY DEF SentInv, TypeInv, TypeOK
<1>e. ASSUME wake'[r] = EndedWake(wake[r]) PROVE SentKept(r)
  <2>1. wake[r].sent \in BOOLEAN
    BY <1>0 DEF WakeRec
  <2>2. /\ wake'[r].pc = "done" /\ wake'[r].sent = wake[r].sent /\ wake'[r].dev = wake[r].dev
        /\ wake[r].sent => wake'[r].mac = wake[r].mac /\ wake'[r].now = wake[r].now
    BY <1>e DEF EndedWake, NewWake
  <2> QED BY <2>1, <2>2 DEF SentKept
<1>1. ASSUME UNCHANGED wake[r] PROVE SentKept(r)
  BY <1>0, <1>1 DEF SentKept
<1>2. ASSUME NEW e \in Ids, WakeBegin(r, e) PROVE SentKept(r)
  BY <1>0, <1>2 DEF WakeBegin, SetWake, SentKept, WakeRec
<1>3. CASE WakeClaim(r)
  <2>1. wake'[r] \in {[wake[r] EXCEPT !.pc = "read", !.claim = wake[r].now], [wake[r] EXCEPT !.pc = "read"]}
        /\ wake[r].pc = "claim"
    BY <1>0, <1>3 DEF WakeClaim, SetWake
  <2>2. wake'[r].pc = "read" /\ wake'[r].sent = wake[r].sent
    BY <1>0, <2>1 DEF WakeRec
  <2> QED BY <1>0, <2>1, <2>2 DEF SentKept
<1>4. CASE WakeRead(r)
  <2>1. /\ \/ wake'[r] = EndedWake(wake[r])
           \/ wake'[r] = [wake[r] EXCEPT !.pc = "refused"]
           \/ wake'[r] = [wake[r] EXCEPT !.pc = "sending", !.mac = devices[wake[r].dev].mac]
        /\ wake[r].pc = "read"
    BY <1>0, <1>4 DEF WakeRead, SetWake
  <2>2. CASE wake'[r] # EndedWake(wake[r])
    <3>1. wake'[r].pc \in {"refused", "sending"} /\ wake'[r].sent = wake[r].sent
      BY <1>0, <2>1, <2>2 DEF WakeRec
    <3> QED BY <1>0, <2>1, <3>1 DEF SentKept
  <2> QED BY <1>e, <2>2
<1>5. CASE WakeSent(r)
  BY <1>0, <1>5 DEF WakeSent, SetWake, SentKept, WakeRec
<1>6. CASE WakeMark(r)
  BY <1>0, <1>6, <1>e DEF WakeMark, SetWake, SentKept, WakeRec
<1>7. CASE WakeSendFailed(r) \/ WakeGet(r)
  BY <1>0, <1>7, <1>e DEF WakeSendFailed, WakeGet, SetWake
<1> QED BY <1>1, <1>2, <1>3, <1>4, <1>5, <1>6, <1>7, <1>e DEF WakeMoves, WakeStep, WakeOwnStep

\* The sent stamp of a row: erased, kept with its MAC, or of a request that marks it now.
LEMMA SentStampEffect ==
  ASSUME TypeInv, [Next]_vars, NEW d \in Ids, IsRow(devices'[d]), devices'[d].lastSentAt # Null
  PROVE  \/ /\ IsRow(devices[d])
            /\ devices'[d].mac = devices[d].mac /\ devices'[d].lastSentAt = devices[d].lastSentAt
         \/ \E r \in WakeReqs :
              /\ wake[r].pc = "mark" /\ wake[r].dev = d
              /\ wake[r].mac = devices'[d].mac /\ wake[r].now = devices'[d].lastSentAt
<1>0. (IsRow(devices[d]) => devices[d] \in Row) /\ \A n \in Nat : n \in Stamp
  BY RowType DEF TypeInv, Stamp
<1>1. CASE RowKept(d)
  BY <1>1 DEF RowKept, IsRow
<1>2. CASE RowInserted(d) \/ RowDeleted(d)
  BY <1>2 DEF RowInserted, RowDeleted, IsRow
<1>3. CASE RowAttempted(d) \/ RowClaimed(d) \/ RowProbed(d)
  <2>1. PICK now \in Stamp : devices'[d] \in {AttemptedRow(devices[d], now), ShutdownRow(devices[d], now),
                                              SeenRow(devices[d], now)}
    BY <1>0, <1>3 DEF RowAttempted, RowClaimed, RowProbed
  <2>2. IsRow(devices[d])
    BY <1>3 DEF RowAttempted, RowClaimed, RowProbed
  <2> QED BY <1>0, <2>1, <2>2, UpdatesKeep DEF Row
<1>4. CASE RowSent(d)
  <2>1. PICK r \in WakeReqs :
          /\ wake[r].dev = d /\ wake[r].now \in Nat /\ wake[r].pc = "mark"
          /\ IsRow(devices[d]) /\ devices[d].mac = wake[r].mac
          /\ devices'[d] = SentRow(devices[d], wake[r].now)
    BY <1>4 DEF RowSent, WakeMark
  <2>2. devices'[d].mac = devices[d].mac /\ devices'[d].lastSentAt = wake[r].now
    BY <1>0, <2>1, UpdatesKeep DEF Row
  <2> QED BY <2>1, <2>2
<1>5. CASE RowEdited(d)
  BY <1>5 DEF RowEdited, UpdatedRow
<1> QED BY <1>1, <1>2, <1>3, <1>4, <1>5, RowEffect

\* Whatever lastSentAt says was seen to happen, with any number of processes and any
\* interleaving of sends, edits and crashes: the packet of some request left at that
\* instant for the MAC the row has now.
THEOREM SentStampTheorem == Spec => []SentStampTruthful
<1>1. Init => SentInv
  <2>1. \A m \in Macs : LegacyRow(m).lastSentAt = Null
    BY DEF LegacyRow, InsertedRow
  <2> QED BY <2>1, InitTypeInv DEF Init, SentInv, SentStampTruthful, NewWake, IsRow
<1>2. ASSUME SentInv, [Next]_vars PROVE SentInv'
  <2>1. TypeInv /\ TypeInv' /\ \A r \in WakeReqs : SentKept(r)
    BY <1>2, NextTypeInv, RequestEffect, SentEffect DEF SentInv
  <2>2. SentStampTruthful'
    <3> SUFFICES ASSUME NEW d \in Ids, IsRow(devices'[d]), devices'[d].lastSentAt # Null
                 PROVE  \E r \in WakeReqs : /\ wake'[r].dev = d /\ wake'[r].sent
                                            /\ wake'[r].mac = devices'[d].mac
                                            /\ wake'[r].now = devices'[d].lastSentAt
      BY DEF SentStampTruthful, IsRow
    <3>1. \E r \in WakeReqs : /\ wake[r].dev = d /\ wake[r].sent
                              /\ wake[r].mac = devices'[d].mac
                              /\ wake[r].now = devices'[d].lastSentAt
      BY <1>2, <2>1, SentStampEffect DEF SentInv, SentStampTruthful
    <3> QED BY <2>1, <3>1 DEF SentKept
  <2> QED BY <2>1, <2>2 DEF SentInv, SentKept
<1> QED BY <1>1, <1>2, PTL DEF Spec, SentInv

\* A positive answer is kept with the row it was obtained for.
SeenInv ==
  /\ TypeInv
  /\ \A r \in ProbeReqs : probe[r].checkedAt # Null => probe[r].pc \in {"checked", "done"}
  /\ SeenStampTruthful

SeenKept(r) ==
  /\ probe[r].checkedAt # Null =>
       /\ probe'[r].checkedAt = probe[r].checkedAt
       /\ probe'[r].dev = probe[r].dev /\ probe'[r].snapshot = probe[r].snapshot
  /\ probe'[r].checkedAt # Null => probe'[r].pc \in {"checked", "done"}

LEMMA SeenEffect ==
  ASSUME SeenInv, NEW r \in ProbeReqs, ProbeMoves(r)
  PROVE  SeenKept(r)
<1>0. /\ probe \in [ProbeReqs -> ProbeRec] /\ probe[r] \in ProbeRec
      /\ probe[r].checkedAt # Null => probe[r].pc \in {"checked", "done"}
  BY DEF SeenInv, TypeInv, TypeOK
<1>1. ASSUME UNCHANGED probe[r] PROVE SeenKept(r)
  BY <1>0, <1>1 DEF SeenKept
<1>2. ASSUME NEW e \in Ids, ProbeBegin(r, e) PROVE SeenKept(r)
  BY <1>0, <1>2 DEF ProbeBegin, SetProbe, SeenKept, ProbeRec
<1>3. CASE ProbeChecked(r)
  BY <1>0, <1>3 DEF ProbeChecked, SetProbe, SeenKept, ProbeRec
<1>4. ASSUME probe'[r] = EndedProbe(probe[r]) PROVE SeenKept(r)
  BY <1>0, <1>4 DEF SeenKept, EndedProbe, NewProbe, ProbeRec
<1> QED BY <1>0, <1>1, <1>2, <1>3, <1>4 DEF ProbeMoves, ProbeStep, ProbeRecord, SetProbe

\* The seen stamp of a row: erased, kept with its MAC and address, or moved forward by a
\* probe of this MAC and address.
LEMMA SeenStampEffect ==
  ASSUME TypeInv, [Next]_vars, NEW d \in Ids, IsRow(devices'[d])
  PROVE  \/ devices[d] = Unused /\ devices'[d].lastSeenAt = Null
         \/ /\ IsRow(devices[d])
            /\ \/ devices'[d].mac # devices[d].mac /\ devices'[d].lastSeenAt = Null
               \/ devices'[d].address # devices[d].address /\ devices'[d].lastSeenAt = Null
               \/ /\ devices'[d].mac = devices[d].mac /\ devices'[d].address = devices[d].address
                  /\ \/ devices'[d].lastSeenAt = devices[d].lastSeenAt
                     \/ \E r \in ProbeReqs :
                          /\ probe[r].dev = d /\ probe[r].checkedAt # Null
                          /\ probe[r].snapshot.mac = devices'[d].mac
                          /\ probe[r].snapshot.address = devices'[d].address
                          /\ devices'[d].lastSeenAt = probe[r].checkedAt
                          /\ devices[d].lastSeenAt # Null => devices[d].lastSeenAt < probe[r].checkedAt
<1>0. (IsRow(devices[d]) => devices[d] \in Row) /\ \A n \in Nat : n \in Stamp
  BY RowType DEF TypeInv, Stamp
<1>1. CASE RowKept(d)
  BY <1>1 DEF RowKept, IsRow
<1>2. CASE RowInserted(d) \/ RowDeleted(d)
  BY <1>2 DEF RowInserted, RowDeleted, IsRow
<1>3. CASE RowAttempted(d) \/ RowClaimed(d) \/ RowSent(d)
  <2>1. PICK now \in Stamp : devices'[d] \in {AttemptedRow(devices[d], now), ShutdownRow(devices[d], now),
                                              SentRow(devices[d], now)}
    BY <1>0, <1>3 DEF RowAttempted, RowClaimed, RowSent
  <2>2. IsRow(devices[d])
    BY <1>3 DEF RowAttempted, RowClaimed, RowSent
  <2>3. /\ devices'[d].mac = devices[d].mac /\ devices'[d].address = devices[d].address
        /\ devices'[d].lastSeenAt = devices[d].lastSeenAt
    BY <1>0, <2>1, <2>2, UpdatesKeep DEF Row
  <2> QED BY <2>2, <2>3
<1>4. CASE RowProbed(d)
  <2>1. PICK r \in ProbeReqs :
          /\ probe[r].dev = d /\ probe[r].checkedAt \in Stamp
          /\ IsRow(devices[d]) /\ ProbeMatches(devices[d], probe[r].snapshot)
          /\ devices'[d] = SeenRow(devices[d], probe[r].checkedAt)
    BY <1>4 DEF RowProbed
  <2>2. devices'[d].mac = devices[d].mac /\ devices'[d].address = devices[d].address
    BY <1>0, <2>1 DEF SeenRow, Row
  <2>3. \/ devices'[d].lastSeenAt = devices[d].lastSeenAt
        \/ /\ probe[r].checkedAt # Null /\ devices'[d].lastSeenAt = probe[r].checkedAt
           /\ devices[d].lastSeenAt # Null => devices[d].lastSeenAt < probe[r].checkedAt
    BY <1>0, <2>1 DEF SeenRow, Row
  <2> QED BY <2>1, <2>2, <2>3 DEF ProbeMatches
<1>5. CASE RowEdited(d)
  <2>1. PICK new, now : devices'[d] = UpdatedRow(devices[d], new, now) /\ IsRow(devices[d])
    BY <1>5 DEF RowEdited
  <2> QED BY <2>1 DEF UpdatedRow
<1> QED BY <1>1, <1>2, <1>3, <1>4, <1>5, RowEffect

\* Whatever lastSeenAt says was seen, with any number of processes: some probe of the MAC
\* and the address the row has now was answered at that instant.
THEOREM SeenStampTheorem == Spec => []SeenStampTruthful
<1>1. Init => SeenInv
  <2>1. \A m \in Macs : LegacyRow(m).lastSeenAt = Null
    BY DEF LegacyRow, InsertedRow
  <2> QED BY <2>1, InitTypeInv DEF Init, SeenInv, SeenStampTruthful, NewProbe, IsRow
<1>2. ASSUME SeenInv, [Next]_vars PROVE SeenInv'
  <2>1. TypeInv /\ TypeInv' /\ \A r \in ProbeReqs : SeenKept(r)
    BY <1>2, NextTypeInv, RequestEffect, SeenEffect DEF SeenInv
  <2>2. SeenStampTruthful'
    <3> SUFFICES ASSUME NEW d \in Ids, IsRow(devices'[d]), devices'[d].lastSeenAt # Null
                 PROVE  \E r \in ProbeReqs : /\ probe'[r].dev = d
                                             /\ probe'[r].snapshot.mac = devices'[d].mac
                                             /\ probe'[r].snapshot.address = devices'[d].address
                                             /\ probe'[r].checkedAt = devices'[d].lastSeenAt
      BY DEF SeenStampTruthful, IsRow
    <3>1. \E r \in ProbeReqs : /\ probe[r].dev = d /\ probe[r].checkedAt # Null
                               /\ probe[r].snapshot.mac = devices'[d].mac
                               /\ probe[r].snapshot.address = devices'[d].address
                               /\ probe[r].checkedAt = devices'[d].lastSeenAt
      BY <1>2, <2>1, SeenStampEffect DEF SeenInv, SeenStampTruthful
    <3> QED BY <2>1, <3>1 DEF SeenKept
  <2> QED BY <2>1, <2>2 DEF SeenInv, SeenKept
<1> QED BY <1>1, <1>2, PTL DEF Spec, SeenInv

\* Probes that end in another order than they started never move lastSeenAt back or erase
\* it while the device keeps its MAC and address, even in several processes at once.
THEOREM SeenNeverMovesBackTheorem == Spec => SeenNeverMovesBack
<1>1. ASSUME TypeInv, [Next]_vars, NEW d \in Ids,
             IsRow(devices[d]), IsRow(devices'[d]),
             devices[d].mac = devices'[d].mac, devices[d].address = devices'[d].address,
             devices[d].lastSeenAt # Null
      PROVE  devices'[d].lastSeenAt # Null /\ devices'[d].lastSeenAt >= devices[d].lastSeenAt
  <2>1. devices[d].lastSeenAt \in Nat /\ \A r \in ProbeReqs : probe[r].checkedAt \in Nat \cup {Null}
    BY <1>1, RowType DEF TypeInv, TypeOK, Row, Stamp, ProbeRec
  <2>2. CASE devices'[d].lastSeenAt = devices[d].lastSeenAt
    BY <1>1, <2>1, <2>2
  <2>3. ASSUME NEW r \in ProbeReqs, probe[r].checkedAt # Null,
               devices'[d].lastSeenAt = probe[r].checkedAt,
               devices[d].lastSeenAt < probe[r].checkedAt
        PROVE  devices'[d].lastSeenAt # Null /\ devices'[d].lastSeenAt >= devices[d].lastSeenAt
    BY <2>1, <2>3
  <2> QED BY <1>1, <2>2, <2>3, SeenStampEffect DEF IsRow
<1>2. TypeInv /\ [Next]_vars =>
        [\A d \in Ids :
           /\ IsRow(devices[d]) /\ IsRow(devices'[d])
           /\ devices[d].mac = devices'[d].mac
           /\ devices[d].address = devices'[d].address
           /\ devices[d].lastSeenAt # Null
           => /\ devices'[d].lastSeenAt # Null
              /\ devices'[d].lastSeenAt >= devices[d].lastSeenAt]_vars
  BY <1>1
<1> QED BY <1>2, TypeCorrect, PTL DEF Spec, SeenNeverMovesBack

-----------------------------------------------------------------------------
(***************************************************************************)
(* Synchronous sections.                                                   *)
(*                                                                         *)
(* The remaining properties are of one process, and rest on this: between  *)
(* two awaits a handler has the event loop to itself, so with one process  *)
(* no row changes under it.                                                *)
(***************************************************************************)
\* Whose synchronous section has begun and not ended.
InSection(r) ==
  \/ r \in WakeReqs /\ wake[r].pc \in {"claim", "read", "mark", "get"}
  \/ r \in PowerReqs /\ power[r].pc \in {"method", "target", "claim", "secret"}
  \/ r \in EditReqs /\ edit[r].pc \in {"parse", "current", "write", "get"}

SectionInv ==
  /\ TypeInv
  /\ \A p \in Procs : \A r, q \in loop[p] : r = q
  /\ \A r \in Reqs : InSection(r) => Running(r)

LEMMA OneSectionMoves ==
  ASSUME SectionInv, TypeInv', NEW q \in Reqs, UNCHANGED loop \/ Enter(q) \/ Leave(q),
         \A r \in Reqs \ {q} : InSection(r)' => InSection(r),
         InSection(q)' => Running(q)'
  PROVE  SectionInv'
<1>0. loop \in [Procs -> SUBSET Reqs] /\ ProcOf \in [Reqs -> Procs]
  BY RequestAssumption DEF SectionInv, TypeInv, TypeOK
<1>1. \A p \in Procs : \A r, s \in loop'[p] : r = s
  BY <1>0 DEF SectionInv, Enter, Leave, Free
<1>2. \A r \in Reqs \ {q} : Running(r) => Running(r)'
  BY <1>0 DEF Running, Enter, Leave
<1> QED BY <1>1, <1>2 DEF SectionInv

LEMMA WakeSection ==
  ASSUME SectionInv, NEW q \in WakeReqs, (\E d \in Ids : WakeBegin(q, d)) \/ WakeStep(q)
  PROVE  SectionInv'
<1>0. /\ q \in Reqs /\ wake[q] \in WakeRec /\ wake \in [WakeReqs -> WakeRec]
      /\ loop \in [Procs -> SUBSET Reqs] /\ ProcOf \in [Reqs -> Procs]
      /\ EndedWake(wake[q]).pc = "done"
  BY RequestAssumption, EndedWakeKeeps DEF SectionInv, TypeInv, TypeOK, Reqs
<1>1. /\ UNCHANGED <<power, edit, probe>> /\ \A r \in WakeReqs \ {q} : wake'[r] = wake[r]
      /\ TypeInv'
  <2>1. Next
    BY DEF Next, Arrival, Progress
  <2> QED BY <2>1, WakeStepWrites, NextTypeInv DEF SectionInv
<1>2. /\ UNCHANGED loop \/ Enter(q) \/ Leave(q)
      /\ wake'[q].pc \in {"claim", "read", "mark", "get"} => Running(q)'
  <2>1. ASSUME NEW d \in Ids, WakeBegin(q, d) PROVE Enter(q) /\ Running(q)'
    BY <1>0, <2>1 DEF WakeBegin, Enter, Running
  <2>2. CASE WakeClaim(q)
    BY <2>2 DEF WakeClaim, Running
  <2>3. CASE WakeRead(q)
    <3>1. /\ Leave(q)
          /\ \/ wake'[q] = EndedWake(wake[q])
             \/ wake'[q] = [wake[q] EXCEPT !.pc = "refused"]
             \/ wake'[q] = [wake[q] EXCEPT !.pc = "sending", !.mac = devices[wake[q].dev].mac]
      BY <1>0, <2>3 DEF WakeRead, SetWake
    <3>2. wake'[q].pc \in {"done", "refused", "sending"}
      BY <1>0, <3>1 DEF WakeRec
    <3> QED BY <3>1, <3>2
  <2>4. CASE WakeSent(q)
    BY <1>0, <2>4 DEF WakeSent, Enter, Running
  <2>5. CASE WakeSendFailed(q) \/ WakeGet(q)
    BY <1>0, <2>5 DEF WakeSendFailed, WakeGet, SetWake
  <2>6. CASE WakeMark(q)
    BY <1>0, <2>6 DEF WakeMark, SetWake, Running
  <2> QED BY <2>1, <2>2, <2>3, <2>4, <2>5, <2>6 DEF WakeStep, WakeOwnStep
<1> QED BY <1>0, <1>1, <1>2, OneSectionMoves, KindAssumption DEF InSection

LEMMA PowerSection ==
  ASSUME SectionInv, NEW q \in PowerReqs,
         (\E d \in Ids, suspend \in BOOLEAN : PowerBegin(q, d, suspend)) \/ PowerStep(q)
  PROVE  SectionInv'
<1>0. /\ q \in Reqs /\ power[q] \in PowerRec /\ power \in [PowerReqs -> PowerRec]
      /\ loop \in [Procs -> SUBSET Reqs] /\ ProcOf \in [Reqs -> Procs]
      /\ \A rec : EndedPower(rec).pc = "done"
  BY RequestAssumption, EndedPowerKeeps DEF SectionInv, TypeInv, TypeOK, Reqs
<1>1. /\ UNCHANGED <<wake, edit, probe>> /\ \A r \in PowerReqs \ {q} : power'[r] = power[r]
      /\ TypeInv'
  <2>1. Next
    BY DEF Next, Arrival, Progress
  <2> QED BY <2>1, PowerStepWrites, NextTypeInv DEF SectionInv
<1>2. /\ UNCHANGED loop \/ Enter(q) \/ Leave(q)
      /\ power'[q].pc \in {"method", "target", "claim", "secret"} => Running(q)'
  <2>1. ASSUME NEW d \in Ids, NEW suspend \in BOOLEAN, PowerBegin(q, d, suspend)
        PROVE  Enter(q) /\ Running(q)'
    BY <1>0, <2>1 DEF PowerBegin, Enter, Running
  <2>2. CASE PowerMethod(q) \/ PowerTarget(q)
    BY <1>0, <2>2 DEF PowerMethod, PowerTarget, PowerError, SetPower, Running
  <2>3. CASE PowerClaim(q)
    <3> DEFINE claimed == [power[q] EXCEPT !.claim = power[q].now, !.epoch = targets[power[q].dev]]
    <3>1. \/ /\ Leave(q)
             /\ \/ power'[q] = [power[q] EXCEPT !.pc = "refused", !.target = Null,
                                                !.epoch = targets[power[q].dev]]
                \/ power'[q] = EndedPower(claimed)
                \/ power'[q] = [claimed EXCEPT !.pc = "sending"]
          \/ UNCHANGED loop
      BY <1>0, <2>3 DEF PowerClaim, PowerError, SetPower
    <3>2. Leave(q) /\ ~UNCHANGED loop => power'[q].pc \in {"refused", "done", "sending"}
      BY <1>0, <3>1 DEF PowerRec
    <3>3. Running(q)
      BY <2>3 DEF PowerClaim
    <3> QED BY <3>1, <3>2, <3>3 DEF Running
  <2>4. CASE PowerSecret(q)
    <3>1. Leave(q) /\ \/ power'[q] = EndedPower(power[q])
                      \/ power'[q] = [power[q] EXCEPT !.pc = "sending",
                                                      !.target.cred = devices[power[q].dev].cred]
      BY <1>0, <2>4 DEF PowerSecret, PowerError, SetPower
    <3>2. power'[q].pc \in {"done", "sending"}
      BY <1>0, <3>1 DEF PowerRec
    <3> QED BY <3>1, <3>2
  <2>5. CASE PowerAnswer(q)
    BY <1>0, <2>5 DEF PowerAnswer, SetPower
  <2> QED BY <2>1, <2>2, <2>3, <2>4, <2>5 DEF PowerStep
<1> QED BY <1>0, <1>1, <1>2, OneSectionMoves, KindAssumption DEF InSection

LEMMA EditSection ==
  ASSUME SectionInv, NEW q \in EditReqs,
         (\E d \in Ids, in \in Inputs : EditBegin(q, d, in)) \/ EditStep(q)
  PROVE  SectionInv'
<1>0. /\ q \in Reqs /\ edit[q] \in EditRec /\ edit \in [EditReqs -> EditRec]
      /\ loop \in [Procs -> SUBSET Reqs] /\ ProcOf \in [Reqs -> Procs]
      /\ EndedEdit.pc = "done"
  BY RequestAssumption DEF SectionInv, TypeInv, TypeOK, Reqs, EndedEdit, NewEdit
<1>1. /\ UNCHANGED <<wake, power, probe>> /\ \A r \in EditReqs \ {q} : edit'[r] = edit[r]
      /\ TypeInv'
  <2>1. Next
    BY DEF Next, Arrival, Progress
  <2> QED BY <2>1, EditStepWrites, NextTypeInv DEF SectionInv
<1>2. /\ UNCHANGED loop \/ Enter(q) \/ Leave(q)
      /\ edit'[q].pc \in {"parse", "current", "write", "get"} => Running(q)'
  <2>1. ASSUME NEW d \in Ids, NEW in \in Inputs, EditBegin(q, d, in) PROVE Enter(q) /\ Running(q)'
    BY <1>0, <2>1 DEF EditBegin, Enter, Running
  <2>2. CASE EditEnd(q)
    BY <1>0, <2>2 DEF EditEnd, SetEdit
  <2>3. CASE EditStep(q) /\ ~EditEnd(q)
    BY <2>3 DEF EditStep, EditParse, EditCurrent, EditWrite, EditGet, Running
  <2> QED BY <2>1, <2>2, <2>3
<1> QED BY <1>0, <1>1, <1>2, OneSectionMoves, KindAssumption DEF InSection

LEMMA FailureSection ==
  ASSUME SectionInv, Failure
  PROVE  SectionInv'
<1>0. /\ wake \in [WakeReqs -> WakeRec] /\ power \in [PowerReqs -> PowerRec] /\ edit \in [EditReqs -> EditRec]
      /\ loop \in [Procs -> SUBSET Reqs] /\ ProcOf \in [Reqs -> Procs]
      /\ EndedEdit.pc = "done" /\ \A rec : EndedPower(rec).pc = "done" /\ EndedWake(rec).pc = "done"
  BY RequestAssumption, EndedPowerKeeps, EndedWakeKeeps
  DEF SectionInv, TypeInv, TypeOK, EndedEdit, NewEdit
<1>1. TypeInv'
  BY NextTypeInv DEF SectionInv, Next
<1>2. \A r \in Reqs : InSection(r)' => InSection(r)
  <2>1. TypeInv
    BY DEF SectionInv
  <2> QED BY <1>0, <2>1, FailureWrites DEF InSection
<1>3. ASSUME NEW q \in Reqs, StatementFails(q) PROVE SectionInv'
  <2>1. Leave(q) /\ ~InSection(q)'
    BY <1>0, <1>3, KindAssumption DEF StatementFails, SetWake, SetPower, SetEdit, InSection
  <2> QED BY <1>1, <1>2, <2>1, OneSectionMoves
<1>4. ASSUME NEW p \in Procs, Crash(p) PROVE SectionInv'
  <2>1. loop' = [loop EXCEPT ![p] = {}]
    BY <1>4 DEF Crash
  <2>2. \A r \in Reqs : InSection(r)' => ProcOf[r] # p
    <3>1. ASSUME NEW r \in WakeReqs, ProcOf[r] = p
          PROVE  wake'[r].pc \notin {"claim", "read", "mark", "get"}
      BY <1>0, <1>4, <3>1 DEF Crash, InFlight, Ended
    <3>2. ASSUME NEW r \in PowerReqs, ProcOf[r] = p
          PROVE  power'[r].pc \notin {"method", "target", "claim", "secret"}
      BY <1>0, <1>4, <3>2 DEF Crash, InFlight, Ended
    <3>3. ASSUME NEW r \in EditReqs, ProcOf[r] = p
          PROVE  edit'[r].pc \notin {"parse", "current", "write", "get"}
      BY <1>0, <1>4, <3>3 DEF Crash, InFlight, Ended
    <3> QED BY <3>1, <3>2, <3>3 DEF InSection
  <2>3. \A s \in Procs : \A r, q \in loop'[s] : r = q
    BY <1>0, <2>1 DEF SectionInv
  <2>4. \A r \in Reqs : InSection(r)' => Running(r)'
    BY <1>0, <1>2, <2>1, <2>2 DEF SectionInv, Running
  <2> QED BY <1>1, <2>3, <2>4 DEF SectionInv
<1> QED BY <1>3, <1>4 DEF Failure

LEMMA NextSectionInv == SectionInv /\ [Next]_vars => SectionInv'
<1> SUFFICES ASSUME SectionInv, [Next]_vars PROVE SectionInv'
  OBVIOUS
<1>1. TypeInv'
  BY NextTypeInv DEF SectionInv
<1>2. ASSUME UNCHANGED <<loop, wake, power, edit>> PROVE SectionInv'
  BY <1>1, <1>2 DEF SectionInv, InSection, Running
<1>3. CASE Surroundings
  BY <1>2, <1>3, SurroundingsWrite
<1>4. ASSUME NEW q \in ProbeReqs, (\E d \in Ids : ProbeBegin(q, d)) \/ ProbeStep(q)
      PROVE  SectionInv'
  BY <1>2, <1>4, ProbeStepWrites DEF SectionInv
<1> QED BY <1>3, <1>4, NextKinds, WakeSection, PowerSection, EditSection, FailureSection

LEMMA SpecSectionInv == Spec => []SectionInv
<1>1. Init => SectionInv
  BY InitTypeInv DEF Init, SectionInv, InSection, NewWake, NewPower, NewEdit
<1> QED BY <1>1, NextSectionInv, PTL DEF Spec

OneProcess == \A p, q \in Procs : p = q

\* The row of a device changes only by the handler that has the event loop, or when
\* none has.
LEMMA RowIsStill ==
  ASSUME OneProcess, SectionInv, [Next]_vars, NEW r \in Reqs, InSection(r), NEW d \in Ids
  PROVE  \/ RowKept(d)
         \/ RowAttempted(d) /\ r \in WakeReqs /\ WakeClaim(r) /\ wake[r].dev = d
         \/ RowSent(d) /\ r \in WakeReqs /\ WakeMark(r) /\ wake[r].dev = d
         \/ RowClaimed(d) /\ r \in PowerReqs /\ PowerClaim(r) /\ power[r].dev = d
         \/ RowEdited(d) /\ r \in EditReqs /\ EditWrite(r) /\ edit[r].dev = d
<1>1. r \in loop[ProcOf[r]] /\ ProcOf \in [Reqs -> Procs]
  BY RequestAssumption DEF SectionInv, Running
<1>2. \A p \in Procs : ~Free(p)
  BY <1>1 DEF OneProcess, Free
<1>3. \A q \in Reqs : Running(q) => q = r
  BY <1>1 DEF OneProcess, SectionInv, Running
<1>4. ~RowInserted(d) /\ ~RowDeleted(d) /\ ~RowProbed(d)
  BY <1>1, <1>2 DEF RowInserted, RowDeleted, RowProbed, ProbeRecord, Reqs
<1>5. RowAttempted(d) => r \in WakeReqs /\ WakeClaim(r) /\ wake[r].dev = d
  BY <1>3 DEF RowAttempted, WakeClaim, Reqs
<1>6. RowSent(d) => r \in WakeReqs /\ WakeMark(r) /\ wake[r].dev = d
  BY <1>3 DEF RowSent, WakeMark, Reqs
<1>7. RowClaimed(d) => r \in PowerReqs /\ PowerClaim(r) /\ power[r].dev = d
  BY <1>3 DEF RowClaimed, PowerClaim, Reqs
<1>8. RowEdited(d) => r \in EditReqs /\ EditWrite(r) /\ edit[r].dev = d
  BY <1>3 DEF RowEdited, EditWrite, Reqs
<1> QED BY <1>4, <1>5, <1>6, <1>7, <1>8, RowEffect DEF SectionInv

LEMMA InsertedStamps ==
  ASSUME TypeInv, [Next]_vars, NEW d \in Ids, devices[d] = Unused, IsRow(devices'[d])
  PROVE  devices'[d].lastAttemptMs = Null /\ devices'[d].lastShutdownAttemptMs = Null
BY RowEffect DEF IsRow, RowKept, RowInserted, RowDeleted, RowAttempted, RowSent, RowClaimed, RowEdited, RowProbed

-----------------------------------------------------------------------------
(***************************************************************************)
(* Refused wakes.                                                          *)
(*                                                                         *)
(* Behind the stamp a refusal is decided by stands the claim that set it,  *)
(* and the row that claimWake's SELECT finds is the one its UPDATE did not *)
(* match.                                                                  *)
(***************************************************************************)
WakesBehind ==
  \A d \in Ids :
    IsRow(devices[d]) /\ devices[d].lastAttemptMs # Null =>
      \E r \in WakeReqs : wake[r].dev = d /\ wake[r].claim = devices[d].lastAttemptMs

WakeTaken(r) ==
  \E other \in WakeReqs \ {r} :
    /\ wake[other].dev = wake[r].dev
    /\ wake[other].claim # Null
    /\ wake[r].now < wake[other].claim + WakeCooldown

WakeRefusalInv ==
  /\ SectionInv
  /\ WakesBehind
  /\ \A r \in WakeReqs :
       /\ wake[r].pc \in {"new", "claim"} => wake[r].claim = Null
       /\ wake[r].pc = "refused" => WakeTaken(r)
       /\ wake[r].pc = "read" /\ wake[r].claim = Null /\ IsRow(devices[wake[r].dev]) => WakeTaken(r)

\* A request that claims does so once, and its claim stays.
LEMMA WakeClaimsStay ==
  ASSUME WakeRefusalInv, [Next]_vars, NEW r \in WakeReqs
  PROVE  /\ wake[r].claim # Null => wake'[r].claim = wake[r].claim /\ wake'[r].dev = wake[r].dev
         /\ wake'[r].pc \in {"new", "claim"} => wake'[r].claim = Null
<1>0. /\ TypeInv /\ wake \in [WakeReqs -> WakeRec]
      /\ wake[r].pc \in {"new", "claim"} => wake[r].claim = Null
  BY DEF WakeRefusalInv, SectionInv, TypeInv, TypeOK
<1>1. CASE UNCHANGED vars
  BY <1>0, <1>1 DEF vars
<1>2. CASE WakeClaimsKept
  BY <1>0, <1>2 DEF WakeClaimsKept
<1>3. ASSUME NEW q \in WakeReqs, WakeGrant(q)
      PROVE  /\ wake[r].claim # Null => wake'[r].claim = wake[r].claim /\ wake'[r].dev = wake[r].dev
             /\ wake'[r].pc \in {"new", "claim"} => wake'[r].claim = Null
  <2>1. CASE q = r
    BY <1>0, <1>3, <2>1 DEF WakeGrant, WakeRec
  <2>2. CASE q # r
    BY <1>0, <1>3, <2>2 DEF WakeGrant
  <2> QED BY <2>1, <2>2
<1> QED BY <1>0, <1>1, <1>2, <1>3, WakeEffect

LEMMA WakeTakenStays ==
  ASSUME WakeRefusalInv, [Next]_vars, NEW r \in WakeReqs, WakeTaken(r),
         wake'[r].dev = wake[r].dev, wake'[r].now = wake[r].now
  PROVE  WakeTaken(r)'
BY WakeClaimsStay DEF WakeTaken

LEMMA WakesBehindStays ==
  ASSUME WakeRefusalInv, [Next]_vars
  PROVE  WakesBehind'
<1> SUFFICES ASSUME NEW d \in Ids, IsRow(devices'[d]), devices'[d].lastAttemptMs # Null
             PROVE  \E r \in WakeReqs : /\ wake'[r].dev = d
                                        /\ wake'[r].claim = devices'[d].lastAttemptMs
  BY DEF WakesBehind, IsRow
<1>0. /\ TypeInv /\ wake \in [WakeReqs -> WakeRec]
      /\ (IsRow(devices[d]) => devices[d] \in Row) /\ \A n \in Nat : n \in Stamp
  BY RowType DEF WakeRefusalInv, SectionInv, TypeInv, TypeOK, Stamp
<1>1. CASE devices[d] = Unused
  BY <1>0, <1>1, InsertedStamps
<1>2. CASE RowAttempted(d)
  <2>1. PICK r \in WakeReqs :
          /\ wake[r].dev = d /\ wake[r].now \in Nat /\ IsRow(devices[d])
          /\ wake'[r] = [wake[r] EXCEPT !.pc = "read", !.claim = wake[r].now]
          /\ devices'[d] = AttemptedRow(devices[d], wake[r].now)
    BY <1>2 DEF RowAttempted
  <2>2. wake'[r].dev = d /\ wake'[r].claim = wake[r].now
    BY <1>0, <2>1 DEF WakeRec
  <2>3. devices'[d].lastAttemptMs = wake[r].now
    BY <1>0, <2>1, UpdatesKeep DEF Row
  <2> QED BY <2>2, <2>3
<1>3. CASE IsRow(devices[d]) /\ devices'[d].lastAttemptMs = devices[d].lastAttemptMs
  <2>1. PICK r \in WakeReqs : wake[r].dev = d /\ wake[r].claim = devices[d].lastAttemptMs
    BY <1>3 DEF WakeRefusalInv, WakesBehind
  <2> QED BY <1>3, <2>1, WakeClaimsStay
<1>4. CASE RowKept(d)
  BY <1>1, <1>3, <1>4 DEF RowKept, IsRow
<1>5. CASE RowSent(d) \/ RowClaimed(d) \/ RowProbed(d)
  <2>1. PICK now \in Stamp : devices'[d] \in {SentRow(devices[d], now), ShutdownRow(devices[d], now),
                                              SeenRow(devices[d], now)}
    BY <1>0, <1>5 DEF RowSent, RowClaimed, RowProbed
  <2>2. IsRow(devices[d])
    BY <1>5 DEF RowSent, RowClaimed, RowProbed
  <2>3. devices'[d].lastAttemptMs = devices[d].lastAttemptMs
    BY <1>0, <2>1, <2>2, UpdatesKeep DEF Row
  <2> QED BY <1>3, <2>2, <2>3
<1>6. CASE RowEdited(d)
  BY <1>3, <1>6 DEF RowEdited, UpdatedRow
<1> QED BY <1>0, <1>1, <1>2, <1>4, <1>5, <1>6, RowEffect DEF RowInserted, RowDeleted, IsRow

\* How a request comes to be refused, and to the SELECT without a claim.
LEMMA RefusedBy ==
  ASSUME TypeInv, NEW r \in WakeReqs, WakeMoves(r), wake'[r].pc = "refused"
  PROVE  \/ wake'[r] = wake[r]
         \/ /\ wake[r].pc = "read" /\ wake[r].claim = Null /\ IsRow(devices[wake[r].dev])
            /\ wake'[r].dev = wake[r].dev /\ wake'[r].now = wake[r].now
<1>0. wake \in [WakeReqs -> WakeRec] /\ wake[r] \in WakeRec /\ EndedWake(wake[r]).pc = "done"
  BY EndedWakeKeeps DEF TypeInv, TypeOK
<1>1. ~\E d \in Ids : WakeBegin(r, d)
  BY <1>0 DEF WakeBegin, SetWake, WakeRec
<1>2. ~WakeClaim(r)
  <2> SUFFICES ASSUME WakeClaim(r) PROVE FALSE
    OBVIOUS
  <2>1. wake'[r] \in {[wake[r] EXCEPT !.pc = "read", !.claim = wake[r].now], [wake[r] EXCEPT !.pc = "read"]}
    BY <1>0 DEF WakeClaim, SetWake
  <2> QED BY <1>0, <2>1 DEF WakeRec
<1>3. ~(WakeSent(r) \/ WakeSendFailed(r) \/ WakeMark(r) \/ WakeGet(r))
  BY <1>0 DEF WakeSent, WakeSendFailed, WakeMark, WakeGet, SetWake, WakeRec
<1>4. CASE WakeRead(r)
  BY <1>0, <1>4 DEF WakeRead, SetWake, WakeRec
<1> QED BY <1>0, <1>1, <1>2, <1>3, <1>4 DEF WakeMoves, WakeStep, WakeOwnStep

LEMMA UnclaimedBy ==
  ASSUME TypeInv, NEW r \in WakeReqs, WakeMoves(r), wake'[r].pc = "read", wake'[r].claim = Null
  PROVE  \/ wake'[r] = wake[r]
         \/ /\ wake[r].pc = "claim" /\ UNCHANGED devices
            /\ ~(IsRow(devices[wake[r].dev]) /\ WakeClaimable(devices[wake[r].dev], wake[r].now))
            /\ wake'[r].dev = wake[r].dev /\ wake'[r].now = wake[r].now
<1>0. wake \in [WakeReqs -> WakeRec] /\ wake[r] \in WakeRec /\ EndedWake(wake[r]).pc = "done"
  BY EndedWakeKeeps DEF TypeInv, TypeOK
<1>1. ~\E d \in Ids : WakeBegin(r, d)
  BY <1>0 DEF WakeBegin, SetWake, WakeRec
<1>2. CASE WakeClaim(r)
  <2> DEFINE granted == IsRow(devices[wake[r].dev]) /\ WakeClaimable(devices[wake[r].dev], wake[r].now)
  <2>1. CASE granted
    <3>1. wake'[r] = [wake[r] EXCEPT !.pc = "read", !.claim = wake[r].now] /\ wake[r].now \in Nat
      BY <1>0, <1>2, <2>1 DEF WakeClaim, SetWake, TypeInv, InFlightOK, InFlight, Ended
    <3> QED BY <1>0, <3>1, NullAssumption DEF WakeRec
  <2>2. CASE ~granted
    BY <1>0, <1>2, <2>2 DEF WakeClaim, SetWake, WakeRec
  <2> QED BY <2>1, <2>2
<1>3. ~(WakeSent(r) \/ WakeSendFailed(r) \/ WakeMark(r) \/ WakeGet(r))
  BY <1>0 DEF WakeSent, WakeSendFailed, WakeMark, WakeGet, SetWake, WakeRec
<1>4. ~WakeRead(r)
  <2> SUFFICES ASSUME WakeRead(r) PROVE FALSE
    OBVIOUS
  <2>1. \/ wake'[r] = EndedWake(wake[r])
        \/ wake'[r] = [wake[r] EXCEPT !.pc = "refused"]
        \/ wake'[r] = [wake[r] EXCEPT !.pc = "sending", !.mac = devices[wake[r].dev].mac]
    BY <1>0 DEF WakeRead, SetWake
  <2> QED BY <1>0, <2>1 DEF WakeRec
<1> QED BY <1>0, <1>1, <1>2, <1>3, <1>4 DEF WakeMoves, WakeStep, WakeOwnStep

LEMMA NextWakeRefusalInv ==
  ASSUME OneProcess, WakeRefusalInv, [Next]_vars
  PROVE  WakeRefusalInv'
<1>0. SectionInv /\ TypeInv /\ SectionInv' /\ WakesBehind' /\ \A r \in WakeReqs : WakeMoves(r)
  BY NextSectionInv, WakesBehindStays, RequestEffect DEF WakeRefusalInv, SectionInv
<1>1. ASSUME NEW r \in WakeReqs, wake'[r].pc = "refused" PROVE WakeTaken(r)'
  BY <1>0, <1>1, RefusedBy, WakeTakenStays DEF WakeRefusalInv
<1>2. ASSUME NEW r \in WakeReqs, wake'[r].pc = "read", wake'[r].claim = Null,
             IsRow(devices'[wake'[r].dev])
      PROVE  WakeTaken(r)'
  <2> DEFINE d == wake[r].dev
  <2>1. CASE wake'[r] = wake[r]
    <3>1. d \in Ids /\ r \in Reqs /\ InSection(r)
      BY <1>0, <1>2, <2>1 DEF TypeInv, InFlightOK, InSection, Reqs
    <3>2. IsRow(devices[d])
      BY <1>0, <1>2, <2>1, <3>1, RowIsStill
      DEF RowKept, RowAttempted, RowSent, RowClaimed, RowEdited, IsRow
    <3> QED BY <1>2, <2>1, <3>2, WakeTakenStays DEF WakeRefusalInv
  <2>2. ASSUME wake[r].pc = "claim", UNCHANGED devices,
               ~(IsRow(devices[d]) /\ WakeClaimable(devices[d], wake[r].now)),
               wake'[r].dev = d, wake'[r].now = wake[r].now
        PROVE  WakeTaken(r)'
    <3>1. d \in Ids /\ IsRow(devices[d]) /\ wake[r].now \in Nat /\ wake[r].claim = Null
      BY <1>0, <1>2, <2>2 DEF TypeInv, InFlightOK, InFlight, Ended, IsRow, WakeRefusalInv
    <3>2. /\ devices[d].lastAttemptMs # Null
          /\ ~(devices[d].lastAttemptMs <= wake[r].now - WakeCooldown)
      BY <2>2, <3>1 DEF WakeClaimable
    <3>3. PICK other \in WakeReqs : wake[other].dev = d /\ wake[other].claim = devices[d].lastAttemptMs
      BY <3>1, <3>2 DEF WakeRefusalInv, WakesBehind
    <3>4. devices[d].lastAttemptMs \in Nat
      BY <1>0, <3>1, <3>2, RowType DEF TypeInv, Row, Stamp
    <3>5. wake[r].now < wake[other].claim + WakeCooldown
      BY <3>1, <3>2, <3>3, <3>4, CooldownAssumption
    <3>6. WakeTaken(r)
      BY <3>1, <3>2, <3>3, <3>5 DEF WakeTaken
    <3> QED BY <2>2, <3>6, WakeTakenStays
  <2> QED BY <1>0, <1>2, <2>1, <2>2, UnclaimedBy
<1> QED BY <1>0, <1>1, <1>2, WakeClaimsStay DEF WakeRefusalInv, IsRow

\* In one process nobody is answered 429 without cause: another request has claimed the
\* device, less than WAKE_COOLDOWN_MS before, and neither edits nor crashes, failed
\* statements and deletions in between make up a cooldown that nobody started.
THEOREM WakeRefusalTheorem ==
  ASSUME OneProcess
  PROVE  Spec => []WakeRefusalJustified
<1>1. Init => WakeRefusalInv
  <2>1. Init => SectionInv
    BY InitTypeInv DEF Init, SectionInv, InSection, NewWake, NewPower, NewEdit
  <2>2. \A m \in Macs : LegacyRow(m).lastAttemptMs = Null
    BY DEF LegacyRow, InsertedRow
  <2> QED BY <2>1, <2>2 DEF Init, WakeRefusalInv, WakesBehind, NewWake, IsRow
<1>2. WakeRefusalInv /\ [Next]_vars => WakeRefusalInv'
  BY NextWakeRefusalInv
<1>3. WakeRefusalInv => WakeRefusalJustified
  BY DEF WakeRefusalInv, WakeTaken, WakeRefusalJustified
<1> QED BY <1>1, <1>2, <1>3, PTL DEF Spec

-----------------------------------------------------------------------------
(***************************************************************************)
(* Power commands of one process.                                          *)
(*                                                                         *)
(* Between claimShutdown's SELECT and the reading of the secret the row    *)
(* stays the one the target was taken from, and behind every shutdown      *)
(* stamp stands the claim that set it, of the present epoch.               *)
(***************************************************************************)
ShutdownsBehind ==
  \A d \in Ids :
    IsRow(devices[d]) /\ devices[d].lastShutdownAttemptMs # Null =>
      \E r \in PowerReqs :
        /\ power[r].dev = d
        /\ power[r].claim = devices[d].lastShutdownAttemptMs
        /\ power[r].epoch = targets[d]

ShutdownTaken(r) ==
  \E other \in PowerReqs \ {r} :
    /\ power[other].dev = power[r].dev
    /\ power[other].claim # Null
    /\ power[other].epoch = power[r].epoch
    /\ power[r].now < power[other].claim + ShutdownCooldown

TargetOf(row) == [address |-> row.address, method |-> row.method, cred |-> row.cred]

CommandInv ==
  /\ SectionInv
  /\ ShutdownsBehind
  /\ \A r \in PowerReqs :
       /\ power[r].pc \in Unclaimed => power[r].claim = Null
       /\ power[r].pc \in {"claim", "secret"} =>
            /\ IsRow(devices[power[r].dev])
            /\ power[r].target = TargetOf(devices[power[r].dev])
       /\ power[r].pc = "refused" => ShutdownTaken(r)

LEMMA PowerClaimsStay ==
  ASSUME CommandInv, [Next]_vars, NEW r \in PowerReqs
  PROVE  /\ power[r].claim # Null => /\ power'[r].claim = power[r].claim
                                     /\ power'[r].dev = power[r].dev
                                     /\ power'[r].epoch = power[r].epoch
         /\ power'[r].pc \in Unclaimed => power'[r].claim = Null
<1>1. ShutdownGrant(r) \/ ShutdownKept(r)
  BY RequestEffect, ShutdownEffect DEF CommandInv, SectionInv
<1>2. /\ power[r].pc \in Unclaimed => power[r].claim = Null
      /\ "new" \in Unclaimed
  BY DEF CommandInv, Unclaimed
<1>3. CASE ShutdownGrant(r)
  BY <1>2, <1>3 DEF ShutdownGrant, PowerClaim, Unclaimed
<1>4. CASE ShutdownKept(r)
  BY <1>2, <1>4 DEF ShutdownKept
<1> QED BY <1>1, <1>3, <1>4

LEMMA ShutdownTakenStays ==
  ASSUME CommandInv, [Next]_vars, NEW r \in PowerReqs, ShutdownTaken(r),
         power'[r].dev = power[r].dev, power'[r].now = power[r].now, power'[r].epoch = power[r].epoch
  PROVE  ShutdownTaken(r)'
BY PowerClaimsStay DEF ShutdownTaken

LEMMA ShutdownsBehindStays ==
  ASSUME CommandInv, [Next]_vars
  PROVE  ShutdownsBehind'
<1> SUFFICES ASSUME NEW d \in Ids, IsRow(devices'[d]), devices'[d].lastShutdownAttemptMs # Null
             PROVE  \E r \in PowerReqs : /\ power'[r].dev = d
                                         /\ power'[r].claim = devices'[d].lastShutdownAttemptMs
                                         /\ power'[r].epoch = targets'[d]
  BY DEF ShutdownsBehind, IsRow
<1>0. TypeInv /\ \A r \in PowerReqs : PowerMoves(r)
  BY RequestEffect DEF CommandInv, SectionInv
<1>1. IsRow(devices[d]) /\ ShutdownStampMoves(d)
  BY <1>0, InsertedStamps, ShutdownStampEffect
<1>2. CASE devices'[d].lastShutdownAttemptMs = devices[d].lastShutdownAttemptMs /\ targets'[d] = targets[d]
  <2>1. PICK r \in PowerReqs : /\ power[r].dev = d /\ power[r].epoch = targets[d]
                               /\ power[r].claim = devices[d].lastShutdownAttemptMs
    BY <1>1, <1>2 DEF CommandInv, ShutdownsBehind
  <2> QED BY <1>2, <2>1, PowerClaimsStay
<1>3. ASSUME NEW r \in PowerReqs, power[r].dev = d, PowerClaim(r),
             devices'[d].lastShutdownAttemptMs = power[r].now, power[r].now \in Nat,
             ShutdownClaimable(devices[d], power[r].now), targets'[d] = targets[d]
      PROVE  \E q \in PowerReqs : /\ power'[q].dev = d
                                  /\ power'[q].claim = devices'[d].lastShutdownAttemptMs
                                  /\ power'[q].epoch = targets'[d]
  <2>1. ShutdownGrant(r)
    <3>1. power[r].pc \in Unclaimed /\ power[r].claim = Null
      BY <1>3 DEF PowerClaim, Unclaimed, CommandInv
    <3>2. CASE ShutdownKept(r)
      <4> DEFINE claimed == [power[r] EXCEPT !.claim = power[r].now, !.epoch = targets[d]]
      <4>1. power \in [PowerReqs -> PowerRec] /\ \A rec : EndedPower(rec).claim = rec.claim
        BY <1>0, EndedPowerKeeps DEF TypeInv, TypeOK
      <4>2. \/ power'[r] = [claimed EXCEPT !.pc = "secret"]
            \/ power'[r] = [claimed EXCEPT !.pc = "sending"]
            \/ power'[r] = EndedPower(claimed)
        BY <1>1, <1>3, <4>1 DEF PowerClaim, PowerError, SetPower
      <4>3. claimed.claim = power[r].now
        BY <4>1 DEF PowerRec
      <4>4. power'[r].claim = power[r].now
        BY <4>1, <4>2, <4>3 DEF PowerRec
      <4> QED BY <1>3, <3>1, <3>2, <4>4, NullAssumption DEF ShutdownKept
    <3> QED BY <1>0, <3>2, ShutdownEffect
  <2> QED BY <1>3, <2>1 DEF ShutdownGrant
<1> QED BY <1>1, <1>2, <1>3 DEF ShutdownStampMoves

\* A handler's stages, by the step that leads to each.
LEMMA PowerStages ==
  ASSUME TypeInv, NEW r \in PowerReqs, PowerMoves(r)
  PROVE  LET d == power[r].dev
             row == devices[power[r].dev]
         IN
         /\ power'[r].pc = "claim" =>
              \/ power'[r] = power[r]
              \/ /\ PowerTarget(r) /\ UNCHANGED devices /\ IsRow(row)
                 /\ power'[r].dev = d /\ power'[r].target = TargetOf(row)
         /\ power'[r].pc = "secret" =>
              \/ power'[r] = power[r]
              \/ PowerClaim(r) /\ power'[r].dev = d /\ power'[r].target = power[r].target
         /\ power'[r].pc = "refused" =>
              \/ power'[r] = power[r]
              \/ /\ PowerClaim(r) /\ UNCHANGED <<devices, history>>
                 /\ ~(IsRow(row) /\ ShutdownClaimable(row, power[r].now))
                 /\ power'[r].dev = d /\ power'[r].now = power[r].now
                 /\ power'[r].epoch = targets[d]
         /\ power'[r].pc = "sending" =>
              \/ power'[r] = power[r]
              \/ PowerClaim(r) /\ power'[r].target = power[r].target
              \/ /\ PowerSecret(r) /\ IsRow(row)
                 /\ power'[r].target = [power[r].target EXCEPT !.cred = row.cred]
<1> DEFINE d == power[r].dev
           row == devices[power[r].dev]
<1>0. /\ power \in [PowerReqs -> PowerRec] /\ power[r] \in PowerRec
      /\ \A rec : EndedPower(rec).pc = "done"
  BY EndedPowerKeeps DEF TypeInv, TypeOK
<1>1. ASSUME NEW e \in Ids, NEW suspend \in BOOLEAN, PowerBegin(r, e, suspend)
      PROVE  power'[r].pc \in {"method", "target"}
  BY <1>0, <1>1 DEF PowerBegin, SetPower, PowerRec
<1>2. ASSUME PowerMethod(r) PROVE power'[r].pc \in {"done", "target"}
  BY <1>0, <1>2 DEF PowerMethod, PowerError, SetPower, PowerRec
<1>3. ASSUME PowerTarget(r), power'[r].pc # "done"
      PROVE  /\ power'[r].pc = "claim" /\ UNCHANGED devices /\ IsRow(row)
             /\ power'[r].dev = d /\ power'[r].target = TargetOf(row)
  BY <1>0, <1>3 DEF PowerTarget, PowerError, SetPower, PowerRec, TargetOf
<1>4. ASSUME PowerClaim(r), power'[r].pc # "done"
      PROVE  \/ /\ power'[r].pc = "refused" /\ UNCHANGED <<devices, history>>
                /\ ~(IsRow(row) /\ ShutdownClaimable(row, power[r].now))
                /\ power'[r].dev = d /\ power'[r].now = power[r].now /\ power'[r].epoch = targets[d]
             \/ /\ power'[r].pc \in {"secret", "sending"}
                /\ power'[r].dev = d /\ power'[r].target = power[r].target
  <2> DEFINE refused == [power[r] EXCEPT !.pc = "refused", !.target = Null, !.epoch = targets[d]]
             claimed == [power[r] EXCEPT !.claim = power[r].now, !.epoch = targets[d]]
             secret == [claimed EXCEPT !.pc = "secret"]
             sending == [claimed EXCEPT !.pc = "sending"]
  <2>1. \/ /\ power'[r] = refused /\ UNCHANGED <<devices, history>>
           /\ ~(IsRow(row) /\ ShutdownClaimable(row, power[r].now))
        \/ power'[r] \in {secret, sending}
    BY <1>0, <1>4 DEF PowerClaim, PowerError, SetPower
  <2>2. /\ refused.pc = "refused" /\ refused.dev = d /\ refused.now = power[r].now
        /\ refused.epoch = targets[d]
    BY <1>0 DEF PowerRec
  <2>3. claimed.dev = d /\ claimed.target = power[r].target /\ DOMAIN claimed = DOMAIN power[r]
    BY <1>0 DEF PowerRec
  <2>4. \A new \in {secret, sending} : /\ new.pc \in {"secret", "sending"}
                                       /\ new.dev = d /\ new.target = power[r].target
    BY <1>0, <2>3 DEF PowerRec
  <2> HIDE DEF refused, secret, sending
  <2> QED BY <2>1, <2>2, <2>4
<1>5. ASSUME PowerSecret(r), power'[r].pc # "done"
      PROVE  /\ power'[r].pc = "sending" /\ IsRow(row)
             /\ power'[r].target = [power[r].target EXCEPT !.cred = row.cred]
  <2>1. IsRow(row) /\ power'[r] = [power[r] EXCEPT !.pc = "sending", !.target.cred = row.cred]
    BY <1>0, <1>5 DEF PowerSecret, PowerError, SetPower
  <2> QED BY <1>0, <2>1 DEF PowerRec
<1>6. ASSUME PowerAnswer(r) PROVE power'[r].pc = "done"
  BY <1>0, <1>6 DEF PowerAnswer, SetPower
<1>7. \/ power'[r] = power[r] \/ power'[r].pc \in {"method", "target", "done"}
      \/ PowerTarget(r) \/ PowerClaim(r) \/ PowerSecret(r)
  BY <1>0, <1>1, <1>2, <1>6 DEF PowerMoves, PowerStep
<1>8. CASE PowerTarget(r)
  BY <1>3, <1>8
<1>9. CASE PowerClaim(r)
  BY <1>4, <1>9
<1>10. CASE PowerSecret(r)
  BY <1>5, <1>10
<1> QED BY <1>7, <1>8, <1>9, <1>10

\* While a handler has the event loop of the only process, nobody edits its device.
LEMMA StillConfigured ==
  ASSUME OneProcess, SectionInv, [Next]_vars, NEW r \in PowerReqs, InSection(r),
         NEW d \in Ids, IsRow(devices[d])
  PROVE  IsRow(devices'[d]) /\ TargetOf(devices'[d]) = TargetOf(devices[d])
<1>0. /\ r \in Reqs /\ r \notin EditReqs /\ devices[d] \in Row
      /\ \A n \in Nat : n \in Stamp
  BY KindAssumption, RowType DEF Reqs, SectionInv, TypeInv, Stamp
<1>1. CASE RowKept(d)
  BY <1>0, <1>1, RowsAreNotMarks DEF RowKept, IsRow
<1>2. CASE RowAttempted(d) \/ RowSent(d) \/ RowClaimed(d)
  <2>1. PICK now \in Stamp : devices'[d] \in {AttemptedRow(devices[d], now), SentRow(devices[d], now),
                                              ShutdownRow(devices[d], now)}
    BY <1>0, <1>2 DEF RowAttempted, RowSent, RowClaimed
  <2>2. /\ devices'[d] \in Row /\ devices'[d].address = devices[d].address
        /\ devices'[d].method = devices[d].method /\ devices'[d].cred = devices[d].cred
    BY <1>0, <2>1, UpdatesKeep DEF Row
  <2> QED BY <2>2, RowsAreNotMarks DEF TargetOf, IsRow
<1> QED BY <1>0, <1>1, <1>2, RowIsStill

LEMMA NextCommandInv ==
  ASSUME OneProcess, CommandInv, [Next]_vars
  PROVE  CommandInv'
<1>0. SectionInv /\ TypeInv /\ SectionInv' /\ ShutdownsBehind' /\ \A r \in PowerReqs : PowerMoves(r)
  BY NextSectionInv, ShutdownsBehindStays, RequestEffect DEF CommandInv, SectionInv
<1>1. ASSUME NEW r \in PowerReqs, power[r].pc \in {"claim", "secret"}
      PROVE  LET d == power[r].dev IN
             /\ d \in Ids /\ IsRow(devices[d]) /\ power[r].target = TargetOf(devices[d])
             /\ IsRow(devices'[d]) /\ TargetOf(devices'[d]) = TargetOf(devices[d])
  <2> DEFINE d == power[r].dev
  <2>1. d \in Ids /\ r \in Reqs /\ InSection(r)
    BY <1>0, <1>1 DEF TypeInv, InFlightOK, Reqs, InSection
  <2>2. IsRow(devices[d]) /\ power[r].target = TargetOf(devices[d])
    BY <1>1 DEF CommandInv
  <2> QED BY <1>0, <2>1, <2>2, StillConfigured
<1>2. ASSUME NEW r \in PowerReqs, power'[r].pc \in {"claim", "secret"}
      PROVE  IsRow(devices'[power'[r].dev]) /\ power'[r].target = TargetOf(devices'[power'[r].dev])
  <2>1. CASE power'[r] = power[r]
    BY <1>1, <1>2, <2>1
  <2>2. CASE PowerTarget(r) /\ power'[r].pc = "claim" /\ power'[r] # power[r]
    BY <1>0, <2>2, PowerStages DEF IsRow
  <2>3. CASE PowerClaim(r) /\ power'[r].pc = "secret" /\ power'[r] # power[r]
    <3>1. power'[r].dev = power[r].dev /\ power'[r].target = power[r].target /\ power[r].pc = "claim"
      BY <1>0, <2>3, PowerStages DEF PowerClaim
    <3> QED BY <1>1, <3>1
  <2> QED BY <1>0, <1>2, <2>1, <2>2, <2>3, PowerStages
<1>3. ASSUME NEW r \in PowerReqs, power'[r].pc = "refused"
      PROVE  ShutdownTaken(r)'
  <2> DEFINE d == power[r].dev
  <2>1. CASE power'[r] = power[r]
    BY <1>3, <2>1, ShutdownTakenStays DEF CommandInv
  <2>2. CASE power'[r] # power[r]
    <3>1. /\ PowerClaim(r) /\ UNCHANGED <<devices, history>>
          /\ ~(IsRow(devices[d]) /\ ShutdownClaimable(devices[d], power[r].now))
          /\ power'[r].dev = d /\ power'[r].now = power[r].now /\ power'[r].epoch = targets[d]
      BY <1>0, <1>3, <2>2, PowerStages
    <3>2. /\ d \in Ids /\ IsRow(devices[d]) /\ power[r].now \in Nat /\ power[r].claim = Null
          /\ devices[d].lastShutdownAttemptMs # Null
          /\ ~(devices[d].lastShutdownAttemptMs <= power[r].now - ShutdownCooldown)
      BY <1>0, <1>1, <3>1 DEF PowerClaim, TypeInv, InFlightOK, CommandInv, Unclaimed, ShutdownClaimable
    <3>3. PICK other \in PowerReqs : /\ power[other].dev = d /\ power[other].epoch = targets[d]
                                     /\ power[other].claim = devices[d].lastShutdownAttemptMs
      BY <3>2 DEF CommandInv, ShutdownsBehind
    <3>4. devices[d].lastShutdownAttemptMs \in Nat
      BY <1>0, <3>2, RowType DEF TypeInv, Row, Stamp
    <3>5. other # r /\ power[r].now < power[other].claim + ShutdownCooldown
      BY <3>2, <3>3, <3>4, CooldownAssumption
    <3>6. /\ power'[other].dev = d /\ power'[other].epoch = targets[d]
          /\ power'[other].claim = power[other].claim
      BY <3>2, <3>3, PowerClaimsStay
    <3> QED BY <3>1, <3>2, <3>3, <3>5, <3>6 DEF ShutdownTaken
  <2> QED BY <2>1, <2>2
<1> QED BY <1>0, <1>2, <1>3, PowerClaimsStay DEF CommandInv, IsRow, TargetOf

LEMMA SpecCommandInv ==
  ASSUME OneProcess
  PROVE  Spec => []CommandInv
<1>1. Init => CommandInv
  <2>1. Init => SectionInv
    BY InitTypeInv DEF Init, SectionInv, InSection, NewWake, NewPower, NewEdit
  <2>2. \A m \in Macs : LegacyRow(m).lastShutdownAttemptMs = Null
    BY DEF LegacyRow, InsertedRow
  <2> QED BY <2>1, <2>2 DEF Init, CommandInv, ShutdownsBehind, NewPower, IsRow
<1>2. CommandInv /\ [Next]_vars => CommandInv'
  BY NextCommandInv
<1> QED BY <1>1, <1>2, PTL DEF Spec

\* In one process nobody is answered 429 without cause: another request has claimed the
\* same target of the device, less than SHUTDOWN_COOLDOWN_MS before; an edit that
\* retargets the device lifts the cooldown at once.
THEOREM ShutdownRefusalTheorem ==
  ASSUME OneProcess
  PROVE  Spec => []ShutdownRefusalJustified
<1>1. CommandInv => ShutdownRefusalJustified
  BY DEF CommandInv, ShutdownTaken, ShutdownRefusalJustified
<1> QED BY <1>1, SpecCommandInv, PTL

\* In one process a power command leaves for the address, by the method and with the
\* credential that its row has at that very moment, although these are read by three
\* statements one after the other.
THEOREM CommandMatchesRowTheorem ==
  ASSUME OneProcess
  PROVE  Spec => CommandMatchesRow
<1>1. ASSUME CommandInv, [Next]_vars, NEW r \in PowerReqs,
             power[r].pc # "sending", power'[r].pc = "sending"
      PROVE  LET row == devices[power[r].dev] IN
             IsRow(row) /\ power'[r].target = [address |-> row.address, method |-> row.method,
                                               cred |-> row.cred]
  <2> DEFINE row == devices[power[r].dev]
  <2>1. TypeInv /\ PowerMoves(r)
    BY <1>1, RequestEffect DEF CommandInv, SectionInv
  <2>2. CASE PowerClaim(r) /\ power'[r].target = power[r].target
    BY <1>1, <2>2 DEF PowerClaim, CommandInv, TargetOf
  <2>3. CASE PowerSecret(r) /\ power'[r].target = [power[r].target EXCEPT !.cred = row.cred]
    <3>1. IsRow(row) /\ power[r].target = TargetOf(row)
      BY <1>1, <2>3 DEF PowerSecret, CommandInv
    <3> QED BY <2>3, <3>1 DEF TargetOf
  <2> QED BY <1>1, <2>1, <2>2, <2>3, PowerStages
<1>2. CommandInv /\ [Next]_vars =>
        [\A r \in PowerReqs :
           power[r].pc # "sending" /\ power'[r].pc = "sending" =>
             LET row == devices[power[r].dev] IN
             /\ IsRow(row)
             /\ power'[r].target = [address |-> row.address, method |-> row.method,
                                    cred |-> row.cred]]_vars
  BY <1>1
<1> QED BY <1>2, SpecCommandInv, PTL DEF Spec, CommandMatchesRow

-----------------------------------------------------------------------------
(***************************************************************************)
(* Edits and probes of one process.                                        *)
(***************************************************************************)
\* With a blank code, what an edit is about to write is what the row has.
CodeInv ==
  /\ SectionInv
  /\ \A r \in EditReqs :
       /\ edit[r].pc \in {"current", "write"}
       /\ edit[r].input.cred = Null
       /\ edit[r].parsed.method = "companion"
       => /\ edit[r].pc = "current" => edit[r].parsed.cred = Null
          /\ edit[r].pc = "write" /\ IsRow(devices[edit[r].dev]) =>
               edit[r].parsed.cred = devices[edit[r].dev].cred

\* A handler's stages, by the step that leads to each.
LEMMA EditStages ==
  ASSUME TypeInv, NEW r \in EditReqs, EditMoves(r)
  PROVE  LET rec == edit[r]
             row == devices[edit[r].dev]
             cred == EffectiveCred(edit[r].parsed, row)
         IN
         /\ edit'[r].pc = "current" =>
              \/ edit'[r] = rec
              \/ /\ rec.pc = "parse" /\ UNCHANGED devices /\ edit'[r].dev = rec.dev
                 /\ edit'[r].input = rec.input /\ edit'[r].now = clock
                 /\ edit'[r].parsed = Parsed(rec.input, row.method)
         /\ edit'[r].pc = "write" =>
              \/ edit'[r] = rec
              \/ /\ rec.pc = "current" /\ UNCHANGED devices /\ edit'[r].dev = rec.dev
                 /\ edit'[r].input = rec.input /\ edit'[r].now = rec.now
                 /\ IsRow(row) /\ CredUsable(rec.parsed.method, cred)
                 /\ edit'[r].parsed = [rec.parsed EXCEPT !.cred = cred]
         /\ edit'[r].pc = "get" =>
              \/ edit'[r] = rec
              \/ /\ EditWrite(r)
                 /\ IsRow(row) => devices' = [devices EXCEPT ![rec.dev] = UpdatedRow(row, rec.parsed, rec.now)]
<1> DEFINE rec == edit[r]
           row == devices[edit[r].dev]
           cred == EffectiveCred(edit[r].parsed, row)
<1>0. edit \in [EditReqs -> EditRec] /\ rec \in EditRec /\ EndedEdit.pc = "done"
  BY DEF TypeInv, TypeOK, EndedEdit, NewEdit
<1>e. EditEnd(r) => edit'[r].pc = "done"
  BY <1>0 DEF EditEnd, SetEdit
<1>1. ASSUME NEW e \in Ids, NEW in \in Inputs, EditBegin(r, e, in) PROVE edit'[r].pc = "parse"
  BY <1>0, <1>1 DEF EditBegin, SetEdit, EditRec
<1>2. ASSUME EditParse(r), edit'[r].pc # "done"
      PROVE  /\ edit'[r].pc = "current" /\ rec.pc = "parse" /\ UNCHANGED devices
             /\ edit'[r].dev = rec.dev /\ edit'[r].input = rec.input /\ edit'[r].now = clock
             /\ edit'[r].parsed = Parsed(rec.input, row.method)
  <2> DEFINE parsed == Parsed(rec.input, row.method)
             new == [rec EXCEPT !.pc = "current", !.now = clock, !.parsed = parsed]
  <2>1. edit'[r] = new /\ rec.pc = "parse" /\ UNCHANGED devices
    BY <1>0, <1>2, <1>e DEF EditParse, SetEdit
  <2> HIDE DEF parsed
  <2>2. /\ new.pc = "current" /\ new.dev = rec.dev /\ new.input = rec.input /\ new.now = clock
        /\ new.parsed = parsed
    BY <1>0 DEF EditRec
  <2> HIDE DEF new
  <2> QED BY <2>1, <2>2 DEF parsed
<1>3. ASSUME EditCurrent(r), edit'[r].pc # "done"
      PROVE  /\ edit'[r].pc = "write" /\ rec.pc = "current" /\ UNCHANGED devices
             /\ edit'[r].dev = rec.dev /\ edit'[r].input = rec.input /\ edit'[r].now = rec.now
             /\ IsRow(row) /\ CredUsable(rec.parsed.method, cred)
             /\ edit'[r].parsed = [rec.parsed EXCEPT !.cred = cred]
  <2> DEFINE new == [rec EXCEPT !.pc = "write", !.parsed.cred = cred]
  <2>1. edit'[r] = new /\ rec.pc = "current" /\ UNCHANGED devices
        /\ IsRow(row) /\ CredUsable(rec.parsed.method, cred)
    BY <1>0, <1>3, <1>e DEF EditCurrent, SetEdit
  <2> HIDE DEF cred
  <2>2. /\ new.pc = "write" /\ new.dev = rec.dev /\ new.input = rec.input /\ new.now = rec.now
        /\ new.parsed = [rec.parsed EXCEPT !.cred = cred]
    BY <1>0 DEF EditRec
  <2> HIDE DEF new
  <2> QED BY <2>1, <2>2
<1>4. ASSUME EditWrite(r), edit'[r].pc # "done"
      PROVE  /\ edit'[r].pc = "get"
             /\ IsRow(row) => devices' = [devices EXCEPT ![rec.dev] = UpdatedRow(row, rec.parsed, rec.now)]
  BY <1>0, <1>4, <1>e DEF EditWrite, SetEdit, EditRec
<1>5. \/ edit'[r] = rec \/ edit'[r].pc \in {"parse", "done"}
      \/ EditParse(r) \/ EditCurrent(r) \/ EditWrite(r)
  BY <1>0, <1>1, <1>e DEF EditMoves, EditStep, EditGet
<1>6. CASE EditParse(r)
  BY <1>2, <1>6
<1>7. CASE EditCurrent(r)
  BY <1>3, <1>7
<1>8. CASE EditWrite(r)
  BY <1>4, <1>8
<1> QED BY <1>5, <1>6, <1>7, <1>8

LEMMA NextCodeInv ==
  ASSUME OneProcess, CodeInv, [Next]_vars
  PROVE  CodeInv'
<1>0. SectionInv /\ TypeInv /\ SectionInv' /\ \A r \in EditReqs : EditMoves(r)
  BY NextSectionInv, RequestEffect DEF CodeInv, SectionInv
<1> SUFFICES ASSUME NEW r \in EditReqs, edit'[r].pc \in {"current", "write"},
                    edit'[r].input.cred = Null, edit'[r].parsed.method = "companion"
             PROVE  /\ edit'[r].pc = "current" => edit'[r].parsed.cred = Null
                    /\ edit'[r].pc = "write" /\ IsRow(devices'[edit'[r].dev]) =>
                         edit'[r].parsed.cred = devices'[edit'[r].dev].cred
  BY <1>0 DEF CodeInv, IsRow
<1> DEFINE rec == edit[r]
           d == edit[r].dev
           row == devices[d]
           cred == EffectiveCred(rec.parsed, row)
<1>1. CASE edit'[r] = rec /\ rec.pc = "current"
  BY <1>1 DEF CodeInv
<1>2. CASE edit'[r] = rec /\ rec.pc = "write"
  <2>1. d \in Ids /\ r \in Reqs /\ InSection(r) /\ r \notin WakeReqs \cup PowerReqs
    BY <1>0, <1>2, KindAssumption DEF TypeInv, InFlightOK, InFlight, Ended, Reqs, InSection
  <2>2. RowKept(d) \/ EditWrite(r)
    BY <1>0, <2>1, RowIsStill
  <2>3. ~EditWrite(r)
    <3> SUFFICES ASSUME EditWrite(r) PROVE FALSE
      OBVIOUS
    <3>1. edit \in [EditReqs -> EditRec] /\ EndedEdit.pc = "done"
      BY <1>0 DEF TypeInv, TypeOK, EndedEdit, NewEdit
    <3>2. edit'[r].pc \in {"get", "done"}
      BY <3>1 DEF EditWrite, EditEnd, SetEdit, EditRec
    <3> QED BY <1>2, <3>2
  <2> QED BY <1>2, <2>2, <2>3 DEF RowKept, CodeInv, IsRow
<1>3. ASSUME edit'[r].pc = "current", edit'[r].input = rec.input, rec.pc = "parse",
             edit'[r].parsed = Parsed(rec.input, row.method)
      PROVE  edit'[r].parsed.cred = Null
  <2>1. rec.input \in Input
    BY <1>0, <1>3, RequestAssumption DEF TypeInv, InFlightOK, InFlight, Ended
  <2> QED BY <1>3, <2>1 DEF Parsed, Input
<1>4. ASSUME edit'[r].pc = "write", rec.pc = "current", UNCHANGED devices, edit'[r].dev = d,
             edit'[r].input = rec.input, CredUsable(rec.parsed.method, cred),
             edit'[r].parsed = [rec.parsed EXCEPT !.cred = cred]
      PROVE  edit'[r].parsed.cred = devices'[edit'[r].dev].cred
  <2>1. rec.parsed \in Input
    BY <1>0, <1>4 DEF TypeInv, InFlightOK
  <2>2. edit'[r].parsed.method = rec.parsed.method /\ edit'[r].parsed.cred = cred
    BY <1>4, <2>1 DEF Input
  <2>3. rec.parsed.cred = Null /\ rec.parsed.method = "companion"
    BY <1>4, <2>2 DEF CodeInv
  <2>4. cred = row.cred
    BY <1>4, <2>3 DEF CredUsable, EffectiveCred
  <2> QED BY <1>4, <2>2, <2>4
<1> QED BY <1>0, <1>1, <1>2, <1>3, <1>4, EditStages

\* In one process an edit with a blank pairing code leaves the secret that is in the row
\* when it is written.
THEOREM BlankCodeTheorem ==
  ASSUME OneProcess
  PROVE  Spec => BlankCodeKeepsSecret
<1>1. Init => CodeInv
  BY InitTypeInv DEF Init, CodeInv, SectionInv, InSection, NewWake, NewPower, NewEdit
<1>2. CodeInv /\ [Next]_vars => CodeInv'
  BY NextCodeInv
<1>3. ASSUME CodeInv, [Next]_vars, NEW r \in EditReqs,
             edit[r].pc = "write", edit'[r].pc = "get", IsRow(devices[edit[r].dev]),
             edit[r].parsed.method = "companion", edit[r].input.cred = Null
      PROVE  devices'[edit[r].dev].cred = devices[edit[r].dev].cred
  <2> DEFINE d == edit[r].dev
  <2>1. TypeInv /\ EditMoves(r)
    BY <1>3, RequestEffect DEF CodeInv, SectionInv
  <2>2. devices' = [devices EXCEPT ![d] = UpdatedRow(devices[d], edit[r].parsed, edit[r].now)]
    BY <1>3, <2>1, EditStages
  <2>3. d \in Ids /\ devices \in [Ids -> Row \cup {Unused, Deleted}]
    BY <1>3, <2>1 DEF TypeInv, TypeOK, InFlightOK, InFlight, Ended
  <2>4. devices'[d].cred = edit[r].parsed.cred
    BY <2>2, <2>3 DEF UpdatedRow
  <2> QED BY <1>3, <2>4 DEF CodeInv
<1>4. CodeInv /\ [Next]_vars =>
        [\A r \in EditReqs :
           LET d == edit[r].dev IN
           /\ edit[r].pc = "write" /\ edit'[r].pc = "get"
           /\ IsRow(devices[d])
           /\ edit[r].parsed.method = "companion" /\ edit[r].input.cred = Null
           => devices'[d].cred = devices[d].cred]_vars
  BY <1>3
<1> QED BY <1>1, <1>2, <1>4, PTL DEF Spec, BlankCodeKeepsSecret

\* An edit takes its instant after every probe that was started before it, so a row that
\* was edited since a probe copied it is not older than the start of that probe.
ProbeTimes(q) ==
  LET d == probe[q].dev IN
  /\ probe[q].started <= clock
  /\ probe[q].snapshot.updatedAt <= probe[q].started
  /\ IsRow(devices[d]) /\ edits[d] # probe[q].version => probe[q].started <= devices[d].updatedAt
  /\ \A r \in EditReqs :
       edit[r].pc \in {"current", "write"} /\ edit[r].dev = d => probe[q].started <= edit[r].now

TimesInv ==
  /\ SectionInv
  /\ \A d \in Ids : IsRow(devices[d]) => devices[d].updatedAt <= clock
  /\ \A r \in EditReqs : edit[r].pc \in {"current", "write"} => edit[r].now <= clock
  /\ \A q \in ProbeReqs : InFlight(probe[q]) => ProbeTimes(q)

LEMMA ClockMoves ==
  ASSUME TypeInv, [Next]_vars
  PROVE  clock \in Nat /\ clock' \in Nat /\ clock' >= clock
<1>1. clock \in Nat
  BY DEF TypeInv, TypeOK
<1>2. clock' = clock \/ clock' = clock + 1
  BY NextKinds, FailureWrites, WakeStepWrites, PowerStepWrites, EditStepWrites, ProbeStepWrites
  DEF Surroundings, vars, Tick, Create, Delete
<1> QED BY <1>1, <1>2

\* What a step does to the version of a row.
LEMMA VersionEffect ==
  ASSUME TypeInv, [Next]_vars, NEW d \in Ids, IsRow(devices'[d])
  PROVE  \/ IsRow(devices[d]) /\ devices'[d].updatedAt = devices[d].updatedAt /\ edits'[d] = edits[d]
         \/ devices'[d].updatedAt = clock
         \/ \E r \in EditReqs : /\ edit[r].pc = "write" /\ edit[r].dev = d
                                /\ devices'[d].updatedAt = edit[r].now
<1>0. (IsRow(devices[d]) => devices[d] \in Row) /\ \A n \in Nat : n \in Stamp
  BY RowType DEF TypeInv, Stamp
<1>1. CASE RowKept(d)
  BY <1>1 DEF RowKept, HistoryKept, IsRow
<1>2. CASE RowInserted(d) \/ RowDeleted(d)
  BY <1>2 DEF RowInserted, RowDeleted, IsRow
<1>3. CASE RowAttempted(d) \/ RowSent(d) \/ RowClaimed(d) \/ RowProbed(d)
  <2>1. PICK now \in Stamp : devices'[d] \in {AttemptedRow(devices[d], now), SentRow(devices[d], now),
                                              ShutdownRow(devices[d], now), SeenRow(devices[d], now)}
    BY <1>0, <1>3 DEF RowAttempted, RowSent, RowClaimed, RowProbed
  <2>2. IsRow(devices[d]) /\ edits'[d] = edits[d]
    BY <1>3 DEF RowAttempted, RowSent, RowClaimed, RowProbed, HistoryKept
  <2>3. devices'[d].updatedAt = devices[d].updatedAt
    BY <1>0, <2>1, <2>2, UpdatesKeep DEF Row
  <2> QED BY <2>2, <2>3
<1>4. CASE RowEdited(d)
  BY <1>4 DEF RowEdited, EditWrite, UpdatedRow
<1> QED BY <1>1, <1>2, <1>3, <1>4, RowEffect

\* Where a probe under way comes from.
LEMMA ProbeStages ==
  ASSUME TypeInv, NEW q \in ProbeReqs, ProbeMoves(q), InFlight(probe'[q])
  PROVE  \/ /\ InFlight(probe[q])
            /\ probe'[q].dev = probe[q].dev /\ probe'[q].snapshot = probe[q].snapshot
            /\ probe'[q].started = probe[q].started /\ probe'[q].version = probe[q].version
         \/ \E d \in Ids :
              /\ ProbeBegin(q, d) /\ IsRow(devices[d])
              /\ probe'[q].dev = d /\ probe'[q].snapshot.updatedAt = devices[d].updatedAt
              /\ probe'[q].started = clock /\ probe'[q].version = edits[d]
<1>0. probe \in [ProbeReqs -> ProbeRec] /\ probe[q] \in ProbeRec
  BY DEF TypeInv, TypeOK
<1>1. ASSUME UNCHANGED probe[q]
      PROVE  InFlight(probe[q]) /\ probe'[q] = probe[q]
  BY <1>1
<1>2. ASSUME NEW d \in Ids, ProbeBegin(q, d)
      PROVE  /\ IsRow(devices[d])
             /\ probe'[q].dev = d /\ probe'[q].snapshot.updatedAt = devices[d].updatedAt
             /\ probe'[q].started = clock /\ probe'[q].version = edits[d]
  <2> DEFINE snapshot == [mac |-> devices[d].mac, address |-> devices[d].address,
                          updatedAt |-> devices[d].updatedAt]
             new == [probe[q] EXCEPT !.pc = "probing", !.dev = d, !.snapshot = snapshot,
                                     !.started = clock, !.version = edits[d]]
  <2>1. IsRow(devices[d]) /\ probe'[q] = new
    BY <1>0, <1>2 DEF ProbeBegin, SetProbe
  <2>2. snapshot.updatedAt = devices[d].updatedAt
    OBVIOUS
  <2> HIDE DEF snapshot
  <2>3. new.dev = d /\ new.snapshot = snapshot /\ new.started = clock /\ new.version = edits[d]
    BY <1>0 DEF ProbeRec
  <2> HIDE DEF new
  <2> QED BY <2>1, <2>2, <2>3
<1>3. CASE ProbeChecked(q)
  BY <1>0, <1>3 DEF ProbeChecked, SetProbe, ProbeRec, InFlight, Ended
<1>4. ASSUME probe'[q] = EndedProbe(probe[q]) PROVE FALSE
  BY <1>0, <1>4 DEF EndedProbe, NewProbe, InFlight, Ended, ProbeRec
<1>5. ~ProbeRecord(q)
  BY <1>0, <1>4 DEF ProbeRecord, SetProbe
<1> QED BY <1>1, <1>2, <1>3, <1>4, <1>5 DEF ProbeMoves, ProbeStep

LEMMA NextTimesInv ==
  ASSUME OneProcess, TimesInv, [Next]_vars
  PROVE  TimesInv'
<1>0. /\ SectionInv /\ TypeInv /\ SectionInv' /\ TypeInv'
      /\ \A r \in EditReqs : EditMoves(r)
      /\ \A q \in ProbeReqs : ProbeMoves(q)
      /\ clock \in Nat /\ clock' \in Nat /\ clock' >= clock
  BY NextSectionInv, NextTypeInv, RequestEffect, ClockMoves DEF TimesInv, SectionInv
<1>1. /\ \A r \in EditReqs : edit[r].pc \in {"current", "write"} => edit[r].now \in Nat /\ edit[r].now <= clock
      /\ \A d \in Ids : IsRow(devices[d]) => devices[d].updatedAt \in Nat /\ devices[d].updatedAt <= clock
      /\ \A q \in ProbeReqs : probe[q].started \in Nat
  BY <1>0, RowType DEF TypeInv, TypeOK, InFlightOK, TimesInv, Row, ProbeRec
<1>2. ASSUME NEW d \in Ids, IsRow(devices'[d])
      PROVE  devices'[d].updatedAt <= clock'
  BY <1>0, <1>1, <1>2, VersionEffect
<1>3. ASSUME NEW r \in EditReqs, edit'[r].pc \in {"current", "write"}
      PROVE  \/ edit'[r].now = clock
             \/ /\ edit[r].pc \in {"current", "write"}
                /\ edit'[r].now = edit[r].now /\ edit'[r].dev = edit[r].dev
  BY <1>0, <1>3, EditStages
<1>4. ASSUME NEW q \in ProbeReqs, InFlight(probe[q]),
             probe'[q].dev = probe[q].dev, probe'[q].snapshot = probe[q].snapshot,
             probe'[q].started = probe[q].started, probe'[q].version = probe[q].version
      PROVE  ProbeTimes(q)'
  <2> DEFINE d == probe[q].dev
  <2>1. ProbeTimes(q) /\ d \in Ids
    BY <1>0, <1>4 DEF TimesInv, TypeInv, InFlightOK
  <2>2. probe[q].started <= clock'
    BY <1>0, <1>1, <2>1 DEF ProbeTimes
  <2>3. ASSUME IsRow(devices'[d]), edits'[d] # probe[q].version
        PROVE  probe[q].started <= devices'[d].updatedAt
    BY <1>0, <1>1, <2>1, <2>3, VersionEffect DEF ProbeTimes
  <2>4. ASSUME NEW r \in EditReqs, edit'[r].pc \in {"current", "write"}, edit'[r].dev = d
        PROVE  probe[q].started <= edit'[r].now
    BY <1>3, <2>1, <2>4 DEF ProbeTimes
  <2> QED BY <1>4, <2>1, <2>2, <2>3, <2>4 DEF ProbeTimes, IsRow
<1>5. ASSUME NEW q \in ProbeReqs, NEW d \in Ids, ProbeBegin(q, d), IsRow(devices[d]),
             probe'[q].dev = d, probe'[q].snapshot.updatedAt = devices[d].updatedAt,
             probe'[q].started = clock, probe'[q].version = edits[d]
      PROVE  ProbeTimes(q)'
  <2>1. UNCHANGED <<devices, edit, clock, history>> /\ Free(ProcOf[q]) /\ q \in Reqs
    BY <1>0, <1>5, ProbeStepWrites DEF ProbeBegin, Reqs
  <2>2. ProcOf \in [Reqs -> Procs]
    BY RequestAssumption
  <2>3. ASSUME NEW r \in EditReqs PROVE edit[r].pc \notin {"current", "write"}
    <3>1. r \in Reqs /\ ProcOf[r] = ProcOf[q]
      BY <2>1, <2>2 DEF OneProcess, Reqs
    <3> QED BY <1>0, <2>1, <3>1 DEF SectionInv, InSection, Running, Free
  <2>4. devices[d].updatedAt <= clock
    BY <1>1, <1>5
  <2> QED BY <1>0, <1>5, <2>1, <2>3, <2>4 DEF ProbeTimes, history
<1>6. ASSUME NEW q \in ProbeReqs, InFlight(probe'[q]) PROVE ProbeTimes(q)'
  BY <1>0, <1>4, <1>5, <1>6, ProbeStages
<1>7. \A r \in EditReqs : edit'[r].pc \in {"current", "write"} => edit'[r].now <= clock'
  BY <1>0, <1>1, <1>3
<1> QED BY <1>0, <1>2, <1>6, <1>7 DEF TimesInv, IsRow, InFlight

\* In one process a probe is recorded only if its device was not edited since the probe
\* copied its row, but for a probe that was started in the millisecond of an edit.
THEOREM ProbesOfEditedTheorem ==
  ASSUME OneProcess
  PROVE  Spec => ProbesOfEditedDropped
<1>1. Init => TimesInv
  <2>1. Init => SectionInv
    BY InitTypeInv DEF Init, SectionInv, InSection, NewWake, NewPower, NewEdit
  <2>2. \A m \in Macs : LegacyRow(m).updatedAt = 0
    BY DEF LegacyRow, InsertedRow
  <2> QED BY <2>1, <2>2 DEF Init, TimesInv, NewEdit, NewProbe, InFlight, IsRow
<1>2. TimesInv /\ [Next]_vars => TimesInv'
  BY NextTimesInv
<1>3. ASSUME TimesInv, [Next]_vars, NEW r \in ProbeReqs,
             devices' # devices, probe[r].pc = "checked", probe'[r].pc = "done"
      PROVE  \/ edits[probe[r].dev] = probe[r].version
             \/ probe[r].started = probe[r].snapshot.updatedAt
  <2> DEFINE d == probe[r].dev
  <2>1. TypeInv /\ ProbeMoves(r) /\ InFlight(probe[r])
    BY <1>3, RequestEffect DEF TimesInv, SectionInv, InFlight, Ended
  <2>2. ProbeRecord(r)
    BY <1>3, <2>1 DEF ProbeMoves, ProbeStep, ProbeBegin, ProbeChecked
  <2>3. IsRow(devices[d]) /\ devices[d].updatedAt = probe[r].snapshot.updatedAt
    BY <1>3, <2>2 DEF ProbeRecord, ProbeMatches
  <2>4. ProbeTimes(r)
    BY <1>3, <2>1 DEF TimesInv
  <2>5. d \in Ids /\ devices[d].updatedAt \in Nat /\ probe[r].started \in Nat
    BY <2>1, <2>3, RowType DEF TypeInv, TypeOK, InFlightOK, Row, ProbeRec
  <2> QED BY <2>3, <2>4, <2>5 DEF ProbeTimes
<1>4. TimesInv /\ [Next]_vars =>
        [\A r \in ProbeReqs :
           devices' # devices /\ probe[r].pc = "checked" /\ probe'[r].pc = "done" =>
             \/ edits[probe[r].dev] = probe[r].version
             \/ probe[r].started = probe[r].snapshot.updatedAt]_vars
  BY <1>3
<1> QED BY <1>1, <1>2, <1>4, PTL DEF Spec, ProbesOfEditedDropped
=============================================================================
