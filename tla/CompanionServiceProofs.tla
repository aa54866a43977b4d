----------------------- MODULE CompanionServiceProofs -----------------------
(***************************************************************************)
(* Proofs about CompanionService, for any number of messages, deliveries,  *)
(* codes and runs of the service: types; the replay guard admits a message *)
(* once per run; commands are a cooldown apart, are refused for a cause    *)
(* and are reported as accepted only when Windows was given them; a code   *)
(* that was shown stays the code in force.                                 *)
(*                                                                         *)
(* TypeInv says what each stage of a handler relies on (Sound), GuardInv   *)
(* what the guard remembers, PowerInv follows each command from its begin  *)
(* to its end, SuccessInv the answers that reached the panel.              *)
(***************************************************************************)
EXTENDS CompanionService, TLAPS

\* What is true of the record of every delivery.
Sound(rec) ==
  /\ rec.pc = "new" => rec = NewDelivery
  /\ rec.pc # "new" => rec.msg \in Msgs /\ sent[rec.msg] # Null /\ rec.run <= run
  /\ InFlight(rec) => up /\ rec.run = run
  /\ rec.pc \in {"verified", "stamped"} =>
       /\ rec.at \in Nat /\ rec.at <= clock /\ clock <= rec.at + Stall
       /\ InWindow(sent[rec.msg].ts, rec.at)
  /\ rec.pc \in {"keyed", "verified", "stamped"} => rec.used = Null
  /\ rec.pc = "stamped" => rec.now \in Nat /\ rec.at <= rec.now /\ rec.now <= clock
  /\ rec.pc = "timed" => rec.now \in Nat
  /\ rec.used # Null =>
       /\ rec.used \in Nat /\ rec.used <= clock
       /\ rec.used >= sent[rec.msg].ts - Window

\* The guard knows the nonce of a message it admitted, or has forgotten it
\* so long ago that the message's timestamp is out of the window for good.
Remembered(rec) ==
  rec.used # Null /\ rec.run = run /\ up =>
    \/ nonces[rec.msg] = rec.used
    \/ nonces[rec.msg] = Null /\ clock > rec.used + Retention

Suspender == suspend.phase # "idle" => suspend.by \in Deliveries
                                       /\ delivery[suspend.by].pc # "new"

UnsentAgree == \A m \in Msgs : result[m] = "unsent" <=> sent[m] = Null

TypeInv ==
  TypeOK /\ UnsentAgree /\ Suspender /\ (\A d \in Deliveries : Sound(delivery[d]))

GuardInv == TypeInv /\ (\A d \in Deliveries : Remembered(delivery[d])) /\ AcceptedOnce

Assumed == NullAssumption /\ ServiceAssumption /\ RetentionAssumption

-----------------------------------------------------------------------------
\* A new delivery is a well typed record.
LEMMA NewDeliveryType == NewDelivery \in DeliveryRec
BY DEF NewDelivery, DeliveryRec, Stamp, Ended

\* A handler's step that leaves the guard alone and keeps the nonce of its
\* record preserves everything about the other deliveries.
LEMMA SetSound ==
  ASSUME TypeInv, NEW d \in Deliveries, NEW rec \in DeliveryRec, Sound(rec),
         rec.pc # "new", Set(d, rec)
  PROVE  /\ delivery' \in [Deliveries -> DeliveryRec]
         /\ delivery'[d] = rec
         /\ \A e \in Deliveries \ {d} : delivery'[e] = delivery[e]
         /\ \A e \in Deliveries : Sound(delivery[e])'
         /\ \A e \in Deliveries : delivery[e].pc # "new" => delivery'[e].pc # "new"
<1>1. /\ delivery' \in [Deliveries -> DeliveryRec]
      /\ delivery'[d] = rec
      /\ \A e \in Deliveries \ {d} : delivery'[e] = delivery[e]
  BY DEF Set, TypeInv, TypeOK
<1>2. UNCHANGED <<clock, sent, run, up>>
  BY DEF Set, panel
<1>3. ASSUME NEW e \in Deliveries PROVE Sound(delivery[e])'
  <2>1. Sound(delivery'[e])
    BY <1>1 DEF TypeInv
  <2> QED BY <2>1, <1>2 DEF Sound, InFlight
<1> QED BY <1>1, <1>3

\* The same step keeps what the guard remembers.
LEMMA SetGuard ==
  ASSUME GuardInv, NEW d \in Deliveries, NEW rec \in DeliveryRec, Sound(rec),
         rec.pc # "new", Set(d, rec), UNCHANGED nonces,
         rec.used = delivery[d].used \/ rec.used = Null,
         rec.msg = delivery[d].msg \/ rec.used = Null,
         rec.run = delivery[d].run \/ rec.used = Null
  PROVE  /\ \A e \in Deliveries : Remembered(delivery[e])'
         /\ AcceptedOnce'
<1>1. TypeInv
  BY DEF GuardInv
<1>2. /\ delivery'[d] = rec
      /\ \A e \in Deliveries \ {d} : delivery'[e] = delivery[e]
  BY <1>1, SetSound
<1>3. UNCHANGED <<clock, run, up>>
  BY DEF Set
<1>4. \A e \in Deliveries :
        /\ Remembered(delivery[e])
        /\ delivery'[e].used # Null =>
             /\ delivery'[e].used = delivery[e].used
             /\ delivery'[e].msg = delivery[e].msg
             /\ delivery'[e].run = delivery[e].run
  BY <1>2 DEF GuardInv
<1>5. ASSUME NEW e \in Deliveries PROVE Remembered(delivery[e])'
  BY <1>4, <1>3 DEF Remembered
<1>6. AcceptedOnce'
  BY <1>4 DEF AcceptedOnce, GuardInv
<1> QED BY <1>5, <1>6

\* What a step of one handler does to its own record.
HandlerStep(d) ==
  \E rec \in DeliveryRec :
    /\ Set(d, rec) /\ Sound(rec) /\ rec.pc # "new"
    /\ rec.used # Null => /\ rec.used = delivery[d].used
                          /\ rec.msg = delivery[d].msg
                          /\ rec.run = delivery[d].run

\* A plain answer forgets the request.
LEMMA RejectedSound ==
  ASSUME TypeInv, NEW d \in Deliveries, delivery[d].pc # "new"
  PROVE  /\ Rejected(delivery[d]) \in DeliveryRec
         /\ Sound(Rejected(delivery[d]))
         /\ Rejected(delivery[d]).pc # "new"
         /\ Rejected(delivery[d]).used = Null
<1> DEFINE rec == delivery[d]
<1>1. rec \in DeliveryRec /\ Sound(rec)
  BY DEF TypeInv, TypeOK
<1>2. NewDelivery.used = Null
  BY DEF NewDelivery
<1>3. rec.msg \in Msgs /\ sent[rec.msg] # Null /\ rec.run <= run
  BY <1>1 DEF Sound
<1>4. /\ Rejected(rec) \in DeliveryRec
      /\ Rejected(rec).pc = "answered" /\ Rejected(rec).used = Null
      /\ Rejected(rec).msg = rec.msg /\ Rejected(rec).run = rec.run
  BY <1>1, <1>2, NewDeliveryType DEF Rejected, DeliveryRec, Ended
<1> QED BY <1>3, <1>4 DEF Sound, InFlight, Ended

\* The steps before the guard.
LEMMA EarlySteps ==
  ASSUME TypeInv, Assumed, NEW d \in Deliveries,
         (\E m \in Msgs : Arrive(d, m)) \/ Verify(d) \/ ReadNow(d)
  PROVE  HandlerStep(d)
<1> DEFINE rec == delivery[d]
<1>1. rec \in DeliveryRec /\ Sound(rec) /\ clock \in Nat /\ run \in Nat /\ memory \in Secrets
  BY DEF TypeInv, TypeOK
<1>2. ASSUME NEW m \in Msgs, Arrive(d, m) PROVE HandlerStep(d)
  <2> DEFINE new == [NewDelivery EXCEPT !.pc = "keyed", !.msg = m, !.run = run,
                                        !.key = memory]
  <2>1. NewDelivery.used = Null
    BY DEF NewDelivery
  <2>2. /\ new \in DeliveryRec /\ new.pc = "keyed" /\ new.msg = m
        /\ new.run = run /\ new.used = Null
    BY <1>1, <2>1, NewDeliveryType DEF DeliveryRec
  <2>3. Set(d, new) /\ up /\ sent[m] # Null
    BY <1>2 DEF Arrive
  <2> HIDE DEF new
  <2>4. Sound(new)
    BY <1>1, <2>2, <2>3 DEF Sound, InFlight, Ended
  <2> QED BY <2>2, <2>3, <2>4 DEF HandlerStep
<1>3. CASE Verify(d)
  <2>1. CASE Set(d, Rejected(rec))
    BY <1>3, <2>1, RejectedSound DEF HandlerStep, Verify
  <2>2. CASE /\ InWindow(sent[rec.msg].ts, clock)
             /\ Set(d, [rec EXCEPT !.pc = "verified", !.at = clock])
    <3> DEFINE new == [rec EXCEPT !.pc = "verified", !.at = clock]
    <3>1. new \in DeliveryRec
      BY <1>1 DEF DeliveryRec, Stamp
    <3>2. Stall \in Nat
      BY DEF Assumed, ServiceAssumption
    <3>3. /\ new.pc = "verified" /\ new.at = clock /\ new.msg = rec.msg
          /\ new.run = rec.run /\ new.used = rec.used
      BY <1>1 DEF DeliveryRec
    <3>4. rec.pc = "keyed"
      BY <1>3 DEF Verify
    <3>5. Sound(new)
      BY <1>1, <2>2, <3>2, <3>3, <3>4 DEF Sound, InFlight, Ended
    <3> QED BY <2>2, <3>1, <3>3, <3>5 DEF HandlerStep
  <2> QED BY <1>3, <2>1, <2>2 DEF Verify
<1>4. CASE ReadNow(d)
  <2> DEFINE new == [rec EXCEPT !.pc = "stamped", !.now = clock]
  <2>1. new \in DeliveryRec
    BY <1>1 DEF DeliveryRec, Stamp
  <2>2. /\ new.pc = "stamped" /\ new.now = clock /\ new.at = rec.at
        /\ new.msg = rec.msg /\ new.run = rec.run /\ new.used = rec.used
    BY <1>1 DEF DeliveryRec
  <2>3. rec.pc = "verified"
    BY <1>4 DEF ReadNow
  <2>4. Sound(new)
    BY <1>1, <2>2, <2>3 DEF Sound, InFlight, Ended
  <2> QED BY <1>4, <2>1, <2>2, <2>4 DEF HandlerStep, ReadNow
<1> QED BY <1>2, <1>3, <1>4

\* A record that keeps its message, its run and its accepted stamp stays
\* sound in the later stages of the handler.
LEMMA LaterSound ==
  ASSUME TypeInv, NEW d \in Deliveries, NEW rec \in DeliveryRec,
         delivery[d].pc \notin {"new", "keyed", "verified", "stamped"},
         rec.msg = delivery[d].msg, rec.run = delivery[d].run,
         rec.used = delivery[d].used,
         rec.pc \in {"recorded", "timed", "running", "answering", "answered"},
         InFlight(rec) => InFlight(delivery[d]),
         rec.pc = "timed" => rec.now \in Nat,
         Set(d, rec)
  PROVE  HandlerStep(d)
<1>1. delivery[d] \in DeliveryRec /\ Sound(delivery[d])
  BY DEF TypeInv, TypeOK
<1>2. Sound(rec)
  BY <1>1 DEF Sound
<1> QED BY <1>2 DEF HandlerStep

\* The steps after the guard, and the end of a suspension.
LEMMA LateSteps ==
  ASSUME TypeInv, Assumed, NEW d \in Deliveries,
         \/ Record(d) \/ ShutdownNow(d) \/ ShutdownStart(d)
         \/ (\E taken \in BOOLEAN : ShutdownEnd(d, taken))
         \/ TrySuspend(d) \/ Respond(d)
  PROVE  HandlerStep(d)
<1> DEFINE rec == delivery[d]
<1>1. rec \in DeliveryRec /\ Sound(rec) /\ clock \in Nat /\ memory \in Secrets
  BY DEF TypeInv, TypeOK
<1>2. \A st \in {"ok", "refused", "error", "accepted"} :
        /\ Answering(rec, st) \in DeliveryRec
        /\ Answering(rec, st).pc = "answering"
        /\ Answering(rec, st).msg = rec.msg /\ Answering(rec, st).run = rec.run
        /\ Answering(rec, st).used = rec.used
  BY <1>1 DEF DeliveryRec, Answering
<1>3. CASE Record(d)
  <2>1. rec.pc = "accepted"
    BY <1>3 DEF Record
  <2>2. CASE Set(d, Answering(rec, "ok"))
    BY <1>2, <2>1, <2>2, LaterSound DEF InFlight, Ended
  <2>3. CASE Set(d, [rec EXCEPT !.pc = "recorded"])
    <3> DEFINE new == [rec EXCEPT !.pc = "recorded"]
    <3>1. new \in DeliveryRec /\ new.pc = "recorded" /\ new.msg = rec.msg
          /\ new.run = rec.run /\ new.used = rec.used
      BY <1>1 DEF DeliveryRec
    <3> QED BY <2>1, <2>3, <3>1, LaterSound DEF InFlight, Ended
  <2> QED BY <1>3, <2>2, <2>3 DEF Record
<1>4. CASE ShutdownNow(d)
  <2> DEFINE new == [rec EXCEPT !.pc = "timed", !.now = clock]
  <2>1. new \in DeliveryRec /\ new.pc = "timed" /\ new.msg = rec.msg /\ new.now = clock
        /\ new.run = rec.run /\ new.used = rec.used
    BY <1>1 DEF DeliveryRec, Stamp
  <2>2. rec.pc = "recorded" /\ Set(d, new)
    BY <1>4 DEF ShutdownNow
  <2> QED BY <1>1, <2>1, <2>2, LaterSound DEF InFlight, Ended
<1>5. CASE ShutdownStart(d)
  <2>1. rec.pc = "timed" /\ rec.now \in Nat
    BY <1>1, <1>5 DEF ShutdownStart, Sound
  <2>2. CASE Set(d, Answering(rec, "refused"))
    BY <1>2, <2>1, <2>2, LaterSound DEF InFlight, Ended
  <2> DEFINE new == [rec EXCEPT !.pc = "running", !.now = Null,
                                !.began = rec.now, !.over = rec.now]
  <2>3. CASE Set(d, new)
    <3>1. new \in DeliveryRec /\ new.pc = "running" /\ new.msg = rec.msg
          /\ new.run = rec.run /\ new.used = rec.used
      BY <1>1, <2>1 DEF DeliveryRec, Stamp
    <3> QED BY <2>1, <2>3, <3>1, LaterSound DEF InFlight, Ended
  <2> QED BY <1>5, <2>2, <2>3 DEF ShutdownStart
<1>6. ASSUME NEW taken \in BOOLEAN, ShutdownEnd(d, taken) PROVE HandlerStep(d)
  <2> DEFINE new == [rec EXCEPT !.pc = "answering", !.status = ShutdownStatus(taken),
                                !.began = IF taken THEN @ ELSE Null,
                                !.over = IF taken THEN @ ELSE Null]
  <2>1. new \in DeliveryRec /\ new.pc = "answering" /\ new.msg = rec.msg
        /\ new.run = rec.run /\ new.used = rec.used
    <3> DEFINE st == ShutdownStatus(taken)
               began == IF taken THEN rec.began ELSE Null
               over == IF taken THEN rec.over ELSE Null
    <3>1. st \in {"accepted", "error"} /\ began \in Stamp /\ over \in Stamp
      BY <1>1 DEF DeliveryRec, Stamp, ShutdownStatus
    <3>2. new = [rec EXCEPT !.pc = "answering", !.status = st,
                            !.began = began, !.over = over]
      OBVIOUS
    <3> HIDE DEF st, began, over, new
    <3> QED BY <1>1, <3>1, <3>2 DEF DeliveryRec, Stamp
  <2>2. rec.pc = "running" /\ Set(d, new)
    BY <1>6 DEF ShutdownEnd
  <2> QED BY <2>1, <2>2, LaterSound DEF InFlight, Ended
<1>7. CASE TrySuspend(d)
  <2>1. rec.pc = "recorded"
    BY <1>7 DEF TrySuspend
  <2> DEFINE refused == [Answering(rec, "refused") EXCEPT !.now = clock]
             started == [Answering(rec, "accepted") EXCEPT !.began = clock]
  <2>2. /\ refused \in DeliveryRec /\ refused.pc = "answering" /\ refused.msg = rec.msg
        /\ refused.run = rec.run /\ refused.used = rec.used
    BY <1>1, <1>2 DEF DeliveryRec, Stamp
  <2>3. /\ started \in DeliveryRec /\ started.pc = "answering" /\ started.msg = rec.msg
        /\ started.run = rec.run /\ started.used = rec.used
    BY <1>1, <1>2 DEF DeliveryRec, Stamp
  <2>4. CASE Set(d, refused)
    BY <2>1, <2>2, <2>4, LaterSound DEF InFlight, Ended
  <2>5. CASE Set(d, Answering(rec, "error"))
    BY <1>2, <2>1, <2>5, LaterSound DEF InFlight, Ended
  <2>6. CASE Set(d, started)
    BY <2>1, <2>3, <2>6, LaterSound DEF InFlight, Ended
  <2> QED BY <1>7, <2>4, <2>5, <2>6 DEF TrySuspend
<1>8. CASE Respond(d)
  <2> DEFINE new == [rec EXCEPT !.pc = "answered", !.key = memory, !.now = Null]
  <2>1. new \in DeliveryRec /\ new.pc = "answered" /\ new.msg = rec.msg
        /\ new.run = rec.run /\ new.used = rec.used
    BY <1>1 DEF DeliveryRec, Stamp, Ended
  <2>2. rec.pc = "answering" /\ Set(d, new)
    BY <1>8 DEF Respond
  <2> QED BY <2>1, <2>2, LaterSound DEF InFlight, Ended
<1> QED BY <1>3, <1>4, <1>5, <1>6, <1>7, <1>8

\* Sound looks at the panel, the clock and the run only: it survives steps
\* that change none of them.
LEMMA SoundFrame ==
  ASSUME TypeInv, UNCHANGED <<clock, sent, run, up, delivery>>
  PROVE  \A e \in Deliveries : Sound(delivery[e])'
BY DEF TypeInv, Sound, InFlight

\* The guard's own step, told apart: refused, or admitted with a new stamp.
LEMMA TryUseSteps ==
  ASSUME TypeInv, Assumed, NEW d \in Deliveries, TryUse(d)
  PROVE  /\ delivery[d].now \in Nat /\ delivery[d].now <= clock
         /\ delivery[d].pc = "stamped" /\ delivery[d].used = Null
         /\ nonces' \in [Msgs -> Stamp]
         /\ UNCHANGED <<config, executor>>
         /\ \A n \in Msgs \ {delivery[d].msg} :
              nonces'[n] = IF Expired(nonces[n], delivery[d].now) THEN Null ELSE nonces[n]
         /\ \/ /\ HandlerStep(d) /\ delivery'[d].used = Null
               /\ nonces'[delivery[d].msg] = nonces[delivery[d].msg]
            \/ /\ nonces[delivery[d].msg] = Null
                  \/ delivery[d].now - nonces[delivery[d].msg] > Retention
               /\ nonces'[delivery[d].msg] = delivery[d].now
               /\ \E rec \in DeliveryRec :
                    /\ Set(d, rec) /\ Sound(rec) /\ rec.pc # "new"
                    /\ rec.used = delivery[d].now
                    /\ rec.msg = delivery[d].msg /\ rec.run = delivery[d].run
<1> DEFINE rec == delivery[d]
           now == rec.now
           m == rec.msg
           swept == [n \in Msgs |-> IF Expired(nonces[n], now) THEN Null ELSE nonces[n]]
<1>1. rec \in DeliveryRec /\ Sound(rec) /\ clock \in Nat /\ nonces \in [Msgs -> Stamp]
      /\ Retention \in Nat /\ Window \in Nat
  BY DEF TypeInv, TypeOK, Assumed, ServiceAssumption
<1>2. rec.pc = "stamped" /\ UNCHANGED <<config, executor>>
  BY DEF TryUse
<1>3. now \in Nat /\ now <= clock /\ rec.used = Null /\ m \in Msgs
  BY <1>1, <1>2 DEF Sound
<1>4. swept \in [Msgs -> Stamp]
  BY <1>1 DEF Stamp
<1>5. CASE swept[m] # Null /\ nonces' = swept /\ Set(d, Rejected(rec))
  <2>1. HandlerStep(d) /\ delivery'[d].used = Null
    BY <1>2, <1>5, RejectedSound, SetSound DEF HandlerStep
  <2> QED BY <1>2, <1>3, <1>4, <1>5, <2>1
<1>6. CASE /\ swept[m] = Null
           /\ nonces' = [swept EXCEPT ![m] = now]
           /\ Set(d, [rec EXCEPT !.pc = "accepted", !.used = now,
                                 !.key = Null, !.at = Null, !.now = Null])
  <2> DEFINE new == [rec EXCEPT !.pc = "accepted", !.used = now,
                                !.key = Null, !.at = Null, !.now = Null]
  <2>1. /\ new \in DeliveryRec /\ new.pc = "accepted" /\ new.used = now
        /\ new.msg = m /\ new.run = rec.run
    BY <1>1, <1>3 DEF DeliveryRec, Stamp
  <2>2. Set(d, new)
    BY <1>6
  <2> HIDE DEF new
  <2>3. rec.at \in Nat /\ rec.at <= now /\ sent[m].ts <= rec.at + Window
    BY <1>1, <1>2 DEF Sound, InWindow
  <2>4. sent[m].ts \in Int
    BY <1>1, <1>2, <1>3 DEF TypeInv, TypeOK, Sound
  <2>5. Sound(new)
    BY <1>1, <1>2, <1>3, <2>1, <2>3, <2>4 DEF Sound, InFlight, Ended
  <2>6. nonces[m] = Null \/ now - nonces[m] > Retention
    BY <1>3, <1>6 DEF Expired
  <2>7. nonces' \in [Msgs -> Stamp] /\ nonces'[m] = now
        /\ \A n \in Msgs \ {m} : nonces'[n] = swept[n]
    BY <1>3, <1>4, <1>6 DEF Stamp
  <2> QED BY <1>2, <1>3, <2>1, <2>2, <2>5, <2>6, <2>7
<1> QED BY <1>5, <1>6 DEF TryUse

\* A step of a handler, with what it does to the other variables, preserves
\* the type invariant.
LEMMA HandlerTypeInv ==
  ASSUME TypeInv, NEW d \in Deliveries, HandlerStep(d),
         disk' \in Secrets, memory' \in Secrets, issued' \in SUBSET Secrets,
         shown' \in Secrets \cup {Null}, nonces' \in [Msgs -> Stamp],
         holder' \in Deliveries \cup {Null}, last' \in Stamp,
         \/ UNCHANGED suspend
         \/ suspend' \in [phase: {"waiting"}, by: {d}]
         \/ suspend' = Idle
  PROVE  TypeInv'
<1>1. PICK rec \in DeliveryRec : Set(d, rec) /\ Sound(rec) /\ rec.pc # "new"
  BY DEF HandlerStep
<1>2. /\ delivery' \in [Deliveries -> DeliveryRec]
      /\ delivery'[d] = rec
      /\ \A e \in Deliveries : Sound(delivery[e])'
      /\ \A e \in Deliveries : delivery[e].pc # "new" => delivery'[e].pc # "new"
  BY <1>1, SetSound
<1>3. UNCHANGED <<clock, panel, run, up>>
  BY <1>1 DEF Set
<1>4. suspend' \in [phase: {"idle", "waiting", "running"}, by: Deliveries \cup {Null}]
  BY DEF TypeInv, TypeOK, Idle
<1>5. TypeOK'
  BY <1>2, <1>3, <1>4 DEF TypeInv, TypeOK, panel
<1>6. UnsentAgree'
  BY <1>3 DEF TypeInv, UnsentAgree, panel
<1>7. Suspender'
  BY <1>1, <1>2 DEF TypeInv, Suspender, Idle
<1> QED BY <1>2, <1>5, <1>6, <1>7 DEF TypeInv

\* The invariant holds initially and every step preserves it.
LEMMA TypeInit == Assumed /\ Init => TypeInv
<1> SUFFICES ASSUME Assumed, Init PROVE TypeInv
  OBVIOUS
<1>1. TypeOK
  BY NewDeliveryType DEF Init, TypeOK, Stamp, Idle
<1>2. \A d \in Deliveries : Sound(delivery[d])
  BY DEF Init, Sound, NewDelivery, InFlight, Ended
<1> QED BY <1>1, <1>2 DEF Init, TypeInv, UnsentAgree, Suspender, Idle

LEMMA TypeStep == Assumed /\ TypeInv /\ [Next]_vars => TypeInv'
<1> SUFFICES ASSUME Assumed, TypeInv, [Next]_vars PROVE TypeInv'
  OBVIOUS
<1>0. /\ TypeOK /\ UnsentAgree /\ Suspender /\ \A d \in Deliveries : Sound(delivery[d])
      /\ delivery \in [Deliveries -> DeliveryRec]
      /\ clock \in Nat /\ run \in Nat /\ Stall \in Nat
  BY DEF TypeInv, TypeOK, Assumed, ServiceAssumption
<1>1. CASE Tick
  <2>1. ASSUME NEW d \in Deliveries PROVE Sound(delivery[d])'
    <3>1. Sound(delivery[d]) /\ delivery[d] \in DeliveryRec
      BY <1>0
    <3> QED BY <1>0, <1>1, <3>1 DEF Tick, Sound, InFlight, Ended, panel
  <2>2. TypeOK'
    BY <1>0, <1>1 DEF Tick, TypeOK, panel, config, executor
  <2>3. UnsentAgree' /\ Suspender'
    BY <1>0, <1>1 DEF Tick, UnsentAgree, Suspender, panel, executor
  <2> QED BY <2>1, <2>2, <2>3 DEF TypeInv
<1>2. CASE Pair \/ Rotate
  <2>1. UNCHANGED <<clock, sent, result, run, up, nonces, executor, delivery>>
    BY <1>2 DEF Pair, Rotate, panel
  <2>2. \A d \in Deliveries : Sound(delivery[d])'
    BY <2>1, SoundFrame
  <2>3. TypeOK'
    BY <1>0, <1>2, <2>1 DEF Pair, Rotate, Saved, TypeOK, panel, config, executor
  <2>4. UnsentAgree' /\ Suspender'
    BY <1>0, <2>1 DEF UnsentAgree, Suspender, executor
  <2> QED BY <2>2, <2>3, <2>4 DEF TypeInv
<1>3. ASSUME NEW m \in Msgs, Send(m) PROVE TypeInv'
  <2>1. PICK skew \in -MaxSkew..MaxSkew :
          sent' = [sent EXCEPT ![m] = [key |-> paired, ts |-> clock + skew]]
    BY <1>3 DEF Send
  <2>2. MaxSkew \in Nat
    BY DEF Assumed, ServiceAssumption
  <2>3. [key |-> paired, ts |-> clock + skew] \in [key: Secrets, ts: Int]
    BY <1>0, <2>2 DEF TypeOK
  <2>4. sent' \in [Msgs -> [key: Secrets, ts: Int] \cup {Null}]
        /\ sent'[m] # Null /\ \A n \in Msgs \ {m} : sent'[n] = sent[n]
    <3>1. Null \notin [key: Secrets, ts: Int]
      BY DEF Assumed, NullAssumption
    <3>2. [key |-> paired, ts |-> clock + skew] # Null
      BY <2>3, <3>1
    <3>3. sent \in [Msgs -> [key: Secrets, ts: Int] \cup {Null}]
      BY <1>0 DEF TypeOK
    <3> QED BY <2>1, <2>3, <3>2, <3>3
  <2>5. sent[m] = Null
    BY <1>0, <1>3 DEF Send, UnsentAgree
  <2>6. ASSUME NEW d \in Deliveries PROVE Sound(delivery[d])'
    <3>1. Sound(delivery[d]) /\ delivery[d] \in DeliveryRec
      BY <1>0
    <3>2. delivery'[d] = delivery[d] /\ UNCHANGED <<clock, run, up>>
      BY <1>3 DEF Send
    <3>3. CASE delivery[d].pc = "new"
      <4>1. delivery[d].used = Null
        BY <3>1, <3>3 DEF Sound, NewDelivery
      <4> QED BY <3>1, <3>2, <3>3, <4>1 DEF Sound, InFlight
    <3>4. CASE delivery[d].pc # "new"
      <4>1. delivery[d].msg \in Msgs \ {m}
        BY <2>5, <3>1, <3>4 DEF Sound
      <4>2. sent'[delivery[d].msg] = sent[delivery[d].msg]
        BY <2>4, <4>1
      <4> QED BY <3>1, <3>2, <3>4, <4>2 DEF Sound, InFlight
    <3> QED BY <3>3, <3>4
  <2>7. TypeOK'
    BY <1>0, <1>3, <2>4 DEF Send, TypeOK, config, executor
  <2>8. UnsentAgree' /\ Suspender'
    BY <1>0, <1>3, <2>4 DEF Send, TypeOK, UnsentAgree, Suspender, executor
  <2> QED BY <2>6, <2>7, <2>8 DEF TypeInv
<1>4. ASSUME NEW m \in Msgs, GiveUp(m) \/ (\E d \in Deliveries : Receive(m, d))
      PROVE TypeInv'
  <2>1. UNCHANGED <<clock, sent, run, up, paired, config, nonces, executor, delivery>>
    BY <1>4 DEF GiveUp, Receive
  <2>2. /\ result[m] = "waiting"
        /\ \E v \in {"accepted", "failed"} : result' = [result EXCEPT ![m] = v]
    BY <1>4 DEF GiveUp, Receive, Verdict
  <2>3. \A e \in Deliveries : Sound(delivery[e])'
    BY <2>1, SoundFrame
  <2>4. TypeOK'
    BY <1>0, <2>1, <2>2 DEF TypeOK, config, executor
  <2>5. UnsentAgree' /\ Suspender'
    BY <1>0, <2>1, <2>2 DEF TypeOK, UnsentAgree, Suspender, executor
  <2> QED BY <2>3, <2>4, <2>5 DEF TypeInv
<1>5. ASSUME NEW m \in Msgs, NEW d \in Deliveries, Arrive(d, m) PROVE TypeInv'
  <2>1. HandlerStep(d) /\ UNCHANGED <<config, nonces, executor>>
    BY <1>5, EarlySteps DEF Arrive
  <2> QED BY <1>0, <2>1, HandlerTypeInv DEF TypeOK, config, executor
<1>6. ASSUME NEW d \in Deliveries, Handle(d) PROVE TypeInv'
  <2>1. CASE Verify(d) \/ ReadNow(d)
    <3>1. HandlerStep(d) /\ UNCHANGED <<config, nonces, executor>>
      BY <2>1, EarlySteps DEF Verify, ReadNow
    <3> QED BY <1>0, <3>1, HandlerTypeInv DEF TypeOK, config, executor
  <2>2. CASE TryUse(d)
    <3>1. nonces' \in [Msgs -> Stamp] /\ UNCHANGED <<config, executor>>
      BY <2>2, TryUseSteps
    <3>2. \E rec \in DeliveryRec : Set(d, rec) /\ Sound(rec) /\ rec.pc # "new"
      BY <2>2, TryUseSteps DEF HandlerStep
    <3>3. PICK rec \in DeliveryRec : Set(d, rec) /\ Sound(rec) /\ rec.pc # "new"
      BY <3>2
    <3>4. /\ delivery' \in [Deliveries -> DeliveryRec]
          /\ \A e \in Deliveries : Sound(delivery[e])'
          /\ \A e \in Deliveries : delivery[e].pc # "new" => delivery'[e].pc # "new"
      BY <3>3, SetSound
    <3>5. UNCHANGED <<clock, panel, run, up>>
      BY <3>3 DEF Set
    <3>6. TypeOK'
      BY <1>0, <3>1, <3>4, <3>5 DEF TypeOK, panel, config, executor
    <3>7. UnsentAgree' /\ Suspender'
      BY <1>0, <3>1, <3>4, <3>5 DEF UnsentAgree, Suspender, panel, executor
    <3> QED BY <3>4, <3>6, <3>7 DEF TypeInv
  <2>3. CASE Record(d)
    <3>1. HandlerStep(d) /\ disk' \in {memory, disk}
          /\ UNCHANGED <<memory, issued, shown, nonces, executor>>
      BY <2>3, LateSteps DEF Record
    <3> QED BY <1>0, <3>1, HandlerTypeInv DEF TypeOK, executor
  <2>4. CASE ShutdownNow(d) \/ Respond(d)
    <3>1. HandlerStep(d) /\ UNCHANGED <<config, nonces, executor>>
      BY <2>4, LateSteps DEF ShutdownNow, Respond
    <3> QED BY <1>0, <3>1, HandlerTypeInv DEF TypeOK, config, executor
  <2>5. CASE ShutdownStart(d)
    <3>1. HandlerStep(d) /\ UNCHANGED <<config, nonces, suspend>>
      BY <2>5, LateSteps DEF ShutdownStart, executor
    <3>2. delivery[d].now \in Nat
      BY <1>0, <2>5 DEF ShutdownStart, Sound
    <3>3. last' \in Stamp /\ holder' \in Deliveries \cup {Null}
      BY <1>0, <2>5, <3>2 DEF ShutdownStart, executor, TypeOK, Stamp
    <3> QED BY <1>0, <3>1, <3>3, HandlerTypeInv DEF TypeOK, config
  <2>6. ASSUME NEW taken \in BOOLEAN, ShutdownEnd(d, taken) PROVE TypeInv'
    <3>1. HandlerStep(d) /\ UNCHANGED <<config, nonces, last, suspend>> /\ holder' = Null
      BY <2>6, LateSteps DEF ShutdownEnd, HolderAfter
    <3> QED BY <1>0, <3>1, HandlerTypeInv DEF TypeOK, config
  <2>7. CASE TrySuspend(d)
    <3>1. HandlerStep(d) /\ UNCHANGED <<config, nonces, holder>>
      BY <2>7, LateSteps DEF TrySuspend, executor
    <3>2. /\ last' \in Stamp
          /\ UNCHANGED suspend \/ suspend' \in [phase: {"waiting"}, by: {d}]
      BY <1>0, <2>7 DEF TrySuspend, executor, TypeOK, Stamp
    <3> QED BY <1>0, <3>1, <3>2, HandlerTypeInv DEF TypeOK, config
  <2> QED BY <1>6, <2>1, <2>2, <2>3, <2>4, <2>5, <2>6, <2>7 DEF Handle
<1>7. CASE SuspendStart
  <2>1. UNCHANGED <<clock, sent, result, run, up, delivery>>
    BY <1>7 DEF SuspendStart, panel
  <2>2. \A d \in Deliveries : Sound(delivery[d])'
    BY <2>1, SoundFrame
  <2>3. TypeOK'
    BY <1>0, <1>7 DEF SuspendStart, TypeOK, panel, config
  <2>4. UnsentAgree' /\ Suspender'
    BY <1>0, <1>7, <2>1 DEF SuspendStart, UnsentAgree, Suspender, TypeOK
  <2> QED BY <2>2, <2>3, <2>4 DEF TypeInv
<1>8. CASE SuspendEnd
  <2> DEFINE d == suspend.by
             new == [delivery[d] EXCEPT !.over = clock]
  <2>1. d \in Deliveries /\ delivery[d].pc # "new" /\ Sound(delivery[d])
        /\ delivery[d] \in DeliveryRec
    BY <1>0, <1>8 DEF SuspendEnd, Suspender
  <2>2. /\ new \in DeliveryRec /\ new.pc = delivery[d].pc /\ new.used = delivery[d].used
        /\ new.msg = delivery[d].msg /\ new.run = delivery[d].run
        /\ new.at = delivery[d].at /\ new.now = delivery[d].now
    BY <1>0, <2>1 DEF DeliveryRec, Stamp
  <2>3. Set(d, new) /\ UNCHANGED <<config, nonces, holder>> /\ suspend' = Idle
        /\ last' = clock
    BY <1>8 DEF SuspendEnd, LastAfterSuspend
  <2> HIDE DEF new
  <2>4. Sound(new)
    BY <2>1, <2>2 DEF Sound, InFlight
  <2>5. HandlerStep(d)
    BY <2>1, <2>2, <2>3, <2>4 DEF HandlerStep
  <2> QED BY <1>0, <2>1, <2>3, <2>5, HandlerTypeInv DEF TypeOK, config, Stamp
<1>9. CASE Stop
  <2>1. ASSUME NEW d \in Deliveries
        PROVE delivery'[d] \in DeliveryRec /\ Sound(delivery[d])'
    <3>1. Sound(delivery[d]) /\ delivery[d] \in DeliveryRec
      BY <1>0
    <3>2. CASE ~InFlight(delivery[d])
      <4>1. delivery'[d] = delivery[d]
        BY <1>9, <3>2 DEF Stop
      <4> QED BY <1>9, <3>1, <3>2, <4>1 DEF Stop, Sound, InFlight, Ended, panel
    <3>3. CASE InFlight(delivery[d])
      <4> DEFINE new == [delivery[d] EXCEPT !.pc = "gone", !.key = Null, !.at = Null,
                                            !.now = Null, !.status = Null]
      <4>1. new \in DeliveryRec /\ new.pc = "gone" /\ new.used = delivery[d].used
            /\ new.msg = delivery[d].msg /\ new.run = delivery[d].run
        BY <3>1 DEF DeliveryRec, Stamp, Ended
      <4>2. delivery'[d] = new
        BY <1>9, <3>3 DEF Stop
      <4>3. delivery[d].pc # "new"
        BY <3>3 DEF InFlight
      <4> HIDE DEF new
      <4> QED BY <1>9, <3>1, <4>1, <4>2, <4>3 DEF Stop, Sound, InFlight, Ended, panel
    <3> QED BY <3>2, <3>3
  <2>2. delivery' \in [Deliveries -> DeliveryRec]
    BY <1>9, <2>1 DEF Stop
  <2>3. TypeOK'
    BY <1>0, <1>9, <2>2 DEF Stop, TypeOK, panel, config, Idle
  <2>4. UnsentAgree' /\ Suspender'
    BY <1>0, <1>9 DEF Stop, UnsentAgree, Suspender, panel, Idle
  <2> QED BY <2>1, <2>3, <2>4 DEF TypeInv
<1>10. CASE Start
  <2>1. ASSUME NEW d \in Deliveries PROVE Sound(delivery[d])'
    <3>1. Sound(delivery[d]) /\ delivery[d] \in DeliveryRec
      BY <1>0
    <3>2. ~InFlight(delivery[d])
      BY <1>10, <3>1 DEF Start, Sound
    <3>3. delivery[d].pc \notin {"verified", "stamped", "timed", "keyed"}
      BY <3>2 DEF InFlight, Ended
    <3>4. delivery[d].run \in Nat
      BY <3>1 DEF DeliveryRec
    <3> QED BY <1>0, <1>10, <3>1, <3>2, <3>3, <3>4 DEF Start, Sound, InFlight, panel
  <2>2. TypeOK'
    BY <1>0, <1>10 DEF Start, TypeOK, panel, Stamp
  <2>3. UnsentAgree' /\ Suspender'
    BY <1>0, <1>10 DEF Start, UnsentAgree, Suspender, panel
  <2> QED BY <2>1, <2>2, <2>3 DEF TypeInv
<1>11. CASE UNCHANGED vars
  <2>1. UNCHANGED <<clock, sent, run, up, delivery>>
    BY <1>11 DEF vars, panel
  <2>2. \A d \in Deliveries : Sound(delivery[d])'
    BY <2>1, SoundFrame
  <2>3. TypeOK' /\ UnsentAgree' /\ Suspender'
    BY <1>0, <1>11 DEF vars, panel, config, executor, TypeOK, UnsentAgree, Suspender
  <2> QED BY <2>2, <2>3 DEF TypeInv
<1> QED BY <1>1, <1>2, <1>3, <1>4, <1>5, <1>6, <1>7, <1>8, <1>9, <1>10, <1>11
        DEF Next, Suspension

\* Every reachable state is well typed, and every record consistent.
THEOREM TypeCorrect == Spec => []TypeInv
<1>1. Assumed
  BY NullAssumption, ServiceAssumption, RetentionAssumption DEF Assumed
<1>2. Init => TypeInv
  BY <1>1, TypeInit
<1>3. TypeInv /\ [Next]_vars => TypeInv'
  BY <1>1, TypeStep
<1> QED BY <1>2, <1>3, PTL DEF Spec

-----------------------------------------------------------------------------
(***************************************************************************)
(* The replay guard.  A message that was admitted at stamp u was signed at *)
(* most Window after u, so a second delivery of it is checked no later     *)
(* than u + 2 * Window + Stall: before Retention has passed.               *)
(***************************************************************************)

\* A handler's step that leaves the nonces alone keeps the guard's facts.
LEMMA HandlerGuard ==
  ASSUME GuardInv, NEW d \in Deliveries, HandlerStep(d), UNCHANGED nonces
  PROVE  (\A e \in Deliveries : Remembered(delivery[e])') /\ AcceptedOnce'
BY SetGuard DEF HandlerStep

\* Steps that touch neither nonces nor deliveries nor the run.
LEMMA GuardFrame ==
  ASSUME GuardInv, UNCHANGED <<clock, nonces, run, up, delivery>>
  PROVE  (\A e \in Deliveries : Remembered(delivery[e])') /\ AcceptedOnce'
BY DEF GuardInv, Remembered, AcceptedOnce

\* The guard's step.
LEMMA TryUseGuard ==
  ASSUME GuardInv, Assumed, NEW d \in Deliveries, TryUse(d)
  PROVE  (\A e \in Deliveries : Remembered(delivery[e])') /\ AcceptedOnce'
<1> DEFINE m == delivery[d].msg
           now == delivery[d].now
<1>1. TypeInv /\ TypeOK
  BY DEF GuardInv, TypeInv
<1>2. delivery[d] \in DeliveryRec /\ Sound(delivery[d]) /\ delivery[d].pc = "stamped"
  BY <1>1 DEF TypeInv, TypeOK, TryUse
<1>3. /\ m \in Msgs /\ sent[m] # Null /\ delivery[d].run = run /\ up
      /\ delivery[d].used = Null
      /\ now \in Nat /\ now <= clock /\ clock \in Nat
      /\ Window \in Nat /\ Stall \in Nat /\ Retention \in Nat
      /\ 2 * Window + Stall <= Retention
  BY <1>1, <1>2 DEF Sound, InFlight, Ended, TypeOK, Assumed, ServiceAssumption,
     RetentionAssumption
<1>4. sent[m].ts \in Int
  BY <1>1, <1>3 DEF TypeOK
<1>5. /\ delivery[d].at \in Nat /\ clock <= delivery[d].at + Stall
      /\ delivery[d].at <= sent[m].ts + Window
  BY <1>2, <1>4, <1>3 DEF Sound, InWindow
<1>6. UNCHANGED <<clock, run, up>>
  BY TryUseSteps, <1>1 DEF HandlerStep, Set
\* Nothing this run admitted for the same message can have been forgotten.
<1>7. ASSUME NEW e \in Deliveries, delivery[e].used # Null,
             delivery[e].msg = m, delivery[e].run = run
      PROVE  /\ nonces[m] = delivery[e].used
             /\ ~(now - nonces[m] > Retention)
             /\ nonces[m] # Null
  <2>1. Sound(delivery[e]) /\ Remembered(delivery[e])
    BY <1>1 DEF GuardInv, TypeInv
  <2>2. delivery[e].used \in Nat /\ delivery[e].used >= sent[m].ts - Window
    BY <1>7, <2>1 DEF Sound
  <2>3. clock <= delivery[e].used + Retention
    BY <1>3, <1>4, <1>5, <2>2
  <2>4. nonces[m] = delivery[e].used
    BY <1>3, <1>7, <2>1, <2>2, <2>3 DEF Remembered
  <2> QED BY <1>3, <1>7, <2>2, <2>3, <2>4
\* What a sweep with a stamp that is not in the future leaves true.
<1>8. ASSUME NEW e \in Deliveries, delivery[e].used # Null, delivery[e].run = run,
             delivery[e].msg # m
      PROVE  \/ nonces'[delivery[e].msg] = delivery[e].used
             \/ /\ nonces'[delivery[e].msg] = Null
                /\ clock > delivery[e].used + Retention
  <2> DEFINE n == delivery[e].msg
  <2>1. Sound(delivery[e]) /\ Remembered(delivery[e]) /\ delivery[e] \in DeliveryRec
    BY <1>1 DEF GuardInv, TypeInv, TypeOK
  <2>2. delivery[e].used \in Nat
    BY <1>8, <2>1 DEF Sound
  <2>3. n \in Msgs \ {m}
    <3>1. delivery[e].pc # "new"
      BY <1>8, <2>1 DEF Sound, NewDelivery
    <3> QED BY <1>8, <2>1, <3>1 DEF Sound
  <2>4. nonces'[n] = IF Expired(nonces[n], now) THEN Null ELSE nonces[n]
    BY <1>1, <2>3, TryUseSteps
  <2>5. \/ nonces[n] = delivery[e].used
        \/ /\ nonces[n] = Null
           /\ clock > delivery[e].used + Retention
    BY <1>3, <1>8, <2>1 DEF Remembered
  <2> QED BY <1>3, <2>2, <2>4, <2>5 DEF Expired
<1>9. CASE /\ HandlerStep(d) /\ delivery'[d].used = Null
           /\ nonces'[m] = nonces[m]
  <2>1. PICK rec \in DeliveryRec : Set(d, rec)
    BY <1>9 DEF HandlerStep
  <2>2. \A e \in Deliveries \ {d} : delivery'[e] = delivery[e]
    BY <1>1, <2>1 DEF Set, TypeOK
  <2>3. ASSUME NEW e \in Deliveries PROVE Remembered(delivery[e])'
    <3>1. CASE e = d
      BY <1>9, <3>1 DEF Remembered
    <3>2. CASE e # d /\ delivery[e].msg = m
      BY <1>6, <1>7, <1>9, <2>2, <3>2 DEF Remembered
    <3>3. CASE e # d /\ delivery[e].msg # m
      BY <1>6, <1>8, <2>2, <3>3 DEF Remembered
    <3> QED BY <3>1, <3>2, <3>3
  <2>4. AcceptedOnce'
    BY <1>9, <2>2 DEF AcceptedOnce, GuardInv
  <2> QED BY <2>3, <2>4
<1>10. CASE /\ nonces[m] = Null \/ now - nonces[m] > Retention
            /\ nonces'[m] = now
            /\ \E rec \in DeliveryRec :
                 /\ Set(d, rec) /\ Sound(rec) /\ rec.pc # "new"
                 /\ rec.used = now /\ rec.msg = m /\ rec.run = delivery[d].run
  <2>1. PICK rec \in DeliveryRec :
          Set(d, rec) /\ rec.used = now /\ rec.msg = m /\ rec.run = delivery[d].run
    BY <1>10
  <2>2. /\ delivery'[d] = rec
        /\ \A e \in Deliveries \ {d} : delivery'[e] = delivery[e]
    BY <1>1, <2>1 DEF Set, TypeOK
  <2>3. \A e \in Deliveries :
          delivery[e].used # Null /\ delivery[e].run = run => delivery[e].msg # m
    BY <1>7, <1>10
  <2>4. ASSUME NEW e \in Deliveries PROVE Remembered(delivery[e])'
    <3>1. CASE e = d
      BY <1>10, <2>1, <2>2, <3>1 DEF Remembered
    <3>2. CASE e # d
      BY <1>6, <1>8, <2>2, <2>3, <3>2 DEF Remembered
    <3> QED BY <3>1, <3>2
  <2>5. AcceptedOnce'
    BY <1>3, <2>1, <2>2, <2>3 DEF AcceptedOnce, GuardInv
  <2> QED BY <2>4, <2>5
<1> QED BY <1>1, <1>9, <1>10, TryUseSteps

LEMMA GuardStep ==
  Assumed /\ GuardInv /\ [Next]_vars => GuardInv'
<1> SUFFICES ASSUME Assumed, GuardInv, [Next]_vars
             PROVE  (\A e \in Deliveries : Remembered(delivery[e])') /\ AcceptedOnce'
  BY TypeStep DEF GuardInv
<1>0. TypeInv /\ TypeOK
  BY DEF GuardInv, TypeInv
<1>1. CASE Tick
  <2>1. UNCHANGED <<nonces, run, up, delivery>> /\ clock' = clock + 1
    BY <1>1 DEF Tick
  <2>2. ASSUME NEW e \in Deliveries PROVE Remembered(delivery[e])'
    <3>1. Remembered(delivery[e]) /\ Sound(delivery[e]) /\ clock \in Nat
          /\ Retention \in Nat
      BY <1>0 DEF GuardInv, TypeInv, TypeOK, Assumed, ServiceAssumption
    <3> QED BY <2>1, <3>1 DEF Remembered, Sound
  <2>3. AcceptedOnce'
    BY <2>1 DEF GuardInv, AcceptedOnce
  <2> QED BY <2>2, <2>3
<1>2. CASE \/ Pair \/ Rotate \/ SuspendStart
           \/ (\E m \in Msgs : Send(m) \/ GiveUp(m))
           \/ (\E m \in Msgs, d \in Deliveries : Receive(m, d))
           \/ UNCHANGED vars
  <2>1. UNCHANGED <<clock, nonces, run, up, delivery>>
    BY <1>2 DEF Pair, Rotate, SuspendStart, Send, GiveUp, Receive, vars
  <2> QED BY <2>1, GuardFrame
<1>3. ASSUME NEW d \in Deliveries,
             \/ (\E m \in Msgs : Arrive(d, m)) \/ Verify(d) \/ ReadNow(d)
      PROVE  (\A e \in Deliveries : Remembered(delivery[e])') /\ AcceptedOnce'
  <2>1. HandlerStep(d)
    BY <1>0, <1>3, EarlySteps
  <2>2. UNCHANGED nonces
    BY <1>3 DEF Arrive, Verify, ReadNow
  <2> QED BY <2>1, <2>2, HandlerGuard
<1>4. ASSUME NEW d \in Deliveries,
             \/ Record(d) \/ ShutdownNow(d) \/ ShutdownStart(d)
             \/ (\E taken \in BOOLEAN : ShutdownEnd(d, taken))
             \/ TrySuspend(d) \/ Respond(d)
      PROVE  (\A e \in Deliveries : Remembered(delivery[e])') /\ AcceptedOnce'
  <2>1. HandlerStep(d)
    BY <1>0, <1>4, LateSteps
  <2>2. UNCHANGED nonces
    BY <1>4 DEF Record, ShutdownNow, ShutdownStart, ShutdownEnd, TrySuspend, Respond
  <2> QED BY <2>1, <2>2, HandlerGuard
<1>5. ASSUME NEW d \in Deliveries, TryUse(d)
      PROVE  (\A e \in Deliveries : Remembered(delivery[e])') /\ AcceptedOnce'
  BY <1>5, TryUseGuard
<1>6. CASE SuspendEnd
  <2> DEFINE d == suspend.by
  <2>1. d \in Deliveries /\ delivery[d] \in DeliveryRec
    BY <1>0, <1>6 DEF SuspendEnd, TypeInv, TypeOK, Suspender
  <2>2. UNCHANGED <<clock, nonces, run, up>>
    BY <1>6 DEF SuspendEnd, Set
  <2>3. \A e \in Deliveries : /\ delivery'[e].used = delivery[e].used
                              /\ delivery'[e].msg = delivery[e].msg
                              /\ delivery'[e].run = delivery[e].run
    BY <1>0, <1>6, <2>1 DEF SuspendEnd, Set, TypeOK, DeliveryRec
  <2> QED BY <2>2, <2>3 DEF GuardInv, Remembered, AcceptedOnce
<1>7. CASE Stop
  <2>1. \A e \in Deliveries : /\ delivery'[e].used = delivery[e].used
                              /\ delivery'[e].msg = delivery[e].msg
                              /\ delivery'[e].run = delivery[e].run
    BY <1>0, <1>7 DEF Stop, TypeOK, DeliveryRec
  <2>2. ~up'
    BY <1>7 DEF Stop
  <2> QED BY <2>1, <2>2 DEF GuardInv, Remembered, AcceptedOnce
<1>8. CASE Start
  <2>1. UNCHANGED delivery /\ run' = run + 1 /\ run \in Nat
    BY <1>0, <1>8 DEF Start, TypeOK
  <2>2. ASSUME NEW e \in Deliveries PROVE Remembered(delivery[e])'
    <3>1. Sound(delivery[e]) /\ delivery[e] \in DeliveryRec
      BY <1>0 DEF TypeInv, TypeOK
    <3>2. delivery[e].used # Null => delivery[e].run <= run /\ delivery[e].run \in Nat
      BY <3>1 DEF Sound, NewDelivery, DeliveryRec
    <3> QED BY <2>1, <3>2 DEF Remembered
  <2>3. AcceptedOnce'
    BY <2>1 DEF GuardInv, AcceptedOnce
  <2> QED BY <2>2, <2>3
<1> QED BY <1>1, <1>2, <1>3, <1>4, <1>5, <1>6, <1>7, <1>8
        DEF Next, Handle, Suspension

\* Of all the deliveries of one message that a run of the service handles,
\* one at most is acted upon, however many messages, duplicates, restarts,
\* rotations and clock differences there are (authenticate, tryUse).
THEOREM AcceptedOnceTheorem == Spec => []AcceptedOnce
<1>1. Assumed
  BY NullAssumption, ServiceAssumption, RetentionAssumption DEF Assumed
<1>2. Init => GuardInv
  <2>1. Init => AcceptedOnce /\ \A d \in Deliveries : Remembered(delivery[d])
    BY DEF Init, NewDelivery, AcceptedOnce, Remembered
  <2> QED BY <1>1, <2>1, TypeInit DEF GuardInv
<1>3. GuardInv /\ [Next]_vars => GuardInv'
  BY <1>1, GuardStep
<1>4. GuardInv => AcceptedOnce
  BY DEF GuardInv
<1> QED BY <1>2, <1>3, <1>4, PTL DEF Spec

-----------------------------------------------------------------------------
(***************************************************************************)
(* Commands given to Windows.  `last' is never before the begin or the end *)
(* of a command of this run, so a request that finds the cooldown over is  *)
(* late enough after all of them; the one command that has not ended is    *)
(* the pending suspension, which blocks every other.                       *)
(***************************************************************************)
NoCommand(rec) == rec.began = Null /\ rec.over = Null

Before == {"new", "keyed", "verified", "stamped", "accepted", "recorded", "timed"}

\* The record and the answer tell what was done for the request.
Truthful(rec) ==
  /\ rec.pc \in Before => NoCommand(rec)
  /\ rec.pc = "timed" => rec.now <= clock
  /\ rec.pc = "running" => rec.began # Null /\ rec.over # Null
  /\ rec.status = "ok" => Action[rec.msg] = "status"
  /\ rec.status = "accepted" => rec.began # Null

\* A command of the running service, as the executor remembers it.
Executed(d) ==
  LET rec == delivery[d] IN
  /\ up /\ rec.run = run /\ rec.began # Null =>
       /\ last # Null /\ rec.began <= last
       /\ \/ rec.over = Null /\ suspend.phase # "idle" /\ suspend.by = d
          \/ rec.over # Null /\ rec.over <= last

Pending ==
  suspend.phase # "idle" =>
    /\ up
    /\ delivery[suspend.by].run = run
    /\ delivery[suspend.by].began # Null /\ delivery[suspend.by].over = Null

PowerInv ==
  /\ TypeInv /\ Pending
  /\ last # Null => last <= clock
  /\ \A d \in Deliveries : Truthful(delivery[d]) /\ Executed(d)
  /\ CommandsSpaced

SuccessInv ==
  \A m \in Msgs :
    result[m] = "accepted" /\ Action[m] # "status" =>
      \E d \in Deliveries : /\ delivery[d].msg = m /\ delivery[d].began # Null
                            /\ delivery[d].pc = "answered"

\* What a step of one handler may do about commands.
CommandStep(d) ==
  /\ delivery[d].pc # "answered"
  /\ \A e \in Deliveries \ {d} : delivery'[e] = delivery[e]
  /\ UNCHANGED <<clock, panel, run, up>>
  /\ Truthful(delivery'[d])
  /\ \/ /\ UNCHANGED <<last, suspend>>
        /\ \/ /\ NoCommand(delivery'[d])
              /\ NoCommand(delivery[d]) \/ delivery[d].over # Null
           \/ /\ delivery'[d].began = delivery[d].began
              /\ delivery'[d].over = delivery[d].over
              /\ delivery'[d].run = delivery[d].run
     \/ /\ up /\ NoCommand(delivery[d]) /\ delivery'[d].run = run
        /\ last' \in Nat /\ last' <= clock /\ Admits(last')
        /\ delivery'[d].began = last'
        /\ \/ delivery'[d].over = last' /\ UNCHANGED suspend
           \/ /\ delivery'[d].over = Null
              /\ suspend' = [phase |-> "waiting", by |-> d]

\* A step that gives no command.
LEMMA IdleCommandStep ==
  ASSUME PowerInv, NEW d \in Deliveries, NEW rec \in DeliveryRec, Set(d, rec),
         UNCHANGED executor, delivery[d].pc # "answered", Truthful(rec),
         \/ NoCommand(rec) /\ NoCommand(delivery[d])
         \/ /\ rec.began = delivery[d].began /\ rec.over = delivery[d].over
            /\ rec.run = delivery[d].run
  PROVE  CommandStep(d)
<1>1. /\ delivery'[d] = rec
      /\ \A e \in Deliveries \ {d} : delivery'[e] = delivery[e]
  BY DEF Set, PowerInv, TypeInv, TypeOK
<1>2. UNCHANGED <<clock, panel, run, up, last, suspend>>
  BY DEF Set, executor
<1> QED BY <1>1, <1>2 DEF CommandStep

\* A request that is turned away names no command.
LEMMA RejectedTruthful ==
  ASSUME NEW rec \in DeliveryRec
  PROVE  Truthful(Rejected(rec)) /\ NoCommand(Rejected(rec))
<1> DEFINE new == Rejected(rec)
<1>1. /\ new.pc = "answered" /\ new.status = "rejected"
      /\ new.began = Null /\ new.over = Null
  BY NewDeliveryType DEF NewDelivery, Rejected, DeliveryRec, Ended
<1> QED BY <1>1 DEF Truthful, NoCommand, Before

\* authenticate gives no command.
LEMMA EarlyCommands ==
  ASSUME PowerInv, Assumed, NEW d \in Deliveries,
         (\E m \in Msgs : Arrive(d, m)) \/ Verify(d) \/ ReadNow(d) \/ TryUse(d)
  PROVE  CommandStep(d)
<1> DEFINE rec == delivery[d]
<1>0. Null \notin {"ok", "accepted"}
  BY DEF Assumed, NullAssumption
<1>1. /\ rec \in DeliveryRec /\ Truthful(rec) /\ Sound(rec)
      /\ clock \in Nat /\ run \in Nat /\ memory \in Secrets
  BY DEF PowerInv, TypeInv, TypeOK
<1>2. UNCHANGED executor
  BY DEF Arrive, Verify, ReadNow, TryUse
<1>3. ASSUME NEW m \in Msgs, Arrive(d, m) PROVE CommandStep(d)
  <2> DEFINE new == [NewDelivery EXCEPT !.pc = "keyed", !.msg = m, !.run = run,
                                        !.key = memory]
  <2>1. /\ new \in DeliveryRec /\ new.pc = "keyed" /\ new.status = Null
        /\ new.began = Null /\ new.over = Null
    BY <1>1, NewDeliveryType DEF NewDelivery, DeliveryRec
  <2>2. Set(d, new) /\ rec.pc = "new"
    BY <1>3 DEF Arrive
  <2> HIDE DEF new
  <2>4. Truthful(new) /\ NoCommand(new) /\ NoCommand(rec)
    BY <1>0, <1>1, <2>1, <2>2 DEF Truthful, NoCommand, Before
  <2> QED BY <1>2, <2>1, <2>2, <2>4, IdleCommandStep
<1>4. CASE Verify(d)
  <2>1. rec.pc = "keyed"
    BY <1>4 DEF Verify
  <2>2. CASE Set(d, Rejected(rec))
    <3>1. NoCommand(rec)
      BY <1>1, <2>1 DEF Truthful, Before
    <3> QED BY <1>1, <1>2, <2>1, <2>2, <3>1, RejectedSound, RejectedTruthful,
               IdleCommandStep DEF PowerInv
  <2> DEFINE new == [rec EXCEPT !.pc = "verified", !.at = clock]
  <2>3. CASE Set(d, new)
    <3>1. /\ new \in DeliveryRec /\ new.pc = "verified" /\ new.msg = rec.msg
          /\ new.status = rec.status /\ new.began = rec.began /\ new.over = rec.over
      BY <1>1 DEF DeliveryRec, Stamp
    <3> HIDE DEF new
    <3>2. Truthful(new) /\ NoCommand(new) /\ NoCommand(rec)
      BY <1>1, <2>1, <3>1 DEF Truthful, NoCommand, Before
    <3> QED BY <1>2, <2>1, <2>3, <3>1, <3>2, IdleCommandStep
  <2> QED BY <1>4, <2>2, <2>3 DEF Verify
<1>5. CASE ReadNow(d)
  <2> DEFINE new == [rec EXCEPT !.pc = "stamped", !.now = clock]
  <2>1. rec.pc = "verified" /\ Set(d, new)
    BY <1>5 DEF ReadNow
  <2>2. /\ new \in DeliveryRec /\ new.pc = "stamped" /\ new.msg = rec.msg
        /\ new.status = rec.status /\ new.began = rec.began /\ new.over = rec.over
    BY <1>1 DEF DeliveryRec, Stamp
  <2> HIDE DEF new
  <2>3. Truthful(new) /\ NoCommand(new) /\ NoCommand(rec)
    BY <1>1, <2>1, <2>2 DEF Truthful, NoCommand, Before
  <2> QED BY <1>2, <2>1, <2>2, <2>3, IdleCommandStep
<1>6. CASE TryUse(d)
  <2>1. rec.pc = "stamped" /\ rec.now \in Nat
    BY <1>1, <1>6 DEF TryUse, Sound
  <2>2. CASE Set(d, Rejected(rec))
    <3>1. NoCommand(rec)
      BY <1>1, <2>1 DEF Truthful, Before
    <3> QED BY <1>1, <1>2, <2>1, <2>2, <3>1, RejectedSound, RejectedTruthful,
               IdleCommandStep DEF PowerInv
  <2> DEFINE new == [rec EXCEPT !.pc = "accepted", !.used = rec.now,
                                !.key = Null, !.at = Null, !.now = Null]
  <2>3. CASE Set(d, new)
    <3>1. /\ new \in DeliveryRec /\ new.pc = "accepted" /\ new.msg = rec.msg
          /\ new.status = rec.status /\ new.began = rec.began /\ new.over = rec.over
      BY <1>1, <2>1 DEF DeliveryRec, Stamp
    <3> HIDE DEF new
    <3>2. Truthful(new) /\ NoCommand(new) /\ NoCommand(rec)
      BY <1>1, <2>1, <3>1 DEF Truthful, NoCommand, Before
    <3> QED BY <1>2, <2>1, <2>3, <3>1, <3>2, IdleCommandStep
  <2> QED BY <1>6, <2>2, <2>3 DEF TryUse
<1> QED BY <1>3, <1>4, <1>5, <1>6

\* The accepted request: answers follow commands, commands follow Admits.
LEMMA LateCommands ==
  ASSUME PowerInv, Assumed, NEW d \in Deliveries,
         \/ Record(d) \/ ShutdownNow(d) \/ ShutdownStart(d)
         \/ (\E taken \in BOOLEAN : ShutdownEnd(d, taken))
         \/ TrySuspend(d) \/ Respond(d)
  PROVE  CommandStep(d)
<1> DEFINE rec == delivery[d]
<1>0. Null \notin {"ok", "accepted"}
  BY DEF Assumed, NullAssumption
<1>1. /\ rec \in DeliveryRec /\ Truthful(rec) /\ Sound(rec)
      /\ clock \in Nat /\ run \in Nat /\ memory \in Secrets
  BY DEF PowerInv, TypeInv, TypeOK
<1>2. \A st \in {"ok", "refused", "error", "accepted"} :
        LET new == Answering(rec, st) IN
        /\ new \in DeliveryRec /\ new.pc = "answering" /\ new.status = st
        /\ new.msg = rec.msg /\ new.began = rec.began /\ new.over = rec.over
        /\ new.run = rec.run /\ new.now = rec.now
  BY <1>1 DEF DeliveryRec, Answering
<1>3. CASE Record(d)
  <2>1. rec.pc = "accepted" /\ UNCHANGED executor
    BY <1>3 DEF Record
  <2>2. CASE Action[rec.msg] = "status" /\ Set(d, Answering(rec, "ok"))
    <3>1. Truthful(Answering(rec, "ok")) /\ NoCommand(Answering(rec, "ok"))
          /\ NoCommand(rec)
      BY <1>1, <1>2, <2>1, <2>2 DEF Truthful, NoCommand, Before
    <3> QED BY <1>2, <2>1, <2>2, <3>1, IdleCommandStep
  <2> DEFINE new == [rec EXCEPT !.pc = "recorded"]
  <2>3. CASE Set(d, new)
    <3>1. /\ new \in DeliveryRec /\ new.pc = "recorded" /\ new.msg = rec.msg
          /\ new.status = rec.status /\ new.began = rec.began /\ new.over = rec.over
      BY <1>1 DEF DeliveryRec
    <3> HIDE DEF new
    <3>2. Truthful(new) /\ NoCommand(new) /\ NoCommand(rec)
      BY <1>1, <2>1, <3>1 DEF Truthful, NoCommand, Before
    <3> QED BY <2>1, <2>3, <3>1, <3>2, IdleCommandStep
  <2> QED BY <1>3, <2>2, <2>3 DEF Record
<1>4. CASE ShutdownNow(d)
  <2> DEFINE new == [rec EXCEPT !.pc = "timed", !.now = clock]
  <2>1. rec.pc = "recorded" /\ Set(d, new) /\ UNCHANGED executor
    BY <1>4 DEF ShutdownNow
  <2>2. /\ new \in DeliveryRec /\ new.pc = "timed" /\ new.now = clock /\ new.msg = rec.msg
        /\ new.status = rec.status /\ new.began = rec.began /\ new.over = rec.over
    BY <1>1 DEF DeliveryRec, Stamp
  <2> HIDE DEF new
  <2>3. Truthful(new) /\ NoCommand(new) /\ NoCommand(rec)
    BY <1>1, <2>1, <2>2 DEF Truthful, NoCommand, Before
  <2> QED BY <2>1, <2>2, <2>3, IdleCommandStep
<1>5. CASE ShutdownStart(d)
  <2>1. /\ rec.pc = "timed" /\ rec.now \in Nat /\ rec.now <= clock
        /\ NoCommand(rec) /\ rec.run = run /\ up
    BY <1>1, <1>5 DEF ShutdownStart, Sound, Truthful, Before, InFlight, Ended
  <2>2. CASE Set(d, Answering(rec, "refused")) /\ UNCHANGED executor
    <3>1. Truthful(Answering(rec, "refused")) /\ NoCommand(Answering(rec, "refused"))
      BY <1>2, <2>1 DEF Truthful, NoCommand, Before
    <3> QED BY <1>2, <2>1, <2>2, <3>1, IdleCommandStep
  <2> DEFINE new == [rec EXCEPT !.pc = "running", !.now = Null,
                                !.began = rec.now, !.over = rec.now]
  <2>3. CASE Admits(rec.now) /\ last' = rec.now /\ Set(d, new) /\ UNCHANGED suspend
    <3>1. /\ new \in DeliveryRec /\ new.pc = "running" /\ new.msg = rec.msg
          /\ new.status = rec.status /\ new.run = rec.run
          /\ new.began = rec.now /\ new.over = rec.now
      BY <1>1, <2>1 DEF DeliveryRec, Stamp
    <3> HIDE DEF new
    <3>2. /\ delivery'[d] = new
          /\ \A e \in Deliveries \ {d} : delivery'[e] = delivery[e]
          /\ UNCHANGED <<clock, panel, run, up>>
      BY <2>3 DEF Set, PowerInv, TypeInv, TypeOK
    <3>3. Truthful(new)
      <4>1. Null \notin Int
        BY DEF Assumed, NullAssumption
      <4> QED BY <1>1, <2>1, <3>1, <4>1 DEF Truthful, Before
    <3> QED BY <2>1, <2>3, <3>1, <3>2, <3>3 DEF CommandStep
  <2> QED BY <1>5, <2>2, <2>3 DEF ShutdownStart
<1>6. ASSUME NEW taken \in BOOLEAN, ShutdownEnd(d, taken) PROVE CommandStep(d)
  <2> DEFINE st == ShutdownStatus(taken)
             began == IF taken THEN rec.began ELSE Null
             over == IF taken THEN rec.over ELSE Null
             new == [rec EXCEPT !.pc = "answering", !.status = st,
                                !.began = began, !.over = over]
  <2>1. rec.pc = "running" /\ Set(d, new) /\ UNCHANGED <<last, suspend>>
    BY <1>6 DEF ShutdownEnd
  <2>2. /\ began \in Stamp /\ over \in Stamp /\ st \in {"accepted", "error"}
        /\ st = "accepted" => taken
    BY <1>1 DEF DeliveryRec, ShutdownStatus, Stamp
  <2>3. \/ began = rec.began /\ over = rec.over
        \/ began = Null /\ over = Null /\ st = "error"
    BY DEF ShutdownStatus
  <2>4. /\ new \in DeliveryRec /\ new.pc = "answering" /\ new.msg = rec.msg
        /\ new.status = st /\ new.run = rec.run /\ new.began = began /\ new.over = over
    <3> HIDE DEF st, began, over
    <3> QED BY <1>1, <2>2 DEF DeliveryRec
  <2>5. /\ delivery'[d] = new
        /\ \A e \in Deliveries \ {d} : delivery'[e] = delivery[e]
        /\ UNCHANGED <<clock, panel, run, up>>
    BY <2>1 DEF Set, PowerInv, TypeInv, TypeOK
  <2>6. rec.began # Null /\ rec.over # Null
    BY <1>1, <2>1 DEF Truthful
  <2> HIDE DEF st, began, over, new
  <2>7. Truthful(new)
    BY <2>2, <2>3, <2>4, <2>6 DEF Truthful, Before
  <2> QED BY <2>1, <2>3, <2>4, <2>5, <2>6, <2>7 DEF CommandStep, NoCommand
<1>7. CASE TrySuspend(d)
  <2>1. rec.pc = "recorded" /\ NoCommand(rec) /\ rec.run = run /\ up
    BY <1>1, <1>7 DEF TrySuspend, Sound, Truthful, Before, InFlight, Ended
  <2> DEFINE refused == [Answering(rec, "refused") EXCEPT !.now = clock]
             started == [Answering(rec, "accepted") EXCEPT !.began = clock]
  <2>2. CASE Set(d, refused) /\ UNCHANGED executor
    <3>1. /\ refused \in DeliveryRec /\ refused.pc = "answering"
          /\ refused.status = "refused" /\ refused.began = Null /\ refused.over = Null
      BY <1>1, <1>2, <2>1 DEF DeliveryRec, Stamp, NoCommand
    <3> HIDE DEF refused
    <3>2. Truthful(refused) /\ NoCommand(refused)
      BY <3>1 DEF Truthful, NoCommand, Before
    <3> QED BY <2>1, <2>2, <3>1, <3>2, IdleCommandStep
  <2>3. CASE Set(d, Answering(rec, "error")) /\ UNCHANGED executor
    <3>1. Truthful(Answering(rec, "error")) /\ NoCommand(Answering(rec, "error"))
      BY <1>2, <2>1 DEF Truthful, NoCommand, Before
    <3> QED BY <1>2, <2>1, <2>3, <3>1, IdleCommandStep
  <2>4. CASE /\ Admits(clock) /\ last' = clock /\ Set(d, started)
             /\ suspend' = [phase |-> "waiting", by |-> d]
    <3>1. /\ started \in DeliveryRec /\ started.pc = "answering" /\ started.run = run
          /\ started.status = "accepted" /\ started.began = clock /\ started.over = Null
      BY <1>1, <1>2, <2>1 DEF DeliveryRec, Stamp, NoCommand
    <3> HIDE DEF started
    <3>2. /\ delivery'[d] = started
          /\ \A e \in Deliveries \ {d} : delivery'[e] = delivery[e]
          /\ UNCHANGED <<clock, panel, run, up>>
      BY <2>4 DEF Set, PowerInv, TypeInv, TypeOK
    <3>3. Truthful(started)
      <4>1. Null \notin Int
        BY DEF Assumed, NullAssumption
      <4> QED BY <1>1, <3>1, <4>1 DEF Truthful, Before
    <3> QED BY <1>1, <2>1, <2>4, <3>1, <3>2, <3>3 DEF CommandStep
  <2> QED BY <1>7, <2>2, <2>3, <2>4 DEF TrySuspend
<1>8. CASE Respond(d)
  <2> DEFINE new == [rec EXCEPT !.pc = "answered", !.key = memory, !.now = Null]
  <2>1. rec.pc = "answering" /\ Set(d, new) /\ UNCHANGED executor
    BY <1>8 DEF Respond
  <2>2. /\ new \in DeliveryRec /\ new.pc = "answered" /\ new.msg = rec.msg
        /\ new.status = rec.status /\ new.run = rec.run
        /\ new.began = rec.began /\ new.over = rec.over
    BY <1>1 DEF DeliveryRec, Stamp, Ended
  <2> HIDE DEF new
  <2>3. Truthful(new)
    BY <1>1, <2>2 DEF Truthful, Before
  <2> QED BY <2>1, <2>2, <2>3, IdleCommandStep
<1> QED BY <1>3, <1>4, <1>5, <1>6, <1>7, <1>8

\* A handler's step keeps what the executor remembers of every command.
LEMMA CommandStepPower ==
  ASSUME PowerInv, Assumed, TypeInv', NEW d \in Deliveries, CommandStep(d)
  PROVE  PowerInv'
<1>1. /\ delivery \in [Deliveries -> DeliveryRec] /\ delivery' \in [Deliveries -> DeliveryRec]
      /\ clock \in Nat /\ last \in Stamp /\ run \in Nat /\ Cooldown \in Nat \ {0}
      /\ Null \notin Int
  BY DEF PowerInv, TypeInv, TypeOK, Assumed, ServiceAssumption, NullAssumption
<1>2. \A e \in Deliveries : /\ delivery'[e].began \in Stamp /\ delivery'[e].over \in Stamp
                            /\ delivery[e].began \in Stamp /\ delivery[e].over \in Stamp
  BY <1>1 DEF DeliveryRec
<1>3. /\ \A e \in Deliveries \ {d} : delivery'[e] = delivery[e]
      /\ UNCHANGED <<clock, run, up>> /\ Truthful(delivery'[d])
  BY DEF CommandStep
<1>4. \A e \in Deliveries : Truthful(delivery[e])'
  BY <1>3 DEF PowerInv, Truthful
<1>5. \A e \in Deliveries : Executed(e)
  BY DEF PowerInv
<1>6. CASE /\ UNCHANGED <<last, suspend>>
           /\ \/ /\ NoCommand(delivery'[d])
                 /\ NoCommand(delivery[d]) \/ delivery[d].over # Null
              \/ /\ delivery'[d].began = delivery[d].began
                 /\ delivery'[d].over = delivery[d].over
                 /\ delivery'[d].run = delivery[d].run
  <2>1. \A e \in Deliveries : Executed(e)'
    BY <1>3, <1>5, <1>6 DEF Executed, NoCommand
  <2>2. Pending'
    <3> DEFINE e == suspend.by
    <3>1. suspend.phase # "idle" =>
            /\ up /\ e \in Deliveries
            /\ delivery[e].run = run /\ delivery[e].began # Null /\ delivery[e].over = Null
      BY DEF PowerInv, TypeInv, Pending, Suspender
    <3>2. suspend.phase # "idle" =>
            /\ delivery'[e].run = delivery[e].run
            /\ delivery'[e].began = delivery[e].began /\ delivery'[e].over = delivery[e].over
      BY <1>3, <1>6, <3>1 DEF NoCommand
    <3> QED BY <1>3, <1>6, <3>1, <3>2 DEF Pending
  <2>3. CommandsSpaced'
    BY <1>3, <1>6 DEF PowerInv, CommandsSpaced, NoCommand
  <2> QED BY <1>3, <1>4, <1>6, <2>1, <2>2, <2>3 DEF PowerInv
<1>7. CASE /\ up /\ NoCommand(delivery[d]) /\ delivery'[d].run = run
           /\ last' \in Nat /\ last' <= clock /\ Admits(last')
           /\ delivery'[d].began = last'
           /\ \/ delivery'[d].over = last' /\ UNCHANGED suspend
              \/ /\ delivery'[d].over = Null
                 /\ suspend' = [phase |-> "waiting", by |-> d]
  <2>1. /\ suspend.phase = "idle"
        /\ last # Null => last + Cooldown <= last'
    <3>1. suspend.phase = "idle" /\ (last # Null => last' - last >= Cooldown)
      BY <1>7 DEF Admits, CooledDown
    <3>2. last # Null => last \in Nat
      BY <1>1 DEF Stamp
    <3>3. last' \in Nat /\ Cooldown \in Nat
      BY <1>1, <1>7
    <3> QED BY <3>1, <3>2, <3>3
  \* What this run gave to Windows before is over, a cooldown ago or more.
  <2>2. ASSUME NEW e \in Deliveries \ {d}, up, delivery[e].run = run,
               delivery[e].began # Null
        PROVE  /\ delivery[e].over # Null /\ last # Null
               /\ delivery[e].over + Cooldown <= last'
               /\ delivery[e].began + Cooldown <= last'
    BY <1>1, <1>2, <1>5, <1>7, <2>1, <2>2 DEF Executed, Stamp
  <2>3. up
    BY <1>7
  <2>4. ASSUME NEW e \in Deliveries PROVE Executed(e)'
    <3>1. CASE e = d
      BY <1>1, <1>7, <3>1 DEF Executed
    <3>2. CASE e # d
      <4>1. ASSUME up, delivery[e].run = run, delivery[e].began # Null
            PROVE  /\ last' # Null /\ delivery[e].began <= last'
                   /\ delivery[e].over # Null /\ delivery[e].over <= last'
        BY <1>1, <1>2, <1>7, <2>2, <3>2, <4>1 DEF Stamp
      <4> QED BY <1>3, <3>2, <4>1 DEF Executed
    <3> QED BY <3>1, <3>2
  <2>5. Pending'
    BY <1>1, <1>3, <1>7, <2>1, <2>3 DEF Pending
  <2>6. ASSUME NEW d1 \in Deliveries, NEW d2 \in Deliveries, d1 # d2,
               delivery'[d1].began # Null, delivery'[d2].began # Null,
               delivery'[d1].run = delivery'[d2].run,
               delivery'[d1].began <= delivery'[d2].began
        PROVE  /\ delivery'[d1].over # Null
               /\ delivery'[d1].over + Cooldown <= delivery'[d2].began
    <3>1. CASE d1 # d /\ d2 # d
      BY <1>3, <2>6, <3>1 DEF PowerInv, CommandsSpaced
    <3>2. CASE d2 = d
      BY <1>3, <1>7, <2>2, <2>3, <2>6, <3>2
    <3>3. CASE d1 = d
      BY <1>1, <1>2, <1>3, <1>7, <2>2, <2>3, <2>6, <3>3 DEF Stamp
    <3> QED BY <3>1, <3>2, <3>3
  <2>7. CommandsSpaced'
    BY <2>6 DEF CommandsSpaced
  <2>8. (last # Null => last <= clock)'
    BY <1>3, <1>7
  <2> QED BY <1>4, <2>4, <2>5, <2>7, <2>8 DEF PowerInv
<1> QED BY <1>6, <1>7 DEF CommandStep

\* Every command of every run is still spaced if no record changes.
LEMMA PowerFrame ==
  ASSUME PowerInv, TypeInv', UNCHANGED <<run, up, last, suspend, delivery>>,
         clock <= clock'
  PROVE  PowerInv'
<1>1. \A e \in Deliveries : /\ Truthful(delivery[e]) /\ Executed(e)
                            /\ delivery[e] \in DeliveryRec /\ Sound(delivery[e])
  BY DEF PowerInv, TypeInv, TypeOK
<1>2. clock \in Nat /\ clock' \in Nat /\ last \in Stamp
  BY DEF PowerInv, TypeInv, TypeOK
<1>3. ASSUME NEW e \in Deliveries PROVE Truthful(delivery[e])' /\ Executed(e)'
  <2>1. delivery[e].pc = "timed" => delivery[e].now \in Nat
    BY <1>1 DEF Sound
  <2>2. Truthful(delivery[e])'
    BY <1>1, <1>2, <2>1 DEF Truthful
  <2>3. Executed(e)'
    BY <1>1 DEF Executed
  <2> QED BY <2>2, <2>3
<1>4. (last # Null => last <= clock)'
  BY <1>2 DEF PowerInv, Stamp
<1>5. Pending' /\ CommandsSpaced'
  BY DEF PowerInv, Pending, CommandsSpaced
<1> QED BY <1>3, <1>4, <1>5 DEF PowerInv

\* The PC comes back from a suspension: now it counts as over.
LEMMA SuspendEndPower ==
  ASSUME PowerInv, Assumed, TypeInv', SuspendEnd
  PROVE  PowerInv'
<1> DEFINE d == suspend.by
           rec == delivery[d]
           new == [rec EXCEPT !.over = clock]
<1>1. /\ d \in Deliveries /\ rec \in DeliveryRec /\ up /\ rec.run = run
      /\ rec.began # Null /\ rec.over = Null
      /\ clock \in Nat /\ last \in Stamp /\ Null \notin Int
  BY DEF PowerInv, TypeInv, TypeOK, Suspender, Pending, SuspendEnd,
     Assumed, NullAssumption
<1>2. /\ last' = clock /\ suspend' = Idle /\ UNCHANGED <<clock, run, up>>
      /\ Set(d, new)
  BY DEF SuspendEnd, LastAfterSuspend, Set
<1>3. /\ delivery'[d] = new
      /\ \A e \in Deliveries \ {d} : delivery'[e] = delivery[e]
  BY <1>1, <1>2 DEF Set, PowerInv, TypeInv, TypeOK
<1>4. /\ new.pc = rec.pc /\ new.msg = rec.msg /\ new.run = rec.run
      /\ new.status = rec.status /\ new.began = rec.began /\ new.over = clock
      /\ new.now = rec.now
  BY <1>1 DEF DeliveryRec
<1> HIDE DEF new
<1>5. \A e \in Deliveries : Truthful(delivery[e]) /\ Executed(e)
  BY DEF PowerInv
<1>6. last # Null => last \in Nat /\ last <= clock
  BY <1>1 DEF PowerInv, Stamp
<1>7. ASSUME NEW e \in Deliveries PROVE Truthful(delivery[e])'
  BY <1>1, <1>2, <1>3, <1>4, <1>5 DEF Truthful, NoCommand
<1>8. ASSUME NEW e \in Deliveries PROVE Executed(e)'
  <2>1. Executed(e) /\ delivery[e].began \in Stamp /\ delivery[e].over \in Stamp
    BY <1>5 DEF PowerInv, TypeInv, TypeOK, DeliveryRec
  <2>2. CASE e = d
    <3>1. rec.began <= last /\ last # Null
      BY <1>1, <2>1, <2>2 DEF Executed
    <3>2. rec.began <= clock
      BY <1>1, <1>6, <2>1, <2>2, <3>1 DEF Stamp
    <3>3. clock # Null
      BY <1>1
    <3> QED BY <1>1, <1>2, <1>3, <1>4, <2>2, <3>2, <3>3 DEF Executed
  <2>3. CASE e # d
    <3>1. ASSUME up, delivery[e].run = run, delivery[e].began # Null
          PROVE  /\ delivery[e].began <= clock
                 /\ delivery[e].over # Null /\ delivery[e].over <= clock
      BY <1>1, <1>6, <2>1, <2>3, <3>1 DEF Executed, Stamp
    <3>2. clock # Null
      BY <1>1
    <3> QED BY <1>2, <1>3, <2>3, <3>1, <3>2 DEF Executed
  <2> QED BY <2>2, <2>3
<1>9. Pending' /\ (last # Null => last <= clock)'
  BY <1>1, <1>2 DEF Pending, Idle
\* While it was pending it was the last command given to Windows.
<1>10. ASSUME NEW d1 \in Deliveries, NEW d2 \in Deliveries, d1 # d2,
              delivery'[d1].began # Null, delivery'[d2].began # Null,
              delivery'[d1].run = delivery'[d2].run,
              delivery'[d1].began <= delivery'[d2].began
       PROVE  /\ delivery'[d1].over # Null
              /\ delivery'[d1].over + Cooldown <= delivery'[d2].began
  <2>1. /\ delivery[d1].began # Null /\ delivery[d2].began # Null
        /\ delivery[d1].run = delivery[d2].run
        /\ delivery[d1].began <= delivery[d2].began
        /\ delivery'[d2].began = delivery[d2].began
    BY <1>3, <1>4, <1>10
  <2>2. /\ delivery[d1].over # Null
        /\ delivery[d1].over + Cooldown <= delivery[d2].began
    BY <1>10, <2>1 DEF PowerInv, CommandsSpaced
  <2>3. d1 # d
    BY <1>1, <2>2
  <2> QED BY <1>3, <2>1, <2>2, <2>3
<1>11. CommandsSpaced'
  BY <1>10 DEF CommandsSpaced
<1> QED BY <1>7, <1>8, <1>9, <1>11 DEF PowerInv

\* A stop forgets who waits, never what was given to Windows.
LEMMA StopPower ==
  ASSUME PowerInv, Assumed, TypeInv', Stop
  PROVE  PowerInv'
<1>0. Null \notin {"ok", "accepted"}
  BY DEF Assumed, NullAssumption
<1>1. \A e \in Deliveries : Truthful(delivery[e]) /\ delivery[e] \in DeliveryRec
  BY DEF PowerInv, TypeInv, TypeOK
<1>2. ASSUME NEW e \in Deliveries
      PROVE  /\ delivery'[e].began = delivery[e].began
             /\ delivery'[e].over = delivery[e].over
             /\ delivery'[e].run = delivery[e].run
             /\ Truthful(delivery[e])'
  <2>1. UNCHANGED clock
    BY DEF Stop
  <2>2. CASE ~InFlight(delivery[e])
    <3>1. delivery'[e] = delivery[e]
      BY <2>2 DEF Stop
    <3> QED BY <1>1, <2>1, <3>1 DEF Truthful
  <2>3. CASE InFlight(delivery[e])
    <3> DEFINE new == [delivery[e] EXCEPT !.pc = "gone", !.key = Null, !.at = Null,
                                          !.now = Null, !.status = Null]
    <3>1. delivery'[e] = new
      BY <2>3 DEF Stop
    <3>2. /\ new.pc = "gone" /\ new.status = Null /\ new.began = delivery[e].began
          /\ new.over = delivery[e].over /\ new.run = delivery[e].run
      BY <1>1 DEF DeliveryRec
    <3> HIDE DEF new
    <3> QED BY <1>0, <3>1, <3>2 DEF Truthful, Before
  <2> QED BY <2>2, <2>3
<1>3. ~up' /\ suspend' = Idle /\ UNCHANGED <<clock, last>>
  BY DEF Stop
<1>4. \A e \in Deliveries : Executed(e)'
  BY <1>3 DEF Executed
<1>5. Pending' /\ CommandsSpaced'
  BY <1>2, <1>3 DEF PowerInv, Pending, Idle, CommandsSpaced
<1> QED BY <1>2, <1>3, <1>4, <1>5 DEF PowerInv

\* A new run starts with an executor that remembers nothing.
LEMMA StartPower ==
  ASSUME PowerInv, TypeInv', Start
  PROVE  PowerInv'
<1>1. UNCHANGED <<clock, suspend, delivery>> /\ last' = Null /\ run' = run + 1 /\ ~up
  BY DEF Start
<1>2. \A e \in Deliveries : /\ Truthful(delivery[e]) /\ delivery[e] \in DeliveryRec
                            /\ Sound(delivery[e])
  BY DEF PowerInv, TypeInv, TypeOK
<1>3. ASSUME NEW e \in Deliveries PROVE Truthful(delivery[e])' /\ Executed(e)'
  <2>1. Truthful(delivery[e])'
    BY <1>1, <1>2 DEF Truthful
  <2>2. delivery[e].began # Null => delivery[e].run <= run
    <3>1. delivery[e].began # Null => delivery[e].pc # "new"
      BY <1>2 DEF Truthful, Before, NoCommand
    <3> QED BY <1>2, <3>1 DEF Sound
  <2>3. run \in Nat /\ delivery[e].run \in Nat
    BY <1>2 DEF PowerInv, TypeInv, TypeOK, DeliveryRec
  <2>4. delivery[e].began # Null => delivery[e].run # run + 1
    BY <2>2, <2>3
  <2> QED BY <1>1, <2>1, <2>4 DEF Executed
<1>4. Pending' /\ CommandsSpaced'
  BY <1>1 DEF PowerInv, Pending, CommandsSpaced
<1> QED BY <1>1, <1>3, <1>4 DEF PowerInv

LEMMA PowerInit == Assumed /\ Init => PowerInv
<1> SUFFICES ASSUME Assumed, Init PROVE PowerInv
  OBVIOUS
<1>0. Null \notin {"ok", "accepted"}
  BY DEF Assumed, NullAssumption
<1>1. ASSUME NEW d \in Deliveries PROVE Truthful(delivery[d]) /\ Executed(d)
  <2>1. delivery[d] = NewDelivery
    BY DEF Init
  <2>2. /\ NewDelivery.pc = "new" /\ NewDelivery.status = Null
        /\ NewDelivery.began = Null /\ NewDelivery.over = Null
    BY DEF NewDelivery
  <2> HIDE DEF NewDelivery
  <2> QED BY <1>0, <2>1, <2>2 DEF Truthful, Executed, NoCommand, Before
<1>2. Pending /\ CommandsSpaced /\ (last # Null => last <= clock)
  BY DEF Init, Pending, CommandsSpaced, Idle, NewDelivery
<1> QED BY <1>1, <1>2, TypeInit DEF PowerInv

LEMMA PowerStep == Assumed /\ PowerInv /\ [Next]_vars => PowerInv'
<1> SUFFICES ASSUME Assumed, PowerInv, [Next]_vars PROVE PowerInv'
  OBVIOUS
<1>0. TypeInv' /\ clock \in Nat
  BY TypeStep DEF PowerInv, TypeInv, TypeOK
<1>1. CASE \/ Tick \/ Pair \/ Rotate
           \/ (\E m \in Msgs : Send(m) \/ GiveUp(m))
           \/ (\E m \in Msgs, d \in Deliveries : Receive(m, d))
           \/ UNCHANGED vars
  <2>1. UNCHANGED <<run, up, last, suspend, delivery>> /\ clock' \in {clock, clock + 1}
    BY <1>1 DEF Tick, Pair, Rotate, Send, GiveUp, Receive, vars, executor
  <2> QED BY <1>0, <2>1, PowerFrame
<1>2. ASSUME NEW d \in Deliveries, (\E m \in Msgs : Arrive(d, m)) \/ Handle(d)
      PROVE  PowerInv'
  <2>1. CommandStep(d)
    BY <1>2, EarlyCommands, LateCommands DEF Handle
  <2> QED BY <1>0, <2>1, CommandStepPower
<1>3. CASE SuspendStart
  <2>1. /\ UNCHANGED <<clock, run, up, last, delivery>>
        /\ suspend.phase = "waiting" /\ suspend' = [suspend EXCEPT !.phase = "running"]
    BY <1>3 DEF SuspendStart
  <2>2. /\ suspend'.by = suspend.by /\ suspend'.phase = "running"
        /\ suspend.phase # "idle" /\ suspend'.phase # "idle"
    BY <2>1 DEF PowerInv, TypeInv, TypeOK
  <2>3. \A e \in Deliveries : Truthful(delivery[e])' /\ Executed(e)'
    BY <2>1, <2>2 DEF PowerInv, Truthful, Executed
  <2>4. Pending' /\ CommandsSpaced'
    BY <2>1, <2>2 DEF PowerInv, Pending, CommandsSpaced
  <2> QED BY <1>0, <2>1, <2>3, <2>4 DEF PowerInv
<1>4. CASE SuspendEnd
  BY <1>0, <1>4, SuspendEndPower
<1>5. CASE Stop
  BY <1>0, <1>5, StopPower
<1>6. CASE Start
  BY <1>0, <1>6, StartPower
<1> QED BY <1>1, <1>2, <1>3, <1>4, <1>5, <1>6 DEF Next, Suspension

LEMMA SpecPowerInv == Spec => []PowerInv
<1>1. Assumed
  BY NullAssumption, ServiceAssumption, RetentionAssumption DEF Assumed
<1>2. Init => PowerInv
  BY <1>1, PowerInit
<1>3. PowerInv /\ [Next]_vars => PowerInv'
  BY <1>1, PowerStep
<1> QED BY <1>2, <1>3, PTL DEF Spec

\* Two commands of one run of the service are a cooldown apart, counted from
\* the PC's return if the first is a suspension, however many requests,
\* duplicates and stops there are (trySchedule, trySuspend).
THEOREM CommandsSpacedTheorem == Spec => []CommandsSpaced
BY SpecPowerInv, PTL DEF PowerInv

-----------------------------------------------------------------------------
(***************************************************************************)
(* Refusals: only the two power handlers refuse, under the lock, with the  *)
(* time they compared with `last'.                                         *)
(***************************************************************************)
LEMMA RefusalStep ==
  ASSUME PowerInv, Assumed, NEW d \in Deliveries,
         (\E m \in Msgs : Arrive(d, m)) \/ Handle(d),
         delivery[d].status = Null, delivery'[d].status = "refused"
  PROVE  NoCommand(delivery[d]) /\ delivery'[d].now \in Nat /\ ~Admits(delivery'[d].now)
<1> DEFINE rec == delivery[d]
<1>0. Null \notin {"rejected", "ok", "accepted", "refused", "error"}
  BY DEF Assumed, NullAssumption
<1>1. /\ delivery \in [Deliveries -> DeliveryRec] /\ rec \in DeliveryRec
      /\ Truthful(rec) /\ Sound(rec) /\ clock \in Nat
  BY DEF PowerInv, TypeInv, TypeOK
<1>2. ASSUME NEW new, Set(d, new) PROVE delivery'[d] = new
  BY <1>1, <1>2 DEF Set
<1>3. ~\E m \in Msgs : Arrive(d, m)
  <2> SUFFICES ASSUME NEW m \in Msgs, Arrive(d, m) PROVE delivery'[d].status = Null
    BY <1>0
  <2> QED BY <1>2, NewDeliveryType DEF Arrive, NewDelivery
<1>4. Rejected(rec).status = "rejected"
  BY NewDeliveryType DEF Rejected, NewDelivery
<1>5. /\ [rec EXCEPT !.pc = "verified", !.at = clock].status = rec.status
      /\ [rec EXCEPT !.pc = "stamped", !.now = clock].status = rec.status
      /\ [rec EXCEPT !.pc = "timed", !.now = clock].status = rec.status
      /\ [rec EXCEPT !.pc = "recorded"].status = rec.status
      /\ [rec EXCEPT !.pc = "answered", !.key = memory, !.now = Null].status = rec.status
      /\ [rec EXCEPT !.pc = "accepted", !.used = rec.now, !.key = Null, !.at = Null,
                     !.now = Null].status = rec.status
      /\ [rec EXCEPT !.pc = "running", !.now = Null, !.began = rec.now,
                     !.over = rec.now].status = rec.status
  BY <1>1 DEF DeliveryRec
<1>6. \A st \in {"ok", "error", "accepted", "refused"} :
        Answering(rec, st).status = st /\ Answering(rec, st).now = rec.now
  BY <1>1 DEF DeliveryRec, Answering
<1>7. ~(Verify(d) \/ ReadNow(d) \/ TryUse(d) \/ ShutdownNow(d) \/ Respond(d))
  BY <1>0, <1>2, <1>4, <1>5 DEF Verify, ReadNow, TryUse, ShutdownNow, Respond
<1>8. ~Record(d)
  <2> SUFFICES ASSUME Record(d) PROVE delivery'[d].status \in {"ok", Null}
    BY <1>0
  <2>1. \/ Set(d, Answering(rec, "ok"))
        \/ Set(d, [rec EXCEPT !.pc = "recorded"])
    BY DEF Record
  <2> QED BY <1>2, <1>5, <1>6, <2>1
<1>9. ASSUME NEW taken \in BOOLEAN PROVE ~ShutdownEnd(d, taken)
  <2> SUFFICES ASSUME ShutdownEnd(d, taken)
               PROVE  delivery'[d].status \in {"accepted", "error"}
    OBVIOUS
  <2> DEFINE st == ShutdownStatus(taken)
             began == IF taken THEN rec.began ELSE Null
             over == IF taken THEN rec.over ELSE Null
             new == [rec EXCEPT !.pc = "answering", !.status = st,
                                !.began = began, !.over = over]
  <2>1. Set(d, new)
    BY DEF ShutdownEnd
  <2>2. st \in {"accepted", "error"}
    BY DEF ShutdownStatus
  <2>3. new.status = st
    <3> HIDE DEF st, began, over
    <3> QED BY <1>1 DEF DeliveryRec
  <2>4. delivery'[d] = new
    BY <1>2, <2>1
  <2> HIDE DEF new, st
  <2> QED BY <2>2, <2>3, <2>4
<1>10. CASE ShutdownStart(d)
  <2>1. NoCommand(rec) /\ rec.now \in Nat
    BY <1>1, <1>10 DEF ShutdownStart, Truthful, Sound, Before
  <2>2. CASE ~Admits(rec.now) /\ Set(d, Answering(rec, "refused"))
    BY <1>2, <1>6, <2>1, <2>2
  <2>3. CASE Set(d, [rec EXCEPT !.pc = "running", !.now = Null, !.began = rec.now,
                                !.over = rec.now])
    BY <1>0, <1>2, <1>5, <2>3
  <2> QED BY <1>10, <2>2, <2>3 DEF ShutdownStart
<1>11. CASE TrySuspend(d)
  <2>1. NoCommand(rec)
    BY <1>1, <1>11 DEF TrySuspend, Truthful, Before
  <2>2. CASE ~Admits(clock) /\ Set(d, [Answering(rec, "refused") EXCEPT !.now = clock])
    <3>1. [Answering(rec, "refused") EXCEPT !.now = clock].now = clock
      BY <1>1 DEF DeliveryRec, Answering
    <3> QED BY <1>1, <1>2, <2>1, <2>2, <3>1
  <2>3. CASE Set(d, Answering(rec, "error"))
    BY <1>2, <1>6, <2>3
  <2>4. CASE Set(d, [Answering(rec, "accepted") EXCEPT !.began = clock])
    <3>1. [Answering(rec, "accepted") EXCEPT !.began = clock].status = "accepted"
      BY <1>1 DEF DeliveryRec, Answering
    <3> QED BY <1>2, <2>4, <3>1
  <2> QED BY <1>11, <2>2, <2>3, <2>4 DEF TrySuspend
<1> QED BY <1>3, <1>7, <1>8, <1>9, <1>10, <1>11 DEF Handle

\* A refusal has its cause in the state: the pending suspension of another
\* request, or a command given less than a cooldown ago.
LEMMA RefusalCause ==
  ASSUME PowerInv, Assumed, NEW d \in Deliveries, NoCommand(delivery[d]),
         NEW now \in Nat, ~Admits(now)
  PROVE  \/ \E other \in Deliveries \ {d} :
              delivery[other].began # Null /\ delivery[other].over = Null
         \/ last # Null /\ now < last + Cooldown
<1>1. CASE suspend.phase # "idle"
  BY <1>1 DEF PowerInv, TypeInv, Suspender, Pending, NoCommand
<1>2. CASE ~CooledDown(now)
  <2>1. last # Null /\ ~(now - last >= Cooldown)
    BY <1>2 DEF CooledDown
  <2>2. last \in Nat /\ Cooldown \in Nat
    BY <2>1 DEF PowerInv, TypeInv, TypeOK, Stamp, Assumed, ServiceAssumption
  <2> QED BY <2>1, <2>2
<1> QED BY <1>1, <1>2 DEF Admits

\* No request is refused for the cooldown without a pending suspension or a
\* command within the cooldown (trySchedule, trySuspend).
THEOREM RefusedForCauseTheorem == Spec => RefusedForCause
<1> DEFINE Caused ==
      \A d \in Deliveries :
        delivery[d].status = Null /\ delivery'[d].status = "refused" =>
          \/ \E other \in Deliveries \ {d} :
               delivery[other].began # Null /\ delivery[other].over = Null
          \/ last # Null /\ delivery'[d].now < last + Cooldown
<1>1. Assumed
  BY NullAssumption, ServiceAssumption, RetentionAssumption DEF Assumed
<1>2. PowerInv /\ [Next]_vars => [Caused]_vars
  <2> SUFFICES ASSUME PowerInv, Next, NEW d \in Deliveries,
                      delivery[d].status = Null, delivery'[d].status = "refused"
               PROVE  \/ \E other \in Deliveries \ {d} :
                           delivery[other].began # Null /\ delivery[other].over = Null
                      \/ last # Null /\ delivery'[d].now < last + Cooldown
    OBVIOUS
  <2>0. Null # "refused" /\ delivery \in [Deliveries -> DeliveryRec]
    BY <1>1 DEF Assumed, NullAssumption, PowerInv, TypeInv, TypeOK
  <2>1. CASE (\E m \in Msgs : Arrive(d, m)) \/ Handle(d)
    BY <1>1, <2>1, RefusalStep, RefusalCause
  <2>2. ASSUME NEW e \in Deliveries \ {d}, (\E m \in Msgs : Arrive(e, m)) \/ Handle(e)
        PROVE FALSE
    <3>1. CommandStep(e)
      BY <1>1, <2>2, EarlyCommands, LateCommands DEF Handle
    <3> QED BY <2>0, <3>1 DEF CommandStep
  <2>3. ~(\/ Tick \/ Pair \/ Rotate \/ SuspendStart \/ Start
          \/ (\E m \in Msgs : Send(m) \/ GiveUp(m))
          \/ (\E m \in Msgs, e \in Deliveries : Receive(m, e)))
    BY <2>0 DEF Tick, Pair, Rotate, SuspendStart, Start, Send, GiveUp, Receive
  <2>4. ~SuspendEnd
    <3> SUFFICES ASSUME SuspendEnd PROVE delivery'[d].status = delivery[d].status
      BY <2>0
    <3> DEFINE e == suspend.by
               new == [delivery[e] EXCEPT !.over = clock]
    <3>1. e \in Deliveries /\ delivery' = [delivery EXCEPT ![e] = new]
      BY DEF SuspendEnd, Set, PowerInv, TypeInv, Suspender
    <3>2. new.status = delivery[e].status
      BY <2>0, <3>1 DEF DeliveryRec
    <3> HIDE DEF new
    <3> QED BY <2>0, <3>1, <3>2
  <2>5. ~Stop
    <3> SUFFICES ASSUME Stop PROVE delivery'[d].status \in {delivery[d].status, Null}
      BY <2>0
    <3> DEFINE new == [delivery[d] EXCEPT !.pc = "gone", !.key = Null, !.at = Null,
                                          !.now = Null, !.status = Null]
    <3>1. delivery'[d] \in {new, delivery[d]}
      BY DEF Stop
    <3>2. new.status = Null
      BY <2>0 DEF DeliveryRec
    <3> HIDE DEF new
    <3> QED BY <3>1, <3>2
  <2> QED BY <2>1, <2>2, <2>3, <2>4, <2>5 DEF Next, Suspension
<1> HIDE DEF Caused
<1>3. Spec => [][Caused]_vars
  BY <1>2, SpecPowerInv, PTL DEF Spec
<1> QED BY <1>3 DEF RefusedForCause, Caused

-----------------------------------------------------------------------------
(***************************************************************************)
(* Success.  A delivery that was answered keeps its message and what it    *)
(* was started for, so it can be the witness for as long as the panel      *)
(* remembers the success.                                                  *)
(***************************************************************************)
\* An answered delivery with a command never loses either.
LEMMA AnsweredStays ==
  ASSUME PowerInv, Assumed, [Next]_vars, NEW e \in Deliveries,
         delivery[e].pc = "answered"
  PROVE  /\ delivery'[e].pc = "answered" /\ delivery'[e].msg = delivery[e].msg
         /\ delivery'[e].began = delivery[e].began
<1>0. delivery \in [Deliveries -> DeliveryRec] /\ delivery[e] \in DeliveryRec
  BY DEF PowerInv, TypeInv, TypeOK
<1>1. ASSUME NEW d \in Deliveries, (\E m \in Msgs : Arrive(d, m)) \/ Handle(d)
      PROVE  delivery'[e] = delivery[e]
  <2>1. CommandStep(d)
    BY <1>1, EarlyCommands, LateCommands DEF Handle
  <2> QED BY <2>1 DEF CommandStep
<1>2. CASE \/ Tick \/ Pair \/ Rotate \/ SuspendStart \/ Start \/ UNCHANGED vars
           \/ (\E m \in Msgs : Send(m) \/ GiveUp(m))
           \/ (\E m \in Msgs, d \in Deliveries : Receive(m, d))
  <2>1. UNCHANGED delivery
    BY <1>2 DEF Tick, Pair, Rotate, SuspendStart, Start, Send, GiveUp, Receive, vars
  <2> QED BY <2>1
<1>3. CASE SuspendEnd
  <2> DEFINE d == suspend.by
             new == [delivery[d] EXCEPT !.over = clock]
  <2>1. d \in Deliveries /\ delivery' = [delivery EXCEPT ![d] = new]
    BY <1>3 DEF SuspendEnd, Set, PowerInv, TypeInv, Suspender
  <2>2. /\ new.pc = delivery[d].pc /\ new.msg = delivery[d].msg
        /\ new.began = delivery[d].began
    BY <1>0, <2>1 DEF DeliveryRec
  <2> HIDE DEF new
  <2> QED BY <1>0, <2>1, <2>2
<1>4. CASE Stop
  BY <1>4 DEF Stop, InFlight, Ended
<1> QED BY <1>1, <1>2, <1>3, <1>4 DEF Next, Suspension

LEMMA SuccessStep ==
  Assumed /\ PowerInv /\ SuccessInv /\ [Next]_vars => SuccessInv'
<1> SUFFICES ASSUME Assumed, PowerInv, SuccessInv, [Next]_vars, NEW m \in Msgs,
                    result'[m] = "accepted", Action[m] # "status"
             PROVE  \E d \in Deliveries :
                      /\ delivery'[d].msg = m /\ delivery'[d].began # Null
                      /\ delivery'[d].pc = "answered"
  BY DEF SuccessInv
<1>0. result \in [Msgs -> {"unsent", "waiting", "accepted", "failed"}]
  BY DEF PowerInv, TypeInv, TypeOK
<1>1. CASE result[m] = "accepted"
  BY <1>1, AnsweredStays DEF SuccessInv
<1>2. ASSUME NEW d \in Deliveries, Receive(m, d) PROVE
        /\ delivery'[d].msg = m /\ delivery'[d].began # Null
        /\ delivery'[d].pc = "answered"
  <2>1. /\ delivery[d].msg = m /\ delivery[d].pc = "answered" /\ UNCHANGED delivery
        /\ result'[m] = Verdict(delivery[d], sent[m])
    BY <1>0, <1>2 DEF Receive
  <2>2. delivery[d].status \in {"ok", "accepted"}
    BY <2>1 DEF Verdict
  <2>3. delivery[d].began # Null
    BY <2>1, <2>2 DEF PowerInv, Truthful
  <2> QED BY <2>1, <2>3
<1>3. CASE result[m] # "accepted" /\ ~\E d \in Deliveries : Receive(m, d)
  <2>1. CASE UNCHANGED result
    BY <1>3, <2>1
  <2>2. ASSUME NEW n \in Msgs, Send(n) \/ GiveUp(n) PROVE FALSE
    <3>1. result' = [result EXCEPT ![n] = "waiting"] \/ result' = [result EXCEPT ![n] = "failed"]
      BY <2>2 DEF Send, GiveUp
    <3> QED BY <1>0, <1>3, <3>1
  <2>3. ASSUME NEW n \in Msgs, NEW d \in Deliveries, Receive(n, d) PROVE FALSE
    <3>1. n # m /\ result' = [result EXCEPT ![n] = Verdict(delivery[d], sent[n])]
      BY <1>3, <2>3 DEF Receive
    <3> QED BY <1>0, <1>3, <3>1
  <2>4. ASSUME NEW d \in Deliveries, (\E n \in Msgs : Arrive(d, n)) \/ Handle(d)
        PROVE UNCHANGED result
    <3>1. CommandStep(d)
      BY <2>4, EarlyCommands, LateCommands DEF Handle
    <3> QED BY <3>1 DEF CommandStep, panel
  <2>5. ASSUME \/ Tick \/ Pair \/ Rotate \/ Suspension \/ Stop \/ Start \/ UNCHANGED vars
        PROVE UNCHANGED result
    BY <2>5 DEF Tick, Pair, Rotate, Suspension, SuspendStart, SuspendEnd, Set, Stop,
       Start, vars, panel
  <2> QED BY <2>1, <2>2, <2>3, <2>4, <2>5 DEF Next
<1> QED BY <1>1, <1>2, <1>3

\* A success the panel reports stands for a command this PC was given, under
\* duplicates, lost answers, rotations and restarts (requestCompanionPayload,
\* trySchedule, trySuspend).
THEOREM SuccessIsRealTheorem == Spec => []SuccessIsReal
<1>1. Assumed
  BY NullAssumption, ServiceAssumption, RetentionAssumption DEF Assumed
<1>2. Init => SuccessInv
  BY DEF Init, SuccessInv
<1>3. PowerInv /\ SuccessInv /\ [Next]_vars => SuccessInv'
  BY <1>1, SuccessStep
<1>4. SuccessInv => SuccessIsReal
  BY DEF SuccessInv, SuccessIsReal
<1> QED BY <1>2, <1>3, <1>4, SpecPowerInv, PTL DEF Spec

-----------------------------------------------------------------------------
(***************************************************************************)
(* The pairing secret.  recordServerCall writes what the process holds, so *)
(* it can neither lose nor bring back a code once one was answered.        *)
(***************************************************************************)
LEMMA ShownCodeStep ==
  Assumed /\ TypeInv /\ ShownCodeDurable /\ [Next]_vars => ShownCodeDurable'
<1> SUFFICES ASSUME Assumed, TypeInv, ShownCodeDurable, [Next]_vars
             PROVE  ShownCodeDurable'
  OBVIOUS
<1>1. CASE \/ Tick \/ Pair \/ Suspension \/ UNCHANGED vars
           \/ (\E m \in Msgs : Send(m) \/ GiveUp(m))
           \/ (\E m \in Msgs, d \in Deliveries : Receive(m, d) \/ Arrive(d, m))
  <2>1. UNCHANGED <<config, up>>
    BY <1>1 DEF Tick, Pair, Suspension, SuspendStart, SuspendEnd, Set, vars, Send,
       GiveUp, Receive, Arrive
  <2> QED BY <2>1 DEF ShownCodeDurable, config
<1>2. ASSUME NEW d \in Deliveries, Record(d) PROVE ShownCodeDurable'
  <2>1. up
    BY <1>2 DEF TypeInv, Sound, Record, InFlight, Ended
  <2> QED BY <1>2, <2>1 DEF Record, Set, ShownCodeDurable
<1>3. ASSUME NEW d \in Deliveries, Handle(d), ~Record(d) PROVE ShownCodeDurable'
  <2>1. UNCHANGED <<config, up>>
    BY <1>3 DEF Handle, Verify, ReadNow, TryUse, ShutdownNow, ShutdownStart,
       ShutdownEnd, TrySuspend, Respond, Set
  <2> QED BY <2>1 DEF ShownCodeDurable, config
<1>4. CASE Rotate
  BY <1>4, NullAssumption DEF Rotate, Saved, ShownCodeDurable, TypeInv, TypeOK
<1>5. CASE Stop \/ Start
  BY <1>5 DEF Stop, Start, config, ShownCodeDurable
<1> QED BY <1>1, <1>2, <1>3, <1>4, <1>5 DEF Next

\* The code the user was shown is the code in force after any calls, stops
\* and starts (rotateSecret, recordServerCall, loadConfig).
THEOREM ShownCodeDurableTheorem == Spec => []ShownCodeDurable
<1>1. Assumed
  BY NullAssumption, ServiceAssumption, RetentionAssumption DEF Assumed
<1>2. Init => ShownCodeDurable
  BY DEF Init, ShownCodeDurable
<1>3. TypeInv /\ ShownCodeDurable /\ [Next]_vars => ShownCodeDurable'
  BY <1>1, ShownCodeStep
<1> QED BY <1>2, <1>3, TypeCorrect, PTL DEF Spec
=============================================================================
