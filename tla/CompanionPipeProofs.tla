------------------------ MODULE CompanionPipeProofs ------------------------
(***************************************************************************)
(* CompanionPipe implements LocalCalls, for any number of callers,         *)
(* attempts, codes and faults.  Every step of the pipe is a step of        *)
(* LocalCalls or changes nothing a caller sees; that needs the invariant   *)
(* PipeInv: while an instance joins the service and a caller, its request  *)
(* is the action of that caller's call and its reply the last outcome of   *)
(* that call.                                                              *)
(***************************************************************************)
EXTENDS CompanionPipe, TLAPS

\* The service keeps a code while it runs, and config.json one for ever.
ConfigOK ==
  /\ up => code \in Codes /\ disk \in Codes
  /\ ~up => code = NoCode /\ server = Closed
  /\ disk = NoCode => issued = 0

CallsOK ==
  \A c \in Callers : /\ caller[c].at = "idle" <=> caller[c].action = "none"
                     /\ caller[c].at = "idle" => caller[c].outcome = NoReply

PeerOK == server.at \in {"open", "replied"} => server.peer \in Callers

JoinedOK ==
  \A c \in Callers : Joined(c) =>
    /\ server.request # "none" => caller[c].at = "reading" /\ server.request = caller[c].action
    /\ server.at = "replied" =>
         server.request # "none" /\ server.reply = caller[c].outcome /\ server.reply # NoReply

PipeInv == TypeOK /\ ConfigOK /\ CallsOK /\ PeerOK /\ JoinedOK

\* What LocalCalls sees.
Calls == [c \in Callers |-> Seen(caller[c])]
Step == LC!Next \/ UNCHANGED <<code, Calls>>

-----------------------------------------------------------------------------
LEMMA RecordTypes ==
  /\ Closed \in ServerRec
  /\ Closed.at = "closed" /\ Closed.peer = Nobody /\ Closed.request = "none"
  /\ \A answer \in Replies \cup {Unavailable} :
       /\ Resting(answer) \in CallerRec
       /\ Resting(answer).at = "idle" /\ Resting(answer).action = "none"
       /\ Resting(answer).outcome = NoReply
       /\ Seen(Resting(answer)) = LC!Call("none", LC!NoReply, Plain(answer))
<1>1. NoReply \in Replies
  BY DEF Replies
<1>2. Closed \in ServerRec
  BY <1>1 DEF Closed, ServerRec
<1>3. ASSUME NEW answer \in Replies \cup {Unavailable}
      PROVE  /\ Resting(answer) \in CallerRec
             /\ Resting(answer).at = "idle" /\ Resting(answer).action = "none"
             /\ Resting(answer).outcome = NoReply
  BY <1>1, <1>3, LimitsAssumption DEF Resting, CallerRec
<1>4. ASSUME NEW answer
      PROVE  Seen(Resting(answer)) = LC!Call("none", LC!NoReply, Plain(answer))
  BY DEF Seen, Resting, Plain, NoReply, Reply, LC!Call, LC!NoReply, LC!Outcome
<1> QED BY <1>2, <1>3, <1>4 DEF Closed

LEMMA RepliesSeen ==
  /\ Plain(Unavailable) = LC!Unavailable
  /\ Plain(Failed) = LC!Failed
  /\ Plain(NoReply) = LC!NoReply
  /\ \A reply \in Checks : Plain(reply) = LC!Checked
  /\ \A k \in Codes : \A reply \in Infos(k) : Plain(reply) = LC!Info(k)
  /\ \A reply \in Replies : reply # NoReply => Plain(reply) # LC!NoReply
  /\ LC!Unavailable # LC!NoReply
BY DEF Plain, Unavailable, Failed, NoReply, Checks, Infos, Replies, Reply,
       LC!Unavailable, LC!Failed, LC!NoReply, LC!Checked, LC!Info, LC!Outcome

LEMMA RepliesTypes ==
  /\ NoReply \in Replies /\ Failed \in Replies /\ Checks \subseteq Replies
  /\ \A k \in Codes : Infos(k) \subseteq Replies
  /\ NoReply # Failed /\ NoReply \notin Checks
  /\ \A k \in Codes : NoReply \notin Infos(k)
BY DEF Replies, Checks, Infos, NoReply, Failed, Reply

\* A step of one caller is seen as one.
LEMMA OneCall ==
  ASSUME TypeOK, NEW c \in Callers, NEW rec, caller' = [caller EXCEPT ![c] = rec]
  PROVE  /\ Calls' = [Calls EXCEPT ![c] = Seen(rec)]
         /\ Calls[c] = Seen(caller[c])
         /\ caller'[c] = rec
         /\ \A e \in Callers : e # c => caller'[e] = caller[e]
BY DEF TypeOK, Calls

-----------------------------------------------------------------------------
(* The caller. *)

\* A caller that leaves the instance, or is not on it.
LEMMA LeavingKeepsInv ==
  ASSUME PipeInv, NEW c \in Callers, NEW rec \in CallerRec,
         caller' = [caller EXCEPT ![c] = rec],
         rec.at \in {"idle", "opening"},
         rec.at = "idle" <=> rec.action = "none",
         rec.at = "idle" => rec.outcome = NoReply,
         UNCHANGED <<up, config, server>>, faults' \in 0 .. MaxFaults
  PROVE  PipeInv'
<1>1. TypeOK'
  BY DEF PipeInv, TypeOK, config
<1>2. ConfigOK'
  BY DEF PipeInv, ConfigOK, config
<1>3. CallsOK'
  BY OneCall DEF PipeInv, CallsOK
<1>4. JoinedOK' /\ PeerOK'
  BY OneCall DEF PipeInv, JoinedOK, Joined, PeerOK
<1> QED BY <1>1, <1>2, <1>3, <1>4 DEF PipeInv

LEMMA AnswerStep ==
  ASSUME PipeInv, NEW c \in Callers, NEW answer \in Replies \cup {Unavailable},
         caller' = [caller EXCEPT ![c] = Resting(answer)], UNCHANGED code,
         caller[c].action # "none",
         answer = Unavailable \/ (answer = caller[c].outcome /\ answer # NoReply)
  PROVE  LC!Answer(c)
<1>1. Calls[c].action = caller[c].action /\ Calls[c].outcome = Plain(caller[c].outcome)
  BY DEF Calls, Seen
<1>2. Calls' = [Calls EXCEPT ![c] = LC!Call("none", LC!NoReply, Plain(answer))]
  BY OneCall, RecordTypes DEF PipeInv
<1>3. Plain(answer) \in {Calls[c].outcome, LC!Unavailable} \ {LC!NoReply}
  BY <1>1, RepliesSeen
<1> QED BY <1>1, <1>2, <1>3 DEF LC!Answer, Calls

LEMMA RetryStep ==
  ASSUME PipeInv, NEW c \in Callers, Retry(c), caller[c].at # "idle",
         UNCHANGED <<up, config, server>>, faults' \in 0 .. MaxFaults
  PROVE  PipeInv' /\ Step
<1> DEFINE r == caller[c]
<1>0. /\ r \in CallerRec /\ r.action # "none"
      /\ UNCHANGED code /\ TypeOK
  BY DEF PipeInv, TypeOK, CallsOK, config
<1>1. CASE r.attempt < Attempts
  <2> DEFINE new == [r EXCEPT !.at = "opening", !.attempt = @ + 1]
  <2>1. caller' = [caller EXCEPT ![c] = new]
    BY <1>1 DEF Retry, Retried
  <2>a. r.attempt + 1 \in 0 .. Attempts
    BY <1>0, <1>1, LimitsAssumption DEF CallerRec
  <2>2. new \in CallerRec /\ new.at = "opening" /\ new.action # "none" /\ Seen(new) = Seen(r)
    BY <1>0, <2>a DEF CallerRec, Seen
  <2> HIDE DEF new
  <2>3. Calls' = Calls
    BY <1>0, <2>1, <2>2, OneCall DEF Calls
  <2> QED BY <1>0, <2>1, <2>2, <2>3, LeavingKeepsInv DEF Step
<1>2. CASE ~(r.attempt < Attempts)
  <2>1. caller' = [caller EXCEPT ![c] = Resting(Unavailable)]
    BY <1>2 DEF Retry, Retried
  <2>2. LC!Answer(c)
    BY <1>0, <2>1, AnswerStep
  <2> QED BY <2>1, <2>2, RecordTypes, LeavingKeepsInv DEF Step, LC!Next
<1> QED BY <1>1, <1>2

\* OpenPipe and WriteRequest: what the caller sees of its call stays.
LEMMA SameSeen ==
  ASSUME TypeOK, NEW c \in Callers, NEW at,
         caller' = [caller EXCEPT ![c].at = at], UNCHANGED code
  PROVE  /\ Step
         /\ caller'[c] = [caller[c] EXCEPT !.at = at]
         /\ \A e \in Callers : e # c => caller'[e] = caller[e]
<1>1. caller[c] \in CallerRec
  BY DEF TypeOK
<1>2. Seen([caller[c] EXCEPT !.at = at]) = Seen(caller[c])
  BY <1>1 DEF Seen, CallerRec
<1>3. caller' = [caller EXCEPT ![c] = [caller[c] EXCEPT !.at = at]]
  OBVIOUS
<1>4. Calls' = Calls
  BY <1>2, <1>3, OneCall DEF Calls
<1> QED BY <1>3, <1>4, OneCall DEF Step

LEMMA CallStepKeeps ==
  ASSUME PipeInv, NEW c \in Callers, CallStep(c) \/ GiveUp(c)
  PROVE  PipeInv' /\ Step
<1>0. /\ TypeOK /\ ConfigOK /\ CallsOK /\ PeerOK /\ JoinedOK
      /\ caller \in [Callers -> CallerRec] /\ caller[c] \in CallerRec
      /\ server \in ServerRec
      /\ faults \in 0 .. MaxFaults
      /\ c # Nobody
  BY CallersAssumption DEF PipeInv, TypeOK
<1>1. CASE OpenPipe(c)
  <2> DEFINE rec == [caller[c] EXCEPT !.at = "open"]
             new == [Closed EXCEPT !.at = "open", !.peer = c]
  <2>1. rec \in CallerRec /\ rec.at = "open" /\ rec.action = caller[c].action
    BY <1>0 DEF CallerRec
  <2>2. new \in ServerRec /\ new.peer = c /\ new.at = "open" /\ new.request = "none"
    BY <1>0, RecordTypes DEF ServerRec
  <2>3. Step /\ caller'[c] = rec /\ \A e \in Callers : e # c => caller'[e] = caller[e]
    BY <1>0, <1>1, SameSeen DEF OpenPipe, config
  <2>4. caller' \in [Callers -> CallerRec] /\ server' = new
    BY <1>0, <1>1, <2>1 DEF OpenPipe
  <2>5. caller[c].at = "opening" /\ server.at = "listening" /\ UNCHANGED <<up, config, faults>>
    BY <1>1 DEF OpenPipe
  <2> HIDE DEF rec, new
  <2>6. TypeOK'
    BY <1>0, <2>2, <2>4, <2>5 DEF TypeOK, config
  <2>7. ConfigOK'
    BY <1>0, <2>5, RecordTypes DEF ConfigOK, config
  <2>8. CallsOK'
    BY <1>0, <2>1, <2>3, <2>5 DEF CallsOK
  <2>9. JoinedOK' /\ PeerOK'
    BY <2>2, <2>4 DEF JoinedOK, Joined, PeerOK
  <2> QED BY <2>3, <2>6, <2>7, <2>8, <2>9 DEF PipeInv
<1>2. CASE OpenFails(c)
  BY <1>2, <1>0, RetryStep DEF OpenFails
<1>3. CASE WriteRequest(c)
  <2> DEFINE rec == [caller[c] EXCEPT !.at = "reading"]
             new == [server EXCEPT !.request = caller[c].action]
  <2>1. rec \in CallerRec /\ rec.at = "reading" /\ rec.action = caller[c].action
    BY <1>0 DEF CallerRec
  <2>2. /\ new \in ServerRec /\ new.peer = server.peer /\ new.at = server.at
        /\ new.request = caller[c].action
    BY <1>0 DEF ServerRec, CallerRec
  <2>3. Step /\ caller'[c] = rec /\ \A e \in Callers : e # c => caller'[e] = caller[e]
    BY <1>0, <1>3, SameSeen DEF WriteRequest, config
  <2>4. caller' \in [Callers -> CallerRec] /\ server' = new
    BY <1>0, <1>3, <2>1 DEF WriteRequest
  <2>5. caller[c].at = "open" /\ server.peer = c /\ UNCHANGED <<up, config, faults>>
    BY <1>3 DEF WriteRequest
  <2>a. server.at # "replied"
    BY <1>0, <2>5 DEF JoinedOK, Joined
  <2> HIDE DEF rec, new
  <2>6. TypeOK'
    BY <1>0, <2>2, <2>4, <2>5 DEF TypeOK, config
  <2>7. ConfigOK'
    BY <1>0, <2>5, RecordTypes DEF ConfigOK, config
  <2>8. CallsOK'
    BY <1>0, <2>1, <2>3, <2>5 DEF CallsOK
  <2>9. JoinedOK' /\ PeerOK'
    BY <2>1, <2>2, <2>3, <2>4, <2>5, <2>a DEF JoinedOK, Joined, PeerOK
  <2> QED BY <2>3, <2>6, <2>7, <2>8, <2>9 DEF PipeInv
<1>4. CASE Broken(c)
  BY <1>4, <1>0, RetryStep DEF Broken
<1>5. CASE ReadReply(c)
  <2> DEFINE answer == server.reply
  <2>1. /\ answer = caller[c].outcome /\ answer # NoReply
        /\ answer \in Replies \cup {Unavailable}
        /\ caller[c].action # "none"
    BY <1>0, <1>5 DEF ReadReply, JoinedOK, Joined, CallsOK, ServerRec
  <2>2. caller' = [caller EXCEPT ![c] = Resting(answer)] /\ UNCHANGED <<up, config, server, faults>>
    BY <1>5 DEF ReadReply
  <2> HIDE DEF answer
  <2>3. LC!Answer(c)
    BY <2>1, <2>2, AnswerStep DEF config
  <2> QED BY <1>0, <2>1, <2>2, <2>3, RecordTypes, LeavingKeepsInv DEF Step, LC!Next
<1>6. CASE GiveUp(c)
  <2>1. faults' \in 0 .. MaxFaults
    BY <1>0, <1>6, LimitsAssumption DEF GiveUp, NoFault, Fault
  <2> QED BY <1>6, <2>1, RetryStep DEF GiveUp
<1> QED BY <1>1, <1>2, <1>3, <1>4, <1>5, <1>6 DEF CallStep

\* A program begins a call, or ends in the middle of one.
LEMMA CallKeeps ==
  ASSUME PipeInv, NEW c \in Callers, NEW action \in Actions, Call(c, action),
         UNCHANGED <<up, config, server, faults>>
  PROVE  PipeInv' /\ Step
<1> DEFINE rec == [at |-> "opening", action |-> action, attempt |-> 1,
                   outcome |-> NoReply, answer |-> NoReply]
<1>1. rec \in CallerRec /\ rec.at = "opening" /\ rec.action # "none"
  BY RepliesTypes, LimitsAssumption DEF CallerRec, Actions
<1>2. caller' = [caller EXCEPT ![c] = rec] /\ caller[c].at = "idle"
  BY DEF Call
<1>3. Seen(rec) = LC!Call(action, LC!NoReply, LC!NoReply)
  BY RepliesSeen DEF Seen, LC!Call
<1>4. TypeOK /\ UNCHANGED code /\ Calls[c].action = "none" /\ faults \in 0 .. MaxFaults
  BY <1>2 DEF PipeInv, TypeOK, CallsOK, config, Calls, Seen
<1> HIDE DEF rec
<1>5. Calls' = [Calls EXCEPT ![c] = LC!Call(action, LC!NoReply, LC!NoReply)]
  <2>1. Calls' = [Calls EXCEPT ![c] = Seen(rec)]
    BY <1>2, <1>4, OneCall
  <2> QED BY <1>3, <2>1
<1>6. LC!Invoke(c)
  BY <1>4, <1>5 DEF LC!Invoke, Calls, Actions, LC!Actions
<1> QED BY <1>1, <1>2, <1>4, <1>6, LeavingKeepsInv DEF Step, LC!Next

LEMMA AbandonKeeps ==
  ASSUME PipeInv, NEW c \in Callers, Abandon(c), UNCHANGED <<up, config, server, faults>>
  PROVE  PipeInv' /\ Step
<1>1. caller[c].action # "none" /\ UNCHANGED code /\ faults \in 0 .. MaxFaults
  BY DEF PipeInv, TypeOK, CallsOK, Abandon, config
<1>2. LC!Answer(c)
  BY <1>1, AnswerStep DEF Abandon
<1> QED BY <1>1, <1>2, RecordTypes, LeavingKeepsInv DEF Abandon, Step, LC!Next

-----------------------------------------------------------------------------
(* The service. *)

\* The instance is closed, or a new one made: nobody is joined any more.
LEMMA UnjoinedKeepsInv ==
  ASSUME PipeInv, server' \in ServerRec, server'.peer = Nobody, UNCHANGED caller,
         server'.at \in {"closed", "listening"},
         up' \in BOOLEAN,
         code' \in Codes \cup {NoCode}, disk' \in Codes \cup {NoCode}, issued' \in 0 .. MaxCodes,
         faults' \in 0 .. MaxFaults, ConfigOK'
  PROVE  PipeInv' /\ (code' \in Codes \cup {NoCode} /\ UNCHANGED Calls)
<1>1. TypeOK'
  BY DEF PipeInv, TypeOK
<1>2. CallsOK'
  BY DEF PipeInv, CallsOK
<1>3. JoinedOK' /\ PeerOK'
  BY CallersAssumption DEF JoinedOK, Joined, PeerOK
<1> QED BY <1>1, <1>2, <1>3 DEF PipeInv, Calls

LEMMA ChangeStep ==
  ASSUME code' \in Codes \cup {NoCode}, UNCHANGED Calls
  PROVE  Step
BY DEF Step, LC!Next, LC!Change, Calls

\* An operation is performed and its reply written, if there is somebody to read it.
LEMMA RespondKeeps ==
  ASSUME PipeInv, NEW reply \in Replies, reply # NoReply, Respond(reply),
         up, server.at = "open", server.request # "none",
         UNCHANGED up,
         code' \in Codes, disk' \in Codes, issued' \in 0 .. MaxCodes,
         faults' \in 0 .. MaxFaults,
         LC!Performed(server.request, Plain(reply)),
         Plain(reply) \in {LC!Failed, LC!Checked} \cup {LC!Info(k) : k \in Codes}
  PROVE  PipeInv' /\ Step
<1> DEFINE c == server.peer
<1>0. /\ TypeOK /\ ConfigOK /\ CallsOK /\ PeerOK /\ JoinedOK
      /\ caller \in [Callers -> CallerRec]
      /\ server \in ServerRec
      /\ c \in Callers \cup {Nobody}
  BY DEF PipeInv, TypeOK, ServerRec
<1>1. ConfigOK'
  BY DEF ConfigOK, Codes, NoCode
<1>2. CASE ~Joined(c)
  <2>1. server' = Closed /\ UNCHANGED caller
    BY <1>2 DEF Respond
  <2> QED BY <1>1, <2>1, RecordTypes, UnjoinedKeepsInv, ChangeStep DEF PipeInv, TypeOK
<1>3. CASE Joined(c) /\ c \in Callers
  <2> DEFINE rec == [caller[c] EXCEPT !.outcome = reply]
             new == [server EXCEPT !.at = "replied", !.reply = reply]
  <2>1. caller[c].at = "reading" /\ server.request = caller[c].action
    BY <1>0, <1>3 DEF JoinedOK
  <2>2. /\ rec \in CallerRec /\ rec.at = caller[c].at /\ rec.action = caller[c].action
        /\ rec.outcome = reply
        /\ Seen(rec) = [Seen(caller[c]) EXCEPT !.outcome = Plain(reply)]
    BY <1>0, <1>3 DEF CallerRec, Seen
  <2>3. /\ new \in ServerRec /\ new.at = "replied" /\ new.peer = c
        /\ new.request = server.request /\ new.reply = reply
    BY <1>0 DEF ServerRec
  <2>4. server' = new /\ caller' = [caller EXCEPT ![c] = rec]
    BY <1>3 DEF Respond
  <2> HIDE DEF rec, new, c
  <2>5. /\ Calls' = [Calls EXCEPT ![c] = Seen(rec)]
        /\ Calls[c] = Seen(caller[c])
        /\ caller'[c] = rec
        /\ \A e \in Callers : e # c => caller'[e] = caller[e]
    BY <1>0, <1>3, <2>4, OneCall
  <2>6. TypeOK'
    BY <1>0, <2>2, <2>3, <2>4 DEF TypeOK
  <2>7. CallsOK'
    BY <1>0, <2>1, <2>2, <2>5 DEF CallsOK
  <2>8. JoinedOK' /\ PeerOK'
    BY <1>3, <2>1, <2>2, <2>3, <2>4, <2>5 DEF JoinedOK, Joined, PeerOK
  <2>9. LC!Perform(c)
    <3>1. Calls[c].action = server.request
      BY <2>1, <2>5 DEF Seen
    <3>2. Calls' = [Calls EXCEPT ![c].outcome = Plain(reply)]
      BY <2>2, <2>5
    <3> QED BY <3>1, <3>2 DEF LC!Perform, Calls
  <2> QED BY <1>1, <1>3, <2>6, <2>7, <2>8, <2>9 DEF PipeInv, Step, LC!Next
<1> QED BY <1>0, <1>2, <1>3 DEF PeerOK

LEMMA ServiceStepKeeps ==
  ASSUME PipeInv, ServiceStep
  PROVE  PipeInv' /\ Step
<1>0. /\ TypeOK /\ ConfigOK /\ CallsOK /\ PeerOK /\ JoinedOK
      /\ code \in Codes \cup {NoCode} /\ disk \in Codes \cup {NoCode} /\ issued \in 0 .. MaxCodes
      /\ server \in ServerRec /\ faults \in 0 .. MaxFaults /\ MaxCodes \in Nat \ {0}
      /\ Closed.peer = Nobody
  BY RecordTypes, LimitsAssumption DEF PipeInv, TypeOK
<1>1. CASE StartService
  <2>1. /\ code' \in Codes /\ disk' \in Codes /\ issued' \in 0 .. MaxCodes
        /\ up' = TRUE /\ UNCHANGED <<server, caller, faults>>
    BY <1>0, <1>1 DEF StartService, ConfigOK, Codes, NoCode
  <2>2. server = Closed
    BY <1>0, <1>1 DEF StartService, ConfigOK
  <2>3. ConfigOK'
    BY <2>1 DEF ConfigOK, Codes, NoCode
  <2> QED BY <1>0, <2>1, <2>2, <2>3, RecordTypes, UnjoinedKeepsInv, ChangeStep
<1>2. CASE StopService
  <2>1. faults' \in 0 .. MaxFaults
    BY <1>0, <1>2, LimitsAssumption DEF StopService, Fault
  <2>2. ConfigOK'
    BY <1>0, <1>2 DEF StopService, ConfigOK
  <2> QED BY <1>0, <1>2, <2>1, <2>2, RecordTypes, UnjoinedKeepsInv, ChangeStep DEF StopService
<1>3. CASE RecordServerCall
  <2>1. UNCHANGED <<up, code, issued, server, caller, faults>> /\ disk' = code /\ up
    BY <1>3 DEF RecordServerCall
  <2>2. TypeOK' /\ ConfigOK'
    BY <1>0, <2>1 DEF TypeOK, ConfigOK, Codes, NoCode
  <2>3. CallsOK' /\ PeerOK' /\ JoinedOK'
    BY <1>0, <2>1 DEF CallsOK, PeerOK, JoinedOK, Joined
  <2> QED BY <2>1, <2>2, <2>3 DEF PipeInv, Step, Calls
<1> QED BY <1>1, <1>2, <1>3 DEF ServiceStep

LEMMA ServerStepKeeps ==
  ASSUME PipeInv, ServerStep
  PROVE  PipeInv' /\ Step
<1>0. /\ TypeOK /\ ConfigOK /\ CallsOK /\ PeerOK /\ JoinedOK
      /\ up \in BOOLEAN
      /\ code \in Codes \cup {NoCode} /\ disk \in Codes \cup {NoCode} /\ issued \in 0 .. MaxCodes
      /\ server \in ServerRec /\ faults \in 0 .. MaxFaults /\ MaxCodes \in Nat \ {0}
      /\ server.at # "closed" => up
  BY RecordTypes, LimitsAssumption DEF PipeInv, TypeOK, ConfigOK
<1>f. Fault \/ NoFault => faults' \in 0 .. MaxFaults
  BY <1>0, LimitsAssumption DEF Fault, NoFault
<1>1. CASE CreatePipe
  <2> DEFINE new == [Closed EXCEPT !.at = "listening"]
  <2>1. new \in ServerRec /\ new.peer = Nobody /\ new.at = "listening"
    BY RecordTypes DEF ServerRec
  <2>2. up /\ server' = new /\ UNCHANGED <<up, code, disk, issued, caller, faults>>
    BY <1>1 DEF CreatePipe, config
  <2> HIDE DEF new
  <2>3. ConfigOK'
    BY <1>0, <2>2 DEF ConfigOK
  <2> QED BY <1>0, <2>1, <2>2, <2>3, UnjoinedKeepsInv, ChangeStep
<1>2. CASE CloseInstance \/ Expire
  <2>1. server' = Closed /\ UNCHANGED <<up, code, disk, issued, caller>> /\ faults' \in 0 .. MaxFaults
    BY <1>0, <1>2, <1>f DEF CloseInstance, Expire, config
  <2>2. ConfigOK'
    BY <1>0, <2>1 DEF ConfigOK
  <2> QED BY <1>0, <2>1, <2>2, RecordTypes, UnjoinedKeepsInv, ChangeStep
<1>3. CASE GetInfo
  <2>1. PICK reply \in Infos(code) \cup {Failed} : Respond(reply)
    BY <1>3 DEF GetInfo
  <2>2. /\ server.at = "open" /\ server.request = "get-info" /\ up /\ code \in Codes /\ disk \in Codes
        /\ UNCHANGED <<up, code, disk, issued>> /\ faults' \in 0 .. MaxFaults
    BY <1>0, <1>3, <1>f DEF GetInfo, Requested, config, ConfigOK
  <2>3. reply \in Replies /\ reply # NoReply /\ Plain(reply) \in {LC!Failed, LC!Info(code)}
    BY <2>1, <2>2, RepliesSeen, RepliesTypes
  <2>4. LC!Performed(server.request, Plain(reply))
    BY <2>2, <2>3 DEF LC!Performed
  <2> QED BY <1>0, <2>1, <2>2, <2>3, <2>4, RespondKeeps
<1>4. CASE Rotate
  <2>1. /\ server.at = "open" /\ server.request = "rotate" /\ up /\ disk \in Codes /\ code \in Codes
        /\ UNCHANGED up /\ faults' \in 0 .. MaxFaults
    BY <1>0, <1>4, <1>f DEF Rotate, Requested, ConfigOK
  <2>2. code' \in Codes /\ disk' \in Codes /\ issued' \in 0 .. MaxCodes
    BY <1>0, <1>4, <2>1 DEF Rotate, Codes, config
  <2>3. PICK reply \in Infos(code') \cup {Failed} : Respond(reply)
    BY <1>4 DEF Rotate
  <2>4. reply \in Replies /\ reply # NoReply /\ Plain(reply) \in {LC!Failed, LC!Info(code')}
    BY <2>2, <2>3, RepliesSeen, RepliesTypes
  <2>5. LC!Performed(server.request, Plain(reply))
    BY <2>1, <2>2, <2>4 DEF LC!Performed
  <2> QED BY <1>0, <2>1, <2>2, <2>3, <2>4, <2>5, RespondKeeps
<1>5. CASE CheckUpdate
  <2>1. PICK reply \in {Failed} \cup Checks : Respond(reply)
    BY <1>5 DEF CheckUpdate
  <2>2. /\ server.at = "open" /\ server.request = "check-update" /\ up /\ code \in Codes /\ disk \in Codes
        /\ UNCHANGED <<up, code, disk, issued>> /\ faults' \in 0 .. MaxFaults
    BY <1>0, <1>5 DEF CheckUpdate, Requested, config, ConfigOK
  <2>3. reply \in Replies /\ reply # NoReply /\ Plain(reply) \in {LC!Failed, LC!Checked}
    BY <2>1, RepliesSeen, RepliesTypes
  <2>4. LC!Performed(server.request, Plain(reply))
    BY <2>2, <2>3 DEF LC!Performed
  <2> QED BY <1>0, <2>1, <2>2, <2>3, <2>4, RespondKeeps
<1> QED BY <1>1, <1>2, <1>3, <1>4, <1>5 DEF ServerStep, Handle

LEMMA PipeStepKeeps == PipeInv /\ PipeStep => PipeInv' /\ Step
BY ServiceStepKeeps, ServerStepKeeps, CallStepKeeps DEF PipeStep

-----------------------------------------------------------------------------
LEMMA InitKeeps == Init => PipeInv /\ LC!Init
<1> SUFFICES ASSUME Init PROVE PipeInv /\ LC!Init
  OBVIOUS
<1>1. TypeOK
  <2>1. Resting(NoReply) \in CallerRec
    BY RecordTypes, RepliesTypes
  <2>2. caller \in [Callers -> CallerRec]
    BY <2>1 DEF Init
  <2>3. issued \in 0 .. MaxCodes /\ faults \in 0 .. MaxFaults
    BY LimitsAssumption DEF Init
  <2>4. server \in ServerRec
    BY RecordTypes DEF Init
  <2>5. up \in BOOLEAN /\ code \in Codes \cup {NoCode} /\ disk \in Codes \cup {NoCode}
    BY DEF Init
  <2> QED BY <2>2, <2>3, <2>4, <2>5 DEF TypeOK
<1>2. ConfigOK /\ PeerOK
  BY RecordTypes DEF Init, ConfigOK, PeerOK
<1>3. CallsOK /\ JoinedOK
  BY RecordTypes, RepliesTypes, CallersAssumption DEF Init, CallsOK, JoinedOK, Joined
<1>4. LC!Init
  BY RecordTypes, RepliesTypes, RepliesSeen DEF Init, LC!Init, NoCode
<1> QED BY <1>1, <1>2, <1>3, <1>4 DEF PipeInv

LEMMA NextKeeps == PipeInv /\ [Next]_vars => PipeInv' /\ (LC!Next \/ UNCHANGED <<code, Calls>>)
<1> SUFFICES ASSUME PipeInv, [Next]_vars PROVE PipeInv' /\ Step
  BY DEF Step
<1>1. CASE PipeStep
  BY <1>1, PipeStepKeeps
<1>2. ASSUME NEW c \in Callers, NEW action \in Actions,
             Call(c, action), UNCHANGED <<up, config, server, faults>>
      PROVE  PipeInv' /\ Step
  BY <1>2, CallKeeps
<1>3. ASSUME NEW c \in Callers, Abandon(c), UNCHANGED <<up, config, server, faults>>
      PROVE  PipeInv' /\ Step
  BY <1>3, AbandonKeeps
<1>4. CASE UNCHANGED vars
  <2>1. UNCHANGED <<up, code, disk, issued, server, caller, faults>>
    BY <1>4 DEF vars, config
  <2> QED BY <2>1 DEF PipeInv, TypeOK, ConfigOK, CallsOK, PeerOK, JoinedOK, Joined, Step, Calls
<1> QED BY <1>1, <1>2, <1>3, <1>4 DEF Next

\* The pipe keeps to its types whatever callers do and wherever the service stops.
THEOREM TypeCorrect == Spec => []TypeOK
<1> QED BY InitKeeps, NextKeeps, PTL DEF Spec, PipeInv

\* A call answers with the last operation performed for it, or as unavailable: never with
\* the reply to another caller, to another attempt or of another run of the service, for any
\* number of callers, attempts, rotations, stops and slow answers.
THEOREM ImplementsLocalCalls == Spec => CallsKeepPromise
<1> QED BY InitKeeps, NextKeeps, PTL DEF Spec, CallsKeepPromise, LC!Spec, Calls
=============================================================================
