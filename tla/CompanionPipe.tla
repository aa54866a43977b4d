---------------------------- MODULE CompanionPipe ----------------------------
(***************************************************************************)
(* The local pipe between the Companion service and the programs of the    *)
(* interactive sessions (pipe_windows.go), with the part of                *)
(* config_windows.go it reaches: the pairing code in memory and on disk.   *)
(*                                                                         *)
(* The pipe has one instance.  runPipeServer creates it, waits for a       *)
(* client, reads one request, performs it, writes the reply, waits for the *)
(* client to take it and closes the instance: a client that comes in       *)
(* between is refused.  callPipeRaw tries three times.  Every read has a   *)
(* limit of five seconds on both sides; a check for updates asks GitHub    *)
(* for up to thirty, and anything else is slower than the limit only in a  *)
(* fault.  The update state that comes with an answer belongs to           *)
(* CompanionUpdater: here it may be any.                                   *)
(***************************************************************************)
EXTENDS Integers

CONSTANTS
  Callers,    \* programs that call the service, one call at a time each
  Reliable,   \* those whose process runs; the others may stall for good
  Phases,     \* what get-info may say of the updater: idle, active, failed
  Nobody,
  Attempts,   \* callPipeRaw: 3
  MaxCodes,   \* bound: codes generated
  MaxFaults   \* bound: stops of the service, failed operations, answers over the limit

ASSUME CallersAssumption == Reliable \subseteq Callers /\ Nobody \notin Callers
ASSUME PhasesAssumption == Phases \subseteq {"idle", "active", "failed"} /\ Phases # {}
ASSUME LimitsAssumption == Attempts \in Nat \ {0} /\ MaxCodes \in Nat \ {0} /\ MaxFaults \in Nat

VARIABLES
  up,      \* the service process is alive
  code,    \* the pairing code in its memory, the one it enforces
  disk,    \* the one in config.json
  issued,  \* history: codes generated so far
  server,  \* runPipeServer
  caller,  \* Callers -> callPipeRaw
  faults

config == <<code, disk, issued>>
vars == <<up, config, server, caller, faults>>

NoCode == 0
Codes == 1 .. MaxCodes
Actions == {"get-info", "rotate", "check-update"}

Reply(kind, k, note) == [kind |-> kind, code |-> k, note |-> note]
NoReply == Reply("none", NoCode, "none")
Unavailable == Reply("unavailable", NoCode, "none")   \* Companion service unavailable
Failed == Reply("error", NoCode, "none")              \* pipeOperationError
Infos(k) == {Reply("info", k, phase) : phase \in Phases}
Checks == {Reply("checked", NoCode, note) : note \in {"scheduled", "current"}}
Replies == {NoReply, Failed} \cup Checks \cup UNION {Infos(k) : k \in Codes}

ServerRec ==
  [at: {"closed", "listening", "open", "replied"},
   peer: Callers \cup {Nobody},           \* the client of the instance
   request: Actions \cup {"none"},
   reply: Replies]

CallerRec ==
  [at: {"idle", "opening", "open", "reading"},
   action: Actions \cup {"none"},
   attempt: 0 .. Attempts,
   outcome: Replies,                      \* history: last operation performed for the call
   answer: Replies \cup {Unavailable}]    \* of the last call

TypeOK ==
  /\ up \in BOOLEAN
  /\ code \in Codes \cup {NoCode} /\ disk \in Codes \cup {NoCode} /\ issued \in 0 .. MaxCodes
  /\ server \in ServerRec
  /\ caller \in [Callers -> CallerRec]
  /\ faults \in 0 .. MaxFaults

Closed == [at |-> "closed", peer |-> Nobody, request |-> "none", reply |-> NoReply]
Resting(answer) ==
  [at |-> "idle", action |-> "none", attempt |-> 0, outcome |-> NoReply, answer |-> answer]

Init ==
  /\ up = FALSE /\ code = NoCode /\ disk = NoCode /\ issued = 0
  /\ server = Closed
  /\ caller = [c \in Callers |-> Resting(NoReply)]
  /\ faults = 0

Fault == faults < MaxFaults /\ faults' = faults + 1
NoFault == UNCHANGED faults

\* The instance still joins the service and c.
Joined(c) == server.peer = c /\ caller[c].at \in {"open", "reading"}

-----------------------------------------------------------------------------
(* The service process. *)

\* loadConfig: the saved code, or a first one that could be saved.
StartService ==
  /\ ~up
  /\ up' = TRUE
  /\ IF disk = NoCode
       THEN code' = issued + 1 /\ disk' = code' /\ issued' = code'
       ELSE code' = disk /\ UNCHANGED <<disk, issued>>
  /\ UNCHANGED <<server, caller, faults>>

\* Stopped, crashed or replaced by an update, wherever it is.
StopService ==
  /\ up /\ Fault
  /\ up' = FALSE
  /\ code' = NoCode
  /\ server' = Closed
  /\ UNCHANGED <<disk, issued, caller>>

\* An authenticated request of the panel saves the whole configuration.
RecordServerCall ==
  /\ up /\ disk # code
  /\ disk' = code
  /\ UNCHANGED <<up, code, issued, server, caller, faults>>

-----------------------------------------------------------------------------
(* runPipeServer *)

CreatePipe ==
  /\ up /\ server.at = "closed"
  /\ server' = [Closed EXCEPT !.at = "listening"]
  /\ UNCHANGED <<up, config, caller, faults>>

\* The reply is written if the client is still there, else the instance is closed.
Respond(reply) ==
  LET c == server.peer IN
  IF Joined(c)
    THEN /\ server' = [server EXCEPT !.at = "replied", !.reply = reply]
         /\ caller' = [caller EXCEPT ![c].outcome = reply]
    ELSE server' = Closed /\ UNCHANGED caller

Requested(action) == server.at = "open" /\ server.request = action

GetInfo ==
  /\ Requested("get-info")
  /\ \/ NoFault /\ \E reply \in Infos(code) : Respond(reply)
     \/ Fault /\ Respond(Failed)
  /\ UNCHANGED <<up, config>>

\* pipeInfo read before the rotation.
RotateInfoFirst ==
  /\ Requested("rotate") /\ issued < MaxCodes
  /\ issued' = issued + 1 /\ code' = issued' /\ disk' = code'
  /\ \E reply \in Infos(code) : Respond(reply)
  /\ UNCHANGED up /\ NoFault

\* rotateSecret: the code in memory changes even if it cannot be saved.
Rotate ==
  /\ Requested("rotate")
  /\ \/ /\ issued < MaxCodes
        /\ issued' = issued + 1 /\ code' = issued'
        /\ \/ NoFault /\ disk' = code' /\ \E reply \in Infos(code') : Respond(reply)
           \/ Fault /\ UNCHANGED disk /\ Respond(Failed)
     \/ /\ issued = MaxCodes
        /\ Respond(Failed) /\ UNCHANGED config /\ NoFault
  /\ UNCHANGED up

CheckUpdate ==
  /\ Requested("check-update")
  /\ \E reply \in {Failed} \cup Checks : Respond(reply)
  /\ UNCHANGED <<up, config, faults>>

\* It waits for a request, or for the client to take the reply.
Waiting == server.at = "replied" \/ (server.at = "open" /\ server.request = "none")

\* Reads without a limit.
ClosedByClient ==
  /\ Waiting
  /\ ~Joined(server.peer)
  /\ server' = Closed
  /\ UNCHANGED <<up, config, caller, faults>>

\* The client left, or has been silent for five seconds.
CloseInstance ==
  /\ Waiting
  /\ Joined(server.peer) => server.peer \notin Reliable
  /\ server' = Closed
  /\ UNCHANGED <<up, config, caller, faults>>

\* A client that runs was too slow.
Expire ==
  /\ Waiting /\ Fault
  /\ Joined(server.peer)
  /\ server' = Closed
  /\ UNCHANGED <<up, config, caller>>

Handle == GetInfo \/ Rotate \/ CheckUpdate

-----------------------------------------------------------------------------
(* callPipeRaw *)

Call(c, action) ==
  /\ caller[c].at = "idle"
  /\ caller' = [caller EXCEPT ![c] = [at |-> "opening", action |-> action, attempt |-> 1,
                                      outcome |-> NoReply, answer |-> NoReply]]

\* The handle is closed, and after half a second the next attempt begins.
Retried(r) ==
  IF r.attempt < Attempts THEN [r EXCEPT !.at = "opening", !.attempt = @ + 1]
                          ELSE Resting(Unavailable)

Retry(c) == caller' = [caller EXCEPT ![c] = Retried(@)]

OpenPipe(c) ==
  /\ caller[c].at = "opening" /\ server.at = "listening"
  /\ caller' = [caller EXCEPT ![c].at = "open"]
  /\ server' = [Closed EXCEPT !.at = "open", !.peer = c]
  /\ UNCHANGED <<up, config, faults>>

\* There is no pipe, or its only instance is taken.
OpenFails(c) ==
  /\ caller[c].at = "opening" /\ server.at # "listening"
  /\ Retry(c)
  /\ UNCHANGED <<up, config, server, faults>>

WriteRequest(c) ==
  /\ caller[c].at = "open" /\ server.peer = c
  /\ caller' = [caller EXCEPT ![c].at = "reading"]
  /\ server' = [server EXCEPT !.request = caller[c].action]
  /\ UNCHANGED <<up, config, faults>>

\* The service closed its end.
Broken(c) ==
  /\ caller[c].at \in {"open", "reading"} /\ server.peer # c
  /\ Retry(c)
  /\ UNCHANGED <<up, config, server, faults>>

\* The reply is acknowledged and the handle closed.
ReadReply(c) ==
  /\ caller[c].at = "reading" /\ server.peer = c /\ server.at = "replied"
  /\ caller' = [caller EXCEPT ![c] = Resting(server.reply)]
  /\ UNCHANGED <<up, config, server, faults>>

\* Five seconds without a reply.
GiveUp(c) ==
  /\ caller[c].at = "reading" /\ server.peer = c /\ server.at = "open"
  /\ IF caller[c].action = "check-update" \/ c \notin Reliable THEN NoFault ELSE Fault
  /\ Retry(c)
  /\ UNCHANGED <<up, config, server>>

\* The process of c ends; Windows closes its handle.
Abandon(c) ==
  /\ caller[c].at # "idle"
  /\ caller' = [caller EXCEPT ![c] = Resting(Unavailable)]

CallStep(c) == OpenPipe(c) \/ OpenFails(c) \/ WriteRequest(c) \/ Broken(c) \/ ReadReply(c)

-----------------------------------------------------------------------------
ServiceStep == StartService \/ StopService \/ RecordServerCall
ServerStep == CreatePipe \/ Handle \/ CloseInstance \/ Expire

PipeStep ==
  \/ ServiceStep
  \/ ServerStep
  \/ \E c \in Callers : CallStep(c) \/ GiveUp(c)

Next ==
  \/ PipeStep
  \/ \E c \in Callers : \/ \E action \in Actions : Call(c, action) /\ UNCHANGED <<up, config, server, faults>>
                        \/ Abandon(c) /\ UNCHANGED <<up, config, server, faults>>

Spec == Init /\ [][Next]_vars

-----------------------------------------------------------------------------
(* What a caller is promised *)

Plain(reply) == [kind |-> reply.kind, code |-> reply.code]

Seen(r) == [action |-> r.action, outcome |-> Plain(r.outcome), answer |-> Plain(r.answer)]

LC == INSTANCE LocalCalls WITH calls <- [c \in Callers |-> Seen(caller[c])]

\* A call answers with the last operation performed for it, and never with the reply
\* to another caller, another attempt or another run of the service.
CallsKeepPromise == LC!Spec
=============================================================================
