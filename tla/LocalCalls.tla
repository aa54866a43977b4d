----------------------------- MODULE LocalCalls -----------------------------
(***************************************************************************)
(* What a local call to the Companion service promises its caller          *)
(* (callPipeRaw), without the pipe: a call ends either with the outcome    *)
(* of the last operation the service performed for it while it was under   *)
(* way, or as unavailable, and a pairing code it answers is the one that   *)
(* was in force when the operation ended.  Unavailable promises nothing:   *)
(* the operation may have been performed, once or more than once.          *)
(***************************************************************************)
CONSTANTS
  Callers,
  Codes,   \* pairing codes
  NoCode   \* in force while no service runs

VARIABLES
  code,   \* the pairing code the service enforces
  calls   \* Callers -> the action under way with its last outcome, and the last answer

Actions == {"get-info", "rotate", "check-update"}

Outcome(kind, k) == [kind |-> kind, code |-> k]
NoReply == Outcome("none", NoCode)
Unavailable == Outcome("unavailable", NoCode)
Failed == Outcome("error", NoCode)
Checked == Outcome("checked", NoCode)
Info(k) == Outcome("info", k)

Call(action, outcome, answer) == [action |-> action, outcome |-> outcome, answer |-> answer]

Init ==
  /\ code = NoCode
  /\ calls = [c \in Callers |-> Call("none", NoReply, NoReply)]

Invoke(c) ==
  /\ calls[c].action = "none"
  /\ \E a \in Actions : calls' = [calls EXCEPT ![c] = Call(a, NoReply, NoReply)]
  /\ UNCHANGED code

\* Reading the code leaves it; a rotation that fails may still have changed it.
Performed(action, outcome) ==
  CASE action = "get-info" -> code' = code /\ outcome \in {Failed, Info(code)}
    [] action = "rotate" -> code' \in Codes /\ outcome \in {Failed, Info(code')}
    [] action = "check-update" -> code' = code /\ outcome \in {Failed, Checked}
    [] OTHER -> FALSE

Perform(c) ==
  \E outcome \in {Failed, Checked} \cup {Info(k) : k \in Codes} :
    /\ Performed(calls[c].action, outcome)
    /\ calls' = [calls EXCEPT ![c].outcome = outcome]

Answer(c) ==
  /\ calls[c].action # "none"
  /\ \E answer \in {calls[c].outcome, Unavailable} \ {NoReply} :
       calls' = [calls EXCEPT ![c] = Call("none", NoReply, answer)]
  /\ UNCHANGED code

\* The program has used the answer.
Forget(c) ==
  /\ calls[c].action = "none"
  /\ calls' = [calls EXCEPT ![c].answer = NoReply]
  /\ UNCHANGED code

\* The service starts or ends; an operation nobody waits for any more is performed.
Change == code' \in Codes \cup {NoCode} /\ UNCHANGED calls

Next ==
  \/ \E c \in Callers : Invoke(c) \/ Perform(c) \/ Answer(c) \/ Forget(c)
  \/ Change

Spec == Init /\ [][Next]_<<code, calls>>
=============================================================================
