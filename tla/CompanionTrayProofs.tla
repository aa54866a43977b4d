------------------------ MODULE CompanionTrayProofs ------------------------
(***************************************************************************)
(* The tray application keeps the promise of LocalCalls, and its window    *)
(* the three safety properties of CompanionTray, for any number of other   *)
(* sessions.  The handlers are functions of the application's state: the   *)
(* lemmas say what each makes of a settled state, the theorem goes through *)
(* the messages.                                                           *)
(***************************************************************************)
EXTENDS CompanionTray, CompanionPipeProofs

\* The state of the application inside a handler: an action may be about to start.
Starting(t) ==
  /\ t \in TrayRec
  /\ t.dialog # "none" => t.action = "none"
  /\ t.alive => /\ t.status = "unavailable" => t.serviceRetry
                /\ t.action = "diagnostics" => t.status # "connecting"

\* ... and between two messages.  A diagnosis leaves the status as it was, so it must
\* not find it at "connecting".
Settled(t) == Starting(t) /\ (t.alive /\ t.status = "connecting" => t.action # "none")

\* A handler that leads from t to u shows no code that t does not.
ShowsNoMore(t, u) ==
  u.codeVisible => t.codeVisible /\ u.pairingCode = t.pairingCode /\ u.shown = t.shown

TrayInv ==
  /\ PipeInv
  /\ Settled(tray)
  /\ revealed \in Codes \cup {NoCode}
  /\ ShownCodeRevealed

-----------------------------------------------------------------------------
LEMMA CreatedStarting == Starting(Created) /\ Settled(Destroyed)
<1>1. <<>> \in Seq({"notice", "check"})
  OBVIOUS
<1>2. Created \in TrayRec /\ Destroyed \in TrayRec
  BY <1>1 DEF Created, Destroyed, TrayRec
<1> QED BY <1>2 DEF Created, Destroyed, Starting, Settled

\* A handler changes single fields of the state.
LEMMA FieldTypes ==
  ASSUME NEW t \in TrayRec
  PROVE  /\ \A a \in TrayActions \cup {"none"} :
              /\ [t EXCEPT !.action = a] \in TrayRec
              /\ [t EXCEPT !.action = a, !.status = "connecting"] \in TrayRec
         /\ \A x \in BOOLEAN : [t EXCEPT !.codeVisible = x] \in TrayRec
BY DEF TrayRec

LEMMA StartActionSettled ==
  ASSUME NEW t, Starting(t), t.dialog = "none", NEW a \in TrayActions,
         a = "diagnostics" => Settled(t)
  PROVE  Settled(StartAction(t, a)) /\ ShowsNoMore(t, StartAction(t, a))
<1>0. t \in TrayRec
  BY DEF Starting
<1>1. CASE t.action # "none"
  BY <1>1 DEF StartAction, Starting, Settled, ShowsNoMore
<1>2. CASE t.action = "none"
  <2> DEFINE kept == [t EXCEPT !.action = a]
             connecting == [t EXCEPT !.action = a, !.status = "connecting"]
  <2>1. /\ StartAction(t, a) \in {kept, connecting}
        /\ a = "diagnostics" => StartAction(t, a) = kept
    BY <1>0, <1>2 DEF StartAction, TrayRec
  <2>2. kept \in TrayRec /\ connecting \in TrayRec
    BY <1>0, FieldTypes
  <2>3. Settled(kept) /\ ShowsNoMore(t, kept)
    BY <1>0, <1>2, <2>2 DEF Settled, Starting, ShowsNoMore, TrayRec, TrayActions
  <2>4. a # "diagnostics" => Settled(connecting) /\ ShowsNoMore(t, connecting)
    BY <1>0, <1>2, <2>2 DEF Settled, Starting, ShowsNoMore, TrayRec, TrayActions
  <2> QED BY <2>1, <2>3, <2>4
<1> QED BY <1>1, <1>2

LEMMA ShowSettled ==
  ASSUME NEW t, Starting(t), t.dialog # "none" \/ t.shown => Settled(t)
  PROVE  Settled(Show(t)) /\ ShowsNoMore(t, Show(t))
<1>1. CASE t.dialog # "none" \/ t.shown
  BY <1>1 DEF Show, ShowsNoMore
<1>2. CASE ~(t.dialog # "none" \/ t.shown)
  <2> DEFINE hidden == SetPairingCodeVisible(t, FALSE)
             open == [hidden EXCEPT !.shown = TRUE, !.updateOnOpen = TRUE]
  <2>1. open \in TrayRec
    BY DEF Starting, SetPairingCodeVisible, TrayRec
  <2>2. /\ open.codeVisible = FALSE /\ open.dialog = t.dialog /\ open.action = t.action
        /\ open.alive = t.alive /\ open.status = t.status /\ open.serviceRetry = t.serviceRetry
    BY DEF Starting, SetPairingCodeVisible, TrayRec
  <2>3. Show(t) = StartAction(open, "auto-refresh")
    BY <1>2 DEF Show
  <2> HIDE DEF open
  <2>4. Starting(open)
    BY <2>1, <2>2 DEF Starting
  <2>5. Settled(Show(t)) /\ ShowsNoMore(open, Show(t))
    BY <1>2, <2>2, <2>3, <2>4, StartActionSettled DEF TrayActions
  <2> QED BY <2>2, <2>5 DEF ShowsNoMore
<1> QED BY <1>1, <1>2

\* finishAction goes on with a free application and no dialog.
LEMMA ProceedSettled ==
  ASSUME NEW t, Settled(t), t.dialog = "none", t.action = "none"
  PROVE  Settled(Proceed(t)) /\ ShowsNoMore(t, Proceed(t))
<1>0. t \in TrayRec /\ t.rest \in Seq({"notice", "check"})
  BY DEF Settled, Starting, TrayRec
<1>1. CASE t.rest = <<>>
  BY <1>1 DEF Proceed, ShowsNoMore
<1>2. CASE t.rest # <<>> /\ Head(t.rest) = "notice"
  <2> DEFINE u == [t EXCEPT !.dialog = "notice", !.rest = Tail(t.rest)]
  <2>1. Proceed(t) = u
    BY <1>0, <1>2 DEF Proceed, TrayRec
  <2>2. Tail(t.rest) \in Seq({"notice", "check"})
    BY <1>0, <1>2
  <2>3. u \in TrayRec
    BY <1>0, <2>2 DEF TrayRec
  <2>4. Settled(u) /\ ShowsNoMore(t, u)
    BY <1>0, <2>3 DEF Settled, Starting, ShowsNoMore, TrayRec
  <2> QED BY <2>1, <2>4
<1>3. CASE t.rest # <<>> /\ Head(t.rest) # "notice"
  <2> DEFINE asked == [t EXCEPT !.updateOnOpen = FALSE, !.rest = <<>>]
             ended == [t EXCEPT !.rest = <<>>]
  <2>0. <<>> \in Seq({"notice", "check"})
    OBVIOUS
  <2>1. asked \in TrayRec /\ ended \in TrayRec
    BY <1>0, <2>0 DEF TrayRec
  <2>2. Settled(asked) /\ asked.dialog = "none" /\ ShowsNoMore(t, asked)
    BY <1>0, <2>1 DEF Settled, Starting, ShowsNoMore, TrayRec
  <2>3. Settled(ended) /\ ShowsNoMore(t, ended)
    BY <1>0, <2>1 DEF Settled, Starting, ShowsNoMore, TrayRec
  <2>4. Proceed(t) \in {StartAction(asked, "open-update"), ended}
    BY <1>3 DEF Proceed
  <2> HIDE DEF asked, ended
  <2>5. Settled(StartAction(asked, "open-update")) /\ ShowsNoMore(asked, StartAction(asked, "open-update"))
    BY <2>2, StartActionSettled DEF Settled, TrayActions
  <2> QED BY <2>2, <2>3, <2>4, <2>5 DEF ShowsNoMore
<1> QED BY <1>1, <1>2, <1>3

LEMMA WhenType ==
  ASSUME NEW condition, NEW step \in {"notice", "check"}
  PROVE  When(condition, step) \in Seq({"notice", "check"})
<1>1. <<step>> \in Seq({"notice", "check"}) /\ <<>> \in Seq({"notice", "check"})
  OBVIOUS
<1>2. When(condition, step) \in {<<step>>, <<>>}
  BY DEF When
<1> QED BY <1>1, <1>2

LEMMA FinishSettled ==
  ASSUME NEW t, Settled(t), t.action \notin {"none", "diagnostics"},
         NEW answer \in Replies \cup {Unavailable}
  PROVE  Settled(Finish(t, answer)) /\ ShowsNoMore(t, Finish(t, answer))
<1> DEFINE a == t.action
           free == [t EXCEPT !.action = "none", !.serviceRetry = @ \/ answer = Unavailable]
<1>0. t \in TrayRec /\ t.dialog = "none"
  BY DEF Settled, Starting
<1>1. /\ free \in TrayRec
      /\ free.action = "none" /\ free.dialog = "none" /\ free.alive = t.alive
      /\ free.serviceRetry = (t.serviceRetry \/ answer = Unavailable)
      /\ free.codeVisible = t.codeVisible /\ free.pairingCode = t.pairingCode /\ free.shown = t.shown
  BY <1>0 DEF TrayRec
<1>2. answer.code \in Codes \cup {NoCode}
  BY DEF Replies, Unavailable, NoReply, Failed, Checks, Infos, Reply
<1> HIDE DEF free
\* A status that is followed up, with the dialogs to come.
<1>3. ASSUME NEW u, u \in TrayRec, u.action = "none", u.dialog = "none",
             u.status \in {"connected", "updating", "unavailable"},
             u.status = "unavailable" => u.serviceRetry,
             ShowsNoMore(t, u)
      PROVE  Settled(u) /\ Settled(Proceed(u)) /\ ShowsNoMore(t, Proceed(u))
  <2>1. Settled(u)
    BY <1>3 DEF Settled, Starting
  <2>2. Settled(Proceed(u)) /\ ShowsNoMore(u, Proceed(u))
    BY <1>3, <2>1, ProceedSettled
  <2> QED BY <1>3, <2>1, <2>2 DEF ShowsNoMore
<1>4. /\ ServiceStatus(answer) \in {"connected", "updating", "unavailable"}
      /\ ServiceStatus(answer) = "unavailable" => free.serviceRetry
  BY <1>1 DEF ServiceStatus
<1>5. CASE a = "open-update"
  <2> DEFINE status == IF answer.note = "scheduled" THEN "updating" ELSE ServiceStatus(answer)
             u == [free EXCEPT !.status = status]
  <2>1. Finish(t, answer) = u
    BY <1>5 DEF Finish, free
  <2>2. status \in {"connected", "updating", "unavailable"} /\ (status = "unavailable" => free.serviceRetry)
    BY <1>4
  <2> HIDE DEF status
  <2>3. /\ u \in TrayRec /\ u.action = "none" /\ u.dialog = "none"
        /\ u.status = status /\ u.serviceRetry = free.serviceRetry /\ ShowsNoMore(t, u)
    BY <1>1, <2>2 DEF TrayRec, ShowsNoMore
  <2> HIDE DEF u
  <2> QED BY <1>3, <2>1, <2>2, <2>3 DEF ShowsNoMore
<1>6. CASE a # "open-update" /\ answer \in {Failed, Unavailable}
  <2> DEFINE status == ServiceStatus(answer)
             rest == When(a # "auto-refresh", "notice")
             u == [free EXCEPT !.status = status, !.rest = rest]
  <2>1. Finish(t, answer) = Proceed(u)
    <3>1. answer \notin Checks
      BY <1>6 DEF Checks, Failed, Unavailable, Reply
    <3> QED BY <1>6, <3>1 DEF Finish, free
  <2>2. rest \in Seq({"notice", "check"})
    BY WhenType
  <2> HIDE DEF status, rest
  <2>3. /\ u \in TrayRec /\ u.action = "none" /\ u.dialog = "none"
        /\ u.status = status /\ u.serviceRetry = free.serviceRetry /\ ShowsNoMore(t, u)
    BY <1>1, <1>4, <2>2 DEF TrayRec, ShowsNoMore, status
  <2> HIDE DEF u
  <2> QED BY <1>3, <1>4, <2>1, <2>3 DEF status
<1>7. CASE a = "update" /\ answer \in Checks
  <2> DEFINE u == [free EXCEPT !.status = "connected", !.rest = <<"notice">>]
  <2>1. Finish(t, answer) = Proceed(u)
    <3>1. answer \notin {Failed, Unavailable}
      BY <1>7 DEF Checks, Failed, Unavailable, Reply
    <3> QED BY <1>7, <3>1 DEF Finish, free
  <2>2. <<"notice">> \in Seq({"notice", "check"})
    OBVIOUS
  <2>3. /\ u \in TrayRec /\ u.action = "none" /\ u.dialog = "none"
        /\ u.status = "connected" /\ ShowsNoMore(t, u)
    BY <1>1, <2>2 DEF TrayRec, ShowsNoMore
  <2> HIDE DEF u
  <2> QED BY <1>3, <2>1, <2>3
<1>8. CASE a # "open-update" /\ answer \notin {Failed, Unavailable} /\ ~(a = "update" /\ answer \in Checks)
  <2> DEFINE v == UpdateInfo(free, answer)
             rest == When(answer.note = "failed" /\ a # "auto-refresh", "notice")
                     \o When(a \in {"copy", "rotate"}, "notice")
                     \o When(PipeAction(a) = "get-info", "check")
             u == [v EXCEPT !.rest = rest]
  <2>1. Finish(t, answer) = Proceed(u)
    BY <1>8 DEF Finish, free
  <2>2. rest \in Seq({"notice", "check"})
    BY WhenType
  <2>3. /\ v \in TrayRec /\ v.action = "none" /\ v.dialog = "none"
        /\ v.status \in {"connected", "updating"} /\ v.serviceRetry = FALSE
        /\ v.shown = free.shown /\ v.pairingCode = answer.code
        /\ v.codeVisible => free.codeVisible /\ answer.code = free.pairingCode
    BY <1>1, <1>2 DEF UpdateInfo, TrayRec
  <2> HIDE DEF v, rest
  <2>4. /\ u \in TrayRec /\ u.action = "none" /\ u.dialog = "none"
        /\ u.status = v.status /\ ShowsNoMore(t, u)
    BY <1>1, <2>2, <2>3 DEF TrayRec, ShowsNoMore
  <2> HIDE DEF u
  <2> QED BY <1>3, <2>1, <2>3, <2>4
<1> QED BY <1>5, <1>6, <1>7, <1>8

-----------------------------------------------------------------------------
(* The messages. *)

\* A handler that leaves the application settled and shows no more than before.
LEMMA ShownCodeKept ==
  ASSUME TrayInv, Settled(tray'), ShowsNoMore(tray, tray'), UNCHANGED revealed, PipeInv'
  PROVE  TrayInv'
BY DEF TrayInv, ShownCodeRevealed, ShowsNoMore

LEMMA BecomesKeeps ==
  ASSUME TrayInv, NEW t, Becomes(t), ServiceUnchanged, Settled(t)
  PROVE  PipeInv' /\ Step
<1>1. CASE t.action \in {"none", "diagnostics", tray.action}
  <2>1. UNCHANGED vars
    BY <1>1 DEF Becomes, ServiceUnchanged, vars
  <2> QED BY <2>1, NextKeeps DEF TrayInv, Step
<1>2. CASE t.action \notin {"none", "diagnostics", tray.action}
  <2>1. PipeAction(t.action) \in Actions
    BY <1>2 DEF PipeAction, Actions, Settled, Starting, TrayRec, TrayActions
  <2>2. Call(Tray, PipeAction(t.action))
    BY <1>2 DEF Becomes
  <2> QED BY <2>1, <2>2, CallKeeps, TrayAssumption, CallersAssumption DEF ServiceUnchanged, TrayInv
<1> QED BY <1>1, <1>2

LEMMA UsedKeeps ==
  ASSUME PipeInv, Used, ServiceUnchanged, caller[Tray].at = "idle"
  PROVE  PipeInv' /\ Step
<1>1. Tray \in Callers
  BY TrayAssumption, CallersAssumption
<1>2. /\ caller[Tray].action = "none" /\ caller[Tray].outcome = NoReply
      /\ TypeOK /\ faults' \in 0 .. MaxFaults /\ UNCHANGED code
  BY <1>1 DEF PipeInv, CallsOK, TypeOK, ServiceUnchanged, config
<1>3. caller' = [caller EXCEPT ![Tray] = Resting(NoReply)]
  BY DEF Used
<1>4. Calls' = [Calls EXCEPT ![Tray] = LC!Call("none", LC!NoReply, LC!NoReply)]
  <2>1. Calls' = [Calls EXCEPT ![Tray] = Seen(Resting(NoReply))]
    BY <1>1, <1>2, <1>3, OneCall
  <2>2. Seen(Resting(NoReply)) = LC!Call("none", LC!NoReply, LC!NoReply)
    BY RecordTypes, RepliesTypes, RepliesSeen
  <2> QED BY <2>1, <2>2
<1>5. Calls[Tray].action = "none" /\ Calls[Tray].outcome = LC!NoReply
      /\ Calls[Tray] = [action |-> "none", outcome |-> LC!NoReply, answer |-> Plain(caller[Tray].answer)]
  BY <1>1, <1>2, RepliesSeen DEF Calls, Seen
<1>6. Calls' = [Calls EXCEPT ![Tray].answer = LC!NoReply]
  BY <1>4, <1>5 DEF LC!Call
<1>7. LC!Forget(Tray)
  BY <1>2, <1>5, <1>6 DEF LC!Forget, Calls
<1>8. PipeInv'
  BY <1>1, <1>2, <1>3, RecordTypes, RepliesTypes, LeavingKeepsInv DEF ServiceUnchanged
<1> QED BY <1>1, <1>7, <1>8 DEF Step, LC!Next

\* One lemma for each group of messages: the user's, the service's, and the end.
LEMMA OpenKeeps ==
  ASSUME TrayInv, Launch \/ OpenWindow \/ ServiceTimer \/ CloseNotice \/ AnswerConfirm
  PROVE  TrayInv' /\ Step
<1> DEFINE closed == [tray EXCEPT !.dialog = "none"]
<1>0. Settled(tray) /\ Starting(tray) /\ tray \in TrayRec
  BY DEF TrayInv, Settled, Starting
<1>c. tray.dialog # "none" =>
        /\ Settled(closed) /\ closed.dialog = "none" /\ closed.action = "none"
        /\ ShowsNoMore(tray, closed)
  <2>1. closed \in TrayRec
    BY <1>0 DEF TrayRec
  <2> QED BY <1>0, <2>1 DEF Settled, Starting, ShowsNoMore, TrayRec
<1> HIDE DEF closed
<1>1. ASSUME NEW t, Becomes(t), Settled(t), ShowsNoMore(tray, t), ServiceUnchanged, UNCHANGED revealed
      PROVE  TrayInv' /\ Step
  <2>1. PipeInv' /\ Step
    BY <1>1, BecomesKeeps
  <2>2. tray' = t
    BY <1>1 DEF Becomes
  <2> QED BY <1>1, <2>1, <2>2, ShownCodeKept
<1>2. CASE Launch
  <2>1. \E t \in {Show(Created), StartAction(Created, "auto-refresh")} : Becomes(t)
    BY <1>2 DEF Launch
  <2>2. /\ Created.dialog = "none" /\ ~Created.shown /\ ~Created.codeVisible
    BY DEF Created
  <2>3. \A t \in {Show(Created), StartAction(Created, "auto-refresh")} :
          Settled(t) /\ ShowsNoMore(Created, t)
    BY <2>2, CreatedStarting, ShowSettled, StartActionSettled DEF TrayActions
  <2>4. \A t \in {Show(Created), StartAction(Created, "auto-refresh")} : ShowsNoMore(tray, t)
    BY <2>2, <2>3 DEF ShowsNoMore
  <2> QED BY <1>1, <1>2, <2>1, <2>3, <2>4 DEF Launch
<1>3. CASE OpenWindow
  BY <1>0, <1>1, <1>3, ShowSettled DEF OpenWindow
<1>4. CASE ServiceTimer
  BY <1>0, <1>1, <1>4, StartActionSettled DEF ServiceTimer, TrayActions
<1>5. CASE CloseNotice
  <2>1. Settled(Proceed(closed)) /\ ShowsNoMore(closed, Proceed(closed))
    BY <1>5, <1>c, ProceedSettled DEF CloseNotice
  <2>2. Becomes(Proceed(closed)) /\ ServiceUnchanged /\ UNCHANGED revealed
    BY <1>5 DEF CloseNotice, closed
  <2>3. ShowsNoMore(tray, Proceed(closed))
    BY <1>5, <1>c, <2>1 DEF ShowsNoMore, CloseNotice
  <2> QED BY <1>1, <2>1, <2>2, <2>3
<1>6. CASE AnswerConfirm
  <2>1. \E t \in {StartAction(closed, "rotate"), closed} : Becomes(t)
    BY <1>6 DEF AnswerConfirm, closed
  <2>2. Settled(StartAction(closed, "rotate")) /\ ShowsNoMore(closed, StartAction(closed, "rotate"))
    BY <1>6, <1>c, StartActionSettled DEF AnswerConfirm, Settled, TrayActions
  <2>3. \A t \in {StartAction(closed, "rotate"), closed} : Settled(t) /\ ShowsNoMore(tray, t)
    BY <1>6, <1>c, <2>2 DEF ShowsNoMore, AnswerConfirm
  <2> QED BY <1>1, <1>6, <2>1, <2>3 DEF AnswerConfirm
<1> QED BY <1>2, <1>3, <1>4, <1>5, <1>6

\* Messages that call nobody.
LEMMA WindowKeeps ==
  ASSUME TrayInv, CloseWindow \/ ToggleCode \/ ClickRotate \/ CloseReport \/ FinishDiagnostics
  PROVE  TrayInv' /\ Step
<1>0. Settled(tray) /\ Starting(tray) /\ tray \in TrayRec
  BY DEF TrayInv, Settled, Starting
<1>1. UNCHANGED vars
  BY DEF CloseWindow, ToggleCode, ClickRotate, CloseReport, FinishDiagnostics
<1>2. PipeInv' /\ Step
  BY <1>1, NextKeeps DEF TrayInv, Step
<1>3. CASE CloseWindow
  <2> DEFINE u == [SetPairingCodeVisible(tray, FALSE) EXCEPT !.shown = FALSE]
  <2>1. u \in TrayRec /\ u.codeVisible = FALSE
    BY <1>0 DEF SetPairingCodeVisible, TrayRec
  <2>2. Settled(u)
    BY <1>0, <2>1 DEF SetPairingCodeVisible, Settled, Starting, TrayRec
  <2>3. tray' = u /\ revealed' = NoCode
    BY <1>3 DEF CloseWindow
  <2> HIDE DEF u
  <2> QED BY <1>2, <2>1, <2>2, <2>3 DEF TrayInv, ShownCodeRevealed
<1>4. CASE ToggleCode
  <2> DEFINE u == SetPairingCodeVisible(tray, ~tray.codeVisible)
  <2>1. /\ u \in TrayRec
        /\ u.codeVisible => ~tray.codeVisible
        /\ u.pairingCode = tray.pairingCode /\ u.shown = tray.shown
    BY <1>0 DEF SetPairingCodeVisible, TrayRec
  <2>2. Settled(u)
    BY <1>0, <2>1 DEF SetPairingCodeVisible, Settled, Starting, TrayRec
  <2>3. /\ tray' = u /\ tray.shown
        /\ revealed' = IF tray.codeVisible THEN NoCode ELSE tray.pairingCode
    BY <1>4 DEF ToggleCode, Clickable
  <2>4. revealed' \in Codes \cup {NoCode}
    BY <1>0, <2>3 DEF TrayRec
  <2> HIDE DEF u
  <2> QED BY <1>2, <2>1, <2>2, <2>3, <2>4 DEF TrayInv, ShownCodeRevealed
<1>5. CASE ClickRotate \/ CloseReport
  <2>1. PICK dialog \in {"none", "notice", "confirm"} : tray' = [tray EXCEPT !.dialog = dialog]
    BY <1>5 DEF ClickRotate, CloseReport
  <2>2. tray.action = "none" /\ UNCHANGED revealed
    BY <1>0, <1>5 DEF ClickRotate, CloseReport, Settled, Starting
  <2>3. [tray EXCEPT !.dialog = dialog] \in TrayRec
    BY <1>0 DEF TrayRec
  <2>4. Settled(tray') /\ ShowsNoMore(tray, tray')
    BY <1>0, <2>1, <2>2, <2>3 DEF Settled, Starting, ShowsNoMore, TrayRec
  <2> QED BY <1>2, <2>2, <2>4, ShownCodeKept
<1>6. CASE FinishDiagnostics
  <2>1. PICK dialog \in {"report", "notice"} : tray' = [tray EXCEPT !.action = "none", !.dialog = dialog]
    BY <1>6 DEF FinishDiagnostics
  <2>2. tray.action = "diagnostics" /\ UNCHANGED revealed
    BY <1>6 DEF FinishDiagnostics
  <2>3. [tray EXCEPT !.action = "none", !.dialog = dialog] \in TrayRec
    BY <1>0 DEF TrayRec
  <2>4. Settled(tray') /\ ShowsNoMore(tray, tray')
    BY <1>0, <2>1, <2>2, <2>3 DEF Settled, Starting, ShowsNoMore, TrayRec
  <2> QED BY <1>2, <2>2, <2>4, ShownCodeKept
<1> QED BY <1>3, <1>4, <1>5, <1>6

LEMMA ClickKeeps ==
  ASSUME TrayInv, NEW a \in {"refresh", "copy", "update", "diagnostics"}, Click(a)
  PROVE  TrayInv' /\ Step
<1>1. Settled(tray) /\ Starting(tray) /\ tray.dialog = "none"
  BY DEF TrayInv, Settled, Click, Clickable
<1>2. Settled(StartAction(tray, a)) /\ ShowsNoMore(tray, StartAction(tray, a))
  BY <1>1, StartActionSettled DEF TrayActions
<1>3. Becomes(StartAction(tray, a)) /\ ServiceUnchanged /\ UNCHANGED revealed
  BY DEF Click
<1>4. PipeInv' /\ Step
  BY <1>2, <1>3, BecomesKeeps
<1> QED BY <1>2, <1>3, <1>4, ShownCodeKept DEF Becomes

LEMMA FinishActionKeeps ==
  ASSUME TrayInv, FinishAction
  PROVE  TrayInv' /\ Step
<1> DEFINE t == Finish(tray, caller[Tray].answer)
<1>1. caller[Tray].answer \in Replies \cup {Unavailable}
  BY TrayAssumption, CallersAssumption DEF TrayInv, PipeInv, TypeOK, CallerRec
<1>2. Settled(t) /\ ShowsNoMore(tray, t)
  BY <1>1, FinishSettled DEF FinishAction, TrayInv
<1>3. /\ tray' = t /\ ServiceUnchanged /\ UNCHANGED revealed /\ caller[Tray].at = "idle"
      /\ Used \/ Becomes(t)
  BY DEF FinishAction, Becomes
<1>4. PipeInv' /\ Step
  BY <1>2, <1>3, UsedKeeps, BecomesKeeps DEF TrayInv
<1> QED BY <1>2, <1>3, <1>4, ShownCodeKept

LEMMA ExitKeeps ==
  ASSUME TrayInv, Exit
  PROVE  TrayInv' /\ Step
<1>1. CASE UNCHANGED caller
  <2>1. UNCHANGED vars
    BY <1>1 DEF Exit, ServiceUnchanged, vars
  <2>2. PipeInv' /\ Step
    BY <2>1, NextKeeps DEF TrayInv, Step
  <2> QED BY <2>2, CreatedStarting DEF Exit, TrayInv, ShownCodeRevealed, Destroyed, Created
<1>2. CASE Abandon(Tray)
  <2>1. PipeInv' /\ Step
    BY <1>2, AbandonKeeps, TrayAssumption, CallersAssumption DEF Exit, ServiceUnchanged, TrayInv
  <2> QED BY <2>1, CreatedStarting DEF Exit, TrayInv, ShownCodeRevealed, Destroyed, Created
<1> QED BY <1>1, <1>2 DEF Exit

LEMMA TrayNextKeeps ==
  TrayInv /\ [TrayNext]_trayVars => TrayInv' /\ (LC!Next \/ UNCHANGED <<code, Calls>>)
<1> SUFFICES ASSUME TrayInv, [TrayNext]_trayVars PROVE TrayInv' /\ Step
  BY DEF Step
<1>1. CASE TrayStep
  BY <1>1, OpenKeeps, WindowKeeps, ClickKeeps, FinishActionKeeps, ExitKeeps DEF TrayStep
<1>2. CASE (PipeStep \/ OtherStep \/ UNCHANGED vars) /\ UNCHANGED <<tray, revealed>>
  <2>1. ASSUME PipeStep PROVE PipeInv' /\ Step
    BY <2>1, PipeStepKeeps DEF TrayInv
  <2>2. ASSUME UNCHANGED vars PROVE PipeInv' /\ Step
    BY <2>2, NextKeeps DEF TrayInv, Step
  <2>3. ASSUME OtherStep PROVE PipeInv' /\ Step
    BY <2>3, CallKeeps, TrayAssumption DEF OtherStep, ServiceUnchanged, TrayInv
  <2>4. PipeInv' /\ Step
    BY <1>2, <2>1, <2>2, <2>3
  <2> QED BY <1>2, <2>4 DEF TrayInv, ShownCodeRevealed
<1> QED BY <1>1, <1>2 DEF TrayNext, trayVars

LEMMA TrayInitKeeps == TrayInit => TrayInv /\ LC!Init
BY InitKeeps, CreatedStarting DEF TrayInit, TrayInv, ShownCodeRevealed, Destroyed, Created

LEMMA TrayInvariant == TraySpec => []TrayInv
<1> QED BY TrayInitKeeps, TrayNextKeeps, PTL DEF TraySpec

\* The types, also of what waits for a dialog to close.
THEOREM TrayTypeCorrect == TraySpec => []TrayTypeOK
<1>1. TrayInv => TrayTypeOK
  BY DEF TrayInv, PipeInv, TrayTypeOK, Settled, Starting
<1> QED BY <1>1, TrayInvariant, PTL

\* The window never shows a code the user has not asked to see since it was opened,
\* whatever rotations, dialogs, results and launches come in between.
THEOREM ShownCodeRevealedTheorem == TraySpec => []ShownCodeRevealed
<1>1. TrayInv => ShownCodeRevealed
  BY DEF TrayInv
<1> QED BY <1>1, TrayInvariant, PTL

\* No status is left without the action or the timer that will replace it.
THEOREM StatusFollowedUpTheorem == TraySpec => []StatusFollowedUp
<1>1. TrayInv => StatusFollowedUp
  BY DEF TrayInv, StatusFollowedUp, Settled, Starting
<1> QED BY <1>1, TrayInvariant, PTL

\* No action runs behind a dialog, so a confirmed rotation always starts.
THEOREM NothingBehindDialogTheorem == TraySpec => []NothingBehindDialog
<1>1. TrayInv => NothingBehindDialog
  BY DEF TrayInv, NothingBehindDialog, Settled, Starting
<1> QED BY <1>1, TrayInvariant, PTL

\* With the tray as one of the callers too, every answer is the last operation performed
\* for that very call, or unavailable.
THEOREM TrayCallsKeepPromise == TraySpec => CallsKeepPromise
<1>1. TraySpec => LC!Init /\ [][LC!Next]_<<code, Calls>>
  BY TrayInitKeeps, TrayNextKeeps, PTL DEF TraySpec
<1> QED BY <1>1, PTL DEF CallsKeepPromise, LC!Spec, Calls
=============================================================================
