---------------------------- MODULE CompanionTray ----------------------------
(***************************************************************************)
(* The tray application of one session (tray_windows.go, the dialogs of    *)
(* tray_dialog_windows.go, diagnostics_windows.go), as a caller of the     *)
(* pipe of CompanionPipe next to the programs of other sessions.           *)
(*                                                                         *)
(* The window procedure runs in one thread; a step is one message it       *)
(* handles.  An action runs in a goroutine of its own, one at a time, and  *)
(* posts its result back.  A dialog is modal: its owner takes no clicks,   *)
(* but timers, results and the tray icon still reach the window procedure. *)
(* The handler that opened a dialog goes on when it closes: "rest" is what *)
(* finishAction has left to do.  A minimized window counts as shown, as    *)
(* IsWindowVisible does.  The clipboard, the text of the labels and the    *)
(* message box of a dialog that Windows cannot create are left out.        *)
(***************************************************************************)
EXTENDS CompanionPipe, Sequences

CONSTANTS
  Tray,         \* the caller that is this application
  OtherActions  \* bound: what the other sessions ask for

ASSUME TrayAssumption == Tray \in Reliable /\ OtherActions \subseteq Actions

VARIABLES
  tray,     \* trayApplication
  revealed  \* history: the code the user asked to see since the window was opened

trayVars == <<vars, tray, revealed>>

TrayActions == {"auto-refresh", "refresh", "copy", "rotate", "update", "open-update", "diagnostics"}

TrayRec ==
  [alive: BOOLEAN, shown: BOOLEAN,
   dialog: {"none", "confirm", "notice", "report"},
   rest: Seq({"notice", "check"}),
   action: TrayActions \cup {"none"},     \* busy unless none
   status: {"connecting", "connected", "updating", "unavailable"},
   serviceRetry: BOOLEAN, updateOnOpen: BOOLEAN,
   pairingCode: Codes \cup {NoCode}, codeVisible: BOOLEAN]

TrayTypeOK ==
  /\ TypeOK
  /\ tray \in TrayRec
  /\ revealed \in Codes \cup {NoCode}

Created ==
  [alive |-> TRUE, shown |-> FALSE, dialog |-> "none", rest |-> <<>>, action |-> "none",
   status |-> "connecting", serviceRetry |-> FALSE, updateOnOpen |-> FALSE,
   pairingCode |-> NoCode, codeVisible |-> FALSE]
Destroyed == [Created EXCEPT !.alive = FALSE]

TrayInit == Init /\ tray = Destroyed /\ revealed = NoCode

-----------------------------------------------------------------------------
(* The handlers, as functions of the application's state. *)

PipeAction(a) ==
  CASE a \in {"auto-refresh", "refresh", "copy"} -> "get-info"
    [] a \in {"update", "open-update"} -> "check-update"
    [] OTHER -> a

\* Every action announces a connection.
AlwaysConnecting(t, a) ==
  IF t.action # "none" THEN t ELSE [t EXCEPT !.action = a, !.status = "connecting"]

\* Nothing happens while another action is under way.
StartAction(t, a) ==
  IF t.action # "none" THEN t
  ELSE [t EXCEPT !.action = a,
                 !.status = IF \/ a \in {"diagnostics", "open-update"}
                               \/ a = "auto-refresh" /\ t.serviceRetry
                            THEN @ ELSE "connecting"]

SetPairingCodeVisible(t, visible) == [t EXCEPT !.codeVisible = visible /\ t.pairingCode # NoCode]

\* The window of a running application that is hidden opens with a refresh.
Show(t) ==
  IF t.dialog # "none" \/ t.shown THEN t
  ELSE StartAction([SetPairingCodeVisible(t, FALSE) EXCEPT !.shown = TRUE, !.updateOnOpen = TRUE],
                   "auto-refresh")

\* finishAction goes on: the next dialog, or the check an opening has queued.
Proceed(t) ==
  IF t.rest = <<>> THEN t
  ELSE IF Head(t.rest) = "notice" THEN [t EXCEPT !.dialog = "notice", !.rest = Tail(@)]
  ELSE IF t.updateOnOpen
    THEN StartAction([t EXCEPT !.updateOnOpen = FALSE, !.rest = <<>>], "open-update")
    ELSE [t EXCEPT !.rest = <<>>]

\* A new code is shown in the place of the one that was.
KeepsVisible(t, info) ==
  [t EXCEPT !.pairingCode = info.code, !.serviceRetry = FALSE,
            !.status = IF info.note = "active" THEN "updating" ELSE "connected"]

UpdateInfo(t, info) ==
  [t EXCEPT !.codeVisible = @ /\ info.code = t.pairingCode,
            !.pairingCode = info.code,
            !.serviceRetry = FALSE,
            !.status = IF info.note = "active" THEN "updating" ELSE "connected"]

ServiceStatus(answer) == IF answer = Unavailable THEN "unavailable" ELSE "connected"

When(condition, step) == IF condition THEN <<step>> ELSE <<>>

Finish(t, answer) ==
  LET a == t.action
      free == [t EXCEPT !.action = "none", !.serviceRetry = @ \/ answer = Unavailable]
  IN CASE a = "open-update" ->
            [free EXCEPT !.status = IF answer.note = "scheduled" THEN "updating" ELSE ServiceStatus(answer)]
       [] a # "open-update" /\ answer \in {Failed, Unavailable} ->
            Proceed([free EXCEPT !.status = ServiceStatus(answer),
                                 !.rest = When(a # "auto-refresh", "notice")])
       [] a = "update" /\ answer \in Checks ->
            Proceed([free EXCEPT !.status = "connected", !.rest = <<"notice">>])
       [] OTHER ->
            Proceed([UpdateInfo(free, answer) EXCEPT
              !.rest = When(answer.note = "failed" /\ a # "auto-refresh", "notice")
                       \o When(a \in {"copy", "rotate"}, "notice")
                       \o When(PipeAction(a) = "get-info", "check")])

\* The handler leaves the application as t; an action it started calls the service.
Becomes(t) ==
  /\ tray' = t
  /\ IF t.action \in {"none", "diagnostics", tray.action}
       THEN UNCHANGED caller
       ELSE Call(Tray, PipeAction(t.action))

\* The answer is used up.
Used == caller' = [caller EXCEPT ![Tray] = Resting(NoReply)]

ServiceUnchanged == UNCHANGED <<up, config, server, faults>>

-----------------------------------------------------------------------------
(* Messages of the window procedure. *)

\* runTray, with the window or, at logon, without it.
Launch ==
  /\ ~tray.alive
  /\ \/ Becomes(Show(Created))
     \/ Becomes(StartAction(Created, "auto-refresh"))
  /\ ServiceUnchanged /\ UNCHANGED revealed

\* A click on the icon, or a second launch (wmShowCompanion).
OpenWindow ==
  /\ tray.alive
  /\ Becomes(Show(tray))
  /\ ServiceUnchanged /\ UNCHANGED revealed

Clickable == tray.alive /\ tray.shown /\ tray.dialog = "none"

CloseWindow ==
  /\ Clickable
  /\ tray' = [SetPairingCodeVisible(tray, FALSE) EXCEPT !.shown = FALSE]
  /\ revealed' = NoCode
  /\ UNCHANGED vars

ToggleCode ==
  /\ Clickable /\ tray.pairingCode # NoCode
  /\ tray' = SetPairingCodeVisible(tray, ~tray.codeVisible)
  /\ revealed' = IF tray.codeVisible THEN NoCode ELSE tray.pairingCode
  /\ UNCHANGED vars

\* The buttons are disabled during an action.
Click(a) ==
  /\ Clickable /\ tray.action = "none"
  /\ Becomes(StartAction(tray, a))
  /\ ServiceUnchanged /\ UNCHANGED revealed

ClickRotate ==
  /\ Clickable /\ tray.action = "none"
  /\ tray' = [tray EXCEPT !.dialog = "confirm"]
  /\ UNCHANGED <<vars, revealed>>

AnswerConfirm ==
  /\ tray.dialog = "confirm"
  /\ LET closed == [tray EXCEPT !.dialog = "none"]
     IN Becomes(StartAction(closed, "rotate")) \/ Becomes(closed)
  /\ ServiceUnchanged /\ UNCHANGED revealed

CloseNotice ==
  /\ tray.dialog = "notice"
  /\ Becomes(Proceed([tray EXCEPT !.dialog = "none"]))
  /\ ServiceUnchanged /\ UNCHANGED revealed

\* The folder is opened, or not asked for; or it cannot be opened.
CloseReport ==
  /\ tray.dialog = "report"
  /\ \E next \in {"none", "notice"} : tray' = [tray EXCEPT !.dialog = next]
  /\ UNCHANGED <<vars, revealed>>

\* The timer does not look for a dialog.
TimerAnyway ==
  /\ tray.alive /\ tray.serviceRetry
  /\ Becomes(StartAction(tray, "auto-refresh"))
  /\ ServiceUnchanged /\ UNCHANGED revealed

\* The five-second timer of an unavailable service.
ServiceTimer ==
  /\ tray.alive /\ tray.serviceRetry /\ tray.dialog = "none"
  /\ Becomes(StartAction(tray, "auto-refresh"))
  /\ ServiceUnchanged /\ UNCHANGED revealed

FinishAction ==
  /\ tray.action \notin {"none", "diagnostics"}
  /\ caller[Tray].at = "idle"
  /\ LET t == Finish(tray, caller[Tray].answer)
     IN IF t.action = "none" THEN tray' = t /\ Used ELSE Becomes(t)
  /\ ServiceUnchanged /\ UNCHANGED revealed

\* The elevated script ended, could not be started or was refused.
FinishDiagnostics ==
  /\ tray.action = "diagnostics"
  /\ \E dialog \in {"report", "notice"} : tray' = [tray EXCEPT !.action = "none", !.dialog = dialog]
  /\ UNCHANGED <<vars, revealed>>

\* Exit tray, or the end of the session.
Exit ==
  /\ tray.alive
  /\ tray' = Destroyed /\ revealed' = NoCode
  /\ IF caller[Tray].at = "idle" THEN UNCHANGED caller ELSE Abandon(Tray)
  /\ ServiceUnchanged

TrayStep ==
  \/ Launch \/ OpenWindow \/ CloseWindow \/ ToggleCode
  \/ \E a \in {"refresh", "copy", "update", "diagnostics"} : Click(a)
  \/ ClickRotate \/ AnswerConfirm \/ CloseNotice \/ CloseReport
  \/ ServiceTimer \/ FinishAction \/ FinishDiagnostics \/ Exit

\* The programs of the other sessions.
OtherStep == \E c \in Callers \ {Tray}, action \in OtherActions : Call(c, action) /\ ServiceUnchanged

TrayNext ==
  \/ TrayStep
  \/ (PipeStep \/ OtherStep) /\ UNCHANGED <<tray, revealed>>

TraySpec == TrayInit /\ [][TrayNext]_trayVars

\* The service's goroutines and this session's program run; the timer ticks and the
\* messages are handled.  Users, other sessions and the service manager may do nothing.
Fairness ==
  /\ WF_trayVars((CreatePipe \/ Handle \/ CloseInstance) /\ UNCHANGED <<tray, revealed>>)
  /\ WF_trayVars(CallStep(Tray) /\ UNCHANGED <<tray, revealed>>)
  /\ WF_trayVars(ServiceTimer)
  /\ WF_trayVars(FinishAction)

FairTraySpec == TraySpec /\ Fairness

-----------------------------------------------------------------------------
\* The window shows a code only after the user has asked to see that very code since
\* the window was opened: closing it, or another code, hides it again.
ShownCodeRevealed == tray.codeVisible => tray.shown /\ revealed = tray.pairingCode

\* The status is never left behind: "connecting" has an action that will replace it,
\* "unavailable" a timer that asks again.
StatusFollowedUp ==
  tray.alive => /\ tray.status = "connecting" => tray.action # "none"
                /\ tray.status = "unavailable" => tray.serviceRetry

\* Nothing runs behind a dialog, so a rotation the user confirms is not dropped.
NothingBehindDialog == tray.dialog # "none" => tray.action = "none"

\* Once the service stays up, the tray finds it again without being asked, even if the
\* program of another session holds the only instance of the pipe and says nothing.
\* An open dialog and a diagnosis hold the retries back; a session that keeps opening
\* the pipe may always be first.
\* A check queued by an opening while the service is away is made when it is back,
\* unless a rotation is what finds it back.
Undisturbed ==
  <>[](/\ up /\ tray.dialog = "none" /\ tray.action # "diagnostics"
       /\ \A c \in Callers \ {Tray} : caller[c].at # "opening")
SilentRecovery ==
  Undisturbed =>
    /\ []<>(~tray.serviceRetry)
    /\ tray.serviceRetry /\ tray.updateOnOpen ~> ~tray.updateOnOpen \/ tray.action = "rotate"
=============================================================================
