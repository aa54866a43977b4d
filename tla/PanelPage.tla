------------------------------ MODULE PanelPage ------------------------------
(***************************************************************************)
(* One device of the panel's page (app.vue) with its Companion card        *)
(* (CompanionUpdate.vue): refreshes of its status, edits, and requests to  *)
(* update the Companion, from the page through the handlers of the panel   *)
(* (updateRemoteCompanion, status.get.ts) to the Companion (api.go).       *)
(*                                                                         *)
(* The device is the number of its edits, which stands for updatedAt.  The *)
(* Companion runs release 1 or 2, the latest; what its updater does is in  *)
(* CompanionUpdater, here are the changes of version and phase the page    *)
(* can see: "working" is any phase from scheduled to restarting, "failed"  *)
(* also rolled-back, "idle" also succeeded.  A refresh of the status is    *)
(* followed for this device only; StatusRefresh has the pool and the       *)
(* release lookup, which is taken to know the latest release.              *)
(***************************************************************************)
EXTENDS Integers

CONSTANTS
  Clients,    \* pages that ask for updates
  Here,       \* the one that is modelled
  Null,
  MaxEdits,   \* bound: edits of the device
  MaxChecks,  \* bound: checks for updates, of the pages or of the Companion itself
  MaxFaults   \* bound: answers lost, and the PC turned off

ASSUME PageAssumption ==
  /\ Here \in Clients /\ Null \notin Clients
  /\ MaxEdits \in Nat /\ MaxChecks \in Nat /\ MaxFaults \in Nat

VARIABLES
  row,       \* edits of the device saved in the database
  pc,        \* the Companion
  inFlight,  \* the device is in updatesInFlight
  post,      \* Clients -> the handler of their POST .../update
  gets,      \* the GET /api/devices/status under way
  page,      \* the page and its card
  checks, faults

vars == <<row, pc, inFlight, post, gets, page, checks, faults>>

Rows == 0 .. MaxEdits
Phases == {"idle", "checking", "working", "failed"}
Status ==
  [row: Rows, ready: {TRUE}, version: {1, 2}, phase: Phases] \cup [row: Rows, ready: {FALSE}]
Said == {"nothing", "checked", "confirmed", "failed", "unconfirmed", "error"}

TypeOK ==
  /\ row \in Rows
  /\ pc \in [up: BOOLEAN, version: {1, 2}, phase: Phases, by: Clients \cup {Null}]
  /\ inFlight \in BOOLEAN
  /\ post \in [Clients -> [at: {"none", "reading", "asking", "checking", "answered"},
                           reply: {Null, "scheduled", "checked", "error"}]]
  /\ gets \subseteq [at: {"listed", "probed", "recorded"}, row: Rows, status: Status \cup {Null}]
  /\ page \in [status: Status \cup {Null}, refreshing: BOOLEAN, saving: BOOLEAN,
               pending: BOOLEAN, requesting: BOOLEAN, said: Said]
  /\ checks \in 0 .. MaxChecks /\ faults \in 0 .. MaxFaults

NoPost == [at |-> "none", reply |-> Null]

Init ==
  /\ row = 0
  /\ \E version \in {1, 2}, phase \in {"idle", "failed"} :
       pc = [up |-> TRUE, version |-> version, phase |-> phase, by |-> Null]
  /\ inFlight = FALSE
  /\ post = [c \in Clients |-> NoPost]
  /\ gets = {}
  /\ page = [status |-> Null, refreshing |-> FALSE, saving |-> FALSE,
             pending |-> FALSE, requesting |-> FALSE, said |-> "nothing"]
  /\ checks = 0 /\ faults = 0

Fault == faults < MaxFaults /\ faults' = faults + 1

-----------------------------------------------------------------------------
(* Refreshes of the status. *)

\* A refresh begins whatever is under way.
RefreshAnyway(p) ==
  /\ page' = [p EXCEPT !.refreshing = TRUE]
  /\ gets' = gets \cup {[at |-> "listed", row |-> row, status |-> Null]}

\* refreshStatuses, called when the page is as p: the handler lists the devices.
Refresh(p) ==
  IF p.refreshing THEN page' = p /\ UNCHANGED gets
  ELSE /\ page' = [p EXCEPT !.refreshing = TRUE]
       /\ gets' = gets \cup {[at |-> "listed", row |-> row, status |-> Null]}

\* The status of a device that is being updated is refreshed every three seconds.
Updating == page.pending \/ (page.status # Null /\ page.status.ready
                             /\ page.status.phase \in {"checking", "working"})

\* Only the timer of the card.
TimerWhileUpdating == Updating /\ Refresh(page) /\ UNCHANGED <<row, pc, inFlight, post, checks, faults>>

\* Every thirty seconds, or by the button.
StatusTimer == Refresh(page) /\ UNCHANGED <<row, pc, inFlight, post, checks, faults>>

Poll == Updating /\ Refresh(page) /\ UNCHANGED <<row, pc, inFlight, post, checks, faults>>

Becomes(g, h) == gets' = (gets \ {g}) \cup {h}

\* The Companion signs what it is at the moment, or does not answer.
Probe(g) ==
  /\ g.at = "listed"
  /\ Becomes(g, [g EXCEPT !.at = "probed",
       !.status = IF pc.up THEN [row |-> g.row, ready |-> TRUE, version |-> pc.version, phase |-> pc.phase]
                           ELSE [row |-> g.row, ready |-> FALSE]])
  /\ UNCHANGED <<row, pc, inFlight, post, page, checks, faults>>

\* recordStatus drops the status of a device that has been edited since.
Record(g) ==
  /\ g.at = "probed"
  /\ Becomes(g, [g EXCEPT !.at = "recorded", !.status = IF g.row = row THEN @ ELSE Null])
  /\ UNCHANGED <<row, pc, inFlight, post, page, checks, faults>>

\* The card watches the status: a failure or the version asked for ends the wait.
Watched(p) ==
  IF ~p.pending \/ p.status = Null \/ ~p.status.ready THEN p
  ELSE IF p.status.phase = "failed" THEN [p EXCEPT !.pending = FALSE, !.said = "failed"]
  ELSE IF p.status.version = 2 THEN [p EXCEPT !.pending = FALSE, !.said = "confirmed"]
  ELSE p

ShowStatus(g) ==
  /\ g.at = "recorded"
  /\ page' = Watched([page EXCEPT !.status = g.status, !.refreshing = FALSE])
  /\ gets' = gets \ {g}
  /\ UNCHANGED <<row, pc, inFlight, post, checks, faults>>

\* The statuses stay as they were.
RefreshFails(g) ==
  /\ Fault
  /\ page' = [page EXCEPT !.refreshing = FALSE]
  /\ gets' = gets \ {g}
  /\ UNCHANGED <<row, pc, inFlight, post, checks>>

-----------------------------------------------------------------------------
(* Edits. *)

\* The handler of PATCH saves the device.
SaveDevice ==
  /\ ~page.saving /\ row < MaxEdits
  /\ row' = row + 1
  /\ page' = [page EXCEPT !.saving = TRUE]
  /\ UNCHANGED <<pc, inFlight, post, gets, checks, faults>>

\* The status of the old device is forgotten and a new one asked for.
DeviceSaved ==
  /\ page.saving
  /\ Refresh([page EXCEPT !.saving = FALSE, !.status = Null])
  /\ UNCHANGED <<row, pc, inFlight, post, checks, faults>>

SavedLost ==
  /\ page.saving /\ Fault
  /\ page' = [page EXCEPT !.saving = FALSE]
  /\ UNCHANGED <<row, pc, inFlight, post, gets, checks>>

-----------------------------------------------------------------------------
(* Requests to update. *)

CanUpdate ==
  /\ page.status # Null /\ page.status.ready /\ page.status.version # 2
  /\ ~page.requesting /\ ~Updating

\* updateRemoteCompanion: one request at a time for a device.
Asked(c) ==
  /\ post[c] = NoPost
  /\ checks < MaxChecks /\ checks' = checks + 1
  /\ IF inFlight THEN /\ post' = [post EXCEPT ![c] = [at |-> "answered", reply |-> "error"]]
                      /\ UNCHANGED inFlight
                 ELSE /\ post' = [post EXCEPT ![c].at = "reading"]
                      /\ inFlight' = TRUE
  /\ UNCHANGED <<row, pc, gets, faults>>

Click == CanUpdate /\ Asked(Here) /\ page' = [page EXCEPT !.requesting = TRUE, !.said = "nothing"]

OtherClick == \E c \in Clients \ {Here} : Asked(c) /\ UNCHANGED page

\* The entry is deleted only after an answer of the Companion.
EndKeeps(c, reply) ==
  /\ post' = [post EXCEPT ![c] = [at |-> "answered", reply |-> reply]]
  /\ inFlight' = (reply = "error")

End(c, reply) ==
  /\ post' = [post EXCEPT ![c] = [at |-> "answered", reply |-> reply]]
  /\ inFlight' = FALSE

\* readCompanionStatus
ReadStatus(c) ==
  /\ post[c].at = "reading"
  /\ IF pc.up THEN post' = [post EXCEPT ![c].at = "asking"] /\ UNCHANGED inFlight ELSE End(c, "error")
  /\ UNCHANGED <<row, pc, gets, page, checks, faults>>

\* POST /v1/update reaches the Companion, or nobody.
AskCompanion(c) ==
  /\ post[c].at = "asking"
  /\ IF ~pc.up \/ pc.phase = "checking" THEN End(c, "error") /\ UNCHANGED pc
     ELSE IF pc.phase = "working" THEN End(c, "scheduled") /\ UNCHANGED pc
     ELSE /\ pc' = [pc EXCEPT !.phase = "checking", !.by = c]
          /\ post' = [post EXCEPT ![c].at = "checking"] /\ UNCHANGED inFlight
  /\ UNCHANGED <<row, gets, page, checks, faults>>

\* No signed answer in time: the PC went off, or the answer is lost.
NoAnswer(c) ==
  /\ post[c].at = "checking"
  /\ \/ pc.by # c /\ UNCHANGED faults
     \/ Fault
  /\ End(c, "error")
  /\ UNCHANGED <<row, pc, gets, page, checks>>

\* The page of c has its answer; the card waits, or reports, and asks for the status.
PostAnswered(c) ==
  /\ post[c].at = "answered"
  /\ post' = [post EXCEPT ![c] = NoPost]
  /\ IF c = Here
       THEN LET reply == post[c].reply
                done == [page EXCEPT !.requesting = FALSE]
            IN Refresh(IF reply = "scheduled" THEN [done EXCEPT !.pending = TRUE] ELSE [done EXCEPT !.said = reply])
       ELSE UNCHANGED <<page, gets>>
  /\ UNCHANGED <<row, pc, inFlight, checks, faults>>

\* Fifteen minutes have passed.
Expire ==
  /\ page.pending
  /\ page' = [page EXCEPT !.pending = FALSE, !.said = "unconfirmed"]
  /\ UNCHANGED <<row, pc, inFlight, post, gets, checks, faults>>

-----------------------------------------------------------------------------
(* The Companion. *)

PanelUnchanged == UNCHANGED <<row, gets, page>>

\* The daily check, or one of the tray.
OwnCheck ==
  /\ pc.up /\ pc.phase \in {"idle", "failed"}
  /\ checks < MaxChecks /\ checks' = checks + 1
  /\ pc' = [pc EXCEPT !.phase = "checking", !.by = Null]
  /\ PanelUnchanged /\ UNCHANGED <<inFlight, post, faults>>

\* GitHub has answered: a worker is launched unless the version is the latest.
Checked ==
  /\ pc.phase = "checking"
  /\ \E outcome \in {"failed", IF pc.version = 2 THEN "idle" ELSE "working"} :
       /\ pc' = [pc EXCEPT !.phase = outcome, !.by = Null]
       /\ IF pc.by # Null /\ post[pc.by].at = "checking"
            THEN End(pc.by, CASE outcome = "failed" -> "error"
                              [] outcome = "idle" -> "checked"
                              [] OTHER -> "scheduled")
            ELSE UNCHANGED <<post, inFlight>>
  /\ PanelUnchanged /\ UNCHANGED <<checks, faults>>

\* The worker stops the service and starts the new version, keeps it, or gives up: with
\* the old version in its place again, or with what it could not stop or start.
Work ==
  /\ pc.phase = "working"
  /\ \/ pc.up /\ pc.version = 1 /\ pc' = [pc EXCEPT !.up = FALSE, !.version = 2]
     \/ pc.up /\ pc.version = 2 /\ pc' = [pc EXCEPT !.phase = "idle"]
     \/ \E up \in BOOLEAN, version \in {1, pc.version} :
          pc' = [pc EXCEPT !.up = up, !.version = version, !.phase = "failed"]
  /\ PanelUnchanged /\ UNCHANGED <<inFlight, post, checks, faults>>

ServiceStarts ==
  /\ ~pc.up
  /\ pc' = [pc EXCEPT !.up = TRUE]
  /\ PanelUnchanged /\ UNCHANGED <<inFlight, post, checks, faults>>

\* readUpdateStatus reports what it interrupts as a failure.
TurnedOff ==
  /\ pc.up /\ Fault
  /\ pc' = [pc EXCEPT !.up = FALSE, !.by = Null,
                      !.phase = IF @ \in {"checking", "working"} THEN "failed" ELSE @]
  /\ PanelUnchanged /\ UNCHANGED <<inFlight, post, checks>>

-----------------------------------------------------------------------------
Refreshes == \E g \in gets : Probe(g) \/ Record(g) \/ ShowStatus(g)
Handler(c) == ReadStatus(c) \/ AskCompanion(c) \/ PostAnswered(c)

Next ==
  \/ StatusTimer \/ Poll \/ Refreshes \/ \E g \in gets : RefreshFails(g)
  \/ SaveDevice \/ DeviceSaved \/ SavedLost
  \/ Click \/ OtherClick \/ Expire
  \/ \E c \in Clients : Handler(c) \/ NoAnswer(c)
  \/ OwnCheck \/ Checked \/ Work \/ ServiceStarts \/ TurnedOff

Spec == Init /\ [][Next]_vars

\* The event loops, the timers and the worker go on, and every request has a time limit.
\* Nobody has to edit, to click, or to turn a PC on.
Fairness ==
  /\ WF_vars(StatusTimer) /\ WF_vars(Expire) /\ WF_vars(Refreshes)
  /\ WF_vars(DeviceSaved \/ SavedLost)
  /\ \A c \in Clients : WF_vars(Handler(c) \/ NoAnswer(c))
  /\ WF_vars(Checked) /\ WF_vars(Work)

FairSpec == Spec /\ Fairness

-----------------------------------------------------------------------------
\* An answer that comes after an edit may bring the status of the old device back, but a
\* page that has shown the status of an edited device never goes back to an older one.
StatusNeverOlder ==
  [][page.status # Null /\ page'.status # Null => page'.status.row >= page.status.row]_vars

\* A device is never left marked as being asked for an update: a later request is
\* refused only while another one is under way.
ClaimReleased == inFlight => \E c \in Clients : post[c].at \in {"reading", "asking", "checking"}

\* When edits, checks and failures end, so does every wait, and the page shows the device
\* as it is: a stale answer, an edit during a refresh or a refresh that failed leaves nothing
\* behind.  An update that was confirmed and then rolled back shows as failed.
Converged ==
  /\ ~page.pending /\ ~page.requesting /\ ~page.saving
  /\ page.status = IF pc.up THEN [row |-> row, ready |-> TRUE, version |-> pc.version, phase |-> pc.phase]
                            ELSE [row |-> row, ready |-> FALSE]
  /\ pc.up /\ page.said = "confirmed" => pc.version = 2 \/ pc.phase = "failed"
PageConverges == <>[]Converged
=============================================================================
