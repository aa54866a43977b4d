-------------------------- MODULE PanelPageProofs --------------------------
(***************************************************************************)
(* PanelPage keeps to its types, never leaves a device marked as being     *)
(* asked for an update, and never shows an older edit after a newer one,   *)
(* for any number of pages, edits, checks and faults.                      *)
(*                                                                         *)
(* The last one rests on OneRefresh: the page has at most one refresh      *)
(* under way, because refreshStatuses does nothing while one is, and that  *)
(* refresh began no earlier than the status it will replace.               *)
(***************************************************************************)
EXTENDS PanelPage, TLAPS

Get == [at: {"listed", "probed", "recorded"}, row: Rows, status: Status \cup {Null}]
Page == [status: Status \cup {Null}, refreshing: BOOLEAN, saving: BOOLEAN,
         pending: BOOLEAN, requesting: BOOLEAN, said: Said]

OneRefresh ==
  /\ \A g, h \in gets : g = h
  /\ gets # {} => page.refreshing
  /\ \A g \in gets : /\ g.row <= row
                     /\ g.status # Null => g.status.row = g.row
                     /\ page.status # Null => page.status.row <= g.row
  /\ page.status # Null => page.status.row <= row

Answers == {"scheduled", "checked", "error"}
AnswersOK == \A c \in Clients : post[c].at = "answered" => post[c].reply \in Answers

PageInv == TypeOK /\ OneRefresh /\ AnswersOK

\* A step that leaves the refreshes alone.
LEMMA SameRefresh ==
  ASSUME PageInv, page'.status = page.status, page'.refreshing = page.refreshing,
         UNCHANGED <<row, gets>>
  PROVE  OneRefresh'
BY DEF PageInv, OneRefresh

\* refreshStatuses, from any handler that leaves the page as p.
LEMMA RefreshKeeps ==
  ASSUME PageInv, NEW p \in Page, p.refreshing = page.refreshing,
         p.status \in {page.status, Null}, Refresh(p), UNCHANGED row
  PROVE  /\ page' \in Page /\ gets' \subseteq Get /\ OneRefresh'
         /\ page'.status = p.status
<1>0. row \in Rows /\ gets \subseteq Get /\ page \in Page
  BY DEF PageInv, TypeOK, Get, Page
<1>1. CASE p.refreshing
  <2>1. page' = p /\ UNCHANGED gets
    BY <1>1 DEF Refresh
  <2> QED BY <1>0, <2>1 DEF PageInv, OneRefresh
<1>2. CASE ~p.refreshing
  <2> DEFINE new == [at |-> "listed", row |-> row, status |-> Null]
             u == [p EXCEPT !.refreshing = TRUE]
  <2>1. gets = {}
    BY <1>2 DEF PageInv, OneRefresh
  <2>2. page' = u /\ gets' = {new}
    BY <1>2, <2>1 DEF Refresh
  <2>3. u \in Page /\ u.refreshing /\ u.status = p.status
    BY DEF Page
  <2>4. new \in Get /\ new.row = row /\ new.status = Null
    BY <1>0 DEF Get
  <2> HIDE DEF new, u
  <2>5. row \in Int
    BY <1>0 DEF Rows
  <2> QED BY <2>2, <2>3, <2>4, <2>5 DEF PageInv, OneRefresh
<1> QED BY <1>1, <1>2

\* The one refresh goes on.
LEMMA BecomesKeeps ==
  ASSUME PageInv, NEW g \in gets, NEW h \in Get, Becomes(g, h), h.row = g.row,
         h.status # Null => h.status.row = g.row,
         UNCHANGED <<row, page>>
  PROVE  gets' \subseteq Get /\ OneRefresh'
<1>1. gets' = {h}
  BY DEF Becomes, PageInv, OneRefresh
<1> QED BY <1>1 DEF PageInv, OneRefresh

LEMMA WatchedKeeps ==
  ASSUME NEW p \in Page
  PROVE  /\ Watched(p) \in Page
         /\ Watched(p).status = p.status /\ Watched(p).refreshing = p.refreshing
BY DEF Watched, Page, Said

-----------------------------------------------------------------------------
Posts == [Clients -> [at: {"none", "reading", "asking", "checking", "answered"},
                      reply: {Null, "scheduled", "checked", "error"}]]
PC == [up: BOOLEAN, version: {1, 2}, phase: Phases, by: Clients \cup {Null}]

\* TypeOK, part by part.
LEMMA Parts ==
  TypeOK <=> /\ row \in Rows /\ pc \in PC /\ inFlight \in BOOLEAN /\ post \in Posts
             /\ gets \subseteq Get /\ page \in Page
             /\ checks \in 0 .. MaxChecks /\ faults \in 0 .. MaxFaults
BY DEF TypeOK, PC, Posts, Get, Page

LEMMA PartsPrimed ==
  ASSUME row' \in Rows, pc' \in PC, inFlight' \in BOOLEAN, post' \in Posts,
         gets' \subseteq Get, page' \in Page,
         checks' \in 0 .. MaxChecks, faults' \in 0 .. MaxFaults
  PROVE  TypeOK'
BY DEF TypeOK, PC, Posts, Get, Page

LEMMA FaultType ==
  ASSUME TypeOK, Fault \/ UNCHANGED faults
  PROVE  faults' \in 0 .. MaxFaults
BY PageAssumption DEF Fault, TypeOK

LEMMA EndType ==
  ASSUME TypeOK, NEW c \in Clients, NEW reply \in Answers, End(c, reply), AnswersOK
  PROVE  post' \in Posts /\ inFlight' = FALSE /\ AnswersOK'
BY Parts DEF End, Posts, Answers, AnswersOK

LEMMA SamePosts == AnswersOK /\ UNCHANGED post => AnswersOK'
BY DEF AnswersOK

LEMMA RefreshStepKeeps ==
  ASSUME PageInv, StatusTimer \/ Poll \/ DeviceSaved
  PROVE  PageInv'
<1>0. TypeOK /\ page \in Page
  BY Parts DEF PageInv
<1>1. CASE StatusTimer \/ Poll
  <2>1. Refresh(page) /\ UNCHANGED <<row, pc, inFlight, post, checks, faults>>
    BY <1>1 DEF StatusTimer, Poll
  <2>2. page' \in Page /\ gets' \subseteq Get /\ OneRefresh'
    BY <1>0, <2>1, RefreshKeeps
  <2> QED BY <1>0, <2>1, <2>2, Parts, PartsPrimed, SamePosts DEF PageInv
<1>2. CASE DeviceSaved
  <2> DEFINE p == [page EXCEPT !.saving = FALSE, !.status = Null]
  <2>1. Refresh(p) /\ UNCHANGED <<row, pc, inFlight, post, checks, faults>>
    BY <1>2 DEF DeviceSaved
  <2>2. p \in Page /\ p.refreshing = page.refreshing /\ p.status = Null
    BY <1>0 DEF Page
  <2> HIDE DEF p
  <2>3. page' \in Page /\ gets' \subseteq Get /\ OneRefresh'
    BY <2>1, <2>2, RefreshKeeps
  <2> QED BY <1>0, <2>1, <2>3, Parts, PartsPrimed, SamePosts DEF PageInv
<1> QED BY <1>1, <1>2

LEMMA AnswerKeeps ==
  ASSUME PageInv, NEW g \in gets, Probe(g) \/ Record(g) \/ ShowStatus(g) \/ RefreshFails(g)
  PROVE  PageInv'
<1>0. TypeOK /\ page \in Page /\ g \in Get /\ pc \in PC /\ row \in Rows
  BY Parts DEF PageInv
<1>1. CASE Probe(g)
  <2> DEFINE status == IF pc.up THEN [row |-> g.row, ready |-> TRUE, version |-> pc.version, phase |-> pc.phase]
                                ELSE [row |-> g.row, ready |-> FALSE]
             h == [g EXCEPT !.at = "probed", !.status = status]
  <2>1. status \in Status /\ status.row = g.row
    BY <1>0 DEF Get, Status, PC
  <2> HIDE DEF status
  <2>2. h \in Get /\ h.row = g.row /\ h.status = status
    BY <1>0, <2>1 DEF Get
  <2>3. Becomes(g, h) /\ UNCHANGED <<row, pc, inFlight, post, page, checks, faults>>
    BY <1>1 DEF Probe, status
  <2> HIDE DEF h
  <2>4. gets' \subseteq Get /\ OneRefresh'
    BY <2>1, <2>2, <2>3, BecomesKeeps
  <2> QED BY <1>0, <2>3, <2>4, Parts, PartsPrimed, SamePosts DEF PageInv
<1>2. CASE Record(g)
  <2> DEFINE status == IF g.row = row THEN g.status ELSE Null
             h == [g EXCEPT !.at = "recorded", !.status = status]
  <2>1. status \in Status \cup {Null} /\ (status # Null => status.row = g.row)
    BY <1>0 DEF Get, PageInv, OneRefresh
  <2>2. Becomes(g, h) /\ UNCHANGED <<row, pc, inFlight, post, page, checks, faults>>
    BY <1>0, <1>2 DEF Record, Get
  <2> HIDE DEF status
  <2>3. h \in Get /\ h.row = g.row /\ h.status = status
    BY <1>0, <2>1 DEF Get
  <2> HIDE DEF h
  <2>4. gets' \subseteq Get /\ OneRefresh'
    BY <2>1, <2>2, <2>3, BecomesKeeps
  <2> QED BY <1>0, <2>2, <2>4, Parts, PartsPrimed, SamePosts DEF PageInv
<1>3. CASE ShowStatus(g)
  <2> DEFINE p == [page EXCEPT !.status = g.status, !.refreshing = FALSE]
  <2>1. p \in Page /\ p.status = g.status /\ p.refreshing = FALSE
    BY <1>0 DEF Page, Get
  <2>2. page' = Watched(p) /\ gets' = gets \ {g} /\ UNCHANGED <<row, pc, inFlight, post, checks, faults>>
    BY <1>3 DEF ShowStatus
  <2> HIDE DEF p
  <2>3. page' \in Page /\ page'.status = g.status
    BY <2>1, <2>2, WatchedKeeps
  <2>4. gets' = {}
    BY <2>2 DEF PageInv, OneRefresh
  <2>5. OneRefresh'
    BY <2>2, <2>3, <2>4 DEF PageInv, OneRefresh
  <2> QED BY <1>0, <2>2, <2>3, <2>4, <2>5, Parts, PartsPrimed, SamePosts DEF PageInv
<1>4. CASE RefreshFails(g)
  <2> DEFINE p == [page EXCEPT !.refreshing = FALSE]
  <2>1. p \in Page /\ p.status = page.status
    BY <1>0 DEF Page
  <2>2. page' = p /\ gets' = {} /\ UNCHANGED <<row, pc, inFlight, post, checks>> /\ Fault
    BY <1>4 DEF RefreshFails, PageInv, OneRefresh
  <2> HIDE DEF p
  <2>3. OneRefresh'
    BY <2>1, <2>2 DEF PageInv, OneRefresh
  <2> QED BY <1>0, <2>1, <2>2, <2>3, FaultType, Parts, PartsPrimed, SamePosts DEF PageInv
<1> QED BY <1>1, <1>2, <1>3, <1>4

\* Edits and the end of a wait change the page, not its status.
LEMMA EditKeeps ==
  ASSUME PageInv, SaveDevice \/ SavedLost \/ Expire
  PROVE  PageInv'
<1>0. TypeOK /\ page \in Page /\ row \in Rows /\ row \in Int
  BY Parts DEF PageInv, Rows
<1>1. ASSUME NEW p \in Page, page' = p, p.status = page.status, p.refreshing = page.refreshing,
             row' \in Rows, row' >= row, UNCHANGED <<pc, inFlight, post, gets, checks>>,
             Fault \/ UNCHANGED faults
      PROVE  PageInv'
  <2>1. OneRefresh'
    <3>1. \A g \in gets : g.row \in Int
      BY Parts, <1>0 DEF Get, Rows
    <3>2. page.status # Null => page.status.row \in Int
      <4>1. \A status \in Status : status.row \in Rows
        BY DEF Status
      <4>2. Rows \subseteq Int
        BY PageAssumption DEF Rows
      <4> QED BY <1>0, <4>1, <4>2 DEF Page
    <3>3. row' \in Int
      BY <1>1 DEF Rows
    <3> QED BY <1>0, <1>1, <3>1, <3>2, <3>3 DEF PageInv, OneRefresh
  <2> QED BY <1>0, <1>1, <2>1, FaultType, Parts, PartsPrimed, SamePosts DEF PageInv
<1>2. CASE SaveDevice
  <2>1. [page EXCEPT !.saving = TRUE] \in Page
    BY <1>0 DEF Page
  <2>2. row' \in Rows /\ row' >= row
    BY <1>0, <1>2, PageAssumption DEF SaveDevice, Rows
  <2> QED BY <1>0, <1>1, <1>2, <2>1, <2>2 DEF SaveDevice, Page
<1>3. CASE SavedLost
  <2>1. [page EXCEPT !.saving = FALSE] \in Page
    BY <1>0 DEF Page
  <2> QED BY <1>0, <1>1, <1>3, <2>1 DEF SavedLost, Page
<1>4. CASE Expire
  <2> DEFINE p == [page EXCEPT !.pending = FALSE, !.said = "unconfirmed"]
  <2>1. p \in Page /\ p.status = page.status /\ p.refreshing = page.refreshing
    BY <1>0 DEF Page, Said
  <2>2. page' = p /\ UNCHANGED <<row, pc, inFlight, post, gets, checks, faults>>
    BY <1>4 DEF Expire
  <2>3. row' \in Rows /\ row' >= row
    BY <1>0, <2>2
  <2> HIDE DEF p
  <2> QED BY <1>1, <2>1, <2>2, <2>3
<1> QED BY <1>2, <1>3, <1>4

-----------------------------------------------------------------------------
(* Requests to update and the Companion.  Claimed is what ClaimReleased says. *)

Busy(c) == post[c].at \in {"reading", "asking", "checking"}

LEMMA RequestKeeps ==
  ASSUME PageInv, ClaimReleased, Click \/ OtherClick
  PROVE  PageInv' /\ ClaimReleased'
<1>0. /\ TypeOK /\ page \in Page /\ post \in Posts /\ inFlight \in BOOLEAN
      /\ checks \in 0 .. MaxChecks
  BY Parts DEF PageInv
<1>1. PICK c \in Clients : Asked(c)
  BY PageAssumption DEF Click, OtherClick
<1>2. checks' \in 0 .. MaxChecks /\ UNCHANGED <<row, pc, gets, faults>> /\ post[c] = NoPost
  BY <1>0, <1>1, PageAssumption DEF Asked
<1>3. /\ page' \in Page /\ page'.status = page.status /\ page'.refreshing = page.refreshing
  <2>1. [page EXCEPT !.requesting = TRUE, !.said = "nothing"] \in Page
    BY <1>0 DEF Page, Said
  <2> QED BY <1>0, <2>1 DEF Click, OtherClick, Page
<1>4. post' \in Posts /\ inFlight' \in BOOLEAN /\ ClaimReleased' /\ AnswersOK'
  <2>1. CASE inFlight
    <3>1. post' = [post EXCEPT ![c] = [at |-> "answered", reply |-> "error"]] /\ UNCHANGED inFlight
      BY <1>1, <2>1 DEF Asked
    <3>2. post' \in Posts /\ AnswersOK'
      BY <1>0, <3>1 DEF Posts, PageInv, AnswersOK, Answers
    <3>3. PICK e \in Clients : Busy(e)
      BY <2>1 DEF ClaimReleased, Busy
    <3>4. e # c
      BY <1>2, <3>3 DEF NoPost, Busy
    <3>5. post'[e] = post[e]
      BY <1>0, <3>1, <3>4 DEF Posts
    <3> QED BY <1>0, <3>1, <3>2, <3>3, <3>5 DEF ClaimReleased, Busy
  <2>2. CASE ~inFlight
    <3>1. post' = [post EXCEPT ![c].at = "reading"] /\ inFlight' = TRUE
      BY <1>1, <2>2 DEF Asked
    <3>2. post' \in Posts /\ post'[c].at = "reading" /\ AnswersOK'
      BY <1>0, <3>1 DEF Posts, PageInv, AnswersOK
    <3> QED BY <3>1, <3>2 DEF ClaimReleased
  <2> QED BY <2>1, <2>2
<1>5. OneRefresh'
  BY <1>2, <1>3, SameRefresh
<1> QED BY <1>0, <1>2, <1>3, <1>4, <1>5, Parts, PartsPrimed DEF PageInv

\* The rest of a request, and the Companion's answer to it, leave the page as it is.
LEMMA SamePageKeeps ==
  ASSUME PageInv, UNCHANGED <<row, page, gets>>, pc' \in PC, inFlight' \in BOOLEAN, post' \in Posts,
         AnswersOK', checks' \in 0 .. MaxChecks, faults' \in 0 .. MaxFaults
  PROVE  PageInv'
BY Parts, PartsPrimed, SameRefresh DEF PageInv

LEMMA HandlerKeeps ==
  ASSUME PageInv, ClaimReleased, NEW c \in Clients, ReadStatus(c) \/ AskCompanion(c) \/ NoAnswer(c)
  PROVE  PageInv' /\ ClaimReleased'
<1>0. /\ TypeOK /\ post \in Posts /\ inFlight \in BOOLEAN /\ pc \in PC
      /\ checks \in 0 .. MaxChecks /\ faults \in 0 .. MaxFaults
  BY Parts DEF PageInv
<1>1. UNCHANGED <<row, page, gets, checks>> /\ faults' \in 0 .. MaxFaults
  BY <1>0, FaultType DEF ReadStatus, AskCompanion, NoAnswer
<1>2. ASSUME NEW reply \in Answers, End(c, reply), pc' \in PC
      PROVE  PageInv' /\ ClaimReleased'
  <2>1. post' \in Posts /\ inFlight' = FALSE /\ AnswersOK'
    BY <1>0, <1>2, EndType DEF PageInv
  <2> QED BY <1>0, <1>1, <1>2, <2>1, SamePageKeeps DEF ClaimReleased
<1>3. ASSUME NEW at \in {"asking", "checking"}, post' = [post EXCEPT ![c].at = at],
             UNCHANGED inFlight, pc' \in PC
      PROVE  PageInv' /\ ClaimReleased'
  <2>1. post' \in Posts /\ post'[c].at = at /\ AnswersOK'
    BY <1>0, <1>3 DEF Posts, PageInv, AnswersOK
  <2> QED BY <1>0, <1>1, <1>3, <2>1, SamePageKeeps DEF ClaimReleased
<1>4. CASE ReadStatus(c)
  BY <1>0, <1>2, <1>3, <1>4 DEF ReadStatus, Answers
<1>5. CASE AskCompanion(c)
  <2>1. [pc EXCEPT !.phase = "checking", !.by = c] \in PC
    BY <1>0 DEF PC, Phases
  <2> QED BY <1>0, <1>2, <1>3, <1>5, <2>1 DEF AskCompanion, Answers
<1>6. CASE NoAnswer(c)
  BY <1>0, <1>2, <1>6 DEF NoAnswer, Answers
<1> QED BY <1>4, <1>5, <1>6

LEMMA AnsweredKeeps ==
  ASSUME PageInv, ClaimReleased, NEW c \in Clients, PostAnswered(c)
  PROVE  PageInv' /\ ClaimReleased' /\ (page'.status = page.status)
<1>0. TypeOK /\ post \in Posts /\ page \in Page /\ inFlight \in BOOLEAN
  BY Parts DEF PageInv
<1>1. /\ post[c].at = "answered" /\ post' = [post EXCEPT ![c] = NoPost]
      /\ UNCHANGED <<row, pc, inFlight, checks, faults>>
  BY DEF PostAnswered
<1>2. post' \in Posts /\ AnswersOK'
  BY <1>0, <1>1 DEF Posts, NoPost, PageInv, AnswersOK
<1>3. ClaimReleased'
  <2>1. \A e \in Clients : Busy(e) => post'[e] = post[e]
    BY <1>0, <1>1 DEF Busy, Posts
  <2> QED BY <1>1, <2>1 DEF ClaimReleased, Busy
<1>4. page' \in Page /\ gets' \subseteq Get /\ OneRefresh' /\ page'.status = page.status
  <2>1. CASE c # Here
    BY <1>0, <1>1, <2>1, Parts, SameRefresh DEF PostAnswered
  <2>2. CASE c = Here
    <3> DEFINE done == [page EXCEPT !.requesting = FALSE]
               waits == [done EXCEPT !.pending = TRUE]
               says == [done EXCEPT !.said = post[c].reply]
    <3>1. Refresh(IF post[c].reply = "scheduled" THEN waits ELSE says)
      BY <2>2 DEF PostAnswered
    <3>2. post[c].reply \in Answers
      BY <1>1 DEF PageInv, AnswersOK
    <3>3. waits \in Page /\ waits.refreshing = page.refreshing /\ waits.status = page.status
      BY <1>0 DEF Page
    <3>4. post[c].reply # "scheduled" =>
            says \in Page /\ says.refreshing = page.refreshing /\ says.status = page.status
      BY <1>0, <3>2 DEF Page, Said, Answers
    <3> HIDE DEF waits, says
    <3>5. PICK p \in {waits, says} : /\ Refresh(p) /\ p \in Page
                                    /\ p.refreshing = page.refreshing /\ p.status = page.status
      BY <3>1, <3>3, <3>4
    <3> QED BY <1>1, <3>5, RefreshKeeps
  <2> QED BY <2>1, <2>2
<1> QED BY <1>0, <1>1, <1>2, <1>3, <1>4, Parts, PartsPrimed DEF PageInv

LEMMA CompanionKeeps ==
  ASSUME PageInv, ClaimReleased, OwnCheck \/ Checked \/ Work \/ ServiceStarts \/ TurnedOff
  PROVE  PageInv' /\ ClaimReleased'
<1>0. /\ TypeOK /\ post \in Posts /\ inFlight \in BOOLEAN /\ pc \in PC
      /\ checks \in 0 .. MaxChecks /\ faults \in 0 .. MaxFaults
  BY Parts DEF PageInv
<1>1. ASSUME pc' \in PC, UNCHANGED <<row, page, gets, inFlight, post>>,
             checks' \in 0 .. MaxChecks, faults' \in 0 .. MaxFaults
      PROVE  PageInv' /\ ClaimReleased'
  BY <1>0, <1>1, SamePageKeeps, SamePosts DEF PageInv, ClaimReleased
<1>2. CASE OwnCheck
  <2>1. [pc EXCEPT !.phase = "checking", !.by = Null] \in PC
    BY <1>0 DEF PC, Phases
  <2>2. checks' \in 0 .. MaxChecks
    BY <1>0, <1>2, PageAssumption DEF OwnCheck
  <2> QED BY <1>0, <1>1, <1>2, <2>1, <2>2 DEF OwnCheck, PanelUnchanged
<1>3. CASE Checked
  <2>1. PICK outcome \in {"failed", IF pc.version = 2 THEN "idle" ELSE "working"} :
          /\ pc' = [pc EXCEPT !.phase = outcome, !.by = Null]
          /\ IF pc.by # Null /\ post[pc.by].at = "checking"
               THEN End(pc.by, CASE outcome = "failed" -> "error"
                                 [] outcome = "idle" -> "checked"
                                 [] OTHER -> "scheduled")
               ELSE UNCHANGED <<post, inFlight>>
    BY <1>3 DEF Checked
  <2>2. pc' \in PC
    BY <1>0, <2>1 DEF PC, Phases
  <2>3. UNCHANGED <<row, page, gets, checks, faults>>
    BY <1>3 DEF Checked, PanelUnchanged
  <2>4. CASE UNCHANGED <<post, inFlight>>
    BY <1>0, <1>1, <2>2, <2>3, <2>4
  <2>5. CASE ~UNCHANGED <<post, inFlight>>
    <3> DEFINE reply == CASE outcome = "failed" -> "error"
                          [] outcome = "idle" -> "checked"
                          [] OTHER -> "scheduled"
    <3>1. pc.by \in Clients /\ End(pc.by, reply)
      BY <1>0, <2>1, <2>5 DEF PC
    <3>2. reply \in Answers
      BY DEF Answers
    <3> HIDE DEF reply
    <3>3. post' \in Posts /\ inFlight' = FALSE /\ AnswersOK'
      BY <1>0, <3>1, <3>2, EndType DEF PageInv
    <3> QED BY <1>0, <2>2, <2>3, <3>3, SamePageKeeps DEF ClaimReleased
  <2> QED BY <2>4, <2>5
<1>4. CASE Work
  <2>1. /\ \E isUp \in BOOLEAN, version \in {1, 2}, phase \in Phases :
             pc' = [pc EXCEPT !.up = isUp, !.version = version, !.phase = phase]
        /\ UNCHANGED <<row, page, gets, inFlight, post, checks, faults>>
    <3>1. pc.up \in BOOLEAN /\ pc.version \in {1, 2} /\ pc.phase \in Phases
      BY <1>0 DEF PC
    <3>2. ASSUME pc.up, pc.version = 1, pc' = [pc EXCEPT !.up = FALSE, !.version = 2]
          PROVE  pc' = [pc EXCEPT !.up = FALSE, !.version = 2, !.phase = pc.phase]
      BY <1>0, <3>2 DEF PC
    <3>3. ASSUME pc.up, pc.version = 2, pc' = [pc EXCEPT !.phase = "idle"]
          PROVE  pc' = [pc EXCEPT !.up = TRUE, !.version = 2, !.phase = "idle"]
      BY <1>0, <3>3 DEF PC
    <3>4. "idle" \in Phases /\ "failed" \in Phases
      BY DEF Phases
    <3> QED BY <1>4, <3>1, <3>2, <3>3, <3>4 DEF Work, PanelUnchanged
  <2>2. pc' \in PC
    BY <1>0, <2>1 DEF PC
  <2> QED BY <1>0, <1>1, <2>1, <2>2
<1>5. CASE ServiceStarts
  <2>1. [pc EXCEPT !.up = TRUE] \in PC
    BY <1>0 DEF PC
  <2> QED BY <1>0, <1>1, <1>5, <2>1 DEF ServiceStarts, PanelUnchanged
<1>6. CASE TurnedOff
  <2>1. pc' \in PC
    BY <1>0, <1>6 DEF TurnedOff, PC, Phases
  <2>2. faults' \in 0 .. MaxFaults
    BY <1>0, <1>6, FaultType DEF TurnedOff
  <2> QED BY <1>0, <1>1, <1>6, <2>1, <2>2 DEF TurnedOff, PanelUnchanged
<1> QED BY <1>2, <1>3, <1>4, <1>5, <1>6

-----------------------------------------------------------------------------
LEMMA InitKeeps == Init => PageInv /\ ClaimReleased
<1> SUFFICES ASSUME Init PROVE PageInv /\ ClaimReleased
  OBVIOUS
<1>1. pc \in PC
  BY DEF Init, PC, Phases
<1>2. post \in Posts /\ AnswersOK
  BY DEF Init, NoPost, Posts, AnswersOK
<1>3. page \in Page /\ row \in Rows /\ checks \in 0 .. MaxChecks /\ faults \in 0 .. MaxFaults
  BY PageAssumption DEF Init, Page, Said, Rows
<1>4. OneRefresh /\ ClaimReleased /\ gets \subseteq Get /\ inFlight \in BOOLEAN
  BY DEF Init, OneRefresh, ClaimReleased
<1> QED BY <1>1, <1>2, <1>3, <1>4, Parts DEF PageInv

LEMMA NextKeeps == PageInv /\ ClaimReleased /\ [Next]_vars => PageInv' /\ ClaimReleased'
<1> SUFFICES ASSUME PageInv, ClaimReleased, [Next]_vars PROVE PageInv' /\ ClaimReleased'
  OBVIOUS
<1>s. UNCHANGED <<post, inFlight>> => ClaimReleased'
  BY DEF ClaimReleased
<1>1. ASSUME StatusTimer \/ Poll \/ DeviceSaved PROVE PageInv' /\ ClaimReleased'
  BY <1>1, <1>s, RefreshStepKeeps DEF StatusTimer, Poll, DeviceSaved
<1>2. ASSUME NEW g \in gets, Probe(g) \/ Record(g) \/ ShowStatus(g) \/ RefreshFails(g)
      PROVE  PageInv' /\ ClaimReleased'
  BY <1>2, <1>s, AnswerKeeps DEF Probe, Record, ShowStatus, RefreshFails
<1>3. ASSUME SaveDevice \/ SavedLost \/ Expire PROVE PageInv' /\ ClaimReleased'
  BY <1>3, <1>s, EditKeeps DEF SaveDevice, SavedLost, Expire
<1>4. ASSUME Click \/ OtherClick PROVE PageInv' /\ ClaimReleased'
  BY <1>4, RequestKeeps
<1>5. ASSUME NEW c \in Clients, Handler(c) \/ NoAnswer(c) PROVE PageInv' /\ ClaimReleased'
  BY <1>5, HandlerKeeps, AnsweredKeeps DEF Handler
<1>6. ASSUME OwnCheck \/ Checked \/ Work \/ ServiceStarts \/ TurnedOff PROVE PageInv' /\ ClaimReleased'
  BY <1>6, CompanionKeeps
<1>7. ASSUME UNCHANGED vars PROVE PageInv' /\ ClaimReleased'
  <2>1. UNCHANGED <<row, pc, inFlight, post, gets, page, checks, faults>>
    BY <1>7 DEF vars
  <2> QED BY <2>1, <1>s DEF PageInv, TypeOK, OneRefresh, AnswersOK
<1> QED BY <1>1, <1>2, <1>3, <1>4, <1>5, <1>6, <1>7 DEF Next, Refreshes

\* Only an answer of a refresh changes the edit the page shows, and OneRefresh orders them.
LEMMA NeverOlderStep ==
  ASSUME PageInv, ClaimReleased, [Next]_vars, page.status # Null, page'.status # Null
  PROVE  page'.status.row >= page.status.row
<1>0. /\ page \in Page /\ page.status \in Status /\ page.status.row \in Int
      /\ \A status \in Status : status.row \in Int
      /\ \A g \in gets : g.row \in Int
  <2>1. \A status \in Status : status.row \in Rows
    BY DEF Status
  <2>2. Rows \subseteq Int
    BY PageAssumption DEF Rows
  <2>3. page \in Page /\ gets \subseteq Get
    BY Parts DEF PageInv
  <2> QED BY <2>1, <2>2, <2>3 DEF Page, Get
<1>1. ASSUME page'.status = page.status PROVE page'.status.row >= page.status.row
  BY <1>0, <1>1
<1>2. ASSUME NEW g \in gets, ShowStatus(g) PROVE page'.status.row >= page.status.row
  <2> DEFINE p == [page EXCEPT !.status = g.status, !.refreshing = FALSE]
  <2>1. g \in Get
    BY Parts DEF PageInv
  <2>2. p \in Page /\ p.status = g.status
    BY <1>0, <2>1 DEF Page, Get
  <2>3. page' = Watched(p)
    BY <1>2 DEF ShowStatus
  <2> HIDE DEF p
  <2>4. page'.status = g.status
    BY <2>2, <2>3, WatchedKeeps
  <2> QED BY <1>0, <2>4 DEF PageInv, OneRefresh
<1>3. ASSUME NEW g \in gets, Probe(g) \/ Record(g) \/ RefreshFails(g)
      PROVE  page'.status.row >= page.status.row
  BY <1>0, <1>1, <1>3 DEF Probe, Record, RefreshFails, Page
<1>4. ASSUME StatusTimer \/ Poll PROVE page'.status.row >= page.status.row
  BY <1>0, <1>1, <1>4, RefreshKeeps DEF StatusTimer, Poll
<1>5. ASSUME DeviceSaved PROVE FALSE
  <2> DEFINE p == [page EXCEPT !.saving = FALSE, !.status = Null]
  <2>1. p \in Page /\ p.refreshing = page.refreshing /\ p.status = Null
    BY <1>0 DEF Page
  <2>2. Refresh(p) /\ UNCHANGED row
    BY <1>5 DEF DeviceSaved
  <2> HIDE DEF p
  <2> QED BY <2>1, <2>2, RefreshKeeps
<1>6. ASSUME SaveDevice \/ SavedLost \/ Expire PROVE page'.status.row >= page.status.row
  BY <1>0, <1>1, <1>6 DEF SaveDevice, SavedLost, Expire, Page
<1>7. ASSUME Click \/ OtherClick PROVE page'.status.row >= page.status.row
  BY <1>0, <1>1, <1>7 DEF Click, OtherClick, Page
<1>8. ASSUME NEW c \in Clients, Handler(c) \/ NoAnswer(c) PROVE page'.status.row >= page.status.row
  BY <1>1, <1>8, AnsweredKeeps DEF Handler, ReadStatus, AskCompanion, NoAnswer
<1>9. ASSUME OwnCheck \/ Checked \/ Work \/ ServiceStarts \/ TurnedOff \/ UNCHANGED vars
      PROVE  page'.status.row >= page.status.row
  BY <1>1, <1>9 DEF OwnCheck, Checked, Work, ServiceStarts, TurnedOff, PanelUnchanged, vars
<1> QED BY <1>2, <1>3, <1>4, <1>5, <1>6, <1>7, <1>8, <1>9 DEF Next, Refreshes

-----------------------------------------------------------------------------
\* The types, whatever is lost and whoever asks.
THEOREM TypeCorrect == Spec => []TypeOK
<1>1. PageInv => TypeOK
  BY DEF PageInv
<1> QED BY <1>1, InitKeeps, NextKeeps, PTL DEF Spec

\* updatesInFlight never keeps a device nobody is asking: lost answers, PCs turned off and
\* requests of other pages in between do not lock updates out.
THEOREM ClaimReleasedTheorem == Spec => []ClaimReleased
<1> QED BY InitKeeps, NextKeeps, PTL DEF Spec

\* The status on the page never goes back to an older edit of the device.
THEOREM StatusNeverOlderTheorem == Spec => StatusNeverOlder
<1>1. PageInv /\ ClaimReleased /\ [Next]_vars
        => [page.status # Null /\ page'.status # Null => page'.status.row >= page.status.row]_vars
  BY NeverOlderStep
<1> QED BY <1>1, InitKeeps, NextKeeps, PTL DEF Spec, StatusNeverOlder
=============================================================================
