---------------------------- MODULE StatusRefresh ----------------------------
(***************************************************************************)
(* GET /api/devices/status: the pool that probes every listed device a few *)
(* at a time (checkDevicesStatus of server/core/remote.ts), the recording  *)
(* of its results (recordStatus of server/core/database.ts) and the lookup *)
(* of the latest Companion release that all refreshes share                *)
(* (createReleaseLookup of server/core/companion-updates.ts), while other  *)
(* requests edit and delete the devices.                                   *)
(*                                                                         *)
(* One Node process: a step is what runs between two awaits.  A row is its *)
(* version, which stands for updatedAt and for the data of that version    *)
(* (its MAC, address and secret); DeviceRequests looks into the rows.  A   *)
(* worker of the pool always has one probe under way until it ends, so the *)
(* workers of a refresh are the probes it is waiting for.                  *)
(***************************************************************************)
EXTENDS Integers, FiniteSets

CONSTANTS
  Ids,          \* devices, numbered in the order of their names
  Reqs,         \* refreshes, each used once
  Concurrency,  \* workers of a pool
  FreshFor,     \* how long a release is kept
  RetryAfter,   \* how long an error is kept
  Null, Deleted,
  MaxVersion,   \* bound: versions of a row
  MaxTime       \* bound: the clock stops here

ASSUME RefreshAssumption ==
  /\ Concurrency \in Nat \ {0}
  /\ FreshFor \in Nat /\ RetryAfter \in Nat
  /\ Null \notin Int /\ Deleted \notin Int /\ Null \notin {"version", "error"}
  /\ MaxVersion \in Nat \ {0} /\ MaxTime \in Nat
  /\ IsFiniteSet(Ids) /\ Ids \subseteq Nat

VARIABLES
  rows,     \* Ids -> version, or Deleted
  clock,
  req,      \* Reqs -> the handler
  release,  \* the closure of createReleaseLookup: cached, expires, pending
  lookups,  \* history: requests to GitHub under way
  answered  \* history: the last answer of GitHub, and when

vars == <<rows, clock, req, release, lookups, answered>>

Version == 1..MaxVersion

NewReq == [pc |-> "new", list |-> <<>>, next |-> 1, running |-> {}, secret |-> <<>>,
           waits |-> FALSE, reply |-> {}]

TypeOK ==
  /\ rows \in [Ids -> Version \cup {Deleted}]
  /\ clock \in 0..MaxTime
  /\ \A r \in Reqs :
       /\ req[r].pc \in {"new", "probing", "answered", "failed"}
       /\ req[r].next \in 1..(Cardinality(Ids) + 1)
       /\ req[r].running \subseteq DOMAIN req[r].list
       /\ req[r].secret \in [DOMAIN req[r].list -> Version \cup {Null}]
       /\ req[r].waits \in BOOLEAN
       /\ req[r].reply \subseteq [id : Ids, version : Version, secret : Version \cup {Null}]
  /\ release \in [cached : {Null, "version", "error"}, expires : Nat, pending : BOOLEAN]
  /\ lookups \in Nat
  /\ answered \in [result : {Null, "version", "error"}, at : Nat]

Init ==
  /\ rows \in [Ids -> {1, Deleted}]
  /\ clock = 0
  /\ req = [r \in Reqs |-> NewReq]
  /\ release = [cached |-> Null, expires |-> 0, pending |-> FALSE]
  /\ lookups = 0
  /\ answered = [result |-> Null, at |-> 0]

Listed == {d \in Ids : rows[d] # Deleted}

\* list(): the rows in the order of their names.
List ==
  LET Position(d) == Cardinality({e \in Listed : e <= d})
  IN  [i \in 1..Cardinality(Listed) |->
         LET d == CHOOSE e \in Listed : Position(e) = i IN [id |-> d, version |-> rows[d]]]

-----------------------------------------------------------------------------
(***************************************************************************)
(* createReleaseLookup.                                                    *)
(***************************************************************************)
Fresh == release.cached # Null /\ clock < release.expires

\* A lookup that does not share the promise under way.
MustFetch == ~Fresh

MustAsk == ~Fresh /\ ~release.pending

\* A refresh whose list has a Companion asks for the release.
Ask ==
  IF MustAsk
  THEN /\ release' = [release EXCEPT !.pending = TRUE]
       /\ lookups' = lookups + 1
  ELSE UNCHANGED <<release, lookups>>

\* Only one of those that wait is told.
WokenOne(r) == \A s \in Reqs : req[s].waits => req[r].list = req[s].list

Woken(r) == TRUE

\* GitHub answers, or the request fails or is aborted after 5 seconds.
FetchDone ==
  /\ lookups > 0
  /\ lookups' = lookups - 1
  /\ \E result \in {"version", "error"} :
       /\ release' = [cached |-> result, pending |-> FALSE,
                      expires |-> clock + IF result = "version" THEN FreshFor ELSE RetryAfter]
       /\ answered' = [result |-> result, at |-> clock]
  /\ req' = [r \in Reqs |-> IF Woken(r) THEN [req[r] EXCEPT !.waits = FALSE] ELSE req[r]]
  /\ UNCHANGED <<rows, clock>>

-----------------------------------------------------------------------------
(***************************************************************************)
(* checkDevicesStatus.                                                     *)
(***************************************************************************)
\* The handler up to its first await: the list, the first workers, the release.
Start(r) ==
  /\ req[r].pc = "new"
  /\ \E companions \in IF Listed = {} THEN {FALSE} ELSE BOOLEAN :
       LET first == {i \in DOMAIN List : i <= Concurrency} IN
       /\ req' = [req EXCEPT ![r] =
            [NewReq EXCEPT !.pc = "probing", !.list = List,
                           !.next = Cardinality(first) + 1, !.running = first,
                           !.secret = [i \in DOMAIN List |->
                                         IF i \in first THEN List[i].version ELSE Null],
                           !.waits = companions /\ ~Fresh]]
       /\ IF companions THEN Ask ELSE UNCHANGED <<release, lookups>>
  /\ UNCHANGED <<rows, clock, answered>>

\* A probe ends, and its worker with it unless there is a next device.  The
\* secret of that one is read only now.  If the device is gone, the request
\* fails; the other workers go on, but nobody waits for what they find.
ProbeDone(r, i) ==
  LET R == req[r]
      more == R.next \in DOMAIN R.list
      row == rows[R.list[R.next].id]
  IN
  /\ i \in R.running
  /\ req' = [req EXCEPT ![r] =
       CASE ~more -> [R EXCEPT !.running = @ \ {i}]
         [] more /\ row # Deleted ->
              [R EXCEPT !.running = (@ \ {i}) \cup {R.next},
                        !.secret[R.next] = row, !.next = @ + 1]
         [] more /\ row = Deleted ->
              [NewReq EXCEPT !.pc = "failed"]]
  /\ UNCHANGED <<rows, clock, release, lookups, answered>>

\* Promise.race in the place of Promise.all.
FirstSettled(r) == Cardinality(req[r].running) < Concurrency

Settled(r) == req[r].running = {}

\* A recordStatus that takes whatever row has the id.
SameId(probed) == rows[probed.id] # Deleted

\* recordStatus finds the row the probe started from.
Recorded(probed) == rows[probed.id] = probed.version

Answer(r) ==
  LET R == req[r]
      Status(i) == [id |-> R.list[i].id, version |-> R.list[i].version, secret |-> R.secret[i]]
  IN
  /\ R.pc = "probing" /\ Settled(r) /\ ~R.waits
  /\ req' = [req EXCEPT ![r] = [NewReq EXCEPT !.pc = "answered", !.reply =
       {Status(i) : i \in {j \in DOMAIN R.list \ R.running : Recorded(R.list[j])}}]]
  /\ UNCHANGED <<rows, clock, release, lookups, answered>>

-----------------------------------------------------------------------------
(***************************************************************************)
(* The surroundings.                                                       *)
(***************************************************************************)
Edit(d) ==
  /\ rows[d] # Deleted /\ rows[d] < MaxVersion
  /\ rows' = [rows EXCEPT ![d] = @ + 1]
  /\ UNCHANGED <<clock, req, release, lookups, answered>>

Remove(d) ==
  /\ rows[d] # Deleted
  /\ rows' = [rows EXCEPT ![d] = Deleted]
  /\ UNCHANGED <<clock, req, release, lookups, answered>>

Tick ==
  /\ clock < MaxTime
  /\ clock' = clock + 1
  /\ UNCHANGED <<rows, req, release, lookups, answered>>

Handle(r) == Answer(r) \/ \E i \in req[r].running : ProbeDone(r, i)

Next ==
  \/ \E r \in Reqs : Start(r) \/ Handle(r)
  \/ FetchDone
  \/ \E d \in Ids : Edit(d) \/ Remove(d)
  \/ Tick

Spec == Init /\ [][Next]_vars

-----------------------------------------------------------------------------
\* A status that reaches the page was obtained from the address and with the
\* secret of one and the same version of the device, although the pool reads
\* the secrets one by one, long after the list (checkDevicesStatus,
\* recordStatus).
OneVersionPerStatus ==
  \A r \in Reqs : \A s \in req[r].reply : s.secret = s.version

\* A refresh answers for every device that is still as it was listed, whatever
\* the order in which the probes end (checkDevicesStatus, status.get.ts).
NobodyForgotten ==
  [][\A r \in Reqs :
       req[r].pc # "answered" /\ req'[r].pc = "answered" =>
         {s.id : s \in req'[r].reply} =
           {d \in Ids : \E i \in DOMAIN req[r].list :
                          req[r].list[i] = [id |-> d, version |-> rows[d]]}]_vars

\* GitHub is asked by one refresh at a time, and again only when the answer it
\* gave last has expired: 5 minutes for a release, 30 seconds for an error
\* (createReleaseLookup, companion/README.md on the shared lookup).
LookupsSpaced ==
  [][lookups' > lookups =>
       /\ lookups = 0
       /\ answered.result = "version" => clock >= answered.at + FreshFor
       /\ answered.result = "error" => clock >= answered.at + RetryAfter]_vars

\* A refresh never waits for a lookup that nobody makes: it shares one that is
\* under way, is woken with all the others that do, or has a fresh answer
\* (createReleaseLookup).
WaitsAreServed ==
  \A r \in Reqs : req[r].waits => lookups > 0
=============================================================================
