------------------------- MODULE PanelUpdaterProofs -------------------------
(***************************************************************************)
(* Proofs about PanelUpdater, for every number of releases, schemas and    *)
(* runs of the script one after another: with signals, kills, reboots and  *)
(* failures between any two steps, the release behind `current' can always *)
(* open the data.                                                          *)
(*                                                                         *)
(* The invariant follows the data of the old release.  From the stop of    *)
(* the service to the start of the new one nobody opens the data, so it    *)
(* still fits the old release (Untouched); the rollback puts the link back *)
(* only then, or after the backup, which fits too, has replaced the data.  *)
(* StoreInv adds where the acknowledged changes are: a run overwrites only *)
(* data it has a copy of, and says it is done only of what serves.         *)
(***************************************************************************)
EXTENDS PanelUpdater, FiniteSetTheorems, TLAPS

Assumed == UpdaterAssumption /\ AtOnce = 1

Fits(dir, release) == Complete(dir) => dir.schema <= Schema[release]

BeforeSwitch == {"looking", "stopping", "backing", "installing", "linking"}

\* Stages in which the service is down and the data is as the stop left it.
Untouched(rec) ==
  \/ rec.pc \in {"backing", "installing", "linking", "marking", "attempting", "starting"}
  \/ rec.switched /\ rec.pc = "relinking"
  \/ rec.switched /\ ~rec.attempted /\ rec.pc = "rollback"

Down(rec) == Untouched(rec) \/ rec.pc \in {"moving", "extracting"}

\* What a run knows at each stage.
Flags(rec) ==
  /\ rec.attempted => rec.switched
  /\ rec.pc \in BeforeSwitch \cup {"new", "marking"} => ~rec.switched
  /\ rec.pc \in {"starting", "awaiting", "moving", "extracting"} => rec.attempted
  /\ rec.pc = "attempting" => rec.switched

\* The backup of a run that has made one fits the release it replaces.
BackedUp(rec) ==
  rec.attempted \/ rec.pc \in {"installing", "linking", "marking", "attempting"} =>
    Complete(rec.backup) /\ Fits(rec.backup, rec.old)

Known(rec) ==
  /\ rec.old <= published /\ rec.new <= published
  /\ Flags(rec)
  /\ BackedUp(rec)

Stage(rec) ==
  /\ rec.old <= current
  /\ rec.pc \in BeforeSwitch => current = rec.old
  /\ rec.pc \in BeforeSwitch \ {"looking"} => rec.old <= rec.new
  /\ Untouched(rec) => Fits(data, rec.old)
  /\ Down(rec) => ~Active

Alone ==
  \A u, v \in Updaters : Running(updater[u]) /\ Running(updater[v]) => u = v

\* The release that runs, or starts, is no newer than the link.
ServiceFits == Active => Schema[service.release] <= Schema[current]

BootInv ==
  /\ TypeOK
  /\ Alone
  /\ current <= published
  /\ AlwaysBootable
  /\ ServiceFits
  /\ \A u \in Updaters : Known(updater[u])
  /\ \A u \in Updaters : Running(updater[u]) => Stage(updater[u])

-----------------------------------------------------------------------------
ServiceRec == [state: {"stopped", "starting", "ready", "failed"}, release: Releases]

\* The facts about the constants in the form the provers use.
LEMMA SchemaFacts ==
  ASSUME Assumed
  PROVE  /\ \A r \in Releases : Schema[r] \in Nat
         /\ \A r, s \in Releases : r <= s => Schema[r] <= Schema[s]
         /\ \A r \in Releases : r \in Nat
BY DEF Assumed, UpdaterAssumption, Releases

\* Nobody else runs while a script does.
LEMMA OthersRest ==
  ASSUME BootInv, NEW u \in Updaters, Running(updater[u])
  PROVE  \A v \in Updaters \ {u} : ~Running(updater[v])
BY DEF BootInv, Alone

\* A step of one script, while no other runs, preserves the invariant if it
\* does so for that script, the service and the data.
LEMMA ScriptStep ==
  ASSUME BootInv, NEW u \in Updaters,
         \A v \in Updaters \ {u} : ~Running(updater[v]),
         updater' = [updater EXCEPT ![u] = updater'[u]], updater'[u] \in UpdaterRec,
         UNCHANGED <<published, writes>>, installed' \in SUBSET Releases,
         current' \in Releases, current' <= published, data' \in Directory,
         service' \in ServiceRec, AlwaysBootable', ServiceFits',
         Known(updater[u])', Running(updater[u])' => Stage(updater[u])'
  PROVE  BootInv'
<1>1. TypeOK'
  BY DEF BootInv, TypeOK, ServiceRec
<1>2. \A v \in Updaters \ {u} : updater'[v] = updater[v]
  BY DEF BootInv, TypeOK
<1>3. Alone'
  BY <1>2 DEF Alone, Running
<1>4. \A v \in Updaters : Known(updater[v])'
  <2>1. ASSUME NEW v \in Updaters \ {u} PROVE Known(updater[v])'
    <3>1. Known(updater[v])
      BY DEF BootInv
    <3> QED BY <1>2, <3>1 DEF Known, Flags, BackedUp, Fits
  <2> QED BY <2>1
<1>5. \A v \in Updaters : Running(updater[v])' => Stage(updater[v])'
  BY <1>2 DEF Running
<1> QED BY <1>1, <1>3, <1>4, <1>5 DEF BootInv

\* What is known of a script that is running.
LEMMA RunningFacts ==
  ASSUME Assumed, BootInv, NEW u \in Updaters, Running(updater[u])
  PROVE  /\ updater[u] \in UpdaterRec /\ Known(updater[u]) /\ Stage(updater[u])
         /\ current \in Releases /\ published \in Releases /\ current <= published
         /\ data \in Directory /\ installed \in SUBSET Releases
         /\ service \in ServiceRec /\ AlwaysBootable /\ ServiceFits
         /\ updater \in [Updaters -> UpdaterRec]
BY DEF BootInv, TypeOK, ServiceRec

\* A run that rolls back, or gives up before it has stopped anything.
LEMMA CleanupFacts ==
  ASSUME NEW rec \in UpdaterRec, Running(rec)
  PROVE  /\ Cleanup(rec) \in UpdaterRec
         /\ Cleanup(rec).pc \in {"rollback", "ended"}
         /\ Cleanup(rec).old = rec.old /\ Cleanup(rec).new = rec.new
         /\ Cleanup(rec).switched = rec.switched /\ Cleanup(rec).attempted = rec.attempted
         /\ Cleanup(rec).backup = rec.backup
BY DEF Cleanup, End, UpdaterRec, Main, Rollback

\* The end of a run keeps what it knows.
LEMMA EndFacts ==
  ASSUME NEW rec \in UpdaterRec, NEW told \in {"refused", "current", "updated", "restored", "incomplete", "killed"}
  PROVE  /\ End(rec, told) \in UpdaterRec
         /\ End(rec, told).pc = "ended"
         /\ End(rec, told).old = rec.old /\ End(rec, told).new = rec.new
         /\ End(rec, told).switched = rec.switched /\ End(rec, told).attempted = rec.attempted
         /\ End(rec, told).backup = rec.backup
BY DEF End, UpdaterRec

\* A run whose next command fails, or which is signalled, turns to its cleanup.
LEMMA CleanupStep ==
  ASSUME Assumed, BootInv, NEW u \in Updaters, NEW rec \in UpdaterRec,
         updater[u].pc \in Main,
         rec.pc = updater[u].pc, rec.old = updater[u].old, rec.new = updater[u].new,
         rec.switched = updater[u].switched, rec.attempted = updater[u].attempted,
         rec.backup = updater[u].backup \/ updater[u].pc = "backing",
         Set(u, Cleanup(rec)), service' \in {service, Halted},
         UNCHANGED <<published, writes, current, data>>,
         installed' \in SUBSET Releases
  PROVE  BootInv'
<1>1. Running(updater[u]) /\ Running(rec)
  BY DEF Running, Main
<1>2. /\ updater[u] \in UpdaterRec /\ Known(updater[u]) /\ Stage(updater[u])
      /\ current \in Releases /\ current <= published /\ data \in Directory
      /\ service \in ServiceRec /\ AlwaysBootable /\ ServiceFits
      /\ updater \in [Updaters -> UpdaterRec]
  BY <1>1, RunningFacts
<1>3. /\ Cleanup(rec) \in UpdaterRec
      /\ Cleanup(rec).pc \in {"rollback", "ended"}
      /\ Cleanup(rec).old = rec.old /\ Cleanup(rec).new = rec.new
      /\ Cleanup(rec).switched = rec.switched /\ Cleanup(rec).attempted = rec.attempted
      /\ Cleanup(rec).backup = rec.backup
  BY <1>1, CleanupFacts
<1>4. /\ updater' = [updater EXCEPT ![u] = updater'[u]] /\ updater'[u] = Cleanup(rec)
      /\ updater'[u] \in UpdaterRec
  BY <1>2, <1>3 DEF Set
<1>5. service' \in ServiceRec /\ (Active' => Active /\ service' = service)
  BY <1>2 DEF Halted, Active, ServiceRec
<1>6. AlwaysBootable' /\ ServiceFits'
  BY <1>2, <1>5 DEF AlwaysBootable, ServiceFits
<1>7. Known(updater[u])'
  BY <1>2, <1>3, <1>4 DEF Known, Flags, BackedUp, Fits, BeforeSwitch
<1>8. Stage(updater[u])'
  BY <1>2, <1>3, <1>4, <1>5 DEF Stage, Untouched, Down, Fits, BeforeSwitch, Known, Flags, Main
<1>9. \A v \in Updaters \ {u} : ~Running(updater[v])
  BY <1>1, OthersRest
<1> QED BY <1>2, <1>4, <1>5, <1>6, <1>7, <1>8, <1>9, ScriptStep

\* A run ends; the link, the data and the service stay fit for each other.
LEMMA EndStep ==
  ASSUME Assumed, BootInv, NEW u \in Updaters, NEW rec \in UpdaterRec,
         Running(updater[u]),
         NEW told \in {"refused", "current", "updated", "restored", "incomplete", "killed"},
         rec.old = updater[u].old, rec.new = updater[u].new,
         rec.switched = updater[u].switched, rec.attempted = updater[u].attempted,
         rec.backup = updater[u].backup, Set(u, End(rec, told)),
         UNCHANGED <<published, installed, writes, current>>,
         data' \in Directory, service' \in {service, Halted},
         AlwaysBootable'
  PROVE  BootInv'
<1>1. /\ updater[u] \in UpdaterRec /\ Known(updater[u])
      /\ current \in Releases /\ current <= published /\ installed \in SUBSET Releases
      /\ service \in ServiceRec /\ ServiceFits
      /\ updater \in [Updaters -> UpdaterRec]
  BY RunningFacts
<1>2. /\ End(rec, told) \in UpdaterRec
      /\ End(rec, told).pc = "ended"
      /\ End(rec, told).old = rec.old /\ End(rec, told).new = rec.new
      /\ End(rec, told).switched = rec.switched /\ End(rec, told).attempted = rec.attempted
      /\ End(rec, told).backup = rec.backup
  BY EndFacts
<1>3. /\ updater' = [updater EXCEPT ![u] = updater'[u]] /\ updater'[u] = End(rec, told)
      /\ updater'[u] \in UpdaterRec
  BY <1>1, <1>2 DEF Set
<1>4. service' \in ServiceRec /\ ServiceFits'
  BY <1>1 DEF Halted, Active, ServiceRec, ServiceFits
<1>5. Known(updater[u])' /\ ~Running(updater[u])'
  BY <1>1, <1>2, <1>3 DEF Known, Flags, BackedUp, Fits, BeforeSwitch, Running
<1>6. \A v \in Updaters \ {u} : ~Running(updater[v])
  BY OthersRest
<1> QED BY <1>1, <1>3, <1>4, <1>5, <1>6, ScriptStep

-----------------------------------------------------------------------------
\* A script takes the step to rec while the service stays as it is, or is down.
LEMMA AdvanceStep ==
  ASSUME Assumed, BootInv, NEW u \in Updaters, NEW rec \in UpdaterRec,
         Running(updater[u]), Set(u, rec),
         UNCHANGED <<published, writes>>, installed' \in SUBSET Releases,
         current' \in Releases, current' <= published, data' \in Directory,
         service' \in ServiceRec, AlwaysBootable', ServiceFits',
         rec.old = updater[u].old, rec.new <= published,
         Flags(rec), BackedUp(rec),
         rec.old <= current',
         rec.pc \in BeforeSwitch => current' = rec.old,
         rec.pc \in BeforeSwitch \ {"looking"} => rec.old <= rec.new,
         Untouched(rec) /\ Complete(data') => data'.schema <= Schema[rec.old],
         Down(rec) => service'.state \notin {"starting", "ready"}
  PROVE  BootInv'
<1>1. updater[u] \in UpdaterRec /\ Known(updater[u]) /\ updater \in [Updaters -> UpdaterRec]
  BY RunningFacts
<1>2. /\ updater' = [updater EXCEPT ![u] = updater'[u]] /\ updater'[u] = rec
      /\ updater'[u] \in UpdaterRec
  BY <1>1 DEF Set
<1>3. Known(updater[u])'
  BY <1>1, <1>2 DEF Known, Flags, BackedUp, Fits, Complete
<1>4. Stage(updater[u])'
  BY <1>2 DEF Stage, Untouched, Down, Fits, Complete, Active
<1>5. \A v \in Updaters \ {u} : ~Running(updater[v])
  BY OthersRest
<1> QED BY <1>2, <1>3, <1>4, <1>5, ScriptStep

\* The steps up to the installation of the new release.
LEMMA PreparingSteps ==
  ASSUME Assumed, BootInv, NEW u \in Updaters,
         Look(u) \/ StopOld(u) \/ Backup(u) \/ Install(u)
  PROVE  BootInv'
<1> DEFINE rec == updater[u]
<1>0. Running(rec) /\ rec.pc \in Main
  BY DEF Look, StopOld, Backup, Install, Running, Main
<1>1. /\ rec \in UpdaterRec /\ Known(rec) /\ Stage(rec)
      /\ current \in Releases /\ published \in Releases /\ current <= published
      /\ data \in Directory /\ installed \in SUBSET Releases
      /\ service \in ServiceRec /\ AlwaysBootable /\ ServiceFits
      /\ rec.old \in Releases /\ rec.new \in Releases /\ rec.old <= current
  BY <1>0, RunningFacts DEF UpdaterRec, Stage
<1>2. CASE Look(u)
  <2>1. UNCHANGED <<published, installed, current, data, writes, service>>
    BY <1>2 DEF Look
  <2>2. AlwaysBootable' /\ ServiceFits' /\ data' \in Directory
    BY <1>1, <2>1 DEF AlwaysBootable, ServiceFits, Active
  <2>3. CASE Set(u, Cleanup(rec))
    BY <1>0, <1>1, <2>1, <2>3, CleanupStep
  <2>4. CASE Set(u, End(rec, "current"))
    BY <1>0, <1>1, <2>1, <2>2, <2>4, EndStep
  <2>5. CASE published # rec.old /\ Set(u, [rec EXCEPT !.pc = "stopping", !.new = published])
    <3> DEFINE next == [rec EXCEPT !.pc = "stopping", !.new = published]
    <3>1. /\ next \in UpdaterRec /\ next.pc = "stopping" /\ next.old = rec.old
          /\ next.new = published /\ next.switched = rec.switched
          /\ next.attempted = rec.attempted /\ next.backup = rec.backup
      BY <1>1 DEF UpdaterRec, Main
    <3>2. rec.pc = "looking" /\ rec.old = current /\ published <= published
      BY <1>1, <1>2, SchemaFacts DEF Look, Stage, BeforeSwitch
    <3>3. Flags(next) /\ BackedUp(next) /\ ~Down(next)
      BY <1>1, <3>1, <3>2 DEF Known, Flags, BackedUp, Down, Untouched, BeforeSwitch
    <3> HIDE DEF next
    <3> QED BY <1>0, <1>1, <2>1, <2>2, <2>5, <3>1, <3>2, <3>3, AdvanceStep
            DEF BeforeSwitch, Down, next
  <2> QED BY <1>2, <2>3, <2>4, <2>5 DEF Look
<1>3. CASE StopOld(u)
  <2> DEFINE marked == [rec EXCEPT !.stopped = TRUE]
             next == [marked EXCEPT !.pc = "backing"]
  <2>1. UNCHANGED <<published, installed, current, data, writes>> /\ service' \in {service, Halted}
    BY <1>3 DEF StopOld
  <2>2. AlwaysBootable' /\ ServiceFits' /\ data' \in Directory /\ service' \in ServiceRec
    BY <1>1, <2>1 DEF AlwaysBootable, ServiceFits, Active, Halted, ServiceRec
  <2>3. /\ marked \in UpdaterRec /\ marked.pc = rec.pc /\ marked.old = rec.old
        /\ marked.new = rec.new /\ marked.switched = rec.switched
        /\ marked.attempted = rec.attempted /\ marked.backup = rec.backup
    BY <1>1 DEF UpdaterRec
  <2>4. CASE Set(u, Cleanup(marked))
    <3> HIDE DEF marked
    <3> QED BY <1>0, <1>1, <2>1, <2>3, <2>4, CleanupStep
  <2>5. CASE service'.state \notin {"starting", "ready"} /\ Set(u, next)
    <3>1. /\ next \in UpdaterRec /\ next.pc = "backing" /\ next.old = rec.old
          /\ next.new = rec.new /\ next.switched = rec.switched
          /\ next.attempted = rec.attempted /\ next.backup = rec.backup
      BY <1>1 DEF UpdaterRec, Main
    <3>2. rec.pc = "stopping" /\ rec.old = current /\ rec.old <= rec.new /\ rec.new <= published
      BY <1>1, <1>3 DEF StopOld, Stage, BeforeSwitch, Known
    <3>3. Flags(next) /\ BackedUp(next)
      BY <1>1, <3>1, <3>2 DEF Known, Flags, BackedUp, BeforeSwitch
    <3>4. Complete(data') => data'.schema <= Schema[next.old]
      BY <1>1, <2>1, <3>1, <3>2 DEF AlwaysBootable
    <3> HIDE DEF next
    <3> QED BY <1>0, <1>1, <2>1, <2>2, <2>5, <3>1, <3>2, <3>3, <3>4, AdvanceStep
            DEF BeforeSwitch
  <2> QED BY <1>3, <2>4, <2>5 DEF StopOld
<1>4. CASE Backup(u)
  <2>1. UNCHANGED <<published, installed, current, data, writes, service>> /\ rec.pc = "backing"
    BY <1>4 DEF Backup
  <2>2. AlwaysBootable' /\ ServiceFits' /\ data' \in Directory
    BY <1>1, <2>1 DEF AlwaysBootable, ServiceFits, Active
  <2>3. CASE Complete(data) /\ Set(u, [rec EXCEPT !.pc = "installing", !.backup = data])
    <3> DEFINE next == [rec EXCEPT !.pc = "installing", !.backup = data]
    <3>1. /\ next \in UpdaterRec /\ next.pc = "installing" /\ next.old = rec.old
          /\ next.new = rec.new /\ next.switched = rec.switched
          /\ next.attempted = rec.attempted /\ next.backup = data
      BY <1>1 DEF UpdaterRec, Main
    <3>2. /\ rec.old = current /\ rec.old <= rec.new /\ rec.new <= published
          /\ ~Active /\ Fits(data, rec.old)
      BY <1>1, <2>1 DEF Stage, BeforeSwitch, Known, Down, Untouched
    <3>3. Flags(next) /\ BackedUp(next)
      BY <1>1, <2>1, <2>3, <3>1, <3>2 DEF Known, Flags, BackedUp, BeforeSwitch
    <3> HIDE DEF next
    <3> QED BY <1>0, <1>1, <2>1, <2>2, <2>3, <3>1, <3>2, <3>3, AdvanceStep
            DEF BeforeSwitch, Fits, Active, next
  <2>4. CASE Set(u, Cleanup([rec EXCEPT !.backup = Partial]))
    <3> DEFINE half == [rec EXCEPT !.backup = Partial]
    <3>1. /\ half \in UpdaterRec /\ half.pc = rec.pc /\ half.old = rec.old
          /\ half.new = rec.new /\ half.switched = rec.switched
          /\ half.attempted = rec.attempted
      BY <1>1 DEF UpdaterRec, Directory
    <3> HIDE DEF half
    <3>2. Set(u, Cleanup(half))
      BY <2>4 DEF half
    <3> QED BY <1>0, <1>1, <2>1, <3>1, <3>2, CleanupStep
  <2> QED BY <1>4, <2>3, <2>4 DEF Backup
<1>5. CASE Install(u)
  <2>1. UNCHANGED <<published, current, data, writes, service>> /\ rec.pc = "installing"
    BY <1>5 DEF Install
  <2>2. AlwaysBootable' /\ ServiceFits' /\ data' \in Directory
    BY <1>1, <2>1 DEF AlwaysBootable, ServiceFits, Active
  <2>3. installed' \in SUBSET Releases
    BY <1>1, <1>5 DEF Install
  <2>4. CASE Set(u, [rec EXCEPT !.pc = "linking"])
    <3> DEFINE next == [rec EXCEPT !.pc = "linking"]
    <3>1. /\ next \in UpdaterRec /\ next.pc = "linking" /\ next.old = rec.old
          /\ next.new = rec.new /\ next.switched = rec.switched
          /\ next.attempted = rec.attempted /\ next.backup = rec.backup
      BY <1>1 DEF UpdaterRec, Main
    <3>2. /\ rec.old = current /\ rec.old <= rec.new /\ rec.new <= published
          /\ ~Active /\ Fits(data, rec.old)
      BY <1>1, <2>1 DEF Stage, BeforeSwitch, Known, Down, Untouched
    <3>3. Flags(next) /\ BackedUp(next)
      BY <1>1, <2>1, <3>1 DEF Known, Flags, BackedUp, Fits, BeforeSwitch
    <3> HIDE DEF next
    <3> QED BY <1>0, <1>1, <2>1, <2>2, <2>3, <2>4, <3>1, <3>2, <3>3, AdvanceStep
            DEF BeforeSwitch, Fits, Active, next
  <2>5. CASE Set(u, Cleanup(rec))
    BY <1>0, <1>1, <2>1, <2>3, <2>5, CleanupStep
  <2> QED BY <1>5, <2>4, <2>5 DEF Install
<1> QED BY <1>2, <1>3, <1>4, <1>5

\* The steps that move the link and start the new release.
LEMMA SwitchingSteps ==
  ASSUME Assumed, BootInv, NEW u \in Updaters,
         Switch(u) \/ Mark(u) \/ Attempt(u) \/ StartNew(u) \/ Await(u)
  PROVE  BootInv'
<1> DEFINE rec == updater[u]
<1>0. Running(rec) /\ rec.pc \in Main
  BY DEF Switch, Mark, Attempt, StartNew, Await, Running, Main
<1>1. /\ rec \in UpdaterRec /\ Known(rec) /\ Stage(rec)
      /\ current \in Releases /\ published \in Releases /\ current <= published
      /\ data \in Directory /\ installed \in SUBSET Releases
      /\ service \in ServiceRec /\ AlwaysBootable /\ ServiceFits
      /\ rec.old \in Releases /\ rec.new \in Releases /\ rec.old <= current
  BY <1>0, RunningFacts DEF UpdaterRec, Stage
<1>2. rec.pc # "awaiting" => Fits(data, rec.old) /\ ~Active
  BY <1>1 DEF Switch, Mark, Attempt, StartNew, Await, Stage, Untouched, Down
<1>3. rec.new <= published
  BY <1>1 DEF Known
<1>4. UNCHANGED <<published, installed, data, writes>>
  BY DEF Switch, Mark, Attempt, StartNew, Await
<1>5. ASSUME Set(u, Cleanup(rec)), UNCHANGED <<current, service>> PROVE BootInv'
  BY <1>0, <1>1, <1>4, <1>5, CleanupStep
<1>6. CASE Switch(u)
  <2> DEFINE next == [rec EXCEPT !.pc = "marking"]
  <2>1. UNCHANGED service /\ rec.pc = "linking"
    BY <1>6 DEF Switch
  <2>2. CASE current' = rec.new /\ Set(u, next)
    <3>0. rec.old <= rec.new
      BY <1>1, <2>1 DEF Stage, BeforeSwitch
    <3>1. /\ next \in UpdaterRec /\ next.pc = "marking" /\ next.old = rec.old
          /\ next.new = rec.new /\ next.switched = rec.switched
          /\ next.attempted = rec.attempted /\ next.backup = rec.backup
      BY <1>1 DEF UpdaterRec, Main
    <3>2. Flags(next) /\ BackedUp(next)
      BY <1>1, <2>1, <3>1 DEF Known, Flags, BackedUp, Fits, BeforeSwitch
    <3>3. Complete(data) => data.schema \in Nat
      BY <1>1 DEF Directory, Database, Complete, Missing, Partial
    <3>4. Schema[rec.old] <= Schema[rec.new] /\ Schema[rec.old] \in Nat /\ Schema[rec.new] \in Nat
      BY <1>1, <2>1, SchemaFacts DEF Stage, BeforeSwitch
    <3>5. AlwaysBootable'
      BY <1>2, <1>4, <2>1, <2>2, <3>3, <3>4 DEF AlwaysBootable, Fits, Complete
    <3>6. ServiceFits'
      BY <1>2, <2>1 DEF ServiceFits, Active
    <3> HIDE DEF next
    <3> QED BY <1>0, <1>1, <1>2, <1>3, <1>4, <2>1, <2>2, <3>0, <3>1, <3>2, <3>5, <3>6, AdvanceStep
            DEF BeforeSwitch, Fits, Active
  <2> QED BY <1>5, <1>6, <2>1, <2>2 DEF Switch
<1>7. CASE Mark(u) \/ Attempt(u)
  <2>1. UNCHANGED <<current, service>>
    BY <1>7 DEF Mark, Attempt
  <2>2. AlwaysBootable' /\ ServiceFits' /\ data' \in Directory
    BY <1>1, <1>4, <2>1 DEF AlwaysBootable, ServiceFits, Active
  <2>3. PICK next \in {[rec EXCEPT !.pc = "attempting", !.switched = TRUE],
                       [rec EXCEPT !.pc = "starting", !.attempted = TRUE]} :
          /\ Set(u, next)
          /\ \/ rec.pc = "marking" /\ next = [rec EXCEPT !.pc = "attempting", !.switched = TRUE]
             \/ rec.pc = "attempting" /\ next = [rec EXCEPT !.pc = "starting", !.attempted = TRUE]
    BY <1>7 DEF Mark, Attempt
  <2>4. /\ next \in UpdaterRec /\ next.pc \in {"attempting", "starting"}
        /\ next.old = rec.old /\ next.new = rec.new /\ next.backup = rec.backup
        /\ next.switched /\ (next.attempted = (next.pc = "starting"))
    BY <1>1, <2>3 DEF UpdaterRec, Main, Known, Flags
  <2>5. Flags(next) /\ BackedUp(next)
    BY <1>1, <2>3, <2>4 DEF Known, Flags, BackedUp, Fits, BeforeSwitch
  <2>6. rec.pc # "awaiting"
    BY <2>3
  <2> QED BY <1>0, <1>1, <1>2, <1>3, <1>4, <2>1, <2>2, <2>3, <2>4, <2>5, <2>6, AdvanceStep
          DEF BeforeSwitch, Fits, Active
<1>8. CASE StartNew(u)
  <2> DEFINE next == [rec EXCEPT !.pc = "awaiting"]
  <2>1. UNCHANGED current /\ rec.pc = "starting"
    BY <1>8 DEF StartNew
  <2>2. CASE service' = Started /\ Set(u, next)
    <3>1. /\ next \in UpdaterRec /\ next.pc = "awaiting" /\ next.old = rec.old
          /\ next.new = rec.new /\ next.switched = rec.switched
          /\ next.attempted = rec.attempted /\ next.backup = rec.backup
      BY <1>1 DEF UpdaterRec, Main
    <3>2. Flags(next) /\ BackedUp(next) /\ ~Down(next)
      BY <1>1, <2>1, <3>1 DEF Known, Flags, BackedUp, Fits, BeforeSwitch, Down, Untouched
    <3>3. service' \in ServiceRec /\ ServiceFits'
      BY <1>1, <2>1, <2>2, SchemaFacts DEF Started, Active, ServiceRec, ServiceFits
    <3>4. AlwaysBootable' /\ data' \in Directory
      BY <1>1, <1>4, <2>1 DEF AlwaysBootable
    <3> HIDE DEF next
    <3> QED BY <1>0, <1>1, <1>3, <1>4, <2>1, <2>2, <3>1, <3>2, <3>3, <3>4, AdvanceStep
            DEF BeforeSwitch, Down
  <2> QED BY <1>5, <1>8, <2>1, <2>2 DEF StartNew
<1>9. CASE Await(u)
  <2>1. UNCHANGED <<current, service>>
    BY <1>9 DEF Await
  <2>2. CASE Set(u, End([rec EXCEPT !.stopped = FALSE], "updated"))
    <3> DEFINE done == [rec EXCEPT !.stopped = FALSE]
    <3>1. /\ done \in UpdaterRec /\ done.old = rec.old /\ done.new = rec.new
          /\ done.switched = rec.switched /\ done.attempted = rec.attempted
          /\ done.backup = rec.backup
      BY <1>1 DEF UpdaterRec
    <3>2. AlwaysBootable' /\ data' \in Directory
      BY <1>1, <1>4, <2>1 DEF AlwaysBootable
    <3> HIDE DEF done
    <3>3. Set(u, End(done, "updated"))
      BY <2>2 DEF done
    <3> QED BY <1>0, <1>1, <1>4, <2>1, <3>1, <3>2, <3>3, EndStep
  <2> QED BY <1>5, <1>9, <2>1, <2>2 DEF Await
<1> QED BY <1>6, <1>7, <1>8, <1>9

\* The steps of the rollback.
LEMMA RestoringSteps ==
  ASSUME Assumed, BootInv, NEW u \in Updaters, Restore(u)
  PROVE  BootInv'
<1> DEFINE rec == updater[u]
<1> USE DEF Restore
<1>0. Running(rec)
  BY DEF StopNew, MoveAside, Extract, Relink, Restart, Recheck, Running
<1>1. /\ rec \in UpdaterRec /\ Known(rec) /\ Stage(rec)
      /\ current \in Releases /\ published \in Releases /\ current <= published
      /\ data \in Directory /\ installed \in SUBSET Releases
      /\ service \in ServiceRec /\ AlwaysBootable /\ ServiceFits
      /\ rec.old \in Releases /\ rec.new \in Releases /\ rec.old <= current
  BY <1>0, RunningFacts DEF UpdaterRec, Stage
<1>2. rec.new <= published /\ Flags(rec) /\ BackedUp(rec)
  BY <1>1 DEF Known
<1>3. UNCHANGED <<published, installed, writes>>
  BY DEF StopNew, MoveAside, Extract, Relink, Restart, Recheck
<1>4. ASSUME NEW pc \in {"moving", "extracting", "relinking", "restarting", "rechecking"},
             NEW next, next = [rec EXCEPT !.pc = pc]
      PROVE  /\ next \in UpdaterRec /\ next.pc = pc /\ next.old = rec.old
             /\ next.new = rec.new /\ next.switched = rec.switched
             /\ next.attempted = rec.attempted /\ next.backup = rec.backup
  BY <1>1, <1>4 DEF UpdaterRec, Rollback
<1>5. ASSUME NEW told \in {"restored", "incomplete"}, Set(u, End(rec, told)),
             UNCHANGED current, data' \in Directory, service' \in {service, Halted},
             AlwaysBootable'
      PROVE  BootInv'
  BY <1>0, <1>1, <1>3, <1>5, EndStep
<1>6. CASE StopNew(u)
  <2>1. UNCHANGED <<current, data>> /\ rec.pc = "rollback" /\ service' \in {service, Halted}
    BY <1>6 DEF StopNew
  <2>2. AlwaysBootable' /\ ServiceFits' /\ data' \in Directory /\ service' \in ServiceRec
    BY <1>1, <2>1 DEF AlwaysBootable, ServiceFits, Active, Halted, ServiceRec
  <2>3. CASE Set(u, End(rec, "incomplete"))
    BY <1>5, <2>1, <2>2, <2>3
  <2>4. CASE ~rec.attempted /\ Set(u, [rec EXCEPT !.pc = "relinking"]) /\ UNCHANGED service
    <3> DEFINE next == [rec EXCEPT !.pc = "relinking"]
    <3>1. /\ next \in UpdaterRec /\ next.pc = "relinking" /\ next.old = rec.old
          /\ next.new = rec.new /\ next.switched = rec.switched
          /\ next.attempted = rec.attempted /\ next.backup = rec.backup
      BY <1>4
    <3>2. rec.switched => Fits(data, rec.old) /\ ~Active
      BY <1>1, <2>1, <2>4 DEF Stage, Untouched, Down
    <3>3. Flags(next) /\ BackedUp(next)
      BY <1>2, <2>1, <2>4, <3>1 DEF Flags, BackedUp, BeforeSwitch
    <3> HIDE DEF next
    <3> QED BY <1>0, <1>1, <1>2, <1>3, <2>1, <2>2, <2>4, <3>1, <3>2, <3>3, AdvanceStep
            DEF BeforeSwitch, Fits, Active, Untouched, Down, next
  <2>5. CASE /\ rec.attempted /\ service'.state \notin {"starting", "ready"}
             /\ Set(u, [rec EXCEPT !.pc = "moving"])
    <3> DEFINE next == [rec EXCEPT !.pc = "moving"]
    <3>1. /\ next \in UpdaterRec /\ next.pc = "moving" /\ next.old = rec.old
          /\ next.new = rec.new /\ next.switched = rec.switched
          /\ next.attempted = rec.attempted /\ next.backup = rec.backup
      BY <1>4
    <3>2. Flags(next) /\ BackedUp(next) /\ ~Untouched(next)
      BY <1>2, <2>5, <3>1 DEF Flags, BackedUp, BeforeSwitch, Untouched
    <3> HIDE DEF next
    <3> QED BY <1>0, <1>1, <1>2, <1>3, <2>1, <2>2, <2>5, <3>1, <3>2, AdvanceStep
            DEF BeforeSwitch, next
  <2> QED BY <1>6, <2>3, <2>4, <2>5 DEF StopNew
<1>7. CASE MoveAside(u)
  <2>1. UNCHANGED <<current, service>> /\ rec.pc = "moving"
    BY <1>7 DEF MoveAside
  <2>2. rec.attempted /\ ~Active
    BY <1>1, <1>2, <2>1 DEF Flags, Stage, Down
  <2>3. CASE Set(u, End(rec, "incomplete")) /\ UNCHANGED data
    BY <1>1, <1>5, <2>1, <2>3 DEF AlwaysBootable
  <2>4. CASE data' = Missing /\ Set(u, [rec EXCEPT !.pc = "extracting", !.failed = Kept(data)])
    <3> DEFINE next == [rec EXCEPT !.pc = "extracting", !.failed = Kept(data)]
    <3>1. /\ next \in UpdaterRec /\ next.pc = "extracting" /\ next.old = rec.old
          /\ next.new = rec.new /\ next.switched = rec.switched
          /\ next.attempted = rec.attempted /\ next.backup = rec.backup
      BY <1>1 DEF UpdaterRec, Rollback, Kept
    <3>2. AlwaysBootable' /\ ServiceFits' /\ data' \in Directory
      BY <2>1, <2>2, <2>4 DEF AlwaysBootable, Complete, Missing, Directory, ServiceFits, Active
    <3>3. Flags(next) /\ BackedUp(next) /\ ~Untouched(next)
      BY <1>2, <2>2, <3>1 DEF Flags, BackedUp, BeforeSwitch, Untouched
    <3> HIDE DEF next
    <3> QED BY <1>0, <1>1, <1>2, <1>3, <2>1, <2>2, <2>4, <3>1, <3>2, <3>3, AdvanceStep
            DEF BeforeSwitch, Active, next
  <2> QED BY <1>7, <2>3, <2>4 DEF MoveAside
<1>8. CASE Extract(u)
  <2>1. UNCHANGED <<current, service>> /\ rec.pc = "extracting"
    BY <1>8 DEF Extract
  <2>2. rec.attempted /\ ~Active
    BY <1>1, <1>2, <2>1 DEF Flags, Stage, Down
  <2>3. CASE data' = Partial /\ Set(u, End(rec, "incomplete"))
    BY <1>1, <1>5, <2>1, <2>3 DEF AlwaysBootable, Complete, Partial, Directory
  <2>4. CASE data' = rec.backup /\ Set(u, [rec EXCEPT !.pc = "relinking"])
    <3> DEFINE next == [rec EXCEPT !.pc = "relinking"]
    <3>1. /\ next \in UpdaterRec /\ next.pc = "relinking" /\ next.old = rec.old
          /\ next.new = rec.new /\ next.switched = rec.switched
          /\ next.attempted = rec.attempted /\ next.backup = rec.backup
      BY <1>4
    <3>2. Fits(rec.backup, rec.old) /\ Complete(rec.backup) /\ rec.backup \in Directory
      BY <1>1, <1>2, <2>2 DEF BackedUp, UpdaterRec
    <3>3. rec.backup.schema \in Nat
      BY <3>2 DEF Directory, Database, Complete, Missing, Partial
    <3>4. /\ Schema[rec.old] <= Schema[current]
          /\ Schema[rec.old] \in Nat /\ Schema[current] \in Nat
      BY <1>1, SchemaFacts
    <3>5. AlwaysBootable' /\ ServiceFits' /\ data' \in Directory
      BY <2>1, <2>2, <2>4, <3>2, <3>3, <3>4 DEF AlwaysBootable, Fits, ServiceFits, Active
    <3>6. Flags(next) /\ BackedUp(next)
      BY <1>2, <2>2, <3>1 DEF Flags, BackedUp, BeforeSwitch
    <3> HIDE DEF next
    <3> QED BY <1>0, <1>1, <1>2, <1>3, <2>1, <2>2, <2>4, <3>1, <3>2, <3>5, <3>6, AdvanceStep
            DEF BeforeSwitch, Active, Fits, next
  <2> QED BY <1>8, <2>3, <2>4 DEF Extract
<1>9. CASE Relink(u)
  <2>1. UNCHANGED <<data, service>> /\ rec.pc = "relinking"
    BY <1>9 DEF Relink
  <2>2. rec.switched => Fits(data, rec.old) /\ ~Active
    BY <1>1, <2>1 DEF Stage, Untouched, Down
  <2>3. CASE Set(u, End(rec, "incomplete")) /\ UNCHANGED current
    BY <1>1, <1>5, <2>1, <2>3 DEF AlwaysBootable
  <2>4. CASE /\ current' = IF rec.switched THEN rec.old ELSE current
             /\ Set(u, [rec EXCEPT !.pc = "restarting"])
    <3> DEFINE next == [rec EXCEPT !.pc = "restarting"]
    <3>1. /\ next \in UpdaterRec /\ next.pc = "restarting" /\ next.old = rec.old
          /\ next.new = rec.new /\ next.switched = rec.switched
          /\ next.attempted = rec.attempted /\ next.backup = rec.backup
      BY <1>4
    <3>2. AlwaysBootable' /\ ServiceFits' /\ data' \in Directory
      BY <1>1, <2>1, <2>2, <2>4 DEF AlwaysBootable, Fits, ServiceFits, Active
    <3>3. current' \in Releases /\ current' <= published /\ rec.old <= current'
      BY <1>1, <2>4, SchemaFacts DEF Known
    <3>4. Flags(next) /\ BackedUp(next) /\ ~Down(next)
      BY <1>2, <3>1 DEF Flags, BackedUp, BeforeSwitch, Untouched, Down
    <3> HIDE DEF next
    <3> QED BY <1>0, <1>1, <1>2, <1>3, <2>1, <2>4, <3>1, <3>2, <3>3, <3>4, AdvanceStep
            DEF BeforeSwitch, Down, next
  <2> QED BY <1>9, <2>3, <2>4 DEF Relink
<1>10. CASE Restart(u)
  <2>1. UNCHANGED <<current, data>> /\ rec.pc = "restarting"
    BY <1>10 DEF Restart
  <2>2. AlwaysBootable' /\ data' \in Directory
    BY <1>1, <2>1 DEF AlwaysBootable
  <2>3. CASE Set(u, End(rec, "incomplete")) /\ UNCHANGED service
    BY <1>5, <2>1, <2>2, <2>3
  <2>4. CASE service' = Started /\ Set(u, [rec EXCEPT !.pc = "rechecking"])
    <3> DEFINE next == [rec EXCEPT !.pc = "rechecking"]
    <3>1. /\ next \in UpdaterRec /\ next.pc = "rechecking" /\ next.old = rec.old
          /\ next.new = rec.new /\ next.switched = rec.switched
          /\ next.attempted = rec.attempted /\ next.backup = rec.backup
      BY <1>4
    <3>2. service' \in ServiceRec /\ ServiceFits'
      BY <1>1, <2>1, <2>4, SchemaFacts DEF Started, Active, ServiceRec, ServiceFits
    <3>3. Flags(next) /\ BackedUp(next) /\ ~Down(next)
      BY <1>2, <3>1 DEF Flags, BackedUp, BeforeSwitch, Untouched, Down
    <3> HIDE DEF next
    <3> QED BY <1>0, <1>1, <1>2, <1>3, <2>1, <2>2, <2>4, <3>1, <3>2, <3>3, AdvanceStep
            DEF BeforeSwitch, Down, next
  <2> QED BY <1>10, <2>3, <2>4 DEF Restart
<1>11. CASE Recheck(u)
  <2>1. UNCHANGED <<current, data, service>>
    BY <1>11 DEF Recheck
  <2>2. AlwaysBootable' /\ data' \in Directory
    BY <1>1, <2>1 DEF AlwaysBootable
  <2> QED BY <1>5, <1>11, <2>1, <2>2 DEF Recheck
<1> QED BY <1>6, <1>7, <1>8, <1>9, <1>10, <1>11

-----------------------------------------------------------------------------
\* A run starts only when no other is running.
LEMMA BeginAlone ==
  ASSUME Assumed, BootInv, NEW u \in Updaters, Begin(u)
  PROVE  \A v \in Updaters : ~Running(updater[v])
<1> DEFINE active == {v \in Updaters : Running(updater[v])}
<1>1. IsFiniteSet(active)
  BY FS_Subset DEF Assumed, UpdaterAssumption
<1>2. Cardinality(active) \in Nat /\ (Cardinality(active) = 0 <=> active = {})
  BY <1>1, FS_CardinalityType, FS_EmptySet
<1>3. Cardinality(active) < 1
  BY DEF Begin, Assumed
<1>4. active = {}
  BY <1>2, <1>3
<1> QED BY <1>4

\* So it starts in the state the last run, or none, left.
LEMMA BeginStep ==
  ASSUME Assumed, BootInv, NEW u \in Updaters, Begin(u)
  PROVE  BootInv'
<1> DEFINE rec == updater[u]
<1>1. \A v \in Updaters : ~Running(updater[v])
  BY BeginAlone
<1>2. /\ rec \in UpdaterRec /\ Known(rec) /\ rec.pc = "new"
      /\ current \in Releases /\ published \in Releases /\ current <= published
      /\ data \in Directory /\ installed \in SUBSET Releases
      /\ service \in ServiceRec /\ AlwaysBootable /\ ServiceFits
      /\ updater \in [Updaters -> UpdaterRec]
  BY DEF BootInv, TypeOK, ServiceRec, Begin
<1>3. /\ UNCHANGED <<published, installed, current, data, writes, service>>
      /\ AlwaysBootable' /\ ServiceFits'
  BY <1>2 DEF Begin, AlwaysBootable, ServiceFits, Active
<1>4. CASE Set(u, [rec EXCEPT !.pc = "looking", !.old = current])
  <2> DEFINE next == [rec EXCEPT !.pc = "looking", !.old = current]
  <2>1. /\ next \in UpdaterRec /\ next.pc = "looking" /\ next.old = current
        /\ next.new = rec.new /\ next.switched = rec.switched
        /\ next.attempted = rec.attempted /\ next.backup = rec.backup
    BY <1>2 DEF UpdaterRec, Main
  <2> HIDE DEF next
  <2>2. updater' = [updater EXCEPT ![u] = updater'[u]] /\ updater'[u] = next
    BY <1>2, <1>4 DEF Set, next
  <2>3. Known(updater[u])'
    BY <1>2, <1>3, <2>1, <2>2 DEF Known, Flags, BackedUp, BeforeSwitch
  <2>4. Stage(updater[u])'
    BY <1>2, <1>3, <2>1, <2>2, SchemaFacts DEF Stage, Untouched, Down, BeforeSwitch, Known, Flags
  <2> QED BY <1>1, <1>2, <1>3, <2>1, <2>2, <2>3, <2>4, ScriptStep
<1>5. CASE Set(u, End(rec, "refused"))
  <2>1. /\ End(rec, "refused") \in UpdaterRec /\ End(rec, "refused").pc = "ended"
        /\ End(rec, "refused").old = rec.old /\ End(rec, "refused").new = rec.new
        /\ End(rec, "refused").switched = rec.switched
        /\ End(rec, "refused").attempted = rec.attempted
        /\ End(rec, "refused").backup = rec.backup
    BY <1>2, EndFacts
  <2>2. /\ updater' = [updater EXCEPT ![u] = updater'[u]]
        /\ updater'[u] = End(rec, "refused")
    BY <1>2, <1>5 DEF Set
  <2>3. Known(updater[u])' /\ ~Running(updater[u])'
    BY <1>2, <1>3, <2>1, <2>2 DEF Known, Flags, BackedUp, Fits, BeforeSwitch, Running
  <2> QED BY <1>1, <1>2, <1>3, <2>1, <2>2, <2>3, ScriptStep
<1> QED BY <1>4, <1>5 DEF Begin

\* A signal, a kill or a reboot.
LEMMA FaultSteps ==
  ASSUME Assumed, BootInv, (\E u \in Updaters : Signal(u) \/ Kill(u)) \/ Reboot
  PROVE  BootInv'
<1>1. ASSUME NEW u \in Updaters, Signal(u) PROVE BootInv'
  <2>1. updater[u] \in UpdaterRec /\ installed \in SUBSET Releases
    BY DEF BootInv, TypeOK
  <2> QED BY <1>1, <2>1, CleanupStep DEF Signal
<1>2. ASSUME NEW u \in Updaters, Kill(u) PROVE BootInv'
  <2>1. updater[u] \in UpdaterRec /\ data \in Directory /\ AlwaysBootable
    BY DEF BootInv, TypeOK
  <2>2. AlwaysBootable' /\ data' \in Directory
    BY <1>2, <2>1 DEF Kill, AlwaysBootable
  <2> QED BY <1>2, <2>1, <2>2, EndStep DEF Kill
<1>3. CASE Reboot
  <2>1. UNCHANGED <<published, installed, current, data, writes>>
    BY <1>3 DEF Reboot
  <2>2. ASSUME NEW v \in Updaters
        PROVE  /\ updater'[v] \in UpdaterRec /\ ~Running(updater'[v])
               /\ Known(updater[v])'
    <3>1. updater[v] \in UpdaterRec /\ Known(updater[v])
      BY DEF BootInv, TypeOK
    <3>2. CASE Running(updater[v])
      <4>1. updater'[v] = End(updater[v], "killed")
        BY <1>3, <3>2 DEF Reboot
      <4>2. /\ End(updater[v], "killed") \in UpdaterRec /\ End(updater[v], "killed").pc = "ended"
            /\ End(updater[v], "killed").old = updater[v].old
            /\ End(updater[v], "killed").new = updater[v].new
            /\ End(updater[v], "killed").switched = updater[v].switched
            /\ End(updater[v], "killed").attempted = updater[v].attempted
            /\ End(updater[v], "killed").backup = updater[v].backup
        BY <3>1, EndFacts
      <4> QED BY <2>1, <3>1, <4>1, <4>2 DEF Known, Flags, BackedUp, Fits, BeforeSwitch, Running
    <3>3. CASE ~Running(updater[v])
      <4>1. updater'[v] = updater[v]
        BY <1>3, <3>3 DEF Reboot
      <4> QED BY <2>1, <3>1, <3>3, <4>1 DEF Known, Flags, BackedUp, Fits, BeforeSwitch
    <3> QED BY <3>2, <3>3
  <2>3. updater' \in [Updaters -> UpdaterRec]
    BY <1>3, <2>2 DEF Reboot
  <2>4. TypeOK'
    BY <1>3, <2>1, <2>3 DEF Reboot, BootInv, TypeOK
  <2>5. AlwaysBootable' /\ ServiceFits' /\ current' <= published'
    BY <1>3, <2>1, SchemaFacts DEF Reboot, BootInv, TypeOK, AlwaysBootable, ServiceFits, Active
  <2> QED BY <2>2, <2>4, <2>5 DEF BootInv, Alone
<1> QED BY <1>1, <1>2, <1>3

\* What happens beside the script: none of it while the data is untouched.
LEMMA SurroundingSteps ==
  ASSUME Assumed, BootInv, Open \/ Write \/ Publish
  PROVE  BootInv'
<1>1. /\ TypeOK /\ Alone /\ current <= published /\ AlwaysBootable /\ ServiceFits
      /\ \A u \in Updaters : Known(updater[u])
      /\ \A u \in Updaters : Running(updater[u]) => Stage(updater[u])
  BY DEF BootInv
<1>2. CASE Open
  <2> DEFINE target == Schema[service.release]
  <2>1. /\ service.state = "starting" /\ Active
        /\ UNCHANGED <<published, installed, current, writes, updater>>
    BY <1>2 DEF Open, Active
  <2>2. target \in Nat /\ target <= Schema[current] /\ Schema[current] \in Nat
    BY <1>1, <2>1, SchemaFacts DEF ServiceFits, TypeOK
  <2>3. /\ service' \in ServiceRec /\ (Active' => service'.release = service.release)
    BY <1>1, <1>2 DEF Open, TypeOK, ServiceRec, Active
  <2>4. /\ data' \in Directory
        /\ Complete(data') => data'.schema <= Schema[current] 
    <3>1. CASE data' = Holding(target, {})
      BY <2>2, <3>1 DEF Holding, Directory, Database, Complete
    <3>2. CASE Complete(data) /\ data' = [data EXCEPT !.schema = target]
      <4>1. data \in Database
        BY <1>1, <3>2 DEF TypeOK, Directory, Complete, Missing, Partial
      <4> QED BY <2>2, <3>2, <4>1 DEF Directory, Database, Complete
    <3>3. CASE data' = data
      BY <1>1, <3>3 DEF TypeOK, AlwaysBootable
    <3>4. CASE Complete(data) /\ \E s \in data.schema..target : data' = [data EXCEPT !.schema = s]
      <4>1. data \in Database
        BY <1>1, <3>4 DEF TypeOK, Directory, Complete, Missing, Partial
      <4>2. PICK s \in data.schema..target : data' = [data EXCEPT !.schema = s]
        BY <3>4
      <4>3. s \in Nat /\ s <= target
        BY <2>2, <4>1, <4>2 DEF Database
      <4> QED BY <2>2, <4>1, <4>2, <4>3 DEF Directory, Database, Complete
    <3> QED BY <1>2, <3>1, <3>2, <3>3, <3>4 DEF Open
  <2>5. \A u \in Updaters : Known(updater[u])'
    BY <1>1, <2>1 DEF Known, Flags, BackedUp, Fits
  <2>6. \A u \in Updaters : Running(updater[u])' => Stage(updater[u])'
    BY <1>1, <2>1 DEF Stage, Down, Untouched, Running
  <2>7. TypeOK' /\ AlwaysBootable' /\ ServiceFits' /\ Alone' /\ (current <= published)'
    BY <1>1, <2>1, <2>2, <2>3, <2>4 DEF TypeOK, ServiceRec, AlwaysBootable, ServiceFits, Alone
  <2> QED BY <2>5, <2>6, <2>7 DEF BootInv
<1>3. CASE Write
  <2>1. /\ Active /\ Complete(data) /\ data' = [data EXCEPT !.rows = @ \cup {writes + 1}]
        /\ writes < MaxWrites /\ writes' = writes + 1
        /\ UNCHANGED <<published, installed, current, service, updater>>
    BY <1>3 DEF Write, Active
  <2>2. data \in Database /\ writes \in Nat /\ MaxWrites \in Nat
    BY <1>1, <2>1 DEF TypeOK, Directory, Complete, Missing, Partial, Assumed, UpdaterAssumption
  <2>3. data' \in Database /\ data'.schema = data.schema /\ Complete(data')
    BY <2>1, <2>2 DEF Database, Complete
  <2>4. \A u \in Updaters : Known(updater[u])'
    BY <1>1, <2>1 DEF Known, Flags, BackedUp, Fits
  <2>5. \A u \in Updaters : Running(updater[u])' => Stage(updater[u])'
    BY <1>1, <2>1 DEF Stage, Down, Untouched, Running
  <2>6. writes' \in 0..MaxWrites
    BY <2>1, <2>2
  <2>7. TypeOK' /\ AlwaysBootable' /\ ServiceFits' /\ Alone' /\ (current <= published)'
    BY <1>1, <2>1, <2>3, <2>6 DEF TypeOK, Directory, AlwaysBootable, ServiceFits, Active, Alone
  <2> QED BY <2>4, <2>5, <2>7 DEF BootInv
<1>4. CASE Publish
  <2>1. /\ published' = published + 1 /\ published < MaxRelease
        /\ UNCHANGED <<installed, current, data, writes, service, updater>>
    BY <1>4 DEF Publish
  <2>2. /\ published \in Nat /\ published' \in Releases /\ current \in Nat
        /\ \A u \in Updaters : updater[u].old \in Nat /\ updater[u].new \in Nat
    BY <1>1, <2>1 DEF TypeOK, UpdaterRec, Releases, Assumed, UpdaterAssumption
  <2>3. \A u \in Updaters : Known(updater[u])'
    BY <1>1, <2>1, <2>2 DEF Known, Flags, BackedUp, Fits
  <2>4. \A u \in Updaters : Running(updater[u])' => Stage(updater[u])'
    BY <1>1, <2>1 DEF Stage, Down, Untouched, Running, Fits, Active
  <2>5. TypeOK' /\ AlwaysBootable' /\ ServiceFits' /\ Alone' /\ (current <= published)'
    BY <1>1, <2>1, <2>2 DEF TypeOK, AlwaysBootable, ServiceFits, Active, Alone
  <2> QED BY <2>3, <2>4, <2>5 DEF BootInv
<1> QED BY <1>2, <1>3, <1>4

\* The invariant holds initially.
LEMMA BootInit == Assumed /\ Init => BootInv
<1> SUFFICES ASSUME Assumed, Init PROVE BootInv
  OBVIOUS
<1>1. 0 \in Releases /\ Schema[0] \in Nat /\ 0 \in 0..MaxWrites
  BY DEF Assumed, UpdaterAssumption, Releases
<1>2. NewUpdater \in UpdaterRec
  BY <1>1 DEF NewUpdater, UpdaterRec, Directory
<1>3. TypeOK
  BY <1>1, <1>2 DEF Init, TypeOK, Holding, Directory, Database
<1>4. \A u \in Updaters : Known(updater[u]) /\ ~Running(updater[u])
  BY DEF Init, NewUpdater, Known, Flags, BackedUp, Running
<1>5. AlwaysBootable /\ ServiceFits /\ current <= published
  BY <1>1 DEF Init, AlwaysBootable, ServiceFits, Holding, Complete
<1> QED BY <1>3, <1>4, <1>5 DEF BootInv, Alone

\* Every step preserves it.
LEMMA BootStep == Assumed /\ BootInv /\ [Next]_vars => BootInv'
<1> SUFFICES ASSUME Assumed, BootInv, [Next]_vars PROVE BootInv'
  OBVIOUS
<1>1. ASSUME NEW u \in Updaters, Update(u) PROVE BootInv'
  BY <1>1, PreparingSteps, SwitchingSteps DEF Update
<1>2. CASE UNCHANGED vars
  BY <1>2 DEF vars, BootInv, TypeOK, Alone, Running, AlwaysBootable, ServiceFits, Active,
              Known, Flags, BackedUp, Fits, Stage, Untouched, Down
<1> QED BY <1>1, <1>2, RestoringSteps, BeginStep, FaultSteps, SurroundingSteps DEF Next

\* Runs of the script one at a time: whatever fails, and whenever a signal, a
\* kill or a reboot comes, the release behind `current' can open the data
\* (order of the steps of main and restore_after_failure, deploy/update.sh).
THEOREM AlwaysBootableTheorem ==
  ASSUME AtOnce = 1
  PROVE  Spec => []AlwaysBootable
<1>1. Assumed
  BY UpdaterAssumption DEF Assumed
<1>2. Init => BootInv
  BY <1>1, BootInit
<1>3. BootInv /\ [Next]_vars => BootInv'
  BY <1>1, BootStep
<1>4. BootInv => AlwaysBootable
  BY DEF BootInv
<1> QED BY <1>2, <1>3, <1>4, PTL DEF Spec

\* Runs of the script one at a time: every variable keeps its type, whatever
\* fails or cuts a run off (main and restore_after_failure, deploy/update.sh).
THEOREM TypeCorrect ==
  ASSUME AtOnce = 1
  PROVE  Spec => []TypeOK
<1>1. Assumed
  BY UpdaterAssumption DEF Assumed
<1>2. Init => BootInv
  BY <1>1, BootInit
<1>3. BootInv /\ [Next]_vars => BootInv'
  BY <1>1, BootStep
<1>4. BootInv => TypeOK
  BY DEF BootInv
<1> QED BY <1>2, <1>3, <1>4, PTL DEF Spec

-----------------------------------------------------------------------------
(***************************************************************************)
(* The data itself.  A run overwrites the data only when it is a copy of   *)
(* it that it moved aside, and nobody can write between the backup and the *)
(* moment the old or the new release is started on it.                     *)
(***************************************************************************)

\* The unit never runs another release than the one behind the link.
ServiceCurrent == Active => service.release = current

\* What a run has not made yet, it cannot overwrite.
Unmade(rec) ==
  /\ rec.pc \in {"new", "looking", "stopping", "backing"} => rec.backup = Missing
  /\ rec.pc \in {"new", "rollback", "moving"} \cup Main => rec.failed = Missing

\* The data holds the backup, but for the moment at which it is neither.
Followed(rec) ==
  /\ rec.pc = "extracting" => data = Missing
  /\ rec.pc # "extracting" =>
       rec.backup \in {Missing, Partial} \/ HasRows(data, rec.backup.rows)
  /\ rec.switched /\ rec.pc \in {"restarting", "rechecking"} => current = rec.old

StoreInv ==
  /\ BootInv
  /\ ServiceCurrent
  /\ \A u \in Updaters : Unmade(updater[u])
  /\ \A u \in Updaters : Running(updater[u]) => Followed(updater[u])
  /\ NoWriteLost

\* What the script reports holds of the service and the data.
Reported(u) ==
  updater[u].told = "nothing" /\ updater'[u].told \in {"updated", "restored"} =>
    /\ UNCHANGED <<service, current, data>>
    /\ Running(updater[u]) /\ updater[u].pc # "extracting"
    /\ service.state = "ready"
    /\ updater'[u].told = "restored" => updater[u].pc = "rechecking"

\* What a step of one script does to the data and to what it follows.
ScriptEffect(u) ==
  /\ \A v \in Updaters \ {u} : updater'[v] = updater[v]
  /\ UNCHANGED writes
  /\ Unmade(updater'[u])
  /\ Running(updater'[u]) => Followed(updater[u])'
  /\ ServiceCurrent'
  /\ updater'[u].backup = updater[u].backup \/ updater[u].backup = Missing
  /\ \/ updater'[u].failed = updater[u].failed /\ (data' = data \/ data = Missing)
     \/ updater[u].failed = Missing /\ updater'[u].failed = data
  /\ Reported(u)

\* The fields no quiet step changes.
SameFiles(new, rec) ==
  new.old = rec.old /\ new.backup = rec.backup /\ new.failed = rec.failed

\* A step to the next stage that touches neither the data nor the link.
LEMMA QuietStep ==
  ASSUME Assumed, StoreInv, NEW u \in Updaters, NEW new, Set(u, new),
         SameFiles(new, updater[u]),
         updater[u].told = "nothing" => new.told \notin {"updated", "restored"},
         UNCHANGED <<data, current, writes>>, service' \in {service, Halted, Started},
         \/ new.pc = "ended"
         \/ /\ updater[u].pc \in {"looking", "stopping"}
            /\ new.pc \in {"looking", "stopping", "backing", "rollback"}
         \/ /\ updater[u].pc \in Main
            /\ new.pc \in (Main \ {"looking", "stopping", "backing"}) \cup {"rollback"}
         \/ updater[u].pc = "rollback" /\ new.pc \in {"moving", "relinking"}
         \/ /\ updater[u].pc = "restarting" /\ new.pc = "rechecking"
            /\ new.switched = updater[u].switched
  PROVE  ScriptEffect(u)
<1> DEFINE rec == updater[u]
<1>1. /\ rec \in UpdaterRec /\ updater \in [Updaters -> UpdaterRec] /\ service \in ServiceRec
      /\ current \in Releases /\ ServiceCurrent /\ Unmade(rec)
      /\ Running(rec) => Followed(rec)
  BY DEF StoreInv, BootInv, TypeOK, ServiceRec
<1>2. updater'[u] = new /\ \A v \in Updaters \ {u} : updater'[v] = updater[v]
  BY <1>1 DEF Set
<1>3. Unmade(new)
  BY <1>1 DEF Unmade, SameFiles, Main
<1>4. Running(new) => Followed(new)'
  BY <1>1 DEF Running, Followed, SameFiles, Main
<1>5. ServiceCurrent'
  BY <1>1 DEF ServiceCurrent, Active, Started, Halted, ServiceRec
<1> QED BY <1>2, <1>3, <1>4, <1>5 DEF ScriptEffect, Reported, SameFiles

\* The end of a run, and the turn to its cleanup, leave its files alone.
LEMMA EndFiles ==
  ASSUME NEW rec \in UpdaterRec, NEW told
  PROVE  /\ End(rec, told).pc = "ended" /\ End(rec, told).told = told
         /\ SameFiles(End(rec, told), rec)
         /\ Cleanup(rec).pc \in {"rollback", "ended"}
         /\ Cleanup(rec).told \in {rec.told, "refused"}
         /\ SameFiles(Cleanup(rec), rec)
BY DEF End, Cleanup, SameFiles, UpdaterRec

\* A run that fails without an effect, in main or in the rollback.
LEMMA GiveUpEffect ==
  ASSUME Assumed, StoreInv, NEW u \in Updaters,
         UNCHANGED <<data, current, writes>>, service' \in {service, Halted},
         \/ /\ updater[u].pc \in Main
            /\ \E rec \in UpdaterRec :
                 /\ Set(u, Cleanup(rec)) /\ SameFiles(rec, updater[u])
                 /\ rec.told = updater[u].told
         \/ \E told \in {"refused", "current", "incomplete", "killed"} :
              Set(u, End(updater[u], told))
  PROVE  ScriptEffect(u)
<1>1. updater[u] \in UpdaterRec
  BY DEF StoreInv, BootInv, TypeOK
<1>2. CASE /\ updater[u].pc \in Main
           /\ \E rec \in UpdaterRec :
                /\ Set(u, Cleanup(rec)) /\ SameFiles(rec, updater[u])
                /\ rec.told = updater[u].told
  <2>1. PICK rec \in UpdaterRec : /\ Set(u, Cleanup(rec)) /\ SameFiles(rec, updater[u])
                                  /\ rec.told = updater[u].told
    BY <1>2
  <2>2. /\ Cleanup(rec).pc \in {"rollback", "ended"}
        /\ Cleanup(rec).told \in {rec.told, "refused"}
        /\ SameFiles(Cleanup(rec), rec)
    BY EndFiles
  <2>3. SameFiles(Cleanup(rec), updater[u])
    BY <2>1, <2>2 DEF SameFiles
  <2> QED BY <1>2, <2>1, <2>2, <2>3, QuietStep
<1>3. CASE \E told \in {"refused", "current", "incomplete", "killed"} :
             Set(u, End(updater[u], told))
  <2>1. PICK told \in {"refused", "current", "incomplete", "killed"} :
          Set(u, End(updater[u], told))
    BY <1>3
  <2>2. /\ End(updater[u], told).pc = "ended" /\ End(updater[u], told).told = told
        /\ SameFiles(End(updater[u], told), updater[u])
    BY <1>1, EndFiles
  <2> QED BY <2>1, <2>2, QuietStep
<1> QED BY <1>2, <1>3

\* main, up to the link.
LEMMA PreparingEffect ==
  ASSUME Assumed, StoreInv, NEW u \in Updaters,
         Begin(u) \/ Look(u) \/ StopOld(u) \/ Backup(u) \/ Install(u)
  PROVE  ScriptEffect(u)
<1> DEFINE rec == updater[u]
<1>1. /\ rec \in UpdaterRec /\ updater \in [Updaters -> UpdaterRec]
      /\ current \in Releases /\ published \in Releases /\ data \in Directory
      /\ ServiceCurrent /\ Unmade(rec) /\ (Running(rec) => Followed(rec))
  BY DEF StoreInv, BootInv, TypeOK
<1>2. CASE Begin(u)
  <2>1. rec.pc = "new" /\ UNCHANGED <<current, data, writes, service>>
    BY <1>2 DEF Begin
  <2> DEFINE new == [rec EXCEPT !.pc = "looking", !.old = current]
  <2>2. CASE Set(u, new)
    <3>1. /\ new.pc = "looking" /\ new.backup = rec.backup /\ new.failed = rec.failed
          /\ new.told = rec.told
      BY <1>1 DEF UpdaterRec
    <3> HIDE DEF new
    <3>2. updater'[u] = new /\ \A v \in Updaters \ {u} : updater'[v] = updater[v]
      BY <1>1, <2>2 DEF Set
    <3>3. Unmade(new) /\ Followed(updater[u])'
      BY <3>2, <1>1, <2>1, <3>1 DEF Unmade, Followed, Main
    <3>4. ServiceCurrent'
      BY <1>1, <2>1 DEF ServiceCurrent, Active
    <3> QED BY <2>1, <3>1, <3>2, <3>3, <3>4 DEF ScriptEffect, Reported
  <2>3. CASE Set(u, End(rec, "refused"))
    BY <2>1, <2>3, GiveUpEffect
  <2> QED BY <1>2, <2>2, <2>3 DEF Begin
<1>3. CASE Look(u)
  <2>1. rec.pc = "looking" /\ UNCHANGED <<current, data, writes, service>>
    BY <1>3 DEF Look
  <2> DEFINE new == [rec EXCEPT !.pc = "stopping", !.new = published]
  <2>2. CASE Set(u, new)
    <3>1. new.pc = "stopping" /\ SameFiles(new, rec) /\ new.told = rec.told
      BY <1>1 DEF UpdaterRec, SameFiles
    <3> HIDE DEF new
    <3> QED BY <2>1, <2>2, <3>1, QuietStep
  <2>3. CASE Set(u, Cleanup(rec)) \/ Set(u, End(rec, "current"))
    BY <1>1, <2>1, <2>3, GiveUpEffect DEF Main, SameFiles
  <2> QED BY <1>3, <2>2, <2>3 DEF Look
<1>4. CASE StopOld(u)
  <2> DEFINE marked == [rec EXCEPT !.stopped = TRUE]
             new == [marked EXCEPT !.pc = "backing"]
  <2>1. /\ rec.pc = "stopping" /\ UNCHANGED <<current, data, writes>>
        /\ service' \in {service, Halted}
    BY <1>4 DEF StopOld
  <2>2. marked \in UpdaterRec /\ SameFiles(marked, rec) /\ marked.told = rec.told
    BY <1>1 DEF UpdaterRec, SameFiles
  <2>3. new.pc = "backing" /\ SameFiles(new, rec) /\ new.told = rec.told
    BY <1>1 DEF UpdaterRec, SameFiles
  <2>4. Set(u, Cleanup(marked)) \/ Set(u, new)
    BY <1>4 DEF StopOld
  <2> HIDE DEF marked, new
  <2>5. CASE Set(u, new)
    BY <2>1, <2>3, <2>5, QuietStep
  <2>6. CASE Set(u, Cleanup(marked))
    BY <2>1, <2>2, <2>6, GiveUpEffect DEF Main
  <2> QED BY <2>4, <2>5, <2>6
<1>5. CASE Backup(u)
  <2>1. /\ rec.pc = "backing" /\ UNCHANGED <<current, data, writes, service>>
        /\ rec.backup = Missing /\ rec.failed = Missing
    BY <1>1, <1>5 DEF Backup, Unmade, Main
  <2>2. ServiceCurrent'
    BY <1>1, <2>1 DEF ServiceCurrent, Active
  <2> DEFINE new == [rec EXCEPT !.pc = "installing", !.backup = data]
  <2>3. CASE Complete(data) /\ Set(u, new)
    <3>1. /\ new.pc = "installing" /\ new.backup = data /\ new.failed = rec.failed
          /\ new.told = rec.told
      BY <1>1 DEF UpdaterRec
    <3> HIDE DEF new
    <3>2. updater'[u] = new /\ \A v \in Updaters \ {u} : updater'[v] = updater[v]
      BY <1>1, <2>3 DEF Set
    <3>3. Unmade(new) /\ Followed(updater[u])'
      BY <3>2, <2>1, <2>3, <3>1 DEF Unmade, Followed, HasRows
    <3> QED BY <2>1, <2>2, <3>1, <3>2, <3>3 DEF ScriptEffect, Reported
  <2> DEFINE half == [rec EXCEPT !.backup = Partial]
  <2>4. CASE Set(u, Cleanup(half))
    <3>1. /\ half \in UpdaterRec /\ half.backup = Partial /\ half.failed = rec.failed
          /\ half.told = rec.told
      BY <1>1 DEF UpdaterRec, Directory
    <3> HIDE DEF half
    <3>2. /\ Cleanup(half).pc \in {"rollback", "ended"}
          /\ Cleanup(half).told \in {rec.told, "refused"}
          /\ Cleanup(half).backup = Partial /\ Cleanup(half).failed = rec.failed
      BY <3>1, EndFiles DEF SameFiles
    <3>3. /\ updater'[u] = Cleanup(half)
          /\ \A v \in Updaters \ {u} : updater'[v] = updater[v]
      BY <1>1, <2>4 DEF Set
    <3>4. Unmade(Cleanup(half)) /\ Followed(updater[u])'
      BY <3>3, <2>1, <3>2 DEF Unmade, Followed
    <3> QED BY <2>1, <2>2, <3>2, <3>3, <3>4 DEF ScriptEffect, Reported
  <2> QED BY <1>5, <2>3, <2>4 DEF Backup
<1>6. CASE Install(u)
  <2>1. rec.pc = "installing" /\ UNCHANGED <<current, data, writes, service>>
    BY <1>6 DEF Install
  <2> DEFINE new == [rec EXCEPT !.pc = "linking"]
  <2>2. CASE Set(u, new)
    <3>1. new.pc = "linking" /\ SameFiles(new, rec) /\ new.told = rec.told
      BY <1>1 DEF UpdaterRec, SameFiles
    <3> HIDE DEF new
    <3> QED BY <2>1, <2>2, <3>1, QuietStep DEF Main
  <2>3. CASE Set(u, Cleanup(rec))
    BY <1>1, <2>1, <2>3, GiveUpEffect DEF Main, SameFiles
  <2> QED BY <1>6, <2>2, <2>3 DEF Install
<1> QED BY <1>2, <1>3, <1>4, <1>5, <1>6

\* From the link to the answer of the new release.
LEMMA SwitchingEffect ==
  ASSUME Assumed, StoreInv, NEW u \in Updaters,
         Switch(u) \/ Mark(u) \/ Attempt(u) \/ StartNew(u) \/ Await(u)
  PROVE  ScriptEffect(u)
<1> DEFINE rec == updater[u]
<1>0. Running(rec)
  BY DEF Switch, Mark, Attempt, StartNew, Await, Running
<1>1. /\ rec \in UpdaterRec /\ updater \in [Updaters -> UpdaterRec]
      /\ current \in Releases /\ data \in Directory
      /\ ServiceCurrent /\ Unmade(rec) /\ Followed(rec) /\ Stage(rec)
  BY <1>0 DEF StoreInv, BootInv, TypeOK
<1>2. CASE Switch(u)
  <2>1. rec.pc = "linking" /\ UNCHANGED <<data, writes, service>> /\ ~Active
    BY <1>1, <1>2 DEF Switch, Stage, Down, Untouched
  <2> DEFINE new == [rec EXCEPT !.pc = "marking"]
  <2>2. CASE Set(u, new)
    <3>1. new.pc = "marking" /\ SameFiles(new, rec) /\ new.told = rec.told
      BY <1>1 DEF UpdaterRec, SameFiles
    <3> HIDE DEF new
    <3>2. updater'[u] = new /\ \A v \in Updaters \ {u} : updater'[v] = updater[v]
      BY <1>1, <2>2 DEF Set
    <3>3. Unmade(new) /\ Followed(updater[u])'
      BY <3>2, <1>1, <2>1, <3>1 DEF Unmade, Followed, SameFiles, Main
    <3>4. ServiceCurrent'
      BY <2>1 DEF ServiceCurrent, Active
    <3> QED BY <2>1, <3>1, <3>2, <3>3, <3>4 DEF ScriptEffect, Reported, SameFiles
  <2>3. CASE Set(u, Cleanup(rec)) /\ UNCHANGED current
    BY <1>1, <2>1, <2>3, GiveUpEffect DEF Main, SameFiles
  <2> QED BY <1>2, <2>2, <2>3 DEF Switch
<1>3. CASE Mark(u)
  <2> DEFINE new == [rec EXCEPT !.pc = "attempting", !.switched = TRUE]
  <2>1. rec.pc = "marking" /\ Set(u, new) /\ UNCHANGED <<current, data, writes, service>>
    BY <1>3 DEF Mark
  <2>2. new.pc = "attempting" /\ SameFiles(new, rec) /\ new.told = rec.told
    BY <1>1 DEF UpdaterRec, SameFiles
  <2> HIDE DEF new
  <2> QED BY <2>1, <2>2, QuietStep DEF Main
<1>4. CASE Attempt(u)
  <2> DEFINE new == [rec EXCEPT !.pc = "starting", !.attempted = TRUE]
  <2>1. rec.pc = "attempting" /\ Set(u, new) /\ UNCHANGED <<current, data, writes, service>>
    BY <1>4 DEF Attempt
  <2>2. new.pc = "starting" /\ SameFiles(new, rec) /\ new.told = rec.told
    BY <1>1 DEF UpdaterRec, SameFiles
  <2> HIDE DEF new
  <2> QED BY <2>1, <2>2, QuietStep DEF Main
<1>5. CASE StartNew(u)
  <2>1. rec.pc = "starting" /\ UNCHANGED <<current, data, writes>>
    BY <1>5 DEF StartNew
  <2> DEFINE new == [rec EXCEPT !.pc = "awaiting"]
  <2>2. CASE service' = Started /\ Set(u, new)
    <3>1. new.pc = "awaiting" /\ SameFiles(new, rec) /\ new.told = rec.told
      BY <1>1 DEF UpdaterRec, SameFiles
    <3> HIDE DEF new
    <3> QED BY <2>1, <2>2, <3>1, QuietStep DEF Main
  <2>3. CASE Set(u, Cleanup(rec)) /\ UNCHANGED service
    BY <1>1, <2>1, <2>3, GiveUpEffect DEF Main, SameFiles
  <2> QED BY <1>5, <2>2, <2>3 DEF StartNew
<1>6. CASE Await(u)
  <2>1. rec.pc = "awaiting" /\ UNCHANGED <<current, data, writes, service>>
    BY <1>6 DEF Await
  <2> DEFINE calm == [rec EXCEPT !.stopped = FALSE]
  <2>2. CASE Healthy /\ Set(u, End(calm, "updated"))
    <3>1. calm \in UpdaterRec /\ SameFiles(calm, rec)
      BY <1>1 DEF UpdaterRec, SameFiles
    <3> HIDE DEF calm
    <3>2. /\ End(calm, "updated").pc = "ended" /\ End(calm, "updated").told = "updated"
          /\ SameFiles(End(calm, "updated"), rec)
      BY <3>1, EndFiles DEF SameFiles
    <3>3. /\ updater'[u] = End(calm, "updated")
          /\ \A v \in Updaters \ {u} : updater'[v] = updater[v]
      BY <1>1, <2>2 DEF Set
    <3>4. ServiceCurrent' /\ Unmade(End(calm, "updated")) /\ ~Running(End(calm, "updated"))
      BY <1>1, <2>1, <3>2 DEF ServiceCurrent, Active, Unmade, Running, Main
    <3> QED BY <1>0, <2>1, <2>2, <3>2, <3>3, <3>4
            DEF ScriptEffect, Reported, SameFiles, Healthy
  <2>3. CASE Set(u, Cleanup(rec))
    BY <1>1, <2>1, <2>3, GiveUpEffect DEF Main, SameFiles
  <2> QED BY <1>6, <2>2, <2>3 DEF Await
<1> QED BY <1>2, <1>3, <1>4, <1>5, <1>6

\* The rollback: the data goes aside, the backup comes in its place.
LEMMA RestoringEffect ==
  ASSUME Assumed, StoreInv, NEW u \in Updaters,
         StopNew(u) \/ MoveAside(u) \/ Extract(u) \/ Relink(u) \/ Restart(u) \/ Recheck(u)
  PROVE  ScriptEffect(u)
<1> DEFINE rec == updater[u]
<1>0. Running(rec)
  BY DEF StopNew, MoveAside, Extract, Relink, Restart, Recheck, Running
<1>1. /\ rec \in UpdaterRec /\ updater \in [Updaters -> UpdaterRec]
      /\ current \in Releases /\ data \in Directory
      /\ ServiceCurrent /\ Unmade(rec) /\ Followed(rec) /\ Stage(rec) /\ Known(rec)
  BY <1>0 DEF StoreInv, BootInv, TypeOK
<1>2. ASSUME Set(u, End(rec, "incomplete")), UNCHANGED <<data, current, writes>>,
             service' \in {service, Halted}
      PROVE  ScriptEffect(u)
  BY <1>2, GiveUpEffect
<1>3. CASE StopNew(u)
  <2>1. rec.pc = "rollback" /\ UNCHANGED <<current, data, writes>>
        /\ service' \in {service, Halted}
    BY <1>3 DEF StopNew
  <2>2. ASSUME NEW pc \in {"moving", "relinking"}, Set(u, [rec EXCEPT !.pc = pc])
        PROVE  ScriptEffect(u)
    <3> DEFINE new == [rec EXCEPT !.pc = pc]
    <3>1. new.pc = pc /\ SameFiles(new, rec) /\ new.told = rec.told
      BY <1>1 DEF UpdaterRec, SameFiles
    <3> HIDE DEF new
    <3>2. Set(u, new)
      BY <2>2 DEF new
    <3> QED BY <2>1, <2>2, <3>1, <3>2, QuietStep
  <2>3. CASE Set(u, End(rec, "incomplete"))
    BY <1>2, <2>1, <2>3
  <2> QED BY <1>3, <2>2, <2>3 DEF StopNew
<1>4. CASE MoveAside(u)
  <2>1. /\ rec.pc = "moving" /\ UNCHANGED <<current, writes, service>>
        /\ rec.failed = Missing
    BY <1>1, <1>4 DEF MoveAside, Unmade
  <2> DEFINE new == [rec EXCEPT !.pc = "extracting", !.failed = data]
  <2>2. CASE data' = Missing /\ Set(u, new)
    <3>1. /\ new.pc = "extracting" /\ new.backup = rec.backup /\ new.failed = data
          /\ new.told = rec.told
      BY <1>1 DEF UpdaterRec
    <3> HIDE DEF new
    <3>2. updater'[u] = new /\ \A v \in Updaters \ {u} : updater'[v] = updater[v]
      BY <1>1, <2>2 DEF Set
    <3>3. Unmade(new) /\ Followed(updater[u])' /\ ServiceCurrent'
      BY <1>1, <2>1, <2>2, <3>1, <3>2 DEF Unmade, Followed, Main, ServiceCurrent, Active
    <3> QED BY <2>1, <2>2, <3>1, <3>2, <3>3 DEF ScriptEffect, Reported
  <2>3. CASE Set(u, End(rec, "incomplete")) /\ UNCHANGED data
    BY <1>2, <2>1, <2>3
  <2> QED BY <1>4, <2>2, <2>3 DEF MoveAside, Kept
<1>5. CASE Extract(u)
  <2>1. /\ rec.pc = "extracting" /\ UNCHANGED <<current, writes, service>>
        /\ data = Missing /\ Complete(rec.backup)
    BY <1>1, <1>5 DEF Extract, Followed, Known, Flags, BackedUp
  <2>2. ServiceCurrent'
    BY <1>1, <2>1 DEF ServiceCurrent, Active
  <2> DEFINE new == [rec EXCEPT !.pc = "relinking"]
  <2>3. CASE data' = rec.backup /\ Set(u, new)
    <3>1. new.pc = "relinking" /\ SameFiles(new, rec) /\ new.told = rec.told
      BY <1>1 DEF UpdaterRec, SameFiles
    <3> HIDE DEF new
    <3>2. updater'[u] = new /\ \A v \in Updaters \ {u} : updater'[v] = updater[v]
      BY <1>1, <2>3 DEF Set
    <3>3. Unmade(new) /\ Followed(updater[u])'
      BY <2>1, <2>3, <3>1, <3>2 DEF Unmade, Followed, Main, HasRows, SameFiles
    <3> QED BY <2>1, <2>2, <3>1, <3>2, <3>3 DEF ScriptEffect, Reported, SameFiles
  <2>4. CASE Set(u, End(rec, "incomplete"))
    <3>1. /\ End(rec, "incomplete").pc = "ended" /\ End(rec, "incomplete").told = "incomplete"
          /\ SameFiles(End(rec, "incomplete"), rec)
      BY <1>1, EndFiles
    <3>2. /\ updater'[u] = End(rec, "incomplete")
          /\ \A v \in Updaters \ {u} : updater'[v] = updater[v]
      BY <1>1, <2>4 DEF Set
    <3>3. Unmade(End(rec, "incomplete")) /\ ~Running(End(rec, "incomplete"))
      BY <3>1 DEF Unmade, Running, Main
    <3> QED BY <2>1, <2>2, <3>1, <3>2, <3>3 DEF ScriptEffect, Reported, SameFiles
  <2> QED BY <1>5, <2>3, <2>4 DEF Extract
<1>6. CASE Relink(u)
  <2>1. rec.pc = "relinking" /\ UNCHANGED <<data, writes, service>>
    BY <1>6 DEF Relink
  <2> DEFINE new == [rec EXCEPT !.pc = "restarting"]
  <2>2. CASE current' = (IF rec.switched THEN rec.old ELSE current) /\ Set(u, new)
    <3>1. new.pc = "restarting" /\ SameFiles(new, rec) /\ new.told = rec.told
          /\ new.switched = rec.switched
      BY <1>1 DEF UpdaterRec, SameFiles
    <3> HIDE DEF new
    <3>2. updater'[u] = new /\ \A v \in Updaters \ {u} : updater'[v] = updater[v]
      BY <1>1, <2>2 DEF Set
    <3>3. Unmade(new) /\ Followed(updater[u])'
      BY <1>1, <2>1, <2>2, <3>1, <3>2 DEF Unmade, Followed, Main, SameFiles
    <3>4. ServiceCurrent'
      BY <1>1, <2>1, <2>2 DEF ServiceCurrent, Active, Stage, Down, Untouched
    <3> QED BY <2>1, <3>1, <3>2, <3>3, <3>4 DEF ScriptEffect, Reported, SameFiles
  <2>3. CASE Set(u, End(rec, "incomplete")) /\ UNCHANGED current
    BY <1>2, <2>1, <2>3
  <2> QED BY <1>6, <2>2, <2>3 DEF Relink
<1>7. CASE Restart(u)
  <2>1. rec.pc = "restarting" /\ UNCHANGED <<current, data, writes>>
    BY <1>7 DEF Restart
  <2> DEFINE new == [rec EXCEPT !.pc = "rechecking"]
  <2>2. CASE service' = Started /\ Set(u, new)
    <3>1. new.pc = "rechecking" /\ SameFiles(new, rec) /\ new.told = rec.told
          /\ new.switched = rec.switched
      BY <1>1 DEF UpdaterRec, SameFiles
    <3> HIDE DEF new
    <3> QED BY <2>1, <2>2, <3>1, QuietStep
  <2>3. CASE Set(u, End(rec, "incomplete")) /\ UNCHANGED service
    BY <1>2, <2>1, <2>3
  <2> QED BY <1>7, <2>2, <2>3 DEF Restart
<1>8. CASE Recheck(u)
  <2>1. rec.pc = "rechecking" /\ UNCHANGED <<current, data, writes, service>>
    BY <1>8 DEF Recheck
  <2>2. CASE Healthy /\ Set(u, End(rec, "restored"))
    <3>1. /\ End(rec, "restored").pc = "ended" /\ End(rec, "restored").told = "restored"
          /\ SameFiles(End(rec, "restored"), rec)
      BY <1>1, EndFiles
    <3>2. /\ updater'[u] = End(rec, "restored")
          /\ \A v \in Updaters \ {u} : updater'[v] = updater[v]
      BY <1>1, <2>2 DEF Set
    <3>3. ServiceCurrent' /\ Unmade(End(rec, "restored")) /\ ~Running(End(rec, "restored"))
      BY <1>1, <2>1, <3>1 DEF ServiceCurrent, Active, Unmade, Running, Main
    <3> QED BY <1>0, <2>1, <2>2, <3>1, <3>2, <3>3
            DEF ScriptEffect, Reported, SameFiles, Healthy
  <2>3. CASE Set(u, End(rec, "incomplete"))
    BY <1>2, <2>1, <2>3
  <2> QED BY <1>8, <2>2, <2>3 DEF Recheck
<1> QED BY <1>3, <1>4, <1>5, <1>6, <1>7, <1>8

\* A signal or a kill.
LEMMA FaultEffect ==
  ASSUME Assumed, StoreInv, NEW u \in Updaters, Signal(u) \/ Kill(u)
  PROVE  ScriptEffect(u)
<1>1. updater[u] \in UpdaterRec
  BY DEF StoreInv, BootInv, TypeOK
<1> QED BY <1>1, GiveUpEffect DEF Signal, Kill, SameFiles

-----------------------------------------------------------------------------
\* One acknowledged change and the files that hold it.
Stored(w) ==
  \/ HasRows(data, {w})
  \/ \E u \in Updaters : HasRows(updater[u].backup, {w}) \/ HasRows(updater[u].failed, {w})

\* A step of a script moves a change at most from one file to another.
LEMMA ScriptStores ==
  ASSUME NEW u \in Updaters, ScriptEffect(u), NEW w, Stored(w)
  PROVE  Stored(w)'
<1>0. ~HasRows(Missing, {w})
  BY DEF HasRows, Complete, Missing
<1>1. CASE HasRows(data, {w})
  BY <1>0, <1>1 DEF Stored, ScriptEffect
<1>2. ASSUME NEW v \in Updaters,
             HasRows(updater[v].backup, {w}) \/ HasRows(updater[v].failed, {w})
      PROVE Stored(w)'
  <2>1. CASE v = u
    BY <1>0, <1>2, <2>1 DEF Stored, ScriptEffect
  <2>2. CASE v # u
    <3>1. updater'[v] = updater[v]
      BY <2>2 DEF ScriptEffect
    <3> QED BY <1>2, <3>1 DEF Stored
  <2> QED BY <2>1, <2>2
<1> QED BY <1>1, <1>2 DEF Stored

\* A script's step preserves the invariant: no other script runs.
LEMMA ScriptStoreStep ==
  ASSUME Assumed, StoreInv, BootInv', NEW u \in Updaters, ScriptEffect(u),
         \A v \in Updaters \ {u} : ~Running(updater[v])
  PROVE  StoreInv'
<1>1. /\ \A v \in Updaters \ {u} : updater'[v] = updater[v]
      /\ Unmade(updater'[u]) /\ (Running(updater'[u]) => Followed(updater[u])')
      /\ UNCHANGED writes /\ ServiceCurrent'
  BY DEF ScriptEffect
<1>2. \A v \in Updaters : Unmade(updater[v])'
  BY <1>1 DEF StoreInv, Unmade
<1>3. \A v \in Updaters : Running(updater[v])' => Followed(updater[v])'
  BY <1>1 DEF Running
<1>4. \A w \in 1..writes : Stored(w)
  BY DEF StoreInv, NoWriteLost, Stored
<1>5. \A w \in 1..writes : Stored(w)'
  BY <1>4, ScriptStores
<1>6. NoWriteLost'
  BY <1>1, <1>5 DEF NoWriteLost, Stored
<1> QED BY <1>1, <1>2, <1>3, <1>6 DEF StoreInv

\* The service never drops rows: a release migrates them or leaves them.
LEMMA OpenKeepsRows ==
  ASSUME Assumed, StoreInv, Open
  PROVE  \A rows : HasRows(data, rows) => HasRows(data', rows)
<1> SUFFICES ASSUME NEW rows, HasRows(data, rows) PROVE HasRows(data', rows)
  OBVIOUS
<1>1. data \in Database /\ Complete(data)
  BY DEF StoreInv, BootInv, TypeOK, Directory, HasRows, Complete, Missing, Partial
<1>2. data # Missing
  BY <1>1 DEF Complete, Missing
<1>3. data' = data \/ \E s : data' = [data EXCEPT !.schema = s]
  BY <1>1, <1>2 DEF Open
<1> QED BY <1>1, <1>3 DEF HasRows, Complete, Database

\* The service, GitHub and a reboot.
LEMMA SurroundingStores ==
  ASSUME Assumed, StoreInv, BootInv', Open \/ Write \/ Publish \/ Reboot
  PROVE  StoreInv'
<1>1. /\ ServiceCurrent /\ (\A u \in Updaters : Unmade(updater[u]))
      /\ \A u \in Updaters : Running(updater[u]) => Followed(updater[u]) /\ Stage(updater[u])
      /\ \A u \in Updaters : updater[u] \in UpdaterRec
      /\ \A w \in 1..writes : Stored(w)
      /\ TypeOK
  BY DEF StoreInv, BootInv, TypeOK, NoWriteLost, Stored
<1>2. ASSUME UNCHANGED <<current, updater>>, Active,
             \A rows : HasRows(data, rows) => HasRows(data', rows)
      PROVE  /\ \A u \in Updaters : Unmade(updater[u])'
             /\ \A u \in Updaters : Running(updater[u])' => Followed(updater[u])'
             /\ \A w \in 1..writes : Stored(w)'
  <2>1. \A u \in Updaters : Running(updater[u])' => Followed(updater[u])'
    BY <1>1, <1>2 DEF Followed, Stage, Down
  <2>2. \A u \in Updaters : Unmade(updater[u])'
    BY <1>1, <1>2 DEF Unmade
  <2>3. \A w \in 1..writes : Stored(w)'
    BY <1>1, <1>2 DEF Stored
  <2> QED BY <2>1, <2>2, <2>3
<1>3. CASE Open
  <2>1. UNCHANGED <<current, writes, updater>> /\ Active
    BY <1>3 DEF Open, Active
  <2>2. \A rows : HasRows(data, rows) => HasRows(data', rows)
    BY <1>3, OpenKeepsRows
  <2>3. ServiceCurrent'
    BY <1>1, <1>3, <2>1 DEF Open, ServiceCurrent, Active, TypeOK
  <2>4. /\ \A u \in Updaters : Unmade(updater[u])'
        /\ \A u \in Updaters : Running(updater[u])' => Followed(updater[u])'
        /\ \A w \in 1..writes : Stored(w)'
    BY <1>2, <2>1, <2>2
  <2>5. NoWriteLost'
    BY <2>1, <2>4 DEF NoWriteLost, Stored
  <2> QED BY <2>3, <2>4, <2>5 DEF StoreInv
<1>4. CASE Write
  <2>1. /\ UNCHANGED <<current, service, updater>> /\ Active /\ Complete(data)
        /\ writes' = writes + 1
        /\ data' = [data EXCEPT !.rows = @ \cup {writes + 1}]
    BY <1>4 DEF Write, Active
  <2>2. data \in Database /\ writes \in Nat
    BY <1>1, <2>1 DEF TypeOK, Directory, Complete, Missing, Partial
  <2>3. /\ \A rows : HasRows(data, rows) => HasRows(data', rows)
        /\ HasRows(data', {writes + 1})
    BY <2>1, <2>2 DEF HasRows, Complete, Database
  <2>4. ServiceCurrent'
    BY <1>1, <2>1 DEF ServiceCurrent, Active
  <2>5. /\ \A u \in Updaters : Unmade(updater[u])'
        /\ \A u \in Updaters : Running(updater[u])' => Followed(updater[u])'
        /\ \A w \in 1..writes : Stored(w)'
    BY <1>2, <2>1, <2>3
  <2>6. \A w : w = writes + 1 => Stored(w)'
    BY <2>1, <2>3 DEF Stored
  <2>7. \A w \in 1..writes' : w \in 1..writes \/ w = writes + 1
    BY <2>1, <2>2
  <2>8. NoWriteLost'
    BY <2>5, <2>6, <2>7 DEF NoWriteLost, Stored
  <2> QED BY <2>4, <2>5, <2>8 DEF StoreInv
<1>5. CASE Publish
  <2>1. UNCHANGED <<current, data, writes, service, updater>>
    BY <1>5 DEF Publish
  <2> QED BY <2>1 DEF StoreInv, ServiceCurrent, Active, Unmade, Followed, NoWriteLost
<1>6. CASE Reboot
  <2>1. /\ UNCHANGED <<current, data, writes>>
        /\ service' = [state |-> "starting", release |-> current]
    BY <1>6 DEF Reboot
  <2>2. ASSUME NEW u \in Updaters
        PROVE  /\ ~Running(updater'[u]) /\ Unmade(updater'[u])
               /\ updater'[u].backup = updater[u].backup
               /\ updater'[u].failed = updater[u].failed
    <3>1. CASE Running(updater[u])
      <4>1. updater'[u] = End(updater[u], "killed")
        BY <1>6, <3>1 DEF Reboot
      <4> QED BY <1>1, <4>1, EndFiles DEF Running, Unmade, SameFiles, Main
    <3>2. CASE ~Running(updater[u])
      <4>1. updater'[u] = updater[u]
        BY <1>6, <3>2 DEF Reboot
      <4> QED BY <1>1, <3>2, <4>1
    <3> QED BY <3>1, <3>2
  <2>3. \A w \in 1..writes : Stored(w)'
    BY <1>1, <2>1, <2>2 DEF Stored
  <2>4. NoWriteLost'
    BY <2>1, <2>3 DEF NoWriteLost, Stored
  <2>5. ServiceCurrent'
    BY <2>1 DEF ServiceCurrent
  <2> QED BY <2>2, <2>4, <2>5 DEF StoreInv
<1> QED BY <1>3, <1>4, <1>5, <1>6

LEMMA StoreInit == Assumed /\ Init => StoreInv
<1> SUFFICES ASSUME Assumed, Init PROVE StoreInv
  OBVIOUS
<1>1. /\ \A u \in Updaters : Unmade(updater[u]) /\ ~Running(updater[u])
      /\ ServiceCurrent /\ NoWriteLost
  BY DEF Init, NewUpdater, Unmade, Running, ServiceCurrent, NoWriteLost
<1> QED BY <1>1, BootInit DEF StoreInv

\* Whoever takes a step runs alone.
LEMMA StepAlone ==
  ASSUME Assumed, StoreInv, NEW u \in Updaters,
         Begin(u) \/ Update(u) \/ Restore(u) \/ Signal(u) \/ Kill(u)
  PROVE  ScriptEffect(u) /\ \A v \in Updaters \ {u} : ~Running(updater[v])
<1>1. ScriptEffect(u)
  BY PreparingEffect, SwitchingEffect, RestoringEffect, FaultEffect DEF Update, Restore
<1>2. CASE Begin(u)
  BY <1>1, <1>2, BeginAlone DEF StoreInv
<1>3. CASE Update(u) \/ Restore(u) \/ Signal(u) \/ Kill(u)
  <2>1. Running(updater[u])
    BY <1>3 DEF Update, Restore, Look, StopOld, Backup, Install, Switch, Mark, Attempt,
       StartNew, Await, StopNew, MoveAside, Extract, Relink, Restart, Recheck, Signal,
       Kill, Running, Main
  <2> QED BY <1>1, <2>1, OthersRest DEF StoreInv
<1> QED BY <1>1, <1>2, <1>3

LEMMA StoreStep == Assumed /\ StoreInv /\ [Next]_vars => StoreInv'
<1> SUFFICES ASSUME Assumed, StoreInv, [Next]_vars PROVE StoreInv'
  OBVIOUS
<1>1. BootInv'
  BY BootStep DEF StoreInv
<1>2. ASSUME NEW u \in Updaters,
             Begin(u) \/ Update(u) \/ Restore(u) \/ Signal(u) \/ Kill(u)
      PROVE  StoreInv'
  BY <1>1, <1>2, StepAlone, ScriptStoreStep
<1>3. CASE Open \/ Write \/ Publish \/ Reboot
  BY <1>1, <1>3, SurroundingStores
<1>4. CASE UNCHANGED vars
  BY <1>1, <1>4 DEF vars, StoreInv, ServiceCurrent, Active, Unmade, Followed, Running,
     NoWriteLost
<1> QED BY <1>2, <1>3, <1>4 DEF Next

LEMMA SpecStoreInv == ASSUME AtOnce = 1 PROVE Spec => []StoreInv
<1>1. Assumed
  BY UpdaterAssumption DEF Assumed
<1>2. Init => StoreInv
  BY <1>1, StoreInit
<1>3. StoreInv /\ [Next]_vars => StoreInv'
  BY <1>1, StoreStep
<1> QED BY <1>2, <1>3, PTL DEF Spec

\* Runs of the script one at a time: every change the panel acknowledged is
\* in the data, in a complete backup or in a directory of failed data,
\* whatever fails or cuts the runs off (backup_data and
\* restore_after_failure, deploy/update.sh).
THEOREM NoWriteLostTheorem ==
  ASSUME AtOnce = 1
  PROVE  Spec => []NoWriteLost
BY SpecStoreInv, PTL DEF StoreInv

\* What a step that reports finds: the run is in a stage that follows the
\* data, and the unit is the release behind the link.
LEMMA ReportStep ==
  ASSUME Assumed, StoreInv, Next, NEW u \in Updaters,
         updater[u].told = "nothing", updater'[u].told \in {"updated", "restored"}
  PROVE  /\ service'.state = "ready" /\ service'.release = current'
         /\ updater[u].backup # Missing =>
              updater[u].backup = Partial \/ HasRows(data', updater[u].backup.rows)
         /\ updater'[u].told = "restored" /\ updater[u].switched =>
              service'.release = updater[u].old
<1>1. Reported(u)
  <2>1. CASE Open \/ Write \/ Publish
    BY <2>1 DEF Open, Write, Publish
  <2>2. CASE Reboot
    <3>1. updater[u] \in UpdaterRec
      BY DEF StoreInv, BootInv, TypeOK
    <3>2. updater'[u].told \in {updater[u].told, "killed"}
      BY <2>2, <3>1, EndFiles DEF Reboot
    <3> QED BY <3>2
  <2>3. ASSUME NEW v \in Updaters \ {u}, ScriptEffect(v) PROVE Reported(u)
    BY <2>3 DEF ScriptEffect
  <2>4. ASSUME ScriptEffect(u) PROVE Reported(u)
    BY <2>4 DEF ScriptEffect
  <2> QED BY <2>1, <2>2, <2>3, <2>4, StepAlone DEF Next
<1>2. /\ UNCHANGED <<service, current, data>> /\ service.state = "ready"
      /\ Running(updater[u]) /\ updater[u].pc # "extracting"
      /\ updater'[u].told = "restored" => updater[u].pc = "rechecking"
  BY <1>1 DEF Reported
<1>3. service.release = current /\ Followed(updater[u])
  BY <1>2 DEF StoreInv, ServiceCurrent, Active
<1> QED BY <1>2, <1>3 DEF Followed

\* What the script reports is true of the service, the link and the data
\* (main and restore_after_failure, deploy/update.sh).
THEOREM ReportsServingTheorem ==
  ASSUME AtOnce = 1
  PROVE  Spec => ReportsServing
<1> DEFINE Serving ==
      \A u \in Updaters :
        updater[u].told = "nothing" /\ updater'[u].told \in {"updated", "restored"} =>
          /\ service'.state = "ready" /\ service'.release = current'
          /\ updater[u].backup # Missing =>
               updater[u].backup = Partial \/ HasRows(data', updater[u].backup.rows)
<1>1. Assumed
  BY UpdaterAssumption DEF Assumed
<1>2. StoreInv /\ [Next]_vars => [Serving]_vars
  BY <1>1, ReportStep
<1> HIDE DEF Serving
<1>3. Spec => [][Serving]_vars
  BY <1>2, SpecStoreInv, PTL DEF Spec
<1> QED BY <1>3 DEF ReportsServing, Serving

\* A rollback that had recorded the move of the link and says it is complete
\* left the previous release serving (restore_after_failure).
THEOREM RecordedMoveUndoneTheorem ==
  ASSUME AtOnce = 1
  PROVE  Spec => RecordedMoveUndone
<1> DEFINE Undone ==
      \A u \in Updaters :
        updater[u].told = "nothing" /\ updater'[u].told = "restored" /\ updater[u].switched =>
          service'.release = updater[u].old
<1>1. Assumed
  BY UpdaterAssumption DEF Assumed
<1>2. StoreInv /\ [Next]_vars => [Undone]_vars
  BY <1>1, ReportStep
<1> HIDE DEF Undone
<1>3. Spec => [][Undone]_vars
  BY <1>2, SpecStoreInv, PTL DEF Spec
<1> QED BY <1>3 DEF RecordedMoveUndone, Undone
=============================================================================
