---------------------------- MODULE PanelUpdater ----------------------------
(***************************************************************************)
(* deploy/update.sh, the program that replaces the panel's release: it     *)
(* stops the service, backs up the data, installs the release, moves the   *)
(* link `current', starts the new release and, when anything fails,        *)
(* rolls back.  With it, the service as systemd runs it and its database,  *)
(* which a release migrates when it starts (migrateDatabase).              *)
(*                                                                         *)
(* A step is one command of the script that changes something outside it,  *)
(* or one of the flags its cleanup reads.  A signal is handled between two *)
(* steps; a kill ends the script there, and a reboot also starts whatever  *)
(* `current' links to.  Each updater is one run of the script; nothing in  *)
(* it keeps two runs apart.                                                *)
(***************************************************************************)
EXTENDS Integers, FiniteSets

CONSTANTS
  Updaters,    \* runs of update.sh
  AtOnce,      \* assumed: how many of them run at the same time
  Schema,      \* release -> version of its database schema
  Faults,      \* what may befall the script: subset of {"signal", "kill", "reboot"}
  MaxRelease,  \* bound: releases are 0..MaxRelease
  MaxWrites    \* bound: changes the service acknowledges

Releases == 0..MaxRelease

ASSUME UpdaterAssumption ==
  /\ MaxRelease \in Nat /\ MaxWrites \in Nat /\ AtOnce \in Nat
  /\ IsFiniteSet(Updaters)
  /\ Schema \in [Releases -> Nat]
  /\ \A r, s \in Releases : r <= s => Schema[r] <= Schema[s]

ASSUME FaultAssumption == Faults \subseteq {"signal", "kill", "reboot"}

VARIABLES
  published,  \* the latest release on GitHub
  installed,  \* directories under releases/
  current,    \* where the link `current' points
  data,       \* DATA_ROOT
  writes,     \* history: changes acknowledged so far are 1..writes
  service,    \* the systemd unit
  updater     \* Updaters -> progress of the script

vars == <<published, installed, current, data, writes, service, updater>>

Missing == [kind |-> "missing"]
Partial == [kind |-> "partial"]
Database == [kind: {"complete"}, schema: Nat, rows: SUBSET (1..MaxWrites)]
Directory == Database \cup {Missing, Partial}

Holding(schema, rows) == [kind |-> "complete", schema |-> schema, rows |-> rows]
Complete(dir) == dir.kind = "complete"
HasRows(dir, rows) == Complete(dir) /\ rows \subseteq dir.rows

Main == {"looking", "stopping", "backing", "installing", "linking", "marking",
         "attempting", "starting", "awaiting"}
Rollback == {"rollback", "moving", "extracting", "relinking", "restarting", "rechecking"}

UpdaterRec ==
  [pc: {"new", "ended"} \cup Main \cup Rollback,
   old: Releases, new: Releases,      \* OLD_RELEASE, NEW_RELEASE
   stopped: BOOLEAN,                  \* SERVICE_STOPPED
   switched: BOOLEAN,                 \* LINK_SWITCHED
   attempted: BOOLEAN,                \* NEW_SERVICE_ATTEMPTED
   backup: Directory,                 \* BACKUP_FILE
   failed: Directory,                 \* FAILED_DATA_DIRECTORY
   told: {"nothing", "refused", "current", "updated", "restored", "incomplete",
          "killed"}]                  \* the script's last message

NewUpdater ==
  [pc |-> "new", old |-> 0, new |-> 0, stopped |-> FALSE, switched |-> FALSE,
   attempted |-> FALSE, backup |-> Missing, failed |-> Missing, told |-> "nothing"]

TypeOK ==
  /\ published \in Releases
  /\ installed \in SUBSET Releases
  /\ current \in Releases
  /\ data \in Directory
  /\ writes \in 0..MaxWrites
  /\ service \in [state: {"stopped", "starting", "ready", "failed"}, release: Releases]
  /\ updater \in [Updaters -> UpdaterRec]

Init ==
  /\ published = 0 /\ installed = {0} /\ current = 0
  /\ data = Holding(Schema[0], {})
  /\ writes = 0
  /\ service = [state |-> "ready", release |-> 0]
  /\ updater = [u \in Updaters |-> NewUpdater]

Running(rec) == rec.pc \notin {"new", "ended"}

-----------------------------------------------------------------------------
(***************************************************************************)
(* The service.  systemd calls it active from the start of the process     *)
(* until it exits; one that exits at once is restarted and then given up.  *)
(***************************************************************************)
Active == service.state \in {"starting", "ready"}

\* A start of an active unit does nothing.
Started == IF Active THEN service ELSE [state |-> "starting", release |-> current]

Halted == [service EXCEPT !.state = "stopped"]

\* initializeRuntime opens the database before the server listens: it creates
\* one, refuses a newer schema, or applies the migrations that are missing,
\* each in its own transaction, and may fail after any of them.
Open ==
  LET target == Schema[service.release] IN
  /\ service.state = "starting"
  /\ \/ /\ data = Missing
        /\ data' = Holding(target, {})
        /\ service' = [service EXCEPT !.state = "ready"]
     \/ /\ Complete(data) /\ data.schema <= target
        /\ data' = [data EXCEPT !.schema = target]
        /\ service' = [service EXCEPT !.state = "ready"]
     \/ /\ data' \in {data} \cup
              IF Complete(data)
              THEN {[data EXCEPT !.schema = s] : s \in data.schema..target}
              ELSE {}
        /\ service' = [service EXCEPT !.state = "failed"]
  /\ UNCHANGED <<published, installed, current, writes, updater>>

\* A request changes the database and is acknowledged.
Write ==
  /\ service.state = "ready" /\ Complete(data) /\ writes < MaxWrites
  /\ writes' = writes + 1
  /\ data' = [data EXCEPT !.rows = @ \cup {writes + 1}]
  /\ UNCHANGED <<published, installed, current, service, updater>>

Publish ==
  /\ published < MaxRelease
  /\ published' = published + 1
  /\ UNCHANGED <<installed, current, data, writes, service, updater>>

-----------------------------------------------------------------------------
(***************************************************************************)
(* main.  A command that fails ends the script (set -e), and its cleanup   *)
(* rolls back if the service was, or may have been, stopped.               *)
(***************************************************************************)
Set(u, rec) == updater' = [updater EXCEPT ![u] = rec]

End(rec, told) == [rec EXCEPT !.pc = "ended", !.told = told]

\* cleanup with a status other than 0.
Cleanup(rec) ==
  IF rec.stopped THEN [rec EXCEPT !.pc = "rollback"] ELSE End(rec, "refused")

Begin(u) ==
  /\ updater[u].pc = "new"
  /\ Cardinality({v \in Updaters : Running(updater[v])}) < AtOnce
  /\ Set(u, IF Active THEN [updater[u] EXCEPT !.pc = "looking", !.old = current]
            ELSE End(updater[u], "refused"))
  /\ UNCHANGED <<published, installed, current, data, writes, service>>

\* The release is looked up, downloaded and validated.
Look(u) ==
  /\ updater[u].pc = "looking"
  /\ \/ Set(u, Cleanup(updater[u]))
     \/ /\ published = updater[u].old
        /\ Set(u, End(updater[u], "current"))
     \/ /\ published # updater[u].old /\ published \notin installed
        /\ Set(u, [updater[u] EXCEPT !.pc = "stopping", !.new = published])
  /\ UNCHANGED <<published, installed, current, data, writes, service>>

\* A script that notes the stop only once it succeeded.
StopOldLate(u) ==
  /\ updater[u].pc = "stopping"
  /\ service' \in {service, Halted}
  /\ \/ Set(u, Cleanup(updater[u]))
     \/ /\ service'.state \notin {"starting", "ready"}
        /\ Set(u, [updater[u] EXCEPT !.pc = "backing", !.stopped = TRUE])
  /\ UNCHANGED <<published, installed, current, data, writes>>

\* systemctl stop may fail, with the unit stopped or not, or may succeed and
\* leave it active, which the script checks.
StopOld(u) ==
  LET marked == [updater[u] EXCEPT !.stopped = TRUE] IN
  /\ updater[u].pc = "stopping"
  /\ service' \in {service, Halted}
  /\ \/ Set(u, Cleanup(marked))
     \/ /\ service'.state \notin {"starting", "ready"}
        /\ Set(u, [marked EXCEPT !.pc = "backing"])
  /\ UNCHANGED <<published, installed, current, data, writes>>

\* A tar that fails may leave an incomplete file.
Backup(u) ==
  /\ updater[u].pc = "backing"
  /\ \/ /\ Complete(data)
        /\ Set(u, [updater[u] EXCEPT !.pc = "installing", !.backup = data])
     \/ Set(u, Cleanup([updater[u] EXCEPT !.backup = Partial]))
  /\ UNCHANGED <<published, installed, current, data, writes, service>>

\* mv puts the release under releases/, also into a directory of its name.
Install(u) ==
  /\ updater[u].pc = "installing"
  /\ \/ /\ installed' = installed \cup {updater[u].new}
        /\ Set(u, [updater[u] EXCEPT !.pc = "linking"])
     \/ /\ Set(u, Cleanup(updater[u]))
        /\ UNCHANGED installed
  /\ UNCHANGED <<published, current, data, writes, service>>

\* switch_current_link: a link is renamed over `current'.
Switch(u) ==
  /\ updater[u].pc = "linking"
  /\ \/ /\ current' = updater[u].new
        /\ Set(u, [updater[u] EXCEPT !.pc = "marking"])
     \/ /\ Set(u, Cleanup(updater[u]))
        /\ UNCHANGED current
  /\ UNCHANGED <<published, installed, data, writes, service>>

Mark(u) ==
  /\ updater[u].pc = "marking"
  /\ Set(u, [updater[u] EXCEPT !.pc = "attempting", !.switched = TRUE])
  /\ UNCHANGED <<published, installed, current, data, writes, service>>

Attempt(u) ==
  /\ updater[u].pc = "attempting"
  /\ Set(u, [updater[u] EXCEPT !.pc = "starting", !.attempted = TRUE])
  /\ UNCHANGED <<published, installed, current, data, writes, service>>

StartNew(u) ==
  /\ updater[u].pc = "starting"
  /\ \/ /\ service' = Started
        /\ Set(u, [updater[u] EXCEPT !.pc = "awaiting"])
     \/ /\ Set(u, Cleanup(updater[u]))
        /\ UNCHANGED service
  /\ UNCHANGED <<published, installed, current, data, writes>>

\* A health check that is content with an active unit.
ActiveIsHealthy == Active

\* /api/health answers once the database is open.
Healthy == service.state = "ready"

\* wait_for_health: it succeeds, or gives up.
Await(u) ==
  /\ updater[u].pc = "awaiting"
  /\ \/ /\ Healthy
        /\ Set(u, End([updater[u] EXCEPT !.stopped = FALSE], "updated"))
     \/ Set(u, Cleanup(updater[u]))
  /\ UNCHANGED <<published, installed, current, data, writes, service>>

-----------------------------------------------------------------------------
(***************************************************************************)
(* restore_after_failure.                                                  *)
(***************************************************************************)
\* A rollback that trusts the exit status of systemctl stop.
StopNewUnchecked(u) ==
  /\ updater[u].pc = "rollback"
  /\ service' \in IF updater[u].attempted THEN {service, Halted} ELSE {service}
  /\ Set(u, [updater[u] EXCEPT !.pc = IF updater[u].attempted
                                      THEN "moving" ELSE "relinking"])
  /\ UNCHANGED <<published, installed, current, data, writes>>

\* What the new release may have touched is only restored after it stopped.
StopNew(u) ==
  /\ updater[u].pc = "rollback"
  /\ \/ /\ ~updater[u].attempted
        /\ Set(u, [updater[u] EXCEPT !.pc = "relinking"])
        /\ UNCHANGED service
     \/ /\ updater[u].attempted
        /\ service' \in {service, Halted}
        /\ \/ Set(u, End(updater[u], "incomplete"))
           \/ /\ service'.state \notin {"starting", "ready"}
              /\ Set(u, [updater[u] EXCEPT !.pc = "moving"])
  /\ UNCHANGED <<published, installed, current, data, writes>>

\* A rollback that overwrites the data of the failed release.
NotKept(dir) == Missing

Kept(dir) == dir

MoveAside(u) ==
  /\ updater[u].pc = "moving"
  /\ \/ /\ data' = Missing
        /\ Set(u, [updater[u] EXCEPT !.pc = "extracting", !.failed = Kept(data)])
     \/ /\ data # Missing
        /\ Set(u, End(updater[u], "incomplete"))
        /\ UNCHANGED data
  /\ UNCHANGED <<published, installed, current, writes, service>>

Extract(u) ==
  /\ updater[u].pc = "extracting"
  /\ \/ /\ data' = updater[u].backup
        /\ Set(u, [updater[u] EXCEPT !.pc = "relinking"])
     \/ /\ data' = Partial
        /\ Set(u, End(updater[u], "incomplete"))
  /\ UNCHANGED <<published, installed, current, writes, service>>

\* A rollback that starts the service on whatever `current' links to.
RelinkNever(u) ==
  /\ updater[u].pc = "relinking"
  /\ Set(u, [updater[u] EXCEPT !.pc = "restarting"])
  /\ UNCHANGED <<published, installed, current, data, writes, service>>

Relink(u) ==
  /\ updater[u].pc = "relinking"
  /\ \/ /\ current' = IF updater[u].switched THEN updater[u].old ELSE current
        /\ Set(u, [updater[u] EXCEPT !.pc = "restarting"])
     \/ /\ updater[u].switched
        /\ Set(u, End(updater[u], "incomplete"))
        /\ UNCHANGED current
  /\ UNCHANGED <<published, installed, data, writes, service>>

Restart(u) ==
  /\ updater[u].pc = "restarting"
  /\ \/ /\ service' = Started
        /\ Set(u, [updater[u] EXCEPT !.pc = "rechecking"])
     \/ /\ Set(u, End(updater[u], "incomplete"))
        /\ UNCHANGED service
  /\ UNCHANGED <<published, installed, current, data, writes>>

Recheck(u) ==
  /\ updater[u].pc = "rechecking"
  /\ \/ Healthy /\ Set(u, End(updater[u], "restored"))
     \/ Set(u, End(updater[u], "incomplete"))
  /\ UNCHANGED <<published, installed, current, data, writes, service>>

-----------------------------------------------------------------------------
(***************************************************************************)
(* Faults.  SIGINT and SIGTERM are trapped until the cleanup starts; from  *)
(* then on they kill the script.                                           *)
(***************************************************************************)
Signal(u) ==
  /\ "signal" \in Faults
  /\ updater[u].pc \in Main
  /\ Set(u, Cleanup(updater[u]))
  /\ UNCHANGED <<published, installed, current, data, writes, service>>

Kill(u) ==
  /\ "kill" \in Faults
  /\ Running(updater[u])
  /\ Set(u, End(updater[u], "killed"))
  /\ UNCHANGED <<published, installed, current, data, writes, service>>

Reboot ==
  /\ "reboot" \in Faults
  /\ service' = [state |-> "starting", release |-> current]
  /\ updater' = [u \in Updaters |-> IF Running(updater[u])
                                    THEN End(updater[u], "killed")
                                    ELSE updater[u]]
  /\ UNCHANGED <<published, installed, current, data, writes>>

Update(u) ==
  \/ Look(u) \/ StopOld(u) \/ Backup(u) \/ Install(u) \/ Switch(u)
  \/ Mark(u) \/ Attempt(u) \/ StartNew(u) \/ Await(u)

Restore(u) ==
  \/ StopNew(u) \/ MoveAside(u) \/ Extract(u)
  \/ Relink(u) \/ Restart(u) \/ Recheck(u)

Next ==
  \/ Open \/ Write \/ Publish \/ Reboot
  \/ \E u \in Updaters :
       Begin(u) \/ Update(u) \/ Restore(u) \/ Signal(u) \/ Kill(u)

Spec == Init /\ [][Next]_vars

\* The script runs; every command it calls has a time limit or ends.
FairSpec == Spec /\ \A u \in Updaters : WF_vars(Update(u) \/ Restore(u))

-----------------------------------------------------------------------------
\* Wherever a run is cut off, the release `current' links to can open the
\* data it will find: `current' never leaves a release while the data has a
\* schema that only this release knows, and data is never put back under a
\* release older than it (order of the steps of main and of
\* restore_after_failure; "No ejecutes version antigua sobre esquema nuevo",
\* README).
AlwaysBootable ==
  Complete(data) => data.schema <= Schema[current]

\* Whatever fails or interrupts the runs, every change the panel ever
\* acknowledged is in the data directory, in a complete backup or in a
\* directory of failed data.
NoWriteLost ==
  \A w \in 1..writes :
    \/ HasRows(data, {w})
    \/ \E u \in Updaters : HasRows(updater[u].backup, {w}) \/ HasRows(updater[u].failed, {w})

\* When the script says that it updated or that its rollback is complete, the
\* release behind `current' is serving everything the backup holds.
ReportsServing ==
  [][\A u \in Updaters :
       updater[u].told = "nothing" /\ updater'[u].told \in {"updated", "restored"} =>
         /\ service'.state = "ready" /\ service'.release = current'
         /\ updater[u].backup # Missing =>
              updater[u].backup = Partial \/ HasRows(data', updater[u].backup.rows)]_vars

\* A rollback that says it is complete and whose updater had recorded the move
\* of the link brought the previous release back (restore_after_failure).
RecordedMoveUndone ==
  [][\A u \in Updaters :
       updater[u].told = "nothing" /\ updater'[u].told = "restored" /\ updater[u].switched =>
         service'.release = updater[u].old]_vars

\* A rollback that says it is complete brought the previous release back
\* ("restaura backup de SQLite y enlace anterior, y comprueba de nuevo
\* servicio antiguo", README; restore_after_failure).
RollbackRestores ==
  [][\A u \in Updaters :
       updater[u].told = "nothing" /\ updater'[u].told = "restored" =>
         service'.release = updater[u].old]_vars

\* An update that is not killed never leaves the panel stopped without an
\* error that says so: the service is started again, or the run reports an
\* incomplete rollback (SERVICE_STOPPED and cleanup).
OutageEnds ==
  service.state = "stopped" ~>
    service.state # "stopped" \/ \E u \in Updaters : updater[u].told \in {"incomplete", "killed"}
=============================================================================
