----------------------------- MODULE DeviceRows -----------------------------
(***************************************************************************)
(* The rows of the devices table and what the SQL statements of            *)
(* server/core/database.ts do to one row.  Nothing here has state: the     *)
(* modules that EXTEND this one decide when a statement runs.              *)
(*                                                                         *)
(* A row's sshUser and companionSecret are one field, cred: a row has one  *)
(* or the other, as its method says, and every statement treats the two    *)
(* the same way.  Names, ids and creation dates play no part in any        *)
(* decision and are left out.  ISO timestamps and millisecond integers     *)
(* are both instants of the same clock.                                    *)
(***************************************************************************)
EXTENDS Integers

CONSTANTS
  Ids,               \* device identifiers; randomUUID never repeats one
  Macs,              \* normalized MAC addresses
  Addresses,         \* private IPv4 addresses or host names
  Creds,             \* SSH users and Companion secrets
  Null,              \* SQL NULL, an absent input field, no reply yet
  Unused, Deleted,   \* an id nobody has yet, the id of a deleted device
  WakeCooldown,      \* WAKE_COOLDOWN_MS
  ShutdownCooldown   \* SHUTDOWN_COOLDOWN_MS

ASSUME NullAssumption ==
  /\ Null \notin Int
  /\ Null \notin {"ssh", "companion", "none"}
  /\ Null \notin Ids
  /\ Null \notin Macs
  /\ Null \notin Addresses
  /\ Null \notin Creds

ASSUME CooldownAssumption ==
  /\ WakeCooldown \in Nat \ {0}
  /\ ShutdownCooldown \in Nat \ {0}

Methods == {"ssh", "companion", "none"}
Stamp == Nat \cup {Null}

Row == [mac: Macs,
        address: Addresses \cup {Null},
        method: Methods,
        cred: Creds \cup {Null},
        lastAttemptMs: Stamp,
        lastSentAt: Stamp,
        lastSeenAt: Stamp,
        lastShutdownAttemptMs: Stamp,
        updatedAt: Nat]

ASSUME AbsenceAssumption ==
  /\ Unused # Deleted
  /\ Unused \notin Row
  /\ Deleted \notin Row

IsRow(x) == x \notin {Unused, Deleted}

(***************************************************************************)
(* The body of POST and PATCH requests.  method = Null: not sent; cred =   *)
(* Null: no SSH user, or a blank pairing code.                             *)
(***************************************************************************)
Input == [mac: Macs,
          address: Addresses \cup {Null},
          method: Methods \cup {Null},
          cred: Creds \cup {Null}]

\* Without parseRemoteMethod's fallbacks.
MethodAsSent(in, currentMethod) == in.method

\* parseRemoteMethod: an omitted method is the current one, "ssh" for a new device.
ParsedMethod(in, currentMethod) ==
  CASE in.method # Null       -> in.method
    [] currentMethod # Null   -> currentMethod
    [] OTHER                  -> "ssh"

\* parseDeviceInput accepts the body; currentMethod is Null for a new device.
InputAccepted(in, currentMethod) ==
  LET method == ParsedMethod(in, currentMethod) IN
  /\ method # "none" => in.address # Null
  /\ method = "ssh" => in.cred # Null
  /\ (method = "companion" /\ in.cred = Null) => currentMethod = "companion"

\* A credential whatever the method.
KeepsCred(in, currentMethod) == [in EXCEPT !.method = ParsedMethod(in, currentMethod)]

\* The DeviceInput it returns.
Parsed(in, currentMethod) ==
  LET method == ParsedMethod(in, currentMethod) IN
  [in EXCEPT !.method = method,
             !.cred = IF method = "none" THEN Null ELSE in.cred]

\* update(): a blank code keeps the secret of a row that is companion already.
EffectiveCred(parsed, current) ==
  IF parsed.method = "companion" /\ parsed.cred = Null /\ current.method = "companion"
  THEN current.cred
  ELSE parsed.cred

\* update() refuses a companion row without a secret.
CredUsable(method, cred) == method = "companion" => cred # Null

-----------------------------------------------------------------------------
\* INSERT of create().
InsertedRow(parsed, now) ==
  [mac |-> parsed.mac, address |-> parsed.address,
   method |-> parsed.method, cred |-> parsed.cred,
   lastAttemptMs |-> Null, lastSentAt |-> Null,
   lastSeenAt |-> Null, lastShutdownAttemptMs |-> Null,
   updatedAt |-> now]

\* `address = ?` is never true of NULL, unlike `address IS ?`.
SameTarget(row, new) ==
  /\ row.address # Null
  /\ row.address = new.address
  /\ row.method = new.method
  /\ row.cred = new.cred

\* An update() without the CASE ... ELSE NULL of the three stamps.
KeepsEveryStamp(row, new, now) ==
  [row EXCEPT !.mac = new.mac, !.address = new.address, !.method = new.method,
              !.cred = new.cred, !.updatedAt = now]

\* An update() that resets the shutdown cooldown whatever it changes.
ForgetsShutdown(row, new, now) ==
  [row EXCEPT !.mac = new.mac, !.address = new.address, !.method = new.method,
              !.cred = new.cred, !.updatedAt = now, !.lastShutdownAttemptMs = Null]

\* UPDATE of update(): each stamp survives while what it is about survives.
UpdatedRow(row, new, now) ==
  [mac |-> new.mac, address |-> new.address,
   method |-> new.method, cred |-> new.cred,
   lastAttemptMs |-> row.lastAttemptMs,
   lastSentAt |-> IF row.mac = new.mac THEN row.lastSentAt ELSE Null,
   lastSeenAt |-> IF row.mac = new.mac /\ row.address = new.address
                  THEN row.lastSeenAt ELSE Null,
   lastShutdownAttemptMs |-> IF SameTarget(row, new)
                             THEN row.lastShutdownAttemptMs ELSE Null,
   updatedAt |-> now]

\* A claim granted one unit of time too early, and one granted too late.
ClaimableEarly(row, now) ==
  row.lastAttemptMs # Null => row.lastAttemptMs < now - WakeCooldown + 2
ClaimableLate(row, now) ==
  row.lastAttemptMs # Null => row.lastAttemptMs < now - WakeCooldown

\* WHERE clauses of the two conditional claims.
WakeClaimable(row, now) ==
  row.lastAttemptMs # Null => row.lastAttemptMs <= now - WakeCooldown

ShutdownClaimable(row, now) ==
  row.lastShutdownAttemptMs # Null =>
    row.lastShutdownAttemptMs <= now - ShutdownCooldown

\* What claimShutdown requires of the row it read.
ShutdownConfigured(row) ==
  /\ row.method # "none"
  /\ row.address # Null
  /\ row.cred # Null

\* What the claims and markSent write.
AttemptedRow(row, now) == [row EXCEPT !.lastAttemptMs = now]
ShutdownRow(row, now) == [row EXCEPT !.lastShutdownAttemptMs = now]
SentRow(row, now) == [row EXCEPT !.lastSentAt = now]

\* A recordStatus that only compares what the probe was sent to.
SameMacAndAddress(row, snapshot) ==
  row.mac = snapshot.mac /\ row.address = snapshot.address

\* recordStatus: the probe started from this very version of the row ...
ProbeMatches(row, snapshot) ==
  /\ row.mac = snapshot.mac
  /\ row.address = snapshot.address
  /\ row.updatedAt = snapshot.updatedAt

\* A recordStatus without `lastSeenAt < ?`.
LatestAnswerWins(row, seenAt) ==
  IF seenAt # Null THEN [row EXCEPT !.lastSeenAt = seenAt] ELSE row

\* ... and its positive answer only moves the stamp forward.
SeenRow(row, seenAt) ==
  IF seenAt # Null /\ (row.lastSeenAt # Null => row.lastSeenAt < seenAt)
  THEN [row EXCEPT !.lastSeenAt = seenAt]
  ELSE row
=============================================================================
