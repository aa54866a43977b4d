------------------------- MODULE StatusRefreshProofs -------------------------
(***************************************************************************)
(* Theorems about StatusRefresh, for any finite set of devices, any set of *)
(* refreshes and any size of the pool.                                     *)
(*                                                                         *)
(* list() is modelled with a CHOOSE, so the first part shows that it is    *)
(* what it should be: a list of all the devices there are, each once.  The *)
(* second is about the lookup of the release, which sees nothing of the    *)
(* pool but who waits for it; the third about the pool.                    *)
(***************************************************************************)
EXTENDS StatusRefresh, FiniteSetTheorems, TLAPS

-----------------------------------------------------------------------------
(* Positions in a list. *)

\* The place of d among the devices of S, as List counts it.
Place(S, d) == Cardinality({e \in S : e <= d})

\* Of a finite set of numbers, each has a place of its own.
LEMMA PlacesDiffer ==
  ASSUME NEW S \in SUBSET Nat, IsFiniteSet(S), NEW d \in S, NEW e \in S, d < e
  PROVE  Place(S, d) # Place(S, e)
<1> DEFINE D == {x \in S : x <= d}
           E == {x \in S : x <= e}
<1>1. IsFiniteSet(E)
  BY FS_Subset
<1>2. D \in SUBSET E
  <2> SUFFICES ASSUME NEW x \in S, x <= d PROVE x <= e
    OBVIOUS
  <2> QED OBVIOUS
<1>3. e \in E /\ e \notin D
  OBVIOUS
<1> QED BY <1>1, <1>2, <1>3, FS_Subset DEF Place

LEMMA PlacesDistinct ==
  ASSUME NEW S \in SUBSET Nat, IsFiniteSet(S), NEW d \in S, NEW e \in S,
         Place(S, d) = Place(S, e)
  PROVE  d = e
<1>1. ~(d < e) /\ ~(e < d)
  BY PlacesDiffer
<1> QED BY <1>1

LEMMA PlaceType ==
  ASSUME NEW S \in SUBSET Nat, IsFiniteSet(S), NEW d \in S
  PROVE  Place(S, d) \in 1 .. Cardinality(S)
<1> DEFINE D == {x \in S : x <= d}
<1>1. D \in SUBSET S /\ d \in D
  OBVIOUS
<1>2. IsFiniteSet(D) /\ Cardinality(D) \in Nat /\ Cardinality(D) <= Cardinality(S)
  BY <1>1, FS_Subset, FS_CardinalityType
<1>3. Cardinality(D) # 0
  BY <1>1, <1>2, FS_EmptySet
<1>4. Cardinality(S) \in Nat
  BY FS_CardinalityType
<1> QED BY <1>2, <1>3, <1>4 DEF Place

\* Every place from the first to the last is taken.
LEMMA PlacesFilled ==
  ASSUME NEW S \in SUBSET Nat, IsFiniteSet(S), NEW i \in 1 .. Cardinality(S)
  PROVE  \E d \in S : Place(S, d) = i
<1> DEFINE n == Cardinality(S)
           f == [d \in S |-> Place(S, d)]
           T == {f[d] : d \in S}
<1>1. n \in Nat
  BY FS_CardinalityType
<1>2. \A d \in S : f[d] \in 1 .. n
  BY PlaceType
<1>3. f \in [S -> T] /\ \A x \in T : \E d \in S : f[d] = x
  OBVIOUS
<1>4. \A d, e \in S : f[d] = f[e] => d = e
  BY PlacesDistinct
<1>5. f \in Bijection(S, T)
  BY <1>3, <1>4 DEF Bijection, Injection, IsInjective, Surjection
<1>6. IsFiniteSet(T) /\ Cardinality(T) = n
  BY <1>5, FS_Bijection DEF ExistsBijection
<1>7. IsFiniteSet(1 .. n) /\ Cardinality(1 .. n) = n
  BY <1>1, FS_Interval
<1>8. T \in SUBSET (1 .. n)
  BY <1>2
<1>9. T = 1 .. n
  BY <1>6, <1>7, <1>8, FS_Subset
<1> QED BY <1>3, <1>9

\* list() returns a row for every device there is, and each once: what List chooses is
\* determined.
LEMMA ListComplete ==
  ASSUME rows \in [Ids -> Version \cup {Deleted}]
  PROVE  \E n \in 0 .. Cardinality(Ids) :
           /\ List \in [1 .. n -> [id : Ids, version : Version]]
           /\ \A i \in 1 .. n : rows[List[i].id] = List[i].version
           /\ \A d \in Listed : \E i \in 1 .. n :
                /\ List[i].id = d
                /\ \A j \in 1 .. n : List[j].id = d => j = i
<1> DEFINE n == Cardinality(Listed)
           At(i) == CHOOSE e \in Listed : Place(Listed, e) = i
<1>1. Listed \in SUBSET Ids /\ Listed \in SUBSET Nat /\ IsFiniteSet(Ids)
  BY RefreshAssumption DEF Listed
<1>2. IsFiniteSet(Listed) /\ n \in 0 .. Cardinality(Ids)
  <2>1. IsFiniteSet(Listed) /\ n <= Cardinality(Ids)
    BY <1>1, FS_Subset
  <2>2. n \in Nat /\ Cardinality(Ids) \in Nat
    BY <1>1, <2>1, FS_CardinalityType
  <2> QED BY <2>1, <2>2
<1>3. List = [i \in 1 .. n |-> [id |-> At(i), version |-> rows[At(i)]]]
  BY DEF List, Place
<1>4. ASSUME NEW i \in 1 .. n
      PROVE  At(i) \in Listed /\ Place(Listed, At(i)) = i
  <2>1. \E e \in Listed : Place(Listed, e) = i
    BY <1>1, <1>2, PlacesFilled
  <2> QED BY <2>1
<1>5. \A i \in 1 .. n : At(i) \in Ids /\ rows[At(i)] \in Version
  BY <1>1, <1>4 DEF Listed
<1>6. ASSUME NEW d \in Listed
      PROVE  \E i \in 1 .. n : At(i) = d /\ \A j \in 1 .. n : At(j) = d => j = i
  <2> DEFINE i == Place(Listed, d)
  <2>1. i \in 1 .. n
    BY <1>1, <1>2, PlaceType
  <2>2. At(i) = d
    <3>1. At(i) \in Listed /\ Place(Listed, At(i)) = Place(Listed, d)
      BY <1>4, <2>1
    <3> QED BY <1>1, <1>2, <3>1, PlacesDistinct
  <2>3. \A j \in 1 .. n : At(j) = d => j = i
    BY <1>4
  <2> QED BY <2>1, <2>2, <2>3
<1> HIDE DEF n, At
<1>7. List \in [1 .. n -> [id : Ids, version : Version]]
  BY <1>3, <1>5
<1>8. \A i \in 1 .. n : List[i].id = At(i) /\ List[i].version = rows[At(i)]
  BY <1>3
<1>9. \A d \in Listed : \E i \in 1 .. n :
        List[i].id = d /\ \A j \in 1 .. n : List[j].id = d => j = i
  BY <1>6, <1>8
<1> QED BY <1>2, <1>7, <1>8, <1>9

-----------------------------------------------------------------------------
(***************************************************************************)
(* The lookup of the release.                                              *)
(*                                                                         *)
(* `lookups' counts what really is under way at GitHub, `pending' is what  *)
(* the closure believes; that the two agree, and that what is cached with  *)
(* its expiry is what GitHub last said, is what the properties rest on.    *)
(***************************************************************************)
KeptFor(result) == IF result = "version" THEN FreshFor ELSE RetryAfter

LookupOK ==
  /\ lookups = IF release.pending THEN 1 ELSE 0
  /\ release.cached = answered.result
  /\ answered.result # Null => release.expires = answered.at + KeptFor(answered.result)
  /\ WaitsAreServed

(***************************************************************************)
(* The pool.                                                               *)
(*                                                                         *)
(* A version only grows until the device is deleted, so a secret that was  *)
(* read after the list is of that version or a later one, and of that very *)
(* version if the row still has it when the answer is put together.        *)
(***************************************************************************)
Lists(n) == [1 .. n -> [id : Ids, version : Version]]
Pools(n) == SUBSET (1 .. n)
Secrets(n) == [1 .. n -> Version \cup {Null}]

Refreshes(n) ==
  [pc : {"new", "probing", "answered", "failed"},
   list : Lists(n),
   next : 1 .. n + 1,
   running : Pools(n),
   secret : Secrets(n),
   waits : BOOLEAN,
   reply : SUBSET [id : Ids, version : Version, secret : Version \cup {Null}]]

\* The row of a listed device is not older than version v.
NotOlder(id, v) == rows[id] # Deleted => rows[id] >= v

ProbesOK(R) ==
  /\ \A i \in DOMAIN R.list :
       /\ NotOlder(R.list[i].id, R.list[i].version)
       /\ i < R.next => /\ R.secret[i] # Null
                        /\ R.secret[i] >= R.list[i].version
                        /\ NotOlder(R.list[i].id, R.secret[i])
  /\ \A i \in R.running : i < R.next
  /\ R.running = {} => R.next \notin DOMAIN R.list

PoolOK ==
  \A r \in Reqs :
    /\ IF req[r].pc = "probing" THEN ProbesOK(req[r]) ELSE req[r].running = {}
    /\ \A s \in req[r].reply : s.secret = s.version

Typed ==
  /\ rows \in [Ids -> Version \cup {Deleted}]
  /\ clock \in 0 .. MaxTime
  /\ req \in [Reqs -> UNION {Refreshes(n) : n \in 0 .. Cardinality(Ids)}]
  /\ release \in [cached : {Null, "version", "error"}, expires : Nat, pending : BOOLEAN]
  /\ answered \in [result : {Null, "version", "error"}, at : Nat]

RefreshInv == Typed /\ LookupOK /\ PoolOK

\* A refresh has a list of some length, to which the rest of it fits.
LEMMA RefreshType ==
  ASSUME RefreshInv, NEW r \in Reqs
  PROVE  \E n \in 0 .. Cardinality(Ids) : req[r] \in Refreshes(n)
BY DEF RefreshInv, Typed

LEMMA DevicesCounted == Cardinality(Ids) \in Nat
BY RefreshAssumption, FS_CardinalityType

LEMMA NewReqType ==
  /\ NewReq \in Refreshes(0)
  /\ NewReq.pc = "new" /\ NewReq.running = {} /\ NewReq.reply = {} /\ ~NewReq.waits
<1>1. <<>> \in [1 .. 0 -> [id : Ids, version : Version]]
  OBVIOUS
<1>2. <<>> \in [1 .. 0 -> Version \cup {Null}]
  OBVIOUS
<1> QED BY <1>1, <1>2 DEF NewReq, Refreshes, Lists, Pools, Secrets

LEMMA InitRefreshInv == Init => RefreshInv
<1> SUFFICES ASSUME Init PROVE RefreshInv
  OBVIOUS
<1>1. Typed
  <2>1. req \in [Reqs -> UNION {Refreshes(n) : n \in 0 .. Cardinality(Ids)}]
    BY NewReqType, DevicesCounted DEF Init
  <2>2. 1 \in Version /\ 0 \in 0 .. MaxTime
    BY RefreshAssumption DEF Version
  <2> QED BY <2>1, <2>2 DEF Init, Typed
<1>2. LookupOK
  BY NewReqType DEF Init, LookupOK, WaitsAreServed, KeptFor
<1>3. PoolOK
  BY NewReqType DEF Init, PoolOK
<1> QED BY <1>1, <1>2, <1>3 DEF RefreshInv

\* A step of one refresh that leaves the rows.
LEMMA OneRefreshKeeps ==
  ASSUME RefreshInv, NEW r \in Reqs, NEW n \in 0 .. Cardinality(Ids), NEW R \in Refreshes(n),
         req' = [req EXCEPT ![r] = R], UNCHANGED <<rows, clock, answered>>,
         release' \in [cached : {Null, "version", "error"}, expires : Nat, pending : BOOLEAN],
         R.pc = "probing" => ProbesOK(R),
         R.pc # "probing" => R.running = {},
         \A s \in R.reply : s.secret = s.version
  PROVE  Typed' /\ PoolOK'
<1>1. Typed'
  BY DEF RefreshInv, Typed
<1>2. /\ req'[r] = R
      /\ \A q \in Reqs \ {r} : req'[q] = req[q]
  BY DEF RefreshInv, Typed
<1>3. PoolOK'
  BY <1>2 DEF RefreshInv, PoolOK, ProbesOK, NotOlder
<1> QED BY <1>1, <1>3

\* Edits and deletions only move versions on.
LEMMA RowsKeepPool ==
  ASSUME RefreshInv, NEW d \in Ids, NEW v, rows' = [rows EXCEPT ![d] = v],
         UNCHANGED <<clock, req, release, lookups, answered>>,
         v = Deleted \/ (rows[d] \in Version /\ v \in Version /\ v >= rows[d])
  PROVE  RefreshInv'
<1>1. Typed' /\ LookupOK'
  BY DEF RefreshInv, Typed, LookupOK, WaitsAreServed
<1>2. ASSUME NEW e \in Ids, NEW w \in Version, NotOlder(e, w)
      PROVE  NotOlder(e, w)'
  BY <1>2, RefreshAssumption DEF NotOlder, RefreshInv, Typed, Version
<1>3. PoolOK'
  <2> SUFFICES ASSUME NEW r \in Reqs, req[r].pc = "probing"
               PROVE  ProbesOK(req[r])'
    BY DEF RefreshInv, PoolOK
  <2>1. PICK n \in 0 .. Cardinality(Ids) : req[r] \in Refreshes(n)
    BY RefreshType
  <2>2. ProbesOK(req[r])
    BY DEF RefreshInv, PoolOK
  <2>3. ASSUME NEW i \in DOMAIN req[r].list
        PROVE  /\ req[r].list[i].id \in Ids /\ req[r].list[i].version \in Version
               /\ req[r].secret[i] # Null => req[r].secret[i] \in Version
    BY <2>1 DEF Refreshes, Lists, Pools, Secrets
  <2> QED BY <1>2, <2>2, <2>3 DEF ProbesOK
<1> QED BY <1>1, <1>3 DEF RefreshInv

LEMMA FetchKeeps ==
  ASSUME RefreshInv, FetchDone
  PROVE  RefreshInv'
<1>1. PICK result \in {"version", "error"} :
        /\ release' = [cached |-> result, pending |-> FALSE, expires |-> clock + KeptFor(result)]
        /\ answered' = [result |-> result, at |-> clock]
  BY DEF FetchDone, KeptFor
<1>2. /\ req' = [r \in Reqs |-> [req[r] EXCEPT !.waits = FALSE]]
      /\ lookups' = lookups - 1 /\ lookups = 1
      /\ UNCHANGED <<rows, clock>>
  BY DEF FetchDone, Woken, RefreshInv, LookupOK
<1>3. ASSUME NEW r \in Reqs
      PROVE  \E n \in 0 .. Cardinality(Ids) :
               /\ req'[r] \in Refreshes(n)
               /\ req'[r].pc = req[r].pc /\ req'[r].list = req[r].list
               /\ req'[r].next = req[r].next /\ req'[r].running = req[r].running
               /\ req'[r].secret = req[r].secret /\ req'[r].reply = req[r].reply
               /\ ~req'[r].waits
  <2>1. PICK n \in 0 .. Cardinality(Ids) : req[r] \in Refreshes(n)
    BY RefreshType
  <2> QED BY <1>2, <2>1 DEF Refreshes, Lists, Pools, Secrets
<1>4. Typed'
  <2>1. req' \in [Reqs -> UNION {Refreshes(n) : n \in 0 .. Cardinality(Ids)}]
    BY <1>2, <1>3
  <2>2. clock \in Nat /\ \A x : KeptFor(x) \in Nat
    BY RefreshAssumption DEF KeptFor, RefreshInv, Typed
  <2> QED BY <1>1, <1>2, <2>1, <2>2 DEF RefreshInv, Typed
<1>5. LookupOK'
  <2>1. /\ release'.pending = FALSE /\ lookups' = 0
        /\ release'.cached = result /\ answered'.result = result
        /\ release'.expires = answered'.at + KeptFor(result)
    BY <1>1, <1>2
  <2>2. \A r \in Reqs : ~req'[r].waits
    BY <1>3
  <2> QED BY <2>1, <2>2 DEF LookupOK, WaitsAreServed, KeptFor
<1>6. PoolOK'
  BY <1>2, <1>3 DEF RefreshInv, PoolOK, ProbesOK, NotOlder
<1> QED BY <1>4, <1>5, <1>6 DEF RefreshInv

\* The record of a refresh that begins, and of one that goes on to its next device.
Begun(list, next, running, secret, waits) ==
  [NewReq EXCEPT !.pc = "probing", !.list = list, !.next = next, !.running = running,
                 !.secret = secret, !.waits = waits]
Onward(R, running, secret, next) ==
  [R EXCEPT !.running = running, !.secret = secret, !.next = next]

LEMMA BegunType ==
  ASSUME NEW n \in Nat, NEW list \in Lists(n), NEW next \in 1 .. n + 1,
         NEW running \in Pools(n), NEW secret \in Secrets(n), NEW waits \in BOOLEAN,
         NEW R, R = Begun(list, next, running, secret, waits)
  PROVE  /\ R \in Refreshes(n)
         /\ R.pc = "probing" /\ R.list = list /\ R.next = next /\ R.running = running
         /\ R.secret = secret /\ R.waits = waits /\ R.reply = {}
BY DEF Begun, Refreshes, Lists, Pools, Secrets, NewReq

LEMMA OnwardType ==
  ASSUME NEW n \in Nat, NEW R \in Refreshes(n), NEW next \in 1 .. n + 1,
         NEW running \in Pools(n), NEW secret \in Secrets(n), NEW S, S = Onward(R, running, secret, next)
  PROVE  /\ S \in Refreshes(n)
         /\ S.pc = R.pc /\ S.list = R.list /\ S.next = next /\ S.running = running
         /\ S.secret = secret /\ S.waits = R.waits /\ S.reply = R.reply
BY DEF Onward, Refreshes, Lists, Pools, Secrets

LEMMA StartKeeps ==
  ASSUME RefreshInv, NEW r \in Reqs, Start(r)
  PROVE  RefreshInv'
<1> DEFINE first == {i \in DOMAIN List : i <= Concurrency}
           secrets == [i \in DOMAIN List |-> IF i \in first THEN List[i].version ELSE Null]
           R(waits) == Begun(List, Cardinality(first) + 1, first, secrets, waits)
<1>1. PICK companions \in BOOLEAN :
        /\ req' = [req EXCEPT ![r] = R(companions /\ ~Fresh)]
        /\ IF companions THEN Ask ELSE UNCHANGED <<release, lookups>>
  BY DEF Start, Begun
<1>2. UNCHANGED <<rows, clock, answered>>
  BY DEF Start
<1> DEFINE waits == companions /\ ~Fresh
<1>3. PICK n \in 0 .. Cardinality(Ids) :
        /\ List \in [1 .. n -> [id : Ids, version : Version]]
        /\ \A i \in 1 .. n : rows[List[i].id] = List[i].version
  BY ListComplete DEF RefreshInv, Typed
<1>4. n \in Nat /\ Concurrency \in Nat \ {0}
  BY DevicesCounted, RefreshAssumption
<1>5. /\ first \subseteq 1 .. n
      /\ Cardinality(first) = IF n <= Concurrency THEN n ELSE Concurrency
  <2> DEFINE m == IF n <= Concurrency THEN n ELSE Concurrency
  <2>1. first = 1 .. m
    BY <1>3, <1>4
  <2>2. Cardinality(1 .. m) = m
    BY <1>4, FS_Interval
  <2>3. Cardinality(first) = m
    BY <2>1, <2>2
  <2>4. 1 .. m \subseteq 1 .. n
    BY <1>4
  <2> QED BY <2>1, <2>3, <2>4
<1>7. secrets \in [1 .. n -> Version \cup {Null}]
  BY <1>3
<1>a. first = {i \in 1 .. n : i <= Concurrency} /\ Cardinality(first) + 1 \in 1 .. n + 1
  BY <1>3, <1>4, <1>5
<1> HIDE DEF secrets, first, waits
<1>b. waits \in BOOLEAN /\ (waits => companions /\ ~Fresh)
  BY DEF waits
<1>8. /\ R(waits) \in Refreshes(n)
      /\ R(waits).pc = "probing" /\ R(waits).list = List /\ R(waits).running = first
      /\ R(waits).next = Cardinality(first) + 1 /\ R(waits).secret = secrets
      /\ R(waits).waits = waits /\ R(waits).reply = {}
  <2>1. /\ List \in Lists(n) /\ first \in Pools(n) /\ secrets \in Secrets(n)
        /\ Cardinality(first) + 1 \in 1 .. n + 1
    BY <1>3, <1>5, <1>7, <1>a DEF Lists, Pools, Secrets
  <2> QED BY <1>4, <1>b, <2>1, BegunType
<1>9. ProbesOK(R(waits))
  <2>1. ASSUME NEW i \in 1 .. n
        PROVE  /\ List[i].id \in Ids /\ List[i].version \in Version
               /\ NotOlder(List[i].id, List[i].version)
               /\ i < Cardinality(first) + 1 => secrets[i] = List[i].version
    BY <1>3, <1>4, <1>5, <1>a DEF NotOlder, Version, secrets
  <2>2. \A i \in first : i < Cardinality(first) + 1
    BY <1>4, <1>5, <1>a
  <2>3. first = {} => Cardinality(first) + 1 \notin 1 .. n
    <3>1. n > 0 => 1 \in first
      BY <1>4, <1>a
    <3> QED BY <1>4, <3>1
  <2>4. \A v \in Version : v # Null /\ v >= v
    BY RefreshAssumption DEF Version
  <2> QED BY <1>3, <1>8, <2>1, <2>2, <2>3, <2>4 DEF ProbesOK
<1>10. release' \in [cached : {Null, "version", "error"}, expires : Nat, pending : BOOLEAN]
  BY <1>1 DEF Ask, RefreshInv, Typed
<1>c. req' = [req EXCEPT ![r] = R(waits)] /\ R(waits).pc = "probing" /\ R(waits).reply = {}
  BY <1>1, <1>8 DEF waits
<1> HIDE DEF R
<1>11. Typed' /\ PoolOK'
  BY <1>2, <1>8, <1>9, <1>10, <1>c, OneRefreshKeeps
<1>12. LookupOK'
  <2>1. /\ req'[r].waits = waits
        /\ \A q \in Reqs \ {r} : req'[q] = req[q]
    BY <1>c, <1>8 DEF RefreshInv, Typed, R
  <2>2. LookupOK /\ \A q \in Reqs : req[q].waits => lookups > 0
    BY DEF RefreshInv, LookupOK, WaitsAreServed
  <2>3. CASE companions /\ MustAsk
    <3>1. /\ release' = [release EXCEPT !.pending = TRUE] /\ lookups' = lookups + 1
          /\ ~release.pending
      BY <1>1, <2>3 DEF Ask, MustAsk
    <3>2. /\ release'.pending = TRUE /\ release'.cached = release.cached
          /\ release'.expires = release.expires
      BY <3>1 DEF RefreshInv, Typed
    <3>3. lookups' = 1
      BY <2>2, <3>1 DEF LookupOK
    <3> QED BY <1>2, <2>2, <3>2, <3>3 DEF LookupOK, WaitsAreServed
  <2>4. CASE ~(companions /\ MustAsk)
    <3>1. UNCHANGED <<release, lookups>>
      BY <1>1, <2>4 DEF Ask
    <3>2. waits => lookups > 0
      BY <1>b, <2>2, <2>4 DEF MustAsk, LookupOK
    <3>3. \A q \in Reqs : req'[q].waits => lookups' > 0
      BY <2>1, <2>2, <3>1, <3>2
    <3> QED BY <1>2, <2>2, <3>1, <3>3 DEF LookupOK, WaitsAreServed
  <2> QED BY <2>3, <2>4
<1> QED BY <1>11, <1>12 DEF RefreshInv

LEMMA ProbeKeeps ==
  ASSUME RefreshInv, NEW r \in Reqs, NEW i, ProbeDone(r, i)
  PROVE  RefreshInv'
<1> DEFINE R == req[r]
           row == rows[R.list[R.next].id]
           last == [R EXCEPT !.running = @ \ {i}]
           running == (R.running \ {i}) \cup {R.next}
           secret == [R.secret EXCEPT ![R.next] = row]
           onward == Onward(R, running, secret, R.next + 1)
<1>1. PICK n \in 0 .. Cardinality(Ids) : R \in Refreshes(n)
  BY RefreshType
<1>2. n \in Nat /\ i \in R.running /\ i \in 1 .. n /\ DOMAIN R.list = 1 .. n
  BY <1>1, DevicesCounted DEF ProbeDone, Refreshes, Lists, Pools, Secrets
<1>3. R.pc = "probing" /\ ProbesOK(R)
  BY <1>2 DEF RefreshInv, PoolOK
<1>4. UNCHANGED <<rows, clock, release, lookups, answered>>
  BY DEF ProbeDone
<1>5. release' \in [cached : {Null, "version", "error"}, expires : Nat, pending : BOOLEAN]
  BY <1>4 DEF RefreshInv, Typed
<1>6. ASSUME NEW S, req' = [req EXCEPT ![r] = S], S.waits => R.waits, Typed' /\ PoolOK'
      PROVE  RefreshInv'
  <2>1. \A q \in Reqs : req'[q].waits => req[q].waits
    BY <1>6 DEF RefreshInv, Typed
  <2>2. LookupOK'
    BY <1>4, <2>1 DEF RefreshInv, LookupOK, WaitsAreServed
  <2> QED BY <1>6, <2>2 DEF RefreshInv
<1>7. CASE R.next \notin DOMAIN R.list
  <2>1. req' = [req EXCEPT ![r] = last]
    BY <1>7 DEF ProbeDone
  <2>2. /\ last.pc = R.pc /\ last.list = R.list /\ last.next = R.next
        /\ last.running = R.running \ {i}
        /\ last.secret = R.secret /\ last.waits = R.waits /\ last.reply = R.reply
        /\ last \in Refreshes(n)
    BY <1>1 DEF Refreshes, Lists, Pools, Secrets
  <2>3. ProbesOK(last)
    BY <1>3, <1>7, <2>2 DEF ProbesOK
  <2>4. \A s \in last.reply : s.secret = s.version
    BY <2>2 DEF RefreshInv, PoolOK
  <2> HIDE DEF last
  <2>5. Typed' /\ PoolOK'
    BY <1>3, <1>4, <1>5, <2>1, <2>2, <2>3, <2>4, OneRefreshKeeps
  <2> QED BY <1>6, <2>1, <2>2, <2>5
<1>8. CASE R.next \in DOMAIN R.list /\ row # Deleted
  <2>1. req' = [req EXCEPT ![r] = onward]
    BY <1>8 DEF ProbeDone, Onward
  <2>2. R.next \in 1 .. n /\ R.list[R.next].id \in Ids /\ row \in Version
    BY <1>1, <1>2, <1>8 DEF Refreshes, Lists, Pools, Secrets, RefreshInv, Typed
  <2>3. /\ onward.pc = R.pc /\ onward.list = R.list /\ onward.next = R.next + 1
        /\ onward.running = running /\ onward.secret = secret
        /\ onward.waits = R.waits /\ onward.reply = R.reply
        /\ onward \in Refreshes(n)
    <3>1. /\ running \in Pools(n) /\ secret \in Secrets(n)
          /\ R.next + 1 \in 1 .. n + 1
      BY <1>1, <1>2, <2>2 DEF Refreshes, Lists, Pools, Secrets
    <3> HIDE DEF running, secret, R
    <3> QED BY <1>1, <1>2, <3>1, OnwardType
  <2> HIDE DEF onward
  <2>4. ProbesOK(onward)
    <3> SUFFICES ASSUME NEW k \in 1 .. n
                 PROVE  /\ NotOlder(R.list[k].id, R.list[k].version)
                        /\ k < R.next + 1 => /\ onward.secret[k] # Null
                                             /\ onward.secret[k] >= R.list[k].version
                                             /\ NotOlder(R.list[k].id, onward.secret[k])
      <4>1. \A k \in onward.running : k < R.next + 1
        <5>1. \A k \in R.running : k \in Nat /\ k < R.next
          BY <1>1, <1>3 DEF ProbesOK, Refreshes, Lists, Pools, Secrets
        <5> QED BY <2>2, <2>3, <5>1
      <4> QED BY <1>2, <2>3, <4>1 DEF ProbesOK
    <3>1. CASE k = R.next
      <4>1. onward.secret[k] = row
        BY <1>1, <2>2, <2>3, <3>1 DEF Refreshes, Lists, Pools, Secrets
      <4>2. NotOlder(R.list[k].id, R.list[k].version)
        BY <1>2, <1>3 DEF ProbesOK
      <4>3. row # Null /\ row >= row
        BY <2>2, RefreshAssumption DEF Version
      <4> QED BY <1>8, <3>1, <4>1, <4>2, <4>3 DEF NotOlder
    <3>2. CASE k # R.next
      <4>1. onward.secret[k] = R.secret[k]
        BY <1>1, <2>3, <3>2 DEF Refreshes, Lists, Pools, Secrets
      <4>2. k < R.next + 1 => k < R.next
        BY <2>2, <3>2
      <4> QED BY <1>2, <1>3, <4>1, <4>2 DEF ProbesOK
    <3> QED BY <3>1, <3>2
  <2>5. \A s \in onward.reply : s.secret = s.version
    BY <2>3 DEF RefreshInv, PoolOK
  <2>6. Typed' /\ PoolOK'
    BY <1>3, <1>4, <1>5, <2>1, <2>3, <2>4, <2>5, OneRefreshKeeps
  <2> QED BY <1>6, <2>1, <2>3, <2>6
<1>9. CASE R.next \in DOMAIN R.list /\ row = Deleted
  <2> DEFINE failed == [NewReq EXCEPT !.pc = "failed"]
  <2>1. req' = [req EXCEPT ![r] = failed]
    BY <1>9 DEF ProbeDone
  <2>2. /\ failed \in Refreshes(0) /\ failed.pc = "failed" /\ failed.running = {}
        /\ failed.reply = {} /\ ~failed.waits
    BY NewReqType DEF Refreshes, Lists, Pools, Secrets, NewReq
  <2>3. 0 \in 0 .. Cardinality(Ids)
    BY DevicesCounted
  <2> HIDE DEF failed
  <2>4. Typed' /\ PoolOK'
    BY <1>4, <1>5, <2>1, <2>2, <2>3, OneRefreshKeeps
  <2> QED BY <1>6, <2>1, <2>2, <2>4
<1> QED BY <1>7, <1>8, <1>9

\* All the probes have ended, so all the devices of the list have had theirs.
LEMMA AnswerIs ==
  ASSUME RefreshInv, NEW r \in Reqs, Answer(r)
  PROVE  \E n, reply :
           /\ n \in 0 .. Cardinality(Ids)
           /\ req[r] \in Refreshes(n) /\ req[r].pc = "probing"
           /\ reply = {[id |-> req[r].list[i].id, version |-> req[r].list[i].version,
                        secret |-> req[r].secret[i]]
                        : i \in {j \in 1 .. n : Recorded(req[r].list[j])}}
           /\ req' = [req EXCEPT ![r] = [NewReq EXCEPT !.pc = "answered", !.reply = reply]]
           /\ \A i \in 1 .. n : ProbesOK(req[r]) /\ i < req[r].next
<1>1. PICK n \in 0 .. Cardinality(Ids) : req[r] \in Refreshes(n)
  BY RefreshType
<1>2. /\ req[r].pc = "probing" /\ req[r].running = {}
      /\ UNCHANGED <<rows, clock, release, lookups, answered>>
  BY DEF Answer, Settled
<1>3. ProbesOK(req[r]) /\ DOMAIN req[r].list = 1 .. n /\ req[r].next \in 1 .. n + 1 /\ n \in Nat
  BY <1>1, <1>2, DevicesCounted DEF RefreshInv, PoolOK, Refreshes, Lists
<1>4. \A i \in 1 .. n : i < req[r].next
  BY <1>2, <1>3 DEF ProbesOK
<1>5. DOMAIN req[r].list \ req[r].running = 1 .. n
  BY <1>2, <1>3
<1> DEFINE reply == {[id |-> req[r].list[i].id, version |-> req[r].list[i].version,
                      secret |-> req[r].secret[i]]
                      : i \in {j \in 1 .. n : Recorded(req[r].list[j])}}
<1>6. req' = [req EXCEPT ![r] = [NewReq EXCEPT !.pc = "answered", !.reply = reply]]
  BY <1>5 DEF Answer
<1> QED BY <1>1, <1>2, <1>3, <1>4, <1>6

LEMMA AnswerKeeps ==
  ASSUME RefreshInv, NEW r \in Reqs, Answer(r)
  PROVE  RefreshInv'
<1>1. PICK n, reply :
        /\ n \in 0 .. Cardinality(Ids)
        /\ req[r] \in Refreshes(n) /\ req[r].pc = "probing"
        /\ reply = {[id |-> req[r].list[i].id, version |-> req[r].list[i].version,
                     secret |-> req[r].secret[i]]
                     : i \in {j \in 1 .. n : Recorded(req[r].list[j])}}
        /\ req' = [req EXCEPT ![r] = [NewReq EXCEPT !.pc = "answered", !.reply = reply]]
        /\ \A i \in 1 .. n : ProbesOK(req[r]) /\ i < req[r].next
  BY AnswerIs
<1>2. UNCHANGED <<rows, clock, release, lookups, answered>>
  BY DEF Answer
<1>3. ASSUME NEW i \in 1 .. n, Recorded(req[r].list[i])
      PROVE  /\ req[r].list[i].id \in Ids /\ req[r].list[i].version \in Version
             /\ req[r].secret[i] = req[r].list[i].version
  <2>1. /\ req[r].list[i].id \in Ids /\ req[r].list[i].version \in Version
        /\ req[r].secret[i] \in Version \cup {Null} /\ DOMAIN req[r].list = 1 .. n
    BY <1>1 DEF Refreshes, Lists, Secrets
  <2>2. /\ req[r].secret[i] # Null
        /\ req[r].secret[i] >= req[r].list[i].version
        /\ NotOlder(req[r].list[i].id, req[r].secret[i])
    BY <1>1, <2>1 DEF ProbesOK
  <2>3. rows[req[r].list[i].id] = req[r].list[i].version
    BY <1>3 DEF Recorded
  <2>4. Deleted \notin Int /\ Version \subseteq Int
    BY RefreshAssumption DEF Version
  <2>5. rows[req[r].list[i].id] # Deleted
    BY <2>1, <2>3, <2>4
  <2>6. req[r].list[i].version >= req[r].secret[i]
    BY <2>2, <2>3, <2>5 DEF NotOlder
  <2>7. req[r].list[i].version \in Int /\ req[r].secret[i] \in Int
    BY <2>1, <2>2, <2>4
  <2>8. req[r].secret[i] = req[r].list[i].version
    BY <2>2, <2>6, <2>7
  <2> QED BY <2>1, <2>8
<1>4. /\ \A s \in reply : s.secret = s.version
      /\ reply \in SUBSET [id : Ids, version : Version, secret : Version \cup {Null}]
  BY <1>1, <1>3
<1> DEFINE R == [NewReq EXCEPT !.pc = "answered", !.reply = reply]
<1>5. /\ R \in Refreshes(0) /\ R.pc = "answered" /\ R.running = {} /\ R.reply = reply
      /\ ~R.waits
  BY <1>4, NewReqType DEF Refreshes, NewReq
<1>6. 0 \in 0 .. Cardinality(Ids)
  BY DevicesCounted
<1>7. release' \in [cached : {Null, "version", "error"}, expires : Nat, pending : BOOLEAN]
  BY <1>2 DEF RefreshInv, Typed
<1>8. req' = [req EXCEPT ![r] = R]
  BY <1>1
<1> HIDE DEF R
<1>9. Typed' /\ PoolOK'
  BY <1>2, <1>4, <1>5, <1>6, <1>7, <1>8, OneRefreshKeeps
<1>10. \A q \in Reqs : req'[q].waits => req[q].waits
  BY <1>5, <1>8 DEF RefreshInv, Typed
<1>11. LookupOK'
  BY <1>2, <1>10 DEF RefreshInv, LookupOK, WaitsAreServed
<1> QED BY <1>9, <1>11 DEF RefreshInv

LEMMA NextRefreshInv == RefreshInv /\ [Next]_vars => RefreshInv'
<1> SUFFICES ASSUME RefreshInv, [Next]_vars PROVE RefreshInv'
  OBVIOUS
<1>1. ASSUME NEW r \in Reqs, Start(r) \/ Handle(r) PROVE RefreshInv'
  BY <1>1, StartKeeps, AnswerKeeps, ProbeKeeps DEF Handle
<1>2. ASSUME NEW d \in Ids, Edit(d) PROVE RefreshInv'
  <2>1. rows[d] \in Version /\ rows[d] + 1 \in Version
    BY <1>2, RefreshAssumption DEF Edit, RefreshInv, Typed, Version
  <2>2. rows' = [rows EXCEPT ![d] = rows[d] + 1] /\ UNCHANGED <<clock, req, release, lookups, answered>>
    BY <1>2 DEF Edit
  <2>3. rows[d] + 1 >= rows[d]
    BY <2>1 DEF Version
  <2> QED BY <2>1, <2>2, <2>3, RowsKeepPool
<1>3. ASSUME NEW d \in Ids, Remove(d) PROVE RefreshInv'
  BY <1>3, RowsKeepPool DEF Remove
<1>4. CASE Tick
  BY <1>4, RefreshAssumption
  DEF Tick, RefreshInv, Typed, LookupOK, WaitsAreServed, PoolOK, ProbesOK, NotOlder
<1>5. CASE UNCHANGED vars
  BY <1>5 DEF vars, RefreshInv, Typed, LookupOK, WaitsAreServed, PoolOK, ProbesOK, NotOlder
<1> QED BY <1>1, <1>2, <1>3, <1>4, <1>5, FetchKeeps DEF Next

LEMMA SpecRefreshInv == Spec => []RefreshInv
BY InitRefreshInv, NextRefreshInv, PTL DEF Spec

-----------------------------------------------------------------------------
(* What follows from it. *)

\* Every reachable state is well-typed.
THEOREM TypeCorrect == Spec => []TypeOK
<1>1. RefreshInv => TypeOK
  <2> SUFFICES ASSUME RefreshInv, NEW r \in Reqs
               PROVE  /\ req[r].pc \in {"new", "probing", "answered", "failed"}
                      /\ req[r].next \in 1 .. (Cardinality(Ids) + 1)
                      /\ req[r].running \subseteq DOMAIN req[r].list
                      /\ req[r].secret \in [DOMAIN req[r].list -> Version \cup {Null}]
                      /\ req[r].waits \in BOOLEAN
                      /\ req[r].reply \subseteq [id : Ids, version : Version,
                                                 secret : Version \cup {Null}]
    BY DEF RefreshInv, Typed, LookupOK, TypeOK
  <2>1. PICK n \in 0 .. Cardinality(Ids) : req[r] \in Refreshes(n)
    BY RefreshType
  <2> QED BY <2>1, DevicesCounted DEF Refreshes, Lists, Pools, Secrets
<1> QED BY <1>1, SpecRefreshInv, PTL

\* The page never gets a status that was obtained with the secret of one version of a
\* device and is recorded for another, however long the device waits for its turn in the
\* pool and whatever is edited and deleted meanwhile.
THEOREM OneVersionPerStatusTheorem == Spec => []OneVersionPerStatus
<1>1. RefreshInv => OneVersionPerStatus
  BY DEF RefreshInv, PoolOK, OneVersionPerStatus
<1> QED BY <1>1, SpecRefreshInv, PTL

\* No refresh waits for a lookup that nobody makes.
THEOREM WaitsAreServedTheorem == Spec => []WaitsAreServed
<1>1. RefreshInv => WaitsAreServed
  BY DEF RefreshInv, LookupOK
<1> QED BY <1>1, SpecRefreshInv, PTL

(* What a step may do. *)

\* Only Answer answers, and by then every device of the list has been probed.
LEMMA AnswerComplete ==
  ASSUME RefreshInv, [Next]_vars, NEW r \in Reqs,
         req[r].pc # "answered", req'[r].pc = "answered"
  PROVE  {s.id : s \in req'[r].reply} =
           {d \in Ids : \E i \in DOMAIN req[r].list :
                          req[r].list[i] = [id |-> d, version |-> rows[d]]}
<1>1. ASSUME NEW q \in Reqs, Start(q) PROVE FALSE
  BY <1>1 DEF Start, NewReq, RefreshInv, Typed
<1>2. ASSUME NEW q \in Reqs, NEW i \in req[q].running, ProbeDone(q, i) PROVE FALSE
  <2>1. PICK n \in 0 .. Cardinality(Ids) : req[q] \in Refreshes(n)
    BY RefreshType
  <2>2. req'[q].pc \in {req[q].pc, "failed"} /\ \A p \in Reqs \ {q} : req'[p] = req[p]
    BY <1>2, <2>1 DEF ProbeDone, NewReq, RefreshInv, Typed, Refreshes
  <2> QED BY <2>2
<1>3. ASSUME FetchDone PROVE FALSE
  <2>1. PICK n \in 0 .. Cardinality(Ids) : req[r] \in Refreshes(n)
    BY RefreshType
  <2> QED BY <1>3, <2>1 DEF FetchDone, Woken, Refreshes
<1>4. ASSUME UNCHANGED req PROVE FALSE
  BY <1>4
<1>5. PICK q \in Reqs : Answer(q)
  BY <1>1, <1>2, <1>3, <1>4 DEF Next, Handle, Edit, Remove, Tick, vars
<1>6. PICK n, reply :
        /\ n \in 0 .. Cardinality(Ids)
        /\ req[q] \in Refreshes(n)
        /\ reply = {[id |-> req[q].list[i].id, version |-> req[q].list[i].version,
                     secret |-> req[q].secret[i]]
                     : i \in {j \in 1 .. n : Recorded(req[q].list[j])}}
        /\ req' = [req EXCEPT ![q] = [NewReq EXCEPT !.pc = "answered", !.reply = reply]]
  BY <1>5, AnswerIs
<1>7. q = r
  BY <1>6 DEF RefreshInv, Typed
<1>8. req'[r].reply = reply
  BY <1>6, <1>7 DEF RefreshInv, Typed, NewReq
<1>9. /\ DOMAIN req[r].list = 1 .. n
      /\ \A i \in 1 .. n : /\ req[r].list[i] \in [id : Ids, version : Version]
                           /\ req[r].list[i].id \in Ids
  BY <1>6, <1>7 DEF Refreshes, Lists
<1> DEFINE still == {i \in 1 .. n : Recorded(req[r].list[i])}
<1>10. {s.id : s \in reply} = {req[r].list[i].id : i \in still}
  <2> DEFINE Status(i) == [id |-> req[r].list[i].id, version |-> req[r].list[i].version,
                           secret |-> req[r].secret[i]]
  <2>1. reply = {Status(i) : i \in still}
    BY <1>6, <1>7
  <2>2. \A i \in still : Status(i).id = req[r].list[i].id
    OBVIOUS
  <2> HIDE DEF Status, still
  <2> QED BY <2>1, <2>2
<1>11. \A d \in Ids, i \in 1 .. n :
         req[r].list[i] = [id |-> d, version |-> rows[d]]
         <=> req[r].list[i].id = d /\ Recorded(req[r].list[i])
  BY <1>9 DEF Recorded
<1>12. {req[r].list[i].id : i \in still} =
         {d \in Ids : \E i \in 1 .. n : req[r].list[i] = [id |-> d, version |-> rows[d]]}
  <2>1. {req[r].list[i].id : i \in still} \subseteq
          {d \in Ids : \E i \in 1 .. n : req[r].list[i] = [id |-> d, version |-> rows[d]]}
    BY <1>9, <1>11
  <2>2. {d \in Ids : \E i \in 1 .. n : req[r].list[i] = [id |-> d, version |-> rows[d]]}
          \subseteq {req[r].list[i].id : i \in still}
    BY <1>11
  <2> QED BY <2>1, <2>2
<1> QED BY <1>8, <1>9, <1>10, <1>12

\* A refresh answers for every device that is still as it was listed, for a pool of any
\* size and the probes ending in any order.
THEOREM NobodyForgottenTheorem == Spec => NobodyForgotten
<1>1. RefreshInv /\ [Next]_vars =>
        [\A r \in Reqs :
           req[r].pc # "answered" /\ req'[r].pc = "answered" =>
             {s.id : s \in req'[r].reply} =
               {d \in Ids : \E i \in DOMAIN req[r].list :
                              req[r].list[i] = [id |-> d, version |-> rows[d]]}]_vars
  BY AnswerComplete
<1> QED BY <1>1, SpecRefreshInv, PTL DEF Spec, NobodyForgotten

LEMMA LookupIsDue ==
  ASSUME RefreshInv, [Next]_vars, lookups' > lookups
  PROVE  /\ lookups = 0
         /\ answered.result = "version" => clock >= answered.at + FreshFor
         /\ answered.result = "error" => clock >= answered.at + RetryAfter
<1>1. lookups \in Nat
  BY DEF RefreshInv, LookupOK
<1>2. MustAsk
  <2>1. ASSUME NEW q \in Reqs, Start(q) PROVE MustAsk
    BY <1>1, <2>1 DEF Start, Ask
  <2>2. ASSUME NEW q \in Reqs, Handle(q) PROVE FALSE
    <3>1. ASSUME Answer(q) PROVE FALSE
      BY <1>1, <3>1 DEF Answer
    <3>2. ASSUME NEW i, ProbeDone(q, i) PROVE FALSE
      <4>1. UNCHANGED lookups
        BY <3>2 DEF ProbeDone
      <4> QED BY <1>1, <4>1
    <3> QED BY <2>2, <3>1, <3>2 DEF Handle
  <2>3. ASSUME FetchDone \/ Tick \/ UNCHANGED vars PROVE FALSE
    BY <1>1, <2>3 DEF FetchDone, Tick, vars
  <2>4. ASSUME NEW d \in Ids, Edit(d) \/ Remove(d) PROVE FALSE
    BY <1>1, <2>4 DEF Edit, Remove
  <2> QED BY <2>1, <2>2, <2>3, <2>4 DEF Next
<1>3. lookups = 0 /\ (answered.result = Null \/ clock >= release.expires)
  <2>1. clock \in Int /\ release.expires \in Int
    BY DEF RefreshInv, Typed
  <2> QED BY <1>2, <2>1 DEF MustAsk, Fresh, RefreshInv, LookupOK
<1>4. answered.result # Null => clock >= answered.at + KeptFor(answered.result)
  BY <1>3 DEF RefreshInv, LookupOK
<1>5. Null # "version" /\ Null # "error"
  BY RefreshAssumption
<1> QED BY <1>3, <1>4, <1>5 DEF KeptFor

\* GitHub is never asked by two refreshes at once, nor again before the answer it gave
\* last has expired, however many refreshes there are.
THEOREM LookupsSpacedTheorem == Spec => LookupsSpaced
<1>1. RefreshInv /\ [Next]_vars =>
        [lookups' > lookups =>
           /\ lookups = 0
           /\ answered.result = "version" => clock >= answered.at + FreshFor
           /\ answered.result = "error" => clock >= answered.at + RetryAfter]_vars
  BY LookupIsDue
<1> QED BY <1>1, SpecRefreshInv, PTL DEF Spec, LookupsSpaced
=============================================================================
