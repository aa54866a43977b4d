-------------------------- MODULE MCDeviceRequests --------------------------
(***************************************************************************)
(* Small instances of DeviceRequests.  Every request of a run is served by *)
(* the only process.                                                       *)
(***************************************************************************)
EXTENDS DeviceRequests, TLC

CONSTANTS w1, w2, q1, q2, s1, s2, e1, e2,  \* requests
          m1, m2, a1, a2, k1, k2,          \* MACs, addresses, credentials
          p1                               \* process

\* One process serves everything.
OneProc == [r \in Reqs |-> p1]

\* Bodies for wake and probe runs: the MAC or the address changes, or neither.
TargetInputs ==
  {[mac |-> m, address |-> a, method |-> "none", cred |-> Null] :
     m \in {m1, m2}, a \in {a1, Null}}

\* Bodies for power runs: every method, a new secret, a blank code, an
\* omitted method, another address, an SSH user without remote control.
PowerInputs ==
  {[mac |-> m1, address |-> a1, method |-> "companion", cred |-> k1],
   [mac |-> m1, address |-> a1, method |-> "companion", cred |-> k2],
   [mac |-> m1, address |-> a2, method |-> "companion", cred |-> Null],
   [mac |-> m1, address |-> a1, method |-> "ssh", cred |-> k1],
   [mac |-> m1, address |-> a1, method |-> Null, cred |-> Null],
   [mac |-> m2, address |-> Null, method |-> "none", cred |-> k1]}

\* Requests of one kind in one process, and the two MACs, are interchangeable.
WakeSymmetry == Permutations({w1, w2}) \cup Permutations({q1, q2})
                \cup Permutations({e1, e2}) \cup Permutations({m1, m2})
                \cup Permutations(Ids)
PowerSymmetry == Permutations({s1, s2}) \cup Permutations({e1, e2})
                 \cup Permutations(Ids)
=============================================================================
