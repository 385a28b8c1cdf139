---------------------------- MODULE MCHotUpgrade ----------------------------
(* Instances of HotUpgrade for TLC: who opens which connections. *)
EXTENDS HotUpgradeInv, TLC

CONSTANTS k1, k2, c1, c2

\* Two clients with a connection each.
TwoClients == k1 :> <<c1>> @@ k2 :> <<c2>>

\* One client that serves its two connections in turn.
OneClient == k1 :> <<c1, c2>>
=============================================================================
