------------------------------ MODULE MC_Peers ------------------------------
(* Peers for TLC: four addresses, this host being address 2, so that 3 and *)
(* 4 are peers it connects to and 1 one that connects to it.               *)
EXTENDS Peers

MCAddrs == {1, 2, 3, 4}

MCSelf == 2

(* Peer files: none, one of each kind, the two peers it connects to, and   *)
(* one listing a lower and a higher peer.                                  *)
MCFiles == {{}, {3}, {3, 4}, {1, 4}}

MCFilesMissing == MCFiles \cup {NoFile}
=============================================================================
