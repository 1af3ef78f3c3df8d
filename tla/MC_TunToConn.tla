----------------------------- MODULE MC_TunToConn -----------------------------
(* TunToConn instantiated for TLC.  Packets of 2 or 3 bytes through a      *)
(* 4-byte tx ring wrap it, fill it and are refused for room; a 2-byte      *)
(* socket buffer makes sends short and EAGAIN.  Tun reads take a whole     *)
(* packet, as 4096 bytes take a packet of a tun device with a 1500 MTU.    *)
EXTENDS TunToConn

MCSz == 4
MCLens == {2, 3}
MCReadCap == 3
MCMaxPkts == 3
MCWindow == 2
MCMaxWire == 9
=============================================================================
