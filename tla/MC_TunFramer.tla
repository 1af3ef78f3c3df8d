----------------------------- MODULE MC_TunFramer -----------------------------
(* TunFramer instantiated for TLC.  Bytes have 4 values and the version    *)
(* byte is 1, so that the bytes 0-1 of a header read as a length (4) fit   *)
(* in the rx ring, as 0x4500 fits in CONN_RING_SZ.  Packets of 4 to 6      *)
(* bytes in a 6-byte rx ring split at every offset across the wrap; the    *)
(* backlog, like TUN_RING_SZ, is larger than the rx ring; two 4-byte     *)
(* packets fill it exactly, which reaches the spin of fill_ring on it.     *)
EXTENDS TunFramer

MCRadix == 4
MCVerByte == 1
MCLens == {4, 5, 6}
MCMaxPkts == 3
MCSz == 6
MCTunSz == 8
=============================================================================
