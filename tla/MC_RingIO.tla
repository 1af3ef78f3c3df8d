------------------------------ MODULE MC_RingIO ------------------------------
(* RingIO instantiated for TLC: a 4-byte ring, enough bytes to wrap it     *)
(* twice so that every wrap path of drain_ring and fill_ring is taken.     *)
EXTENDS RingIO

MCSz == 4
MCMaxBytes == 9
=============================================================================
