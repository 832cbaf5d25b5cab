---------------------------- MODULE MCTreeGCSound ----------------------------
(***************************************************************************)
(* The instances whose graces and clocks satisfy what the protocol needs.  *)
(***************************************************************************)
EXTENDS MCTreeGC

ASSUME TimingAssumption == TimingSound
=============================================================================
