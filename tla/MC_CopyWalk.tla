---------------------------- MODULE MC_CopyWalk ----------------------------
(***************************************************************************)
(* CopyWalk for TLC.  The constants are given in the cfg files: the block  *)
(* and page counts are numbers, NoAccess, RESERVED and FREE model values.  *)
(* Every initial state is one call, so the runs have no deadlock check: a  *)
(* call that returns stops.                                                *)
(***************************************************************************)
EXTENDS CopyWalk
=============================================================================
