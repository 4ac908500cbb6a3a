-------------------------- MODULE MCSessionDriver --------------------------
(***************************************************************************)
(* SessionDriver on small instances.  Client threads are interchangeable   *)
(* in the safety runs; the liveness runs use no symmetry.                  *)
(***************************************************************************)
EXTENDS SessionDriver, TLC

ClientSymmetry == Permutations(Clients)
=============================================================================
