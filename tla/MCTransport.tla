----------------------------- MODULE MCTransport ----------------------------
(***************************************************************************)
(* Instances of Transport for TLC.  The threads are interchangeable.       *)
(***************************************************************************)
EXTENDS Transport

ThreadSymmetry == Permutations(Threads)
=============================================================================
