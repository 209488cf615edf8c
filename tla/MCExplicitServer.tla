-------------------------- MODULE MCExplicitServer --------------------------
(***************************************************************************)
(* Instances of ExplicitServer for TLC.                                    *)
(***************************************************************************)
EXTENDS ExplicitServer, TLC

Symmetry == Permutations(Pids) \cup Permutations(Ports) \cup Permutations(Threads)
=============================================================================
