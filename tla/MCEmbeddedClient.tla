-------------------------- MODULE MCEmbeddedClient --------------------------
(***************************************************************************)
(* Instances of EmbeddedClient for TLC.  The handles and threads are model *)
(* values; a configuration chooses how many and which faults may happen.   *)
(***************************************************************************)
EXTENDS EmbeddedClientProps, TLC

Symmetry == Permutations(SharedHandles \ Siblings) \cup Permutations(Isolated) \cup Permutations(Threads)
=============================================================================
