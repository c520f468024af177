-------------------------- MODULE MCMessageStore --------------------------
(* MessageStore on small instances. Safety runs use the symmetry of message  *)
(* ids and of instances; liveness runs do not.                               *)
EXTENDS MessageStore, TLC

Symmetry == Permutations(Mid) \cup Permutations(Instance)
===========================================================================
