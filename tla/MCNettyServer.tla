-------------------------- MODULE MCNettyServer ---------------------------
(* NettyServer on one user with one or two connections, for what it does not *)
(* promise; what it does is checked as a part of MCParts.                    *)
EXTENDS NettyServer, TLC

Symmetry == Permutations(Channel)
===========================================================================
