---------------------------- MODULE MCSingleChat ----------------------------
(* SingleChat on small instances.                                            *)
EXTENDS SingleChat, TLC
============================================================================
