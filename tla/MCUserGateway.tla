--------------------------- MODULE MCUserGateway ---------------------------
(* UserGateway on small instances.                                           *)
EXTENDS UserGateway, TLC
============================================================================
