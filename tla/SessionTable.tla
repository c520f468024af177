---------------------------- MODULE SessionTable ----------------------------
(* What one nettyServer promises to those who push messages to its users:    *)
(* a connection logs in once, for one user, and the user's entry is then     *)
(* that connection, until a later login or nothing. Connections and entries  *)
(* can be lost at any time, in any number and each without the other; what   *)
(* was lost does not come back. NettyServer implements this specification,   *)
(* and SingleChat pushes through it.                                         *)
CONSTANTS User, Channel,
          None   \* no user, no connection

VARIABLES link,  \* link[c]: new, open (logged in) or closed
          owner, \* owner[c]: the user that logged in with c
          entry  \* entry[u]: the connection messages for u are written to

vars == <<link, owner, entry>>

Init == /\ link = [c \in Channel |-> "new"]
        /\ owner = [c \in Channel |-> None]
        /\ entry = [u \in User |-> None]

\* The peer may have closed the connection by the time its LOGIN is read.
Login(c, u) == /\ link[c] = "new"
               /\ \E l \in {"open", "closed"} : link' = [link EXCEPT ![c] = l]
               /\ owner' = [owner EXCEPT ![c] = u]
               /\ entry' = [entry EXCEPT ![u] = c]

\* The connections C close, and the entries of the users U are removed.
Lose(C, U) ==
  /\ link' = [c \in Channel |-> IF c \in C /\ link[c] = "open" THEN "closed" ELSE link[c]]
  /\ entry' = [u \in User |-> IF u \in U THEN None ELSE entry[u]]
  /\ UNCHANGED owner

Next == \/ \E c \in Channel, u \in User : Login(c, u)
        \/ \E C \in SUBSET Channel, U \in SUBSET User : Lose(C, U)

Spec == Init /\ [][Next]_vars
============================================================================
