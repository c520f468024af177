----------------------------- MODULE RouteTable -----------------------------
(* What userService's gateway promises to those who send messages: a route   *)
(* names the nettyServer at which a login of that very user was sent its     *)
(* LOGIN, over a connection that may be lost by then. Connections and routes *)
(* can be lost at any time, in any number and each without the other.        *)
(* UserGateway implements this specification, and SingleChat routes by it.   *)
CONSTANTS User, Channel, Server,
          None   \* no user, no server

VARIABLES link,      \* link[c]: new, open (LOGIN was sent) or closed
          owner, at, \* owner[c], at[c]: the user that logged in with c, and where
          route      \* route[u]: the server messages for u are posted to

vars == <<link, owner, at, route>>

Init == /\ link = [c \in Channel |-> "new"]
        /\ owner = [c \in Channel |-> None]
        /\ at = [c \in Channel |-> None]
        /\ route = [u \in User |-> None]

Login(c, u, s) == /\ link[c] = "new"
                  /\ \E l \in {"open", "closed"} : link' = [link EXCEPT ![c] = l]
                  /\ owner' = [owner EXCEPT ![c] = u]
                  /\ at' = [at EXCEPT ![c] = s]
                  /\ UNCHANGED route

SaveRoute(c) == /\ link[c] # "new"
                /\ route' = [route EXCEPT ![owner[c]] = at[c]]
                /\ UNCHANGED <<link, owner, at>>

\* The connections C close, and the routes of the users U are deleted.
Lose(C, U) ==
  /\ link' = [c \in Channel |-> IF c \in C /\ link[c] = "open" THEN "closed" ELSE link[c]]
  /\ route' = [u \in User |-> IF u \in U THEN None ELSE route[u]]
  /\ UNCHANGED <<owner, at>>

Next == \/ \E c \in Channel, u \in User, s \in Server : Login(c, u, s)
        \/ \E c \in Channel : SaveRoute(c)
        \/ \E C \in SUBSET Channel, U \in SUBSET User : Lose(C, U)

Spec == Init /\ [][Next]_vars
============================================================================
