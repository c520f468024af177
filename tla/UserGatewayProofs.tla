-------------------------- MODULE UserGatewayProofs --------------------------
(* Proofs about UserGateway for every number of users, connections and       *)
(* servers, and any number of failures and crashes.                          *)
EXTENDS UserGateway, TLAPS

(* process has not taken u's User object away.                               *)
Kept(u) == \/ At("idle") \/ LoopUser # u
           \/ At("setReconnect") \/ At("userOffLine") \/ At("remove")

(* A user with a registered connection, or one about to be registered, has a *)
(* User object, except while process has taken it away.                      *)
Sessions == \A c \in Channel :
  /\ CHANNEL_MAP[c] # None /\ Kept(CHANNEL_MAP[c]) => SESSION_MAP[CHANNEL_MAP[c]] # None
  /\ pc[c] = "put" /\ Kept(user[c]) => SESSION_MAP[user[c]] # None

(* Only an object that has been in the map is ever marked, and one that is   *)
(* in the map only while the loop works for its user.                        *)
Marks == /\ \A c \in isReconnect : pc[c] \in {"put", "check", "saveRoute", "done"}
         /\ \A u \in User : At("idle") \/ u # LoopUser => SESSION_MAP[u] \notin isReconnect

Inv == TypeOK /\ Sessions /\ Marks
----------------------------------------------------------------------------
(* Each step keeps the types and the life cycle of logins and of the loop.   *)
LEMMA TypeStep == TypeOK /\ Sessions /\ [Next]_vars => TypeOK'
<1> USE NoneIsNull, BoundsAreNat DEF TypeOK, VarTypes, Lifecycle, Owner,
        LoopState, LoopPC, LoginPC, Idle, At, LoopUser, Sessions, Kept
<1> SUFFICES ASSUME TypeOK, Sessions, [Next]_vars PROVE TypeOK'
  OBVIOUS
<1>0. CASE UNCHANGED vars
  BY <1>0 DEF vars
<1>1. ASSUME NEW c \in Channel, NEW u \in User, NEW s \in Server,
             connectNettyServer(c, u, s)
      PROVE  TypeOK'
  BY <1>1 DEF connectNettyServer, Goto, maps, faults
<1>2. ASSUME NEW c \in Channel, Established(c) PROVE TypeOK'
  BY <1>2 DEF Established, login, maps, faults
<1>3. ASSUME NEW c \in Channel, Refused(c) PROVE TypeOK'
  BY <1>3 DEF Refused, login, maps, faults
<1>4. ASSUME NEW c \in Channel, Drop(c) PROVE TypeOK'
  BY <1>4 DEF Drop, login, maps, faults
<1>5. ASSUME NEW c \in Channel, loginNettyServer(c) PROVE TypeOK'
  BY <1>5 DEF loginNettyServer, Goto, login, maps, faults
<1>6. ASSUME NEW c \in Channel, ConnectFails(c) PROVE TypeOK'
  BY <1>6 DEF ConnectFails, Goto, login, maps, faults
<1>7. ASSUME NEW c \in Channel, saveSession(c) PROVE TypeOK'
  BY <1>7 DEF saveSession, Goto, login, faults
<1>8. ASSUME NEW c \in Channel, put(c) PROVE TypeOK'
  BY <1>8 DEF put, Goto, login, faults
<1>9. ASSUME NEW c \in Channel, checkServerAvailable(c) PROVE TypeOK'
  BY <1>9 DEF checkServerAvailable, Goto, login, maps, faults
<1>10. ASSUME NEW c \in Channel, savaUserRouteInfo(c) PROVE TypeOK'
  BY <1>10 DEF savaUserRouteInfo, Goto, login, maps, faults
<1>11. ASSUME NEW c \in Channel, LoginFails(c) PROVE TypeOK'
  BY <1>11 DEF LoginFails, Goto, login, maps
<1>12. ASSUME NEW c \in Channel, channelInactive(c) PROVE TypeOK'
  BY <1>12 DEF channelInactive, login, maps, faults
<1>13. CASE setReconnect
  BY <1>13 DEF setReconnect, LoopTo, login, maps, faults
<1>14. CASE userOffLine
  BY <1>14 DEF userOffLine, LoopTo, login, maps, faults
<1>15. CASE OffLineFails
  BY <1>15 DEF OffLineFails, LoopTo, login, maps
<1>16. CASE remove
  <2> USE <1>16 DEF remove, LoopTo, login, faults
  <2>1. /\ loop.chan \in Channel /\ LoopUser \in User
        /\ loop' = [loop EXCEPT !.at = "connect"]
    OBVIOUS
  <2>2. VarTypes'
    BY <2>1
  <2>3. ASSUME NEW c \in Channel PROVE Lifecycle(c)'
    BY <2>1
  <2>4. ASSUME NEW u \in User PROVE Owner(u)'
    BY <2>1
  <2>5. LoopState'
    BY <2>1
  <2>. QED
    BY <2>2, <2>3, <2>4, <2>5
<1>17. CASE Reconnect
  BY <1>17 DEF Reconnect, LoopTo, login, maps, faults
<1>18. CASE restore
  <2> USE <1>18 DEF restore, login, maps, faults
  <2>1. /\ loop.chan \in Channel /\ loop.obj \in Channel
        /\ LoopUser \in User /\ user[loop.obj] = LoopUser
        /\ loop' = Idle
    OBVIOUS
  <2>2. VarTypes'
    <3>1. loop' \in [at : LoopPC, chan : Channel \cup {None}, obj : Channel \cup {None}]
      BY <2>1
    <3>2. /\ CHANNEL_MAP' \in [Channel -> User \cup {None}]
          /\ SESSION_MAP' \in [User -> Channel \cup {None}]
          /\ isReconnect' \subseteq Channel
      BY <2>1
    <3>. QED
      BY <3>1, <3>2
  <2>3. \A c \in Channel : Lifecycle(c)'
    BY <2>1
  <2>4. \A u \in User : Owner(u)'
    BY <2>1
  <2>5. LoopState'
    BY <2>1
  <2>. QED
    BY <2>2, <2>3, <2>4, <2>5
<1>19. CASE Crash
  BY <1>19 DEF Crash, login
<1>20. ASSUME NEW u \in User, Expire(u) PROVE TypeOK'
  BY <1>20 DEF Expire, login, maps, faults
<1>. QED
  BY <1>0, <1>1, <1>2, <1>3, <1>4, <1>5, <1>6, <1>7, <1>8, <1>9, <1>10,
     <1>11, <1>12, <1>13, <1>14, <1>15, <1>16, <1>17, <1>18, <1>19, <1>20
     DEF Next, process, LoginThread, initUserConnectServer

(* Logins save the object before they put the connection; finally puts back  *)
(* what process removed.                                                     *)
LEMMA SessionsStep == TypeOK /\ Sessions /\ [Next]_vars => Sessions'
<1> USE NoneIsNull, BoundsAreNat DEF TypeOK, VarTypes, Lifecycle, Owner,
        LoopState, LoopPC, LoginPC, Idle, At, LoopUser, Sessions, Kept
<1> SUFFICES ASSUME TypeOK, Sessions, [Next]_vars PROVE Sessions'
  OBVIOUS
<1>0. CASE UNCHANGED vars
  BY <1>0 DEF vars
<1>1. ASSUME NEW c \in Channel, NEW u \in User, NEW s \in Server,
             connectNettyServer(c, u, s)
      PROVE  Sessions'
  BY <1>1 DEF connectNettyServer, Goto, maps, faults
<1>2. ASSUME NEW c \in Channel, Established(c) PROVE Sessions'
  BY <1>2 DEF Established, login, maps, faults
<1>3. ASSUME NEW c \in Channel, Refused(c) PROVE Sessions'
  BY <1>3 DEF Refused, login, maps, faults
<1>4. ASSUME NEW c \in Channel, Drop(c) PROVE Sessions'
  BY <1>4 DEF Drop, login, maps, faults
<1>5. ASSUME NEW c \in Channel, loginNettyServer(c) PROVE Sessions'
  BY <1>5 DEF loginNettyServer, Goto, login, maps, faults
<1>6. ASSUME NEW c \in Channel, ConnectFails(c) PROVE Sessions'
  BY <1>6 DEF ConnectFails, Goto, login, maps, faults
<1>7. ASSUME NEW c \in Channel, saveSession(c) PROVE Sessions'
  BY <1>7 DEF saveSession, Goto, login, faults
<1>8. ASSUME NEW c \in Channel, put(c) PROVE Sessions'
  BY <1>8 DEF put, Goto, login, faults
<1>9. ASSUME NEW c \in Channel, checkServerAvailable(c) PROVE Sessions'
  BY <1>9 DEF checkServerAvailable, Goto, login, maps, faults
<1>10. ASSUME NEW c \in Channel, savaUserRouteInfo(c) PROVE Sessions'
  BY <1>10 DEF savaUserRouteInfo, Goto, login, maps, faults
<1>11. ASSUME NEW c \in Channel, LoginFails(c) PROVE Sessions'
  BY <1>11 DEF LoginFails, Goto, login, maps
<1>12. ASSUME NEW c \in Channel, channelInactive(c) PROVE Sessions'
  BY <1>12 DEF channelInactive, login, maps, faults
<1>13. CASE setReconnect
  BY <1>13 DEF setReconnect, LoopTo, login, maps, faults
<1>14. CASE userOffLine
  BY <1>14 DEF userOffLine, LoopTo, login, maps, faults
<1>15. CASE OffLineFails
  BY <1>15 DEF OffLineFails, LoopTo, login, maps
<1>16. CASE remove
  BY <1>16 DEF remove, LoopTo, login, faults
<1>17. CASE Reconnect
  BY <1>17 DEF Reconnect, LoopTo, login, maps, faults
<1>18. CASE restore
  BY <1>18 DEF restore, login, maps, faults
<1>19. CASE Crash
  BY <1>19 DEF Crash, login
<1>20. ASSUME NEW u \in User, Expire(u) PROVE Sessions'
  BY <1>20 DEF Expire, login, maps, faults
<1>. QED
  BY <1>0, <1>1, <1>2, <1>3, <1>4, <1>5, <1>6, <1>7, <1>8, <1>9, <1>10,
     <1>11, <1>12, <1>13, <1>14, <1>15, <1>16, <1>17, <1>18, <1>19, <1>20
     DEF Next, process, LoginThread, initUserConnectServer

(* The object process saves is the one it unmarks.                           *)
LEMMA MarksStep == TypeOK /\ Sessions /\ Marks /\ [Next]_vars => Marks'
<1> USE NoneIsNull, BoundsAreNat DEF TypeOK, VarTypes, Lifecycle, Owner,
        LoopState, LoopPC, LoginPC, Idle, At, LoopUser, Sessions, Kept, Marks
<1> SUFFICES ASSUME TypeOK, Sessions, Marks, [Next]_vars PROVE Marks'
  OBVIOUS
<1>0. CASE UNCHANGED vars
  BY <1>0 DEF vars
<1>1. ASSUME NEW c \in Channel, NEW u \in User, NEW s \in Server,
             connectNettyServer(c, u, s)
      PROVE  Marks'
  BY <1>1 DEF connectNettyServer, Goto, maps, faults
<1>2. ASSUME NEW c \in Channel, Established(c) PROVE Marks'
  BY <1>2 DEF Established, login, maps, faults
<1>3. ASSUME NEW c \in Channel, Refused(c) PROVE Marks'
  BY <1>3 DEF Refused, login, maps, faults
<1>4. ASSUME NEW c \in Channel, Drop(c) PROVE Marks'
  BY <1>4 DEF Drop, login, maps, faults
<1>5. ASSUME NEW c \in Channel, loginNettyServer(c) PROVE Marks'
  BY <1>5 DEF loginNettyServer, Goto, login, maps, faults
<1>6. ASSUME NEW c \in Channel, ConnectFails(c) PROVE Marks'
  BY <1>6 DEF ConnectFails, Goto, login, maps, faults
<1>7. ASSUME NEW c \in Channel, saveSession(c) PROVE Marks'
  BY <1>7 DEF saveSession, Goto, login, faults
<1>8. ASSUME NEW c \in Channel, put(c) PROVE Marks'
  BY <1>8 DEF put, Goto, login, faults
<1>9. ASSUME NEW c \in Channel, checkServerAvailable(c) PROVE Marks'
  BY <1>9 DEF checkServerAvailable, Goto, login, maps, faults
<1>10. ASSUME NEW c \in Channel, savaUserRouteInfo(c) PROVE Marks'
  BY <1>10 DEF savaUserRouteInfo, Goto, login, maps, faults
<1>11. ASSUME NEW c \in Channel, LoginFails(c) PROVE Marks'
  BY <1>11 DEF LoginFails, Goto, login, maps
<1>12. ASSUME NEW c \in Channel, channelInactive(c) PROVE Marks'
  BY <1>12 DEF channelInactive, login, maps, faults
<1>13. CASE setReconnect
  BY <1>13 DEF setReconnect, LoopTo, login, maps, faults
<1>14. CASE userOffLine
  BY <1>14 DEF userOffLine, LoopTo, login, maps, faults
<1>15. CASE OffLineFails
  BY <1>15 DEF OffLineFails, LoopTo, login, maps
<1>16. CASE remove
  BY <1>16 DEF remove, LoopTo, login, faults
<1>17. CASE Reconnect
  BY <1>17 DEF Reconnect, LoopTo, login, maps, faults
<1>18. CASE restore
  BY <1>18 DEF restore, login, maps, faults
<1>19. CASE Crash
  BY <1>19 DEF Crash, login
<1>20. ASSUME NEW u \in User, Expire(u) PROVE Marks'
  BY <1>20 DEF Expire, login, maps, faults
<1>. QED
  BY <1>0, <1>1, <1>2, <1>3, <1>4, <1>5, <1>6, <1>7, <1>8, <1>9, <1>10,
     <1>11, <1>12, <1>13, <1>14, <1>15, <1>16, <1>17, <1>18, <1>19, <1>20
     DEF Next, process, LoginThread, initUserConnectServer

(* The loss of a connection deletes the route of its user.                   *)
LEMMA RouteStep == TypeOK /\ Marks /\ RouteIsBacked /\ [Next]_vars => RouteIsBacked'
<1> USE NoneIsNull, BoundsAreNat DEF TypeOK, VarTypes, Lifecycle, Owner,
        LoopState, LoopPC, LoginPC, Idle, At, LoopUser, Marks, RouteIsBacked, Dropping
<1> SUFFICES ASSUME TypeOK, Marks, RouteIsBacked, [Next]_vars PROVE RouteIsBacked'
  OBVIOUS
<1>0. CASE UNCHANGED vars
  BY <1>0 DEF vars
<1>1. ASSUME NEW c \in Channel, NEW u \in User, NEW s \in Server,
             connectNettyServer(c, u, s)
      PROVE  RouteIsBacked'
  BY <1>1 DEF connectNettyServer, Goto, maps, faults
<1>2. ASSUME NEW c \in Channel, Established(c) PROVE RouteIsBacked'
  BY <1>2 DEF Established, login, maps, faults
<1>3. ASSUME NEW c \in Channel, Refused(c) PROVE RouteIsBacked'
  BY <1>3 DEF Refused, login, maps, faults
<1>4. ASSUME NEW c \in Channel, Drop(c) PROVE RouteIsBacked'
  BY <1>4 DEF Drop, login, maps, faults
<1>5. ASSUME NEW c \in Channel, loginNettyServer(c) PROVE RouteIsBacked'
  BY <1>5 DEF loginNettyServer, Goto, login, maps, faults
<1>6. ASSUME NEW c \in Channel, ConnectFails(c) PROVE RouteIsBacked'
  BY <1>6 DEF ConnectFails, Goto, login, maps, faults
<1>7. ASSUME NEW c \in Channel, saveSession(c) PROVE RouteIsBacked'
  BY <1>7 DEF saveSession, Goto, login, faults
<1>8. ASSUME NEW c \in Channel, put(c) PROVE RouteIsBacked'
  BY <1>8 DEF put, Goto, login, faults
<1>9. ASSUME NEW c \in Channel, checkServerAvailable(c) PROVE RouteIsBacked'
  BY <1>9 DEF checkServerAvailable, Goto, login, maps, faults
<1>10. ASSUME NEW c \in Channel, savaUserRouteInfo(c) PROVE RouteIsBacked'
  BY <1>10 DEF savaUserRouteInfo, Goto, login, maps, faults
<1>11. ASSUME NEW c \in Channel, LoginFails(c) PROVE RouteIsBacked'
  BY <1>11 DEF LoginFails, Goto, login, maps
<1>12. ASSUME NEW c \in Channel, channelInactive(c) PROVE RouteIsBacked'
  BY <1>12 DEF channelInactive, login, maps, faults
<1>13. CASE setReconnect
  BY <1>13 DEF setReconnect, LoopTo, login, maps, faults
<1>14. CASE userOffLine
  BY <1>14 DEF userOffLine, LoopTo, login, maps, faults
<1>15. CASE OffLineFails
  BY <1>15 DEF OffLineFails, LoopTo, login, maps
<1>16. CASE remove
  BY <1>16 DEF remove, LoopTo, login, faults
<1>17. CASE Reconnect
  BY <1>17 DEF Reconnect, LoopTo, login, maps, faults
<1>18. CASE restore
  BY <1>18 DEF restore, login, maps, faults
<1>19. CASE Crash
  BY <1>19 DEF Crash, login
<1>20. ASSUME NEW u \in User, Expire(u) PROVE RouteIsBacked'
  BY <1>20 DEF Expire, login, maps, faults
<1>. QED
  BY <1>0, <1>1, <1>2, <1>3, <1>4, <1>5, <1>6, <1>7, <1>8, <1>9, <1>10,
     <1>11, <1>12, <1>13, <1>14, <1>15, <1>16, <1>17, <1>18, <1>19, <1>20
     DEF Next, process, LoginThread, initUserConnectServer

(* A route goes with its time or with a connection of its user that is gone. *)
LEMMA KeptStep == TypeOK /\ RouteIsKept /\ [Next]_vars => RouteIsKept'
<1> USE NoneIsNull, BoundsAreNat DEF TypeOK, VarTypes, Lifecycle, Owner,
        LoopState, LoopPC, LoginPC, Idle, At, LoopUser, RouteIsKept
<1> SUFFICES ASSUME TypeOK, RouteIsKept, [Next]_vars PROVE RouteIsKept'
  OBVIOUS
<1>0. CASE UNCHANGED vars
  BY <1>0 DEF vars
<1>1. ASSUME NEW c \in Channel, NEW u \in User, NEW s \in Server,
             connectNettyServer(c, u, s)
      PROVE  RouteIsKept'
  BY <1>1 DEF connectNettyServer, Goto, maps, faults
<1>2. ASSUME NEW c \in Channel, Established(c) PROVE RouteIsKept'
  BY <1>2 DEF Established, login, maps, faults
<1>3. ASSUME NEW c \in Channel, Refused(c) PROVE RouteIsKept'
  BY <1>3 DEF Refused, login, maps, faults
<1>4. ASSUME NEW c \in Channel, Drop(c) PROVE RouteIsKept'
  BY <1>4 DEF Drop, login, maps, faults
<1>5. ASSUME NEW c \in Channel, loginNettyServer(c) PROVE RouteIsKept'
  BY <1>5 DEF loginNettyServer, Goto, login, maps, faults
<1>6. ASSUME NEW c \in Channel, ConnectFails(c) PROVE RouteIsKept'
  BY <1>6 DEF ConnectFails, Goto, login, maps, faults
<1>7. ASSUME NEW c \in Channel, saveSession(c) PROVE RouteIsKept'
  BY <1>7 DEF saveSession, Goto, login, faults
<1>8. ASSUME NEW c \in Channel, put(c) PROVE RouteIsKept'
  BY <1>8 DEF put, Goto, login, faults
<1>9. ASSUME NEW c \in Channel, checkServerAvailable(c) PROVE RouteIsKept'
  BY <1>9 DEF checkServerAvailable, Goto, login, maps, faults
<1>10. ASSUME NEW c \in Channel, savaUserRouteInfo(c) PROVE RouteIsKept'
  BY <1>10 DEF savaUserRouteInfo, Goto, login, maps, faults
<1>11. ASSUME NEW c \in Channel, LoginFails(c) PROVE RouteIsKept'
  BY <1>11 DEF LoginFails, Goto, login, maps
<1>12. ASSUME NEW c \in Channel, channelInactive(c) PROVE RouteIsKept'
  BY <1>12 DEF channelInactive, login, maps, faults
<1>13. CASE setReconnect
  BY <1>13 DEF setReconnect, LoopTo, login, maps, faults
<1>14. CASE userOffLine
  BY <1>14 DEF userOffLine, LoopTo, login, maps, faults
<1>15. CASE OffLineFails
  BY <1>15 DEF OffLineFails, LoopTo, login, maps
<1>16. CASE remove
  BY <1>16 DEF remove, LoopTo, login, faults
<1>17. CASE Reconnect
  BY <1>17 DEF Reconnect, LoopTo, login, maps, faults
<1>18. CASE restore
  BY <1>18 DEF restore, login, maps, faults
<1>19. CASE Crash
  BY <1>19 DEF Crash, login
<1>20. ASSUME NEW u \in User, Expire(u) PROVE RouteIsKept'
  BY <1>20 DEF Expire, login, maps, faults
<1>. QED
  BY <1>0, <1>1, <1>2, <1>3, <1>4, <1>5, <1>6, <1>7, <1>8, <1>9, <1>10,
     <1>11, <1>12, <1>13, <1>14, <1>15, <1>16, <1>17, <1>18, <1>19, <1>20
     DEF Next, process, LoginThread, initUserConnectServer
----------------------------------------------------------------------------
(* Nobody is logged in at the start.                                         *)
LEMMA InitFacts == Init => Inv /\ RouteIsBacked /\ RouteIsKept
<1> SUFFICES ASSUME Init PROVE Inv /\ RouteIsBacked /\ RouteIsKept
  OBVIOUS
<1> USE NoneIsNull DEF Init, Idle, At
<1>1. TypeOK
  BY DEF TypeOK, VarTypes, Lifecycle, Owner, LoopState, LoopPC, LoginPC
<1>2. Sessions /\ Marks /\ RouteIsBacked /\ RouteIsKept
  BY DEF Sessions, Marks, RouteIsBacked, RouteIsKept
<1>. QED
  BY <1>1, <1>2 DEF Inv

LEMMA Invariant == Spec => []Inv
<1>1. Init => Inv
  BY InitFacts
<1>2. Inv /\ [Next]_vars => Inv'
  BY TypeStep, SessionsStep, MarksStep DEF Inv
<1>. QED
  BY <1>1, <1>2, PTL DEF Spec

(* The maps stay well typed - no null is ever dereferenced or marked on the  *)
(* event loop once it has found a session - and so do the routes.            *)
THEOREM GatewayTypes == Spec => []TypeOK
<1>1. Inv => TypeOK
  BY DEF Inv
<1>. QED
  BY <1>1, Invariant, PTL

(* channelInactive finds a User object for every registered connection, and  *)
(* never a marked one.                                                       *)
THEOREM DropsAreHandled == Spec => []LossesAreHandled
<1>1. Inv => LossesAreHandled
  BY DEF Inv, Sessions, Kept, Marks, LossesAreHandled
<1>. QED
  BY <1>1, Invariant, PTL

(* Routes name servers their users are connected to, up to missed losses.    *)
THEOREM RoutesAreBacked == Spec => []RouteIsBacked
<1>1. Init => RouteIsBacked
  BY InitFacts
<1>2. Inv /\ RouteIsBacked /\ [Next]_vars => RouteIsBacked'
  BY RouteStep DEF Inv
<1>. QED
  BY <1>1, <1>2, Invariant, PTL DEF Spec

(* Users stay reachable until one of their own connections is lost or the    *)
(* route's time is over.                                                     *)
THEOREM RoutesAreKept == Spec => []RouteIsKept
<1>1. Init => RouteIsKept
  BY InitFacts
<1>2. Inv /\ RouteIsKept /\ [Next]_vars => RouteIsKept'
  BY KeptStep DEF Inv
<1>. QED
  BY <1>1, <1>2, Invariant, PTL DEF Spec
----------------------------------------------------------------------------
(* The route table that others rely on.                                      *)

(* How the table sees the connections.                                       *)
RouteLink == [c \in Channel |-> IF c \notin sent THEN "new"
                               ELSE IF link[c] = "open" THEN "open" ELSE "closed"]
RouteOwner == [c \in Channel |-> IF c \in sent THEN user[c] ELSE None]
RouteAt == [c \in Channel |-> IF c \in sent THEN server[c] ELSE None]

RoutesStep == [Routes!Next]_(Routes!vars)

(* Connections that log in know their user and server for good.              *)
Settled == /\ sent' = sent
           /\ \A c \in sent : user'[c] = user[c] /\ server'[c] = server[c]

(* A step that sends no LOGIN and saves no route is a loss, or nothing.       *)
LEMMA RoutesLose ==
  ASSUME TypeOK, Settled, NEW C \in SUBSET Channel, NEW U \in SUBSET User,
         \A c \in sent : link'[c] = "open" <=> link[c] = "open" /\ c \notin C,
         route' = [u \in User |-> IF u \in U THEN None ELSE route[u]]
  PROVE  RoutesStep
<1>1. RouteOwner' = RouteOwner /\ RouteAt' = RouteAt
  BY DEF Settled, RouteOwner, RouteAt
<1>2. RouteLink' = [c \in Channel |-> IF c \in C /\ RouteLink[c] = "open" THEN "closed"
                                     ELSE RouteLink[c]]
  BY DEF Settled, RouteLink
<1> QED
  BY <1>1, <1>2 DEF RoutesStep, RouteLink, RouteOwner, RouteAt, Routes!Next, Routes!Lose

LEMMA RoutesStay ==
  ASSUME TypeOK, Settled, UNCHANGED route,
         \A c \in sent : link'[c] = "open" <=> link[c] = "open"
  PROVE  RoutesStep
<1>1. PICK C \in SUBSET Channel, U \in SUBSET User : C = {} /\ U = {}
  OBVIOUS
<1>2. route' = [u \in User |-> IF u \in U THEN None ELSE route[u]]
  BY <1>1 DEF TypeOK, VarTypes
<1>3. \A c \in sent : link'[c] = "open" <=> link[c] = "open" /\ c \notin C
  BY <1>1
<1> QED
  BY <1>2, <1>3, RoutesLose

(* sync() waited for the connection, so it is open, or closed already.       *)
LEMMA RoutesLogIn == ASSUME TypeOK, NEW c \in Channel, loginNettyServer(c) PROVE RoutesStep
<1>1. PICK u \in User, s \in Server : u = user[c] /\ s = server[c]
  BY DEF loginNettyServer, TypeOK, VarTypes, Lifecycle
<1>2. /\ c \notin sent /\ sent' = sent \cup {c}
      /\ UNCHANGED <<link, user, server, route>>
  BY DEF loginNettyServer, login, TypeOK, VarTypes, Lifecycle
<1>3. RouteLink[c] = "new"
  BY <1>2 DEF RouteLink
<1>4. PICK l \in {"open", "closed"} : RouteLink' = [RouteLink EXCEPT ![c] = l]
  <2>1. PICK l \in {"open", "closed"} : l = IF link[c] = "open" THEN "open" ELSE "closed"
    OBVIOUS
  <2>2. RouteLink' = [RouteLink EXCEPT ![c] = l]
    BY <1>2, <2>1 DEF RouteLink
  <2> QED
    BY <2>2
<1>5. /\ RouteOwner' = [RouteOwner EXCEPT ![c] = u]
      /\ RouteAt' = [RouteAt EXCEPT ![c] = s]
  BY <1>1, <1>2 DEF RouteOwner, RouteAt
<1>6. Routes!Login(c, u, s)
  <2>1. /\ RouteLink[c] = "new"
        /\ \E k \in {"open", "closed"} : RouteLink' = [RouteLink EXCEPT ![c] = k]
        /\ RouteOwner' = [RouteOwner EXCEPT ![c] = u]
        /\ RouteAt' = [RouteAt EXCEPT ![c] = s]
        /\ UNCHANGED route
    BY <1>2, <1>3, <1>4, <1>5
  <2> QED
    BY ONLY <2>1, Zenon DEF RouteLink, RouteOwner, RouteAt, Routes!Login
<1> QED
  BY <1>6 DEF RoutesStep, Routes!Next

LEMMA RoutesSave == ASSUME TypeOK, NEW c \in Channel, savaUserRouteInfo(c) PROVE RoutesStep
<1>1. c \in sent
  BY DEF savaUserRouteInfo, TypeOK, Lifecycle
<1>2. /\ RouteLink[c] # "new" /\ RouteOwner[c] = user[c] /\ RouteAt[c] = server[c]
      /\ RouteLink' = RouteLink /\ RouteOwner' = RouteOwner /\ RouteAt' = RouteAt
  BY <1>1 DEF savaUserRouteInfo, login, RouteLink, RouteOwner, RouteAt
<1>3. route' = [route EXCEPT ![RouteOwner[c]] = RouteAt[c]]
  BY <1>2 DEF savaUserRouteInfo
<1> QED
  BY <1>2, <1>3 DEF RoutesStep, RouteLink, RouteOwner, RouteAt, Routes!Next, Routes!SaveRoute

(* A deleted route is the table's loss of that user's route alone.           *)
LEMMA RoutesDelete ==
  ASSUME TypeOK, NEW u \in User, route' = [route EXCEPT ![u] = None],
         UNCHANGED <<link, user, server, sent>>
  PROVE  RoutesStep
<1>1. PICK C \in SUBSET Channel, U \in SUBSET User : C = {} /\ U = {u}
  OBVIOUS
<1>2. route' = [v \in User |-> IF v \in U THEN None ELSE route[v]]
  BY <1>1 DEF TypeOK, VarTypes
<1>3. Settled /\ \A c \in sent : link'[c] = "open" <=> link[c] = "open" /\ c \notin C
  BY <1>1 DEF Settled
<1> QED
  BY <1>2, <1>3, RoutesLose

(* A crash closes every connection at once and leaves the routes.            *)
LEMMA RoutesClose ==
  ASSUME TypeOK, Crash \/ \E c \in Channel : Drop(c) PROVE RoutesStep
<1>1. PICK C \in SUBSET Channel :
        \A c \in sent : link'[c] = "open" <=> link[c] = "open" /\ c \notin C
  <2>1. CASE Crash
    <3>1. \A c \in Channel : link'[c] # "open"
      BY <2>1 DEF Crash
    <3> QED
      BY <3>1 DEF TypeOK, VarTypes
  <2>2. ASSUME NEW c \in Channel, Drop(c)
        PROVE  \E C \in SUBSET Channel :
                 \A d \in sent : link'[d] = "open" <=> link[d] = "open" /\ d \notin C
    <3>1. PICK C \in SUBSET Channel : C = {c}
      OBVIOUS
    <3>2. \A d \in sent : link'[d] = "open" <=> link[d] = "open" /\ d \notin C
      BY <2>2, <3>1 DEF Drop, TypeOK, VarTypes
    <3> QED
      BY <3>2
  <2> QED
    BY <2>1, <2>2
<1>2. PICK U \in SUBSET User : U = {}
  OBVIOUS
<1>3. Settled /\ route' = route
  BY DEF Settled, Crash, Drop, login
<1>4. route' = [u \in User |-> IF u \in U THEN None ELSE route[u]]
  BY <1>2, <1>3 DEF TypeOK, VarTypes
<1> QED
  BY <1>1, <1>3, <1>4, RoutesLose

(* What happens to a connection before LOGIN is sent is not the table's.     *)
LEMMA RoutesConnect ==
  ASSUME TypeOK, NEW c \in Channel,
         \/ \E u \in User, s \in Server : connectNettyServer(c, u, s)
         \/ Established(c) \/ Refused(c)
  PROVE  RoutesStep
<1>1. c \notin sent
  BY DEF connectNettyServer, Established, Refused, TypeOK, Lifecycle
<1>2. /\ Settled /\ UNCHANGED route
      /\ \A d \in sent : link'[d] = link[d]
  BY <1>1 DEF connectNettyServer, Established, Refused, Settled, login, TypeOK, VarTypes
<1> QED
  BY <1>2, RoutesStay

(* Every step of the gateway is a step of the route table.                   *)
LEMMA RoutesSteps == TypeOK /\ [Next]_vars => RoutesStep
<1> SUFFICES ASSUME TypeOK, [Next]_vars PROVE RoutesStep
  OBVIOUS
<1>1. ASSUME \/ UNCHANGED vars \/ setReconnect \/ OffLineFails
             \/ remove \/ Reconnect \/ restore
      PROVE  RoutesStep
  <2>1. UNCHANGED <<link, user, server, sent, route>>
    BY <1>1 DEF vars, setReconnect, OffLineFails, remove, Reconnect, restore, login
  <2> QED
    BY <2>1, RoutesStay DEF Settled
<1>2. ASSUME NEW c \in Channel,
             \/ ConnectFails(c) \/ saveSession(c) \/ put(c)
             \/ checkServerAvailable(c) \/ LoginFails(c)
      PROVE  RoutesStep
  <2>1. UNCHANGED <<link, user, server, sent, route>>
    BY <1>2 DEF ConnectFails, saveSession, put, checkServerAvailable, LoginFails, login
  <2> QED
    BY <2>1, RoutesStay DEF Settled
<1>3. ASSUME NEW c \in Channel, channelInactive(c) PROVE RoutesStep
  <2>1. /\ UNCHANGED <<user, server, sent, route>>
        /\ \A d \in Channel : link'[d] = "open" <=> link[d] = "open"
    BY <1>3 DEF channelInactive, login, TypeOK, VarTypes
  <2> QED
    BY <2>1, RoutesStay DEF Settled, TypeOK, VarTypes
<1>4. CASE userOffLine
  <2>1. PICK u \in User : u = LoopUser
    BY <1>4 DEF userOffLine, At, LoopUser, TypeOK, VarTypes, Lifecycle, LoopState
  <2>2. route' = [route EXCEPT ![u] = None] /\ UNCHANGED <<link, user, server, sent>>
    BY <1>4, <2>1 DEF userOffLine, login
  <2> QED
    BY <2>2, RoutesDelete
<1>5. ASSUME NEW u \in User, Expire(u) PROVE RoutesStep
  BY <1>5, RoutesDelete DEF Expire, login
<1> QED
  BY <1>1, <1>2, <1>3, <1>4, <1>5, RoutesConnect, RoutesLogIn, RoutesSave, RoutesClose
     DEF Next, process, LoginThread, initUserConnectServer

(* The gateway implements RouteTable: what SingleChat assumes of the routes  *)
(* holds for every number of users, connections and servers.                 *)
THEOREM GatewayImplements == Spec => ImplementsRoutes
<1>1. Init => Routes!Init
  BY DEF Init, Routes!Init
<1>2. Inv /\ [Next]_vars => [Routes!Next]_(Routes!vars)
  BY RoutesSteps DEF RoutesStep, Inv
<1>. QED
  BY <1>1, <1>2, Invariant, PTL DEF Spec, ImplementsRoutes, Routes!Spec
=============================================================================
