---------------------------- MODULE UserGateway ----------------------------
(* userService as the users' gateway: UserServiceImpl.login on request       *)
(* threads, and the one "MyClient" event loop of NettyClient, which          *)
(* establishes every connection to a nettyServer and handles their loss.     *)
(* They share ClientSessionSocketHolder and the users' routes in Redis.      *)
(*                                                                           *)
(* A login, the User object of its request and its connection share one      *)
(* identity c. One process; the steps of login threads and of the loop       *)
(* interleave at single map and Redis calls.                                 *)
EXTENDS Integers

CONSTANTS User, Channel, Server,
          None,        \* null
          MaxErrors,   \* bound: Redis or reachability failures
          MaxCrashes   \* bound: crashes of the process

ASSUME NoneIsNull == None \notin User \cup Channel \cup Server
ASSUME BoundsAreNat == MaxErrors \in Nat /\ MaxCrashes \in Nat

VARIABLES
  pc,           \* pc[c]: where login c's thread is
  link,         \* link[c]: new, connecting, refused, open, closed
                \* (channelInactive due) or gone
  user, server, \* user[c], server[c]: who logs in with c, and where
  sent,         \* connections LOGIN was written to
  CHANNEL_MAP,  \* ClientSessionSocketHolder: connection -> user
  SESSION_MAP,  \* ClientSessionSocketHolder: user -> User object
  isReconnect,  \* User objects with isReconnect set
  loop,         \* the event loop: step, connection, User object
  route,        \* Redis user-route:<u>: the server, or None
  orphans,      \* servers with a connection that the loop opened and lost
  missed,       \* history: connections whose loss did not clear the route
  unrouted,     \* history: connections whose login threw, or whose route expired
  errors, crashes

login  == <<user, server>>
maps   == <<CHANNEL_MAP, SESSION_MAP>>
faults == <<unrouted, errors, crashes>>
vars == <<pc, link, user, server, sent, CHANNEL_MAP, SESSION_MAP, isReconnect,
          loop, route, orphans, missed, unrouted, errors, crashes>>

Idle   == [at |-> "idle", chan |-> None, obj |-> None]
LoopPC == {"idle", "setReconnect", "userOffLine", "remove", "connect", "finally"}
LoginPC == {"idle", "connect", "saveSession", "put", "check", "saveRoute", "done"}

Routes == INSTANCE RouteTable WITH
  link  <- [c \in Channel |-> IF c \notin sent THEN "new"
                             ELSE IF link[c] = "open" THEN "open" ELSE "closed"],
  owner <- [c \in Channel |-> IF c \in sent THEN user[c] ELSE None],
  at    <- [c \in Channel |-> IF c \in sent THEN server[c] ELSE None]

Init == /\ pc = [c \in Channel |-> "idle"]
        /\ link = [c \in Channel |-> "new"]
        /\ user = [c \in Channel |-> None]
        /\ server = [c \in Channel |-> None]
        /\ sent = {}
        /\ CHANNEL_MAP = [c \in Channel |-> None]
        /\ SESSION_MAP = [u \in User |-> None]
        /\ isReconnect = {}
        /\ loop = Idle
        /\ route = [u \in User |-> None]
        /\ orphans = {}
        /\ missed = {} /\ unrouted = {}
        /\ errors = 0 /\ crashes = 0
----------------------------------------------------------------------------
(* A request thread: login, connectNettyServer, initUserConnectServer.       *)

Goto(c, l) == pc' = [pc EXCEPT ![c] = l]

\* The credentials are right and ZooKeeper lists s first; connect() is queued.
connectNettyServer(c, u, s) ==
  /\ pc[c] = "idle"
  /\ Goto(c, "connect")
  /\ link' = [link EXCEPT ![c] = "connecting"]
  /\ user' = [user EXCEPT ![c] = u]
  /\ server' = [server EXCEPT ![c] = s]
  /\ UNCHANGED <<sent, maps, isReconnect, loop, route, orphans, missed, faults>>

\* The loop completes the connect, between two callbacks.
Established(c) == /\ loop = Idle /\ link[c] = "connecting"
                  /\ link' = [link EXCEPT ![c] = "open"]
                  /\ UNCHANGED <<pc, login, sent, maps, isReconnect, loop, route,
                                 orphans, missed, faults>>

Refused(c) == /\ loop = Idle /\ link[c] = "connecting"
              /\ link' = [link EXCEPT ![c] = "refused"]
              /\ UNCHANGED <<pc, login, sent, maps, isReconnect, loop, route,
                             orphans, missed, faults>>

\* Mutant: connect() without sync().
loginNettyServer_NoSync(c) ==
  /\ pc[c] = "connect" /\ link[c] # "refused"
  /\ Goto(c, "saveSession")
  /\ sent' = sent \cup {c}
  /\ UNCHANGED <<link, login, maps, isReconnect, loop, route, orphans, missed, faults>>

\* sync() returns when the loop has established the connection, which may be
\* closed again by now.
loginNettyServer(c) ==
  /\ pc[c] = "connect" /\ link[c] \notin {"connecting", "refused"}
  /\ Goto(c, "saveSession")
  /\ sent' = sent \cup {c}
  /\ UNCHANGED <<link, login, maps, isReconnect, loop, route, orphans, missed, faults>>

\* sync() throws; the catch goes on to future.isSuccess() with future null.
ConnectFails(c) == /\ pc[c] = "connect" /\ link[c] = "refused"
                   /\ Goto(c, "done")
                   /\ UNCHANGED <<link, login, sent, maps, isReconnect, loop, route,
                                  orphans, missed, faults>>

saveSession(c) == /\ pc[c] = "saveSession"
                  /\ SESSION_MAP' = [SESSION_MAP EXCEPT ![user[c]] = c]
                  /\ Goto(c, "put")
                  /\ UNCHANGED <<link, login, sent, CHANNEL_MAP, isReconnect, loop,
                                 route, orphans, missed, faults>>

put(c) == /\ pc[c] = "put"
          /\ CHANNEL_MAP' = [CHANNEL_MAP EXCEPT ![c] = user[c]]
          /\ Goto(c, "check")
          /\ UNCHANGED <<link, login, sent, SESSION_MAP, isReconnect, loop, route,
                         orphans, missed, faults>>

\* Mutant: the check returns from the login.
checkServerAvailable_Returns(c) ==
  /\ pc[c] = "check"
  /\ Goto(c, "done")
  /\ UNCHANGED <<link, login, sent, maps, isReconnect, loop, route, orphans, missed,
                 faults>>

checkServerAvailable(c) ==
  /\ pc[c] = "check"
  /\ Goto(c, "saveRoute")
  /\ UNCHANGED <<link, login, sent, maps, isReconnect, loop, route, orphans, missed,
                 faults>>

\* The loss of c is not noticed yet, or the route it had is not yet deleted.
Dropping(c) == \/ link[c] = "closed"
               \/ loop.chan = c /\ loop.at \in {"setReconnect", "userOffLine"}

\* SET user-route:<u>; too late when the loss of c has been handled.
savaUserRouteInfo(c) ==
  /\ pc[c] = "saveRoute"
  /\ route' = [route EXCEPT ![user[c]] = server[c]]
  /\ missed' = IF link[c] = "open" \/ Dropping(c) THEN missed ELSE missed \cup {c}
  /\ Goto(c, "done")
  /\ UNCHANGED <<link, login, sent, maps, isReconnect, loop, orphans, faults>>

\* The server cannot be reached (any more), or Redis fails: the login throws
\* and leaves the connection as it is.
LoginFails(c) == /\ errors < MaxErrors
                 /\ pc[c] \in {"check", "saveRoute"}
                 /\ errors' = errors + 1
                 /\ unrouted' = unrouted \cup {c}
                 /\ Goto(c, "done")
                 /\ UNCHANGED <<link, login, sent, maps, isReconnect, loop, route,
                                orphans, missed, crashes>>
----------------------------------------------------------------------------
(* The event loop: MyClientHandler.channelInactive and                       *)
(* ClientHearBeatHandler.process.                                            *)

\* The connection is lost: nettyServer closes or dies, a PING cannot be
\* written, exceptionCaught closes.
Drop(c) == /\ link[c] = "open"
           /\ link' = [link EXCEPT ![c] = "closed"]
           /\ UNCHANGED <<pc, login, sent, maps, isReconnect, loop, route, orphans,
                          missed, faults>>

\* Nobody sets isOffLine. Without an entry for c, or without a User object,
\* the handler ends in a NullPointerException.
channelInactive(c) ==
  LET u == CHANNEL_MAP[c]
      session == IF u = None THEN None ELSE SESSION_MAP[u] IN
  /\ loop = Idle /\ link[c] = "closed"
  /\ link' = [link EXCEPT ![c] = "gone"]
  /\ loop' = IF session = None \/ session \in isReconnect
             THEN Idle
             ELSE [at |-> "setReconnect", chan |-> c, obj |-> session]
  /\ missed' = IF session = None THEN missed \cup {c} ELSE missed
  /\ UNCHANGED <<pc, login, sent, maps, isReconnect, route, orphans, faults>>

At(l) == loop.at = l
LoopTo(l) == loop' = [loop EXCEPT !.at = l]
LoopUser == user[loop.chan]

\* The object is looked up again: a login may have saved its own meanwhile.
setReconnect == /\ At("setReconnect")
                /\ isReconnect' = isReconnect \cup {SESSION_MAP[LoopUser]}
                /\ LoopTo("userOffLine")
                /\ UNCHANGED <<pc, link, login, sent, maps, route, orphans, missed,
                               faults>>

\* Mutant: the route is not deleted.
userOffLine_KeepsRoute == /\ At("userOffLine")
                          /\ LoopTo("remove")
                          /\ UNCHANGED <<pc, link, login, sent, maps, isReconnect,
                                         route, orphans, missed, faults>>

userOffLine == /\ At("userOffLine")
               /\ route' = [route EXCEPT ![LoopUser] = None]
               /\ LoopTo("remove")
               /\ UNCHANGED <<pc, link, login, sent, maps, isReconnect, orphans,
                              missed, faults>>

\* Redis fails.
OffLineFails == /\ errors < MaxErrors
                /\ At("userOffLine")
                /\ errors' = errors + 1
                /\ missed' = missed \cup {loop.chan}
                /\ LoopTo("finally")
                /\ UNCHANGED <<pc, link, login, sent, maps, isReconnect, route,
                               orphans, unrouted, crashes>>

remove == /\ At("remove")
          /\ CHANNEL_MAP' = [CHANNEL_MAP EXCEPT ![loop.chan] = None]
          /\ SESSION_MAP' = [SESSION_MAP EXCEPT ![LoopUser] = None]
          /\ LoopTo("connect")
          /\ UNCHANGED <<pc, link, login, sent, isReconnect, route, orphans, missed,
                         faults>>

\* Mutant: sync() waits, on the loop, for what only the loop can do.
Reconnect_Waits == /\ At("connect")
                   /\ LoopTo("sync")
                   /\ UNCHANGED <<pc, link, login, sent, maps, isReconnect, route,
                                  orphans, missed, faults>>

\* connect() is queued on the loop itself, so sync() throws: process ends,
\* and nobody knows the connection when it is established. (Or ZooKeeper
\* lists no server and nothing is queued.)
Reconnect == /\ At("connect")
             /\ \E S \in {{}} \cup {{s} : s \in Server} : orphans' = orphans \cup S
             /\ LoopTo("finally")
             /\ UNCHANGED <<pc, link, login, sent, maps, isReconnect, route, missed,
                            faults>>

\* Mutant: the mark is not taken back.
restore_Marked ==
  /\ At("finally")
  /\ CHANNEL_MAP' = [CHANNEL_MAP EXCEPT ![loop.chan] = LoopUser]
  /\ SESSION_MAP' = [SESSION_MAP EXCEPT ![LoopUser] = loop.obj]
  /\ loop' = Idle
  /\ UNCHANGED <<pc, link, login, sent, isReconnect, route, orphans, missed, faults>>

\* The finally block, with the User object channelInactive found.
restore == /\ At("finally")
           /\ isReconnect' = isReconnect \ {loop.obj}
           /\ CHANNEL_MAP' = [CHANNEL_MAP EXCEPT ![loop.chan] = LoopUser]
           /\ SESSION_MAP' = [SESSION_MAP EXCEPT ![LoopUser] = loop.obj]
           /\ loop' = Idle
           /\ UNCHANGED <<pc, link, login, sent, route, orphans, missed, faults>>
----------------------------------------------------------------------------
\* setStr: a route lasts five days; nothing renews it.
Expire(u) == /\ route[u] # None
             /\ route' = [route EXCEPT ![u] = None]
             /\ unrouted' = unrouted \cup {c \in Channel : user[c] = u /\ pc[c] = "done"}
             /\ UNCHANGED <<pc, link, login, sent, maps, isReconnect, loop, orphans,
                            missed, errors, crashes>>

\* The process dies: its connections close and nobody handles their loss.
Crash == /\ crashes < MaxCrashes
         /\ crashes' = crashes + 1
         /\ pc' = [c \in Channel |-> IF pc[c] = "idle" THEN "idle" ELSE "done"]
         /\ link' = [c \in Channel |-> IF link[c] = "new" THEN "new" ELSE "gone"]
         /\ CHANNEL_MAP' = [c \in Channel |-> None]
         /\ SESSION_MAP' = [u \in User |-> None]
         /\ isReconnect' = {}
         /\ loop' = Idle
         /\ orphans' = {}
         /\ missed' = missed \cup sent
         /\ UNCHANGED <<login, sent, route, unrouted, errors>>

initUserConnectServer(c) == \/ loginNettyServer(c) \/ ConnectFails(c)
                            \/ saveSession(c) \/ put(c)

LoginThread(c) == \/ initUserConnectServer(c) \/ checkServerAvailable(c)
                  \/ savaUserRouteInfo(c) \/ LoginFails(c)

process == \/ setReconnect \/ userOffLine \/ OffLineFails
           \/ remove \/ Reconnect \/ restore

Next == \/ \E c \in Channel :
             \/ \E u \in User, s \in Server : connectNettyServer(c, u, s)
             \/ Established(c) \/ Refused(c) \/ Drop(c)
             \/ LoginThread(c) \/ channelInactive(c)
        \/ process
        \/ \E u \in User : Expire(u)
        \/ Crash

Spec == Init /\ [][Next]_vars

\* Request threads and the event loop run, and a connect ends one way or the
\* other. New logins, losses, faults and the TTL promise nothing.
Fairness == /\ WF_vars(process)
            /\ \A c \in Channel : /\ WF_vars(LoginThread(c))
                                  /\ WF_vars(channelInactive(c))
                                  /\ WF_vars(Established(c) \/ Refused(c))

FairSpec == Spec /\ Fairness
----------------------------------------------------------------------------
VarTypes ==
  /\ pc \in [Channel -> LoginPC]
  /\ link \in [Channel -> {"new", "connecting", "refused", "open", "closed", "gone"}]
  /\ user \in [Channel -> User \cup {None}]
  /\ server \in [Channel -> Server \cup {None}]
  /\ sent \subseteq Channel /\ isReconnect \subseteq Channel /\ missed \subseteq Channel
  /\ CHANNEL_MAP \in [Channel -> User \cup {None}]
  /\ SESSION_MAP \in [User -> Channel \cup {None}]
  /\ loop \in [at : LoopPC, chan : Channel \cup {None}, obj : Channel \cup {None}]
  /\ route \in [User -> Server \cup {None}]
  /\ orphans \subseteq Server /\ unrouted \subseteq Channel
  /\ errors \in Nat /\ crashes \in Nat

Lifecycle(c) ==
  /\ pc[c] = "idle" <=> link[c] = "new"
  /\ link[c] # "new" => user[c] \in User /\ server[c] \in Server
  /\ link[c] = "connecting" => pc[c] = "connect"
  /\ link[c] = "refused" => pc[c] \in {"connect", "done"}
  /\ pc[c] \in {"saveSession", "put", "check", "saveRoute"} => c \in sent
  /\ c \in sent => pc[c] \notin {"idle", "connect"}
  /\ CHANNEL_MAP[c] # None => /\ CHANNEL_MAP[c] = user[c] /\ c \in sent
                              /\ pc[c] \in {"check", "saveRoute", "done"}

Owner(u) == SESSION_MAP[u] # None =>
  /\ user[SESSION_MAP[u]] = u
  /\ pc[SESSION_MAP[u]] \in {"put", "check", "saveRoute", "done"}

LoopState ==
  IF At("idle") THEN loop = Idle
  ELSE /\ loop.chan \in sent /\ link[loop.chan] = "gone"
       /\ loop.obj \in Channel /\ user[loop.obj] = LoopUser
       /\ pc[loop.chan] \in {"check", "saveRoute", "done"}
       /\ pc[loop.obj] \in {"put", "check", "saveRoute", "done"}
       /\ At("connect") \/ At("finally") \/ CHANNEL_MAP[loop.chan] = LoopUser

(* Type correctness, the life cycle of a login included: what its thread has *)
(* done agrees with the state of its connection, and the loop is either idle *)
(* or busy with one lost connection that had been registered.                *)
TypeOK == /\ VarTypes
          /\ \A c \in Channel : Lifecycle(c)
          /\ \A u \in User : Owner(u)
          /\ LoopState

(* Whenever the loop can get to channelInactive, it finds a User object for  *)
(* every registered connection (MyClientHandler 104-105 dereferences it),    *)
(* and one that is not marked, or the loss would be ignored - though process *)
(* removes a user's object while other connections of that user are          *)
(* registered, logins register more at the same time, and process marks the  *)
(* object it looks up and unmarks the object it was given, which can be two. *)
LossesAreHandled == At("idle") =>
  /\ \A c \in Channel : CHANNEL_MAP[c] # None => SESSION_MAP[CHANNEL_MAP[c]] # None
  /\ \A u \in User : SESSION_MAP[u] \notin isReconnect

(* A route names a server that was sent the user's LOGIN over a connection   *)
(* that is open or whose loss is still to be handled - whatever logins and   *)
(* losses of the same user overlap - except for the connections in missed:   *)
(* lost before put or handled before savaUserRouteInfo, or lost with Redis   *)
(* failing, or with the process.                                             *)
RouteIsBacked == \A u \in User : route[u] # None =>
  \E c \in sent : /\ user[c] = u /\ server[c] = route[u]
                  /\ link[c] = "open" \/ Dropping(c) \/ c \in missed

(* A user whose login is through and whose connection is up has a route,     *)
(* whatever other users do and although logins of the same user write and    *)
(* restart it: it takes the loss of a connection of that very user, or the   *)
(* TTL, to make the user unreachable.                                        *)
RouteIsKept == \A c \in Channel :
  /\ pc[c] = "done" /\ link[c] = "open" /\ c \notin unrouted
  /\ \A d \in Channel : user[d] = user[c] => link[d] # "gone"
  => route[user[c]] # None

(* The gateway implements the route table that SingleChat sends by.          *)
ImplementsRoutes == Routes!Spec

(* Every login request comes to an end, although its sync() waits for a loop *)
(* that runs process, with a connect of its own, in between.                 *)
LoginEnds == \A c \in Channel : pc[c] # "idle" ~> pc[c] = "done"

(* ClientHearBeatHandler 21 calls process the reconnect logic: once it gets   *)
(* to connectNettyServer, the user should have a route again.                *)
Reconnects == \A u \in User :
  At("connect") /\ LoopUser = u ~> route[u] # None
============================================================================
