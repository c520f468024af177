---------------------------- MODULE NettyServer ----------------------------
(* nettyServer: the session table SessionSocketHolder and everything that    *)
(* writes it - LOGIN in MyNettyServerHandler, channelInactive, the reader    *)
(* idle check of HeartBeatHandler, RouteHandler.userOffLine.                 *)
(*                                                                           *)
(* The worker group has many event loops. The callbacks of one channel run   *)
(* one after another on its loop; those of different channels interleave, at *)
(* the granularity of single ConcurrentHashMap calls. (Channels that share a *)
(* loop have fewer interleavings.)                                           *)
CONSTANTS User, Channel,
          None       \* null: no user, no channel

ASSUME NoneIsNew == None \notin User \cup Channel

VARIABLES
  link,         \* link[c]: new, open, closed (channelInactive due) or gone
  alive,        \* alive[c]: the peer still answers
  login,        \* login[c]: the id in the LOGIN c's peer sends on connecting
  unread,       \* unread[c]: that LOGIN has not been read yet
  readerTime,   \* attribute of c: null, recent, or stale (older than 30 s)
  CHANNEL_MAP,  \* SessionSocketHolder: user -> channel
  SESSION_MAP,  \* SessionSocketHolder: users whose name is kept
  pc, who,      \* pc[c]: where c's event loop is; who[c]: its local user
  failed,       \* history: channels whose channelInactive ended in a throw
  latest        \* history: latest[u] is the channel of u's last LOGIN

peer  == <<alive, login, unread>>
maps  == <<CHANNEL_MAP, SESSION_MAP>>
vars  == <<link, alive, login, unread, readerTime, CHANNEL_MAP, SESSION_MAP,
           pc, who, failed, latest>>

Idle(c) == pc[c] = "idle"

\* c's LOGIN has been read.
LoggedIn(c) == login[c] # None /\ ~unread[c]

Table == INSTANCE SessionTable WITH
  link  <- [c \in Channel |-> IF ~LoggedIn(c) THEN "new"
                             ELSE IF link[c] = "open" THEN "open" ELSE "closed"],
  owner <- [c \in Channel |-> IF LoggedIn(c) THEN login[c] ELSE None],
  entry <- CHANNEL_MAP

Init == /\ link = [c \in Channel |-> "new"]
        /\ alive = [c \in Channel |-> TRUE]
        /\ login = [c \in Channel |-> None]
        /\ unread = [c \in Channel |-> FALSE]
        /\ readerTime = [c \in Channel |-> "null"]
        /\ CHANNEL_MAP = [u \in User |-> None]
        /\ SESSION_MAP = {}
        /\ pc = [c \in Channel |-> "idle"]
        /\ who = [c \in Channel |-> None]
        /\ failed = {}
        /\ latest = [u \in User |-> None]
----------------------------------------------------------------------------
(* The peers: each login of a user opens a connection of its own and sends   *)
(* LOGIN on it; nothing closes the connection of an earlier login. What      *)
(* process of UserGateway opens never sends a LOGIN (u is None).             *)

Connect(c, u) == /\ link[c] = "new"
                 /\ link' = [link EXCEPT ![c] = "open"]
                 /\ login' = [login EXCEPT ![c] = u]
                 /\ unread' = [unread EXCEPT ![c] = u # None]
                 /\ UNCHANGED <<alive, readerTime, maps, pc, who, failed, latest>>

\* The peer's event loop hangs with the socket up: no FIN, no more PINGs.
Vanish(c) == /\ link[c] = "open" /\ alive[c]
             /\ alive' = [alive EXCEPT ![c] = FALSE]
             /\ UNCHANGED <<link, login, unread, readerTime, maps, pc, who, failed, latest>>

\* The peer closes, the connection is reset, a PONG cannot be written, or
\* exceptionCaught closes after a decoding error.
Close(c) == /\ link[c] = "open" /\ Idle(c)
            /\ link' = [link EXCEPT ![c] = "closed"]
            /\ UNCHANGED <<peer, readerTime, maps, pc, who, failed, latest>>

\* More than 30 s since the last PING.
Elapse(c) == /\ link[c] = "open" /\ readerTime[c] = "recent"
             /\ readerTime' = [readerTime EXCEPT ![c] = "stale"]
             /\ UNCHANGED <<link, peer, maps, pc, who, failed, latest>>
----------------------------------------------------------------------------
(* MyNettyServerHandler.channelRead0.                                        *)

\* Mutant: put keeps the entry of an earlier login.
put_IfAbsent(u, c) ==
  CHANNEL_MAP' = [CHANNEL_MAP EXCEPT ![u] = IF @ = None THEN c ELSE @]

put(u, c) == CHANNEL_MAP' = [CHANNEL_MAP EXCEPT ![u] = c]

ReadLogin(c) == /\ link[c] = "open" /\ Idle(c) /\ unread[c]
                /\ unread' = [unread EXCEPT ![c] = FALSE]
                /\ put(login[c], c)
                /\ latest' = [latest EXCEPT ![login[c]] = c]
                /\ pc' = [pc EXCEPT ![c] = "saveSession"]
                /\ UNCHANGED <<link, alive, login, readerTime, SESSION_MAP, who, failed>>

saveSession(c) == /\ pc[c] = "saveSession"
                  /\ SESSION_MAP' = SESSION_MAP \cup {login[c]}
                  /\ pc' = [pc EXCEPT ![c] = "idle"]
                  /\ UNCHANGED <<link, peer, readerTime, CHANNEL_MAP, who, failed, latest>>

ReadPing(c) == /\ link[c] = "open" /\ Idle(c) /\ ~unread[c] /\ alive[c]
               /\ readerTime' = [readerTime EXCEPT ![c] = "recent"]
               /\ UNCHANGED <<link, peer, maps, pc, who, failed, latest>>
----------------------------------------------------------------------------
(* Going offline: getUserId, then RouteHandler.userOffLine.                  *)

\* Mutant: a user without a saved name counts as not logged in.
getUserId_Named(c, u) ==
  IF u = None THEN \A v \in SESSION_MAP : CHANNEL_MAP[v] # c
              ELSE CHANNEL_MAP[u] = c /\ u \in SESSION_MAP

\* u is a user whose entry is c, or None when there is no such entry.
getUserId(c, u) == IF u = None THEN \A v \in User : CHANNEL_MAP[v] # c
                               ELSE CHANNEL_MAP[u] = c

\* Mutant: a dead channel without a user is left alone.
userOffLine_NullReturns(c, u) ==
  /\ who' = [who EXCEPT ![c] = u]
  /\ pc' = [pc EXCEPT ![c] = IF u = None THEN "idle" ELSE "removeSession"]

\* Mutant: the name is kept.
userOffLine_KeepsName(c, u) ==
  /\ who' = [who EXCEPT ![c] = u]
  /\ pc' = [pc EXCEPT ![c] = IF u = None THEN "remove" ELSE "clearRouteInfo"]

\* userOffLine with user null goes straight to the removal of the channel.
userOffLine(c, u) ==
  /\ who' = [who EXCEPT ![c] = u]
  /\ pc' = [pc EXCEPT ![c] = IF u = None THEN "remove" ELSE "removeSession"]

\* Mutant: channelInactive without its null check.
channelInactive_NoCheck(c) ==
  /\ link[c] = "closed" /\ Idle(c)
  /\ link' = [link EXCEPT ![c] = "gone"]
  /\ \E u \in User \cup {None} :
       /\ getUserId(c, u)
       /\ who' = [who EXCEPT ![c] = u]
       /\ pc' = [pc EXCEPT ![c] = "removeSession"]
  /\ UNCHANGED <<peer, readerTime, maps, failed, latest>>

channelInactive(c) ==
  /\ link[c] = "closed" /\ Idle(c)
  /\ link' = [link EXCEPT ![c] = "gone"]
  /\ \/ getUserId(c, None) /\ UNCHANGED <<pc, who>>
     \/ \E u \in User : getUserId(c, u) /\ userOffLine(c, u)
  /\ UNCHANGED <<peer, readerTime, maps, failed, latest>>

\* READER_IDLE (every 20 s without a read) calls HeartBeatHandler.process,
\* which does nothing before the first PING.
process(c) == /\ link[c] = "open" /\ Idle(c)
              /\ readerTime[c] = "stale"
              /\ \E u \in User \cup {None} : getUserId(c, u) /\ userOffLine(c, u)
              /\ UNCHANGED <<link, peer, readerTime, maps, failed, latest>>

removeSession(c) == /\ pc[c] = "removeSession"
                    /\ SESSION_MAP' = SESSION_MAP \ {who[c]}
                    /\ pc' = [pc EXCEPT ![c] = "clearRouteInfo"]
                    /\ UNCHANGED <<link, peer, readerTime, CHANNEL_MAP, who, failed, latest>>

clearRouteInfo(c) == /\ pc[c] = "clearRouteInfo"
                     /\ pc' = [pc EXCEPT ![c] = "remove"]
                     /\ UNCHANGED <<link, peer, readerTime, maps, who, failed, latest>>

\* The end of either callback: ctx.channel().close().
Offline(c) == /\ link' = [link EXCEPT ![c] = IF @ = "open" THEN "closed" ELSE @]
              /\ pc' = [pc EXCEPT ![c] = "idle"]
              /\ who' = [who EXCEPT ![c] = None]

\* userService is down: the exception leaves userOffLine before the channel is
\* removed and ends in exceptionCaught, which closes the channel.
ClearRouteFails(c) == /\ pc[c] = "clearRouteInfo"
                      /\ failed' = IF link[c] = "gone" THEN failed \cup {c} ELSE failed
                      /\ Offline(c)
                      /\ UNCHANGED <<peer, readerTime, maps, latest>>

\* Mutant: the filter lets every entry pass.
Filter_All(c) == /\ pc[c] = "remove"
                 /\ \E u \in User : /\ CHANNEL_MAP[u] # None
                                    /\ who' = [who EXCEPT ![c] = u]
                 /\ pc' = [pc EXCEPT ![c] = "removeKey"]
                 /\ UNCHANGED <<link, peer, readerTime, maps, failed, latest>>

\* SessionSocketHolder.remove: filter finds an entry whose value is c ...
Filter(c) == /\ pc[c] = "remove"
             /\ \E u \in User : /\ CHANNEL_MAP[u] = c
                                /\ who' = [who EXCEPT ![c] = u]
             /\ pc' = [pc EXCEPT ![c] = "removeKey"]
             /\ UNCHANGED <<link, peer, readerTime, maps, failed, latest>>

FilterEmpty(c) == /\ pc[c] = "remove"
                  /\ \A u \in User : CHANNEL_MAP[u] # c
                  /\ Offline(c)
                  /\ UNCHANGED <<peer, readerTime, maps, failed, latest>>

\* ... and forEach removes its key, whatever the value is by then.
RemoveKey(c) == /\ pc[c] = "removeKey"
                /\ CHANNEL_MAP' = [CHANNEL_MAP EXCEPT ![who[c]] = None]
                /\ Offline(c)
                /\ UNCHANGED <<peer, readerTime, SESSION_MAP, failed, latest>>
----------------------------------------------------------------------------
EventLoop(c) == \/ ReadLogin(c) \/ saveSession(c) \/ channelInactive(c)
                \/ removeSession(c) \/ clearRouteInfo(c) \/ ClearRouteFails(c)
                \/ Filter(c) \/ FilterEmpty(c) \/ RemoveKey(c)

Next == \E c \in Channel : \/ \E u \in User \cup {None} : Connect(c, u)
                           \/ Vanish(c) \/ Close(c) \/ Elapse(c)
                           \/ ReadPing(c) \/ process(c) \/ EventLoop(c)

Spec == Init /\ [][Next]_vars

\* Event loops run, time passes, and idle events keep coming while nothing is
\* read. Peers promise nothing.
FairSpec == Spec /\ \A c \in Channel : /\ WF_vars(EventLoop(c))
                                       /\ WF_vars(process(c)) /\ WF_vars(Elapse(c))
----------------------------------------------------------------------------
Offlining(c) == pc[c] \in {"removeSession", "clearRouteInfo", "remove", "removeKey"}

\* Its connection is up and its event loop is not taking it offline.
Active(c) == link[c] = "open" /\ ~Offlining(c)

VarTypes ==
  /\ link \in [Channel -> {"new", "open", "closed", "gone"}]
  /\ alive \in [Channel -> BOOLEAN]
  /\ login \in [Channel -> User \cup {None}]
  /\ unread \in [Channel -> BOOLEAN]
  /\ readerTime \in [Channel -> {"null", "recent", "stale"}]
  /\ CHANNEL_MAP \in [User -> Channel \cup {None}]
  /\ SESSION_MAP \subseteq User
  /\ pc \in [Channel -> {"idle", "saveSession", "removeSession", "clearRouteInfo",
                         "remove", "removeKey"}]
  /\ who \in [Channel -> User \cup {None}]
  /\ failed \subseteq Channel
  /\ latest \in [User -> Channel \cup {None}]

Lifecycle(c) ==
  /\ link[c] = "new" => login[c] = None
  /\ unread[c] => login[c] # None
  /\ pc[c] = "saveSession" => link[c] = "open" /\ login[c] # None
  /\ Offlining(c) => link[c] \in {"open", "gone"}
  /\ pc[c] \in {"removeSession", "clearRouteInfo", "removeKey"} => who[c] # None

(* Type correctness, with the life cycle of a connection: an event loop that *)
(* dereferences its local user has one.                                      *)
TypeOK == VarTypes /\ \A c \in Channel : Lifecycle(c)

(* A user's entry is the channel of the user's last LOGIN or nothing: no     *)
(* interleaving of logins and removals brings an older connection back.      *)
LatestOrNone == \A u \in User : CHANNEL_MAP[u] \in {None, latest[u]}

(* When channelInactive has ended and its clearRouteInfo call did not throw, *)
(* no entry leads to the channel any more: no message is pushed to a dead    *)
(* connection, whatever logins, evictions and failures ran meanwhile.        *)
GoneIsUnmapped == \A c \in Channel :
  link[c] = "gone" /\ Idle(c) /\ c \notin failed => \A u \in User : CHANNEL_MAP[u] # c

(* A connection that logged in stays reachable while it is active, whatever  *)
(* goes on in the channels of other users, and even when the user has other  *)
(* connections that are active too.                                          *)
ActiveIsMapped == \A u \in User : \A c \in Channel :
  latest[u] = c /\ (\A d \in Channel : login[d] = u => Active(d))
  => CHANNEL_MAP[u] = c

(* CHANNEL_MAP and SESSION_MAP are written one after the other and still     *)
(* agree about a user, failures of userService included, unless connections  *)
(* of that very user race: a name that is left without an entry takes two of *)
(* them, and a user whose connections are all active has a name.             *)
NamesMatch == \A u \in User :
  /\ u \in SESSION_MAP /\ CHANNEL_MAP[u] = None =>
       \E c, d \in Channel : c # d /\ login[c] = u /\ login[d] = u
  /\ latest[u] # None /\ Idle(latest[u]) /\ (\A d \in Channel : login[d] = u => Active(d))
       => u \in SESSION_MAP

(* The server implements the session table that SingleChat pushes through.   *)
ImplementsTable == Table!Spec

(* MyNettyServerHandler 48: LOGIN saves the relation between the user and    *)
(* the channel - it should last until that channel goes offline.             *)
LoginLasts == \A u \in User : \A c \in Channel :
  latest[u] = c /\ Active(c) => CHANNEL_MAP[u] = c

(* A peer that has sent a PING and falls silent is disconnected in the end,  *)
(* also when another connection has taken over its user's entry.             *)
PingedIsClosed == [](\A c \in Channel :
  link[c] = "open" /\ ~alive[c] /\ readerTime[c] # "null" => <>(link[c] # "open"))

(* ChildChannelHandler 20: 20 s without a message or heartbeat trigger the   *)
(* reader idle event that closes the client's connection.                    *)
SilentIsClosed == \A c \in Channel :
  link[c] = "open" /\ ~alive[c] ~> link[c] # "open"
============================================================================
