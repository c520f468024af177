-------------------------- MODULE SingleChatProofs --------------------------
(* Proofs about SingleChat for every number of users, servers, messages,     *)
(* connections, pages and failures.                                          *)
EXTENDS ChatSystem, SequenceTheorems, TLAPS

(* Who is behind a connection or a page, and for whom a message is.          *)
Known == /\ \A c \in Channel : link[c] # "new" => owner[c] \in User /\ at[c] \in Server
         /\ \A p \in Page : page[p] # "new" => viewer[p] \in User
         /\ \A c \in Channel : \A i \in DOMAIN queue[c] :
              LoggedIn(c) /\ to[queue[c][i]] \in User
         /\ loop # NotWriting => LoggedIn(loop.chan)

TypeInv == TypeOK /\ Known

(* What the gateway and the servers see of the connections.                  *)
UpLink == [c \in Channel |-> IF link[c] = "sent" THEN "open"
                             ELSE IF link[c] = "lost" THEN "closed" ELSE link[c]]
DownLink(s) == [c \in Channel |-> IF at[c] = s /\ LoggedIn(c) THEN link[c] ELSE "new"]
DownOwner(s) == [c \in Channel |-> IF at[c] = s /\ LoggedIn(c) THEN owner[c] ELSE None]

(* A gateway that keeps RouteTable opens no connection twice, and knows the  *)
(* user and the server of each for good.                                     *)
LEMMA GatewayKeeps ==
  ASSUME TypeInv, link' \in [Channel -> Link], UNCHANGED Gateway!vars \/ Gateway!Next
  PROVE  /\ owner' \in [Channel -> User \cup {None}] /\ at' \in [Channel -> Server \cup {None}]
         /\ route' \in [User -> Server \cup {None}]
         /\ \A c \in Channel : link[c] # "new" =>
              link'[c] # "new" /\ owner'[c] = owner[c] /\ at'[c] = at[c]
         /\ \A c \in Channel : link'[c] # "new" => owner'[c] \in User /\ at'[c] \in Server
         /\ \A c \in Channel : link[c] \in {"lost", "closed"} => link'[c] \in {"lost", "closed"}
<1> DEFINE Facts ==
      /\ owner' \in [Channel -> User \cup {None}] /\ at' \in [Channel -> Server \cup {None}]
      /\ route' \in [User -> Server \cup {None}]
      /\ \A c \in Channel : UpLink[c] # "new" =>
           UpLink'[c] # "new" /\ owner'[c] = owner[c] /\ at'[c] = at[c]
      /\ \A c \in Channel : UpLink'[c] # "new" => owner'[c] \in User /\ at'[c] \in Server
      /\ \A c \in Channel : UpLink[c] = "closed" => UpLink'[c] = "closed"
<1>1. /\ owner \in [Channel -> User \cup {None}] /\ at \in [Channel -> Server \cup {None}]
      /\ route \in [User -> Server \cup {None}] /\ link \in [Channel -> Link]
      /\ \A c \in Channel : link[c] # "new" => owner[c] \in User /\ at[c] \in Server
  BY DEF TypeInv, TypeOK, VarTypes, Known
<1>2. \A c \in Channel : /\ UpLink[c] = "new" <=> link[c] = "new"
                         /\ UpLink'[c] = "new" <=> link'[c] = "new"
                         /\ UpLink[c] = "closed" <=> link[c] \in {"lost", "closed"}
                         /\ UpLink'[c] = "closed" <=> link'[c] \in {"lost", "closed"}
  BY <1>1 DEF UpLink, Link
<1>3. UpLink \in [Channel -> {"new", "open", "closed"}]
  BY <1>1 DEF UpLink, Link
<1>4. ASSUME UNCHANGED Gateway!vars PROVE Facts
  <2>1. UNCHANGED <<UpLink, owner, at, route>>
    BY <1>4 DEF Gateway!vars, UpLink
  <2> QED
    BY ONLY <1>1, <1>2, <2>1
<1>5. ASSUME NEW c \in Channel, NEW u \in User, NEW s \in Server, Gateway!Login(c, u, s) PROVE Facts
  <2>1. /\ UpLink[c] = "new" /\ \E l \in {"open", "closed"} : UpLink' = [UpLink EXCEPT ![c] = l]
        /\ owner' = [owner EXCEPT ![c] = u] /\ at' = [at EXCEPT ![c] = s] /\ route' = route
    BY <1>5 DEF Gateway!Login, UpLink
  <2> QED
    BY ONLY <1>1, <1>2, <1>3, <2>1, c \in Channel, u \in User, s \in Server
<1>6. ASSUME NEW c \in Channel, Gateway!SaveRoute(c) PROVE Facts
  <2>1. /\ UpLink[c] # "new" /\ route' = [route EXCEPT ![owner[c]] = at[c]]
        /\ UNCHANGED <<UpLink, owner, at>>
    BY <1>6 DEF Gateway!SaveRoute, UpLink
  <2> QED
    BY ONLY <1>1, <1>2, <1>3, <2>1, c \in Channel
<1>7. ASSUME NEW C \in SUBSET Channel, NEW U \in SUBSET User, Gateway!Lose(C, U) PROVE Facts
  <2>1. /\ UpLink' = [c \in Channel |-> IF c \in C /\ UpLink[c] = "open" THEN "closed"
                                        ELSE UpLink[c]]
        /\ route' = [u \in User |-> IF u \in U THEN None ELSE route[u]]
        /\ UNCHANGED <<owner, at>>
    BY <1>7 DEF Gateway!Lose, UpLink
  <2> QED
    BY ONLY <1>1, <1>2, <1>3, <2>1
<1>8. Facts
  BY ONLY <1>4, <1>5, <1>6, <1>7, UNCHANGED Gateway!vars \/ Gateway!Next DEF Gateway!Next
<1> QED
  BY ONLY <1>2, <1>8

(* A server that keeps SessionTable leaves a connection logged in, opens     *)
(* none again, and its entries lead to connections that have logged in.      *)
LEMMA ServersKeep ==
  ASSUME TypeInv, link' \in [Channel -> Link],
         CHANNEL_MAP' \in [Server -> [User -> Channel \cup {None}]],
         \A c \in Channel : LoggedIn(c) => at'[c] = at[c],
         \A s \in Server : UNCHANGED Table(s)!vars \/ Table(s)!Next
  PROVE  /\ \A c \in Channel : LoggedIn(c) =>
              LoggedIn(c)' /\ (link'[c] = "open" => link[c] = "open")
         /\ \A s \in Server, u \in User :
              \/ CHANNEL_MAP'[s][u] \in {CHANNEL_MAP[s][u], None}
              \/ \E c \in Channel : CHANNEL_MAP'[s][u] = c /\ LoggedIn(c)'
<1>1. /\ link \in [Channel -> Link] /\ CHANNEL_MAP \in [Server -> [User -> Channel \cup {None}]]
      /\ \A c \in Channel : link[c] # "new" => at[c] \in Server
  BY DEF TypeInv, TypeOK, VarTypes, Known
<1> DEFINE Kept(s) == \A c \in Channel : DownLink(s)[c] # "new" =>
                        DownLink(s)'[c] \in {DownLink(s)[c], "closed"}
           Led(s) == \A u \in User : \/ CHANNEL_MAP'[s][u] \in {CHANNEL_MAP[s][u], None}
                                     \/ /\ CHANNEL_MAP'[s][u] \in Channel
                                        /\ DownLink(s)'[CHANNEL_MAP'[s][u]] \in {"open", "closed"}
<1>2. ASSUME NEW s \in Server PROVE Kept(s) /\ Led(s)
  <2>1. DownLink(s) \in [Channel -> {"new", "open", "closed"}]
    BY <1>1 DEF DownLink, LoggedIn, Link
  <2>2. CHANNEL_MAP[s] \in [User -> Channel \cup {None}]
    BY <1>1
  <2>3. CASE UNCHANGED Table(s)!vars
    <3>1. DownLink(s)' = DownLink(s) /\ CHANNEL_MAP'[s] = CHANNEL_MAP[s]
      BY <2>3 DEF Table!vars, DownLink
    <3> QED
      BY ONLY <2>1, <2>2, <3>1
  <2>4. ASSUME NEW c \in Channel, NEW u \in User, Table(s)!Login(c, u) PROVE Kept(s) /\ Led(s)
    <3>1. /\ DownLink(s)[c] = "new"
          /\ \E l \in {"open", "closed"} : DownLink(s)' = [DownLink(s) EXCEPT ![c] = l]
          /\ CHANNEL_MAP'[s] = [CHANNEL_MAP[s] EXCEPT ![u] = c]
      BY <2>4 DEF Table!Login, DownLink
    <3> QED
      BY ONLY <2>1, <2>2, <3>1, c \in Channel, u \in User
  <2>5. ASSUME NEW C \in SUBSET Channel, NEW U \in SUBSET User, Table(s)!Lose(C, U)
        PROVE  Kept(s) /\ Led(s)
    <3>1. /\ DownLink(s)' = [c \in Channel |-> IF c \in C /\ DownLink(s)[c] = "open" THEN "closed"
                                               ELSE DownLink(s)[c]]
          /\ CHANNEL_MAP'[s] = [u \in User |-> IF u \in U THEN None ELSE CHANNEL_MAP[s][u]]
      BY <2>5 DEF Table!Lose, DownLink
    <3> QED
      BY ONLY <2>1, <2>2, <3>1
  <2>6. UNCHANGED Table(s)!vars \/ Table(s)!Next
    OBVIOUS
  <2> QED
    BY ONLY <2>3, <2>4, <2>5, <2>6 DEF Table!Next
<1>3. ASSUME NEW c \in Channel, LoggedIn(c)
      PROVE  LoggedIn(c)' /\ (link'[c] = "open" => link[c] = "open")
  <2>1. PICK s \in Server : at[c] = s
    BY <1>1, <1>3 DEF LoggedIn
  <2>2. DownLink(s)[c] = link[c] /\ link[c] \in {"open", "closed"}
    BY <1>3, <2>1 DEF DownLink, LoggedIn
  <2>3. DownLink(s)'[c] = IF at'[c] = s /\ LoggedIn(c)' THEN link'[c] ELSE "new"
    BY DEF DownLink
  <2>4. DownLink(s)'[c] \in {link[c], "closed"}
    BY <1>2, <2>2
  <2> QED
    BY ONLY <2>2, <2>3, <2>4
<1>4. ASSUME NEW s \in Server, NEW u \in User
      PROVE  \/ CHANNEL_MAP'[s][u] \in {CHANNEL_MAP[s][u], None}
             \/ \E c \in Channel : CHANNEL_MAP'[s][u] = c /\ LoggedIn(c)'
  <2>1. \A c \in Channel : DownLink(s)'[c] \in {"open", "closed"} => LoggedIn(c)'
    BY DEF DownLink, LoggedIn
  <2> QED
    BY <1>2, <2>1
<1> QED
  BY <1>3, <1>4
(* What every environment that keeps the contracts leaves as it is: who a    *)
(* connection belongs to, and what was read or written on it while it is up. *)
LEMMA EnvironmentKeeps ==
  ASSUME TypeInv, AnyEnvironment
  PROVE  /\ owner' \in [Channel -> User \cup {None}] /\ at' \in [Channel -> Server \cup {None}]
         /\ route' \in [User -> Server \cup {None}]
         /\ \A c \in Channel : link'[c] # "new" => owner'[c] \in User /\ at'[c] \in Server
         /\ \A c \in Channel : LoggedIn(c) =>
              LoggedIn(c)' /\ (link'[c] = "open" => link[c] = "open")
         /\ \A s \in Server, u \in User :
              \/ CHANNEL_MAP'[s][u] \in {CHANNEL_MAP[s][u], None}
              \/ \E c \in Channel : CHANNEL_MAP'[s][u] = c /\ LoggedIn(c)'
         /\ \A c \in Channel : \A i \in DOMAIN queue'[c] :
              i \in DOMAIN queue[c] /\ queue'[c][i] = queue[c][i]
         /\ \A c \in Channel : link'[c] = "open" => queue'[c] = queue[c]
<1>1. /\ link' \in [Channel -> Link] /\ CHANNEL_MAP' \in [Server -> [User -> Channel \cup {None}]]
      /\ UNCHANGED Gateway!vars \/ Gateway!Next
      /\ \A s \in Server : UNCHANGED Table(s)!vars \/ Table(s)!Next
      /\ QueuesOnlyCut
  BY DEF AnyEnvironment, WithinContracts
<1>2. /\ owner' \in [Channel -> User \cup {None}] /\ at' \in [Channel -> Server \cup {None}]
      /\ route' \in [User -> Server \cup {None}]
      /\ \A c \in Channel : link[c] # "new" => at'[c] = at[c]
      /\ \A c \in Channel : link'[c] # "new" => owner'[c] \in User /\ at'[c] \in Server
  BY <1>1, GatewayKeeps
<1>3. \A c \in Channel : LoggedIn(c) => at'[c] = at[c]
  BY <1>2 DEF LoggedIn
<1>4. /\ \A c \in Channel : LoggedIn(c) =>
           LoggedIn(c)' /\ (link'[c] = "open" => link[c] = "open")
      /\ \A s \in Server, u \in User :
           \/ CHANNEL_MAP'[s][u] \in {CHANNEL_MAP[s][u], None}
           \/ \E c \in Channel : CHANNEL_MAP'[s][u] = c /\ LoggedIn(c)'
  BY <1>1, <1>3, ServersKeep
<1>5. \A c \in Channel : queue[c] \in Seq(Message)
  BY DEF TypeInv, TypeOK, VarTypes
<1>6. ASSUME NEW c \in Channel
      PROVE  /\ \A i \in DOMAIN queue'[c] : i \in DOMAIN queue[c] /\ queue'[c][i] = queue[c][i]
             /\ link'[c] = "open" => queue'[c] = queue[c]
  BY <1>1, <1>5 DEF QueuesOnlyCut
<1> QED
  BY <1>2, <1>4, <1>6

(* Closing a connection that has logged in makes none new and none open.     *)
LEMMA Closing ==
  ASSUME NEW S, NEW f \in [S -> Link], NEW c \in S, f[c] \in {"open", "closed"},
         NEW g, g = f \/ g = [f EXCEPT ![c] = "closed"]
  PROVE  /\ g \in [S -> Link]
         /\ \A d \in S : /\ g[d] # "new" <=> f[d] # "new"
                         /\ g[d] \in {"open", "closed"} <=> f[d] \in {"open", "closed"}
BY DEF Link

LEMMA SingleChatTypes == TypeInv /\ [OpenNext]_vars => TypeInv'
<1> SUFFICES ASSUME TypeInv, [OpenNext]_vars PROVE TypeInv'
  OBVIOUS
<1> USE NoneIsNothing, BoundsAreNat
    DEF TypeInv, Known, LoggedIn, TypeOK, VarTypes, Stage, Goto, call, push, links, tables,
        pages, history
<1>1. CASE AnyEnvironment
  <2>1. /\ UNCHANGED <<pc, to, server, id, prior, req, chan, idGen, loop, CLIENT_SESSION_MAP,
                       page, viewer, shown, published, broken, retried>>
        /\ link' \in [Channel -> Link] /\ losses' \in Nat /\ queue' \in [Channel -> Seq(Message)]
        /\ CHANNEL_MAP' \in [Server -> [User -> Channel \cup {None}]]
    BY <1>1 DEF AnyEnvironment, QueuesOnlyCut
  <2>2. /\ owner' \in [Channel -> User \cup {None}] /\ at' \in [Channel -> Server \cup {None}]
        /\ route' \in [User -> Server \cup {None}]
        /\ \A c \in Channel : link'[c] # "new" => owner'[c] \in User /\ at'[c] \in Server
        /\ \A c \in Channel : LoggedIn(c) => LoggedIn(c)'
        /\ \A c \in Channel : \A i \in DOMAIN queue'[c] :
             i \in DOMAIN queue[c] /\ queue'[c][i] = queue[c][i]
    BY ONLY TypeInv, <1>1, EnvironmentKeeps
  <2>3. VarTypes'
    BY ONLY TypeInv, <2>1, <2>2 DEF TypeInv, TypeOK, VarTypes
  <2>4. Known'
    <3>1. loop # NotWriting => loop.chan \in Channel
      BY ONLY TypeInv DEF TypeInv, TypeOK, VarTypes
    <3> QED
      BY ONLY TypeInv, <2>1, <2>2, <3>1 DEF TypeInv, Known
  <2>5. \A m \in Message : Stage(m)'
    BY ONLY TypeInv, <2>1 DEF TypeInv, TypeOK, Stage
  <2> QED
    BY ONLY <2>3, <2>4, <2>5 DEF TypeInv, TypeOK
<1>2. ASSUME NEW m \in Message, NEW u \in User, getRouteInfoByUser(m, u) PROVE TypeInv'
  BY <1>2 DEF getRouteInfoByUser, First
<1>3. ASSUME NEW m \in Message, NEW u \in User, NoRoute(m, u) PROVE TypeInv'
  BY <1>3 DEF NoRoute, First
<1>4. ASSUME NEW m \in Message, getId(m) PROVE TypeInv'
  <2>1. /\ idGen' \in Nat /\ pc[m] = "getId"
        /\ UNCHANGED <<to, server, prior, chan, link, owner, at, queue, CHANNEL_MAP, route, loop,
                       CLIENT_SESSION_MAP, page, viewer, shown, published, broken, retried, losses>>
    BY <1>4 DEF getId
  <2>2. \/ pc' = [pc EXCEPT ![m] = "failed"] /\ UNCHANGED <<id, req>>
        \/ /\ id' = [id EXCEPT ![m] = idGen'] /\ pc' = [pc EXCEPT ![m] = "post"]
           /\ req' = [req EXCEPT ![m] = "pending"]
    BY <1>4 DEF getId
  <2>3. id' \in [Message -> Int]
    BY <2>1, <2>2
  <2>4. VarTypes'
    <3>1. /\ pc \in [Message -> {"new", "getId", "post", "done", "failed"}]
          /\ req \in [Message -> {"none", "pending", "write", "done"}]
      OBVIOUS
    <3>2. pc' \in [Message -> {"new", "getId", "post", "done", "failed"}]
      BY ONLY <2>2, <3>1
    <3>3. req' \in [Message -> {"none", "pending", "write", "done"}]
      BY ONLY <2>2, <3>1
    <3> QED
      BY <2>1, <2>3, <3>2, <3>3
  <2>5. Known'
    BY <2>1
  <2>6. \A n \in Message : Stage(n)'
    BY <2>1, <2>2
  <2> QED
    BY <2>4, <2>5, <2>6
<1>5. ASSUME NEW m \in Message, sendMessage(m) PROVE TypeInv'
  BY <1>5 DEF sendMessage
<1>6. ASSUME NEW m \in Message, writeAndFlush(m) PROVE TypeInv'
  BY <1>6 DEF writeAndFlush
<1>7. ASSUME NEW m \in Message, Publish(m) PROVE TypeInv'
  BY <1>7 DEF Publish
<1>8. ASSUME NEW m \in Message, PostFails(m) PROVE TypeInv'
  <2> DEFINE cell == [req EXCEPT ![m] = IF @ = "pending" THEN "none" ELSE @]
  <2>1. /\ req \in [Message -> {"none", "pending", "write", "done"}]
        /\ (req' = req \/ req' = cell) /\ pc' = [pc EXCEPT ![m] = "failed"]
        /\ broken' = broken \cup {m}
        /\ UNCHANGED <<to, server, prior, id, chan, idGen, link, owner, at, queue,
                       CHANNEL_MAP, route, loop, CLIENT_SESSION_MAP, page, viewer,
                       shown, published, retried, losses>>
    BY ONLY TypeInv, <1>8 DEF PostFails, TypeInv, TypeOK, VarTypes, Goto, call, links,
                               tables, pages
  <2>2. /\ cell \in [Message -> {"none", "pending", "write", "done"}]
        /\ \A n \in Message : cell[n] = IF n = m /\ req[m] = "pending" THEN "none" ELSE req[n]
    <3>1. req \in [Message -> {"none", "pending", "write", "done"}]
      BY ONLY <2>1
    <3> QED
      BY ONLY <3>1
  <2> HIDE DEF cell
  <2>3. VarTypes'
    BY ONLY TypeInv, <2>1, <2>2, m \in Message DEF TypeInv, TypeOK, VarTypes
  <2>4. Known'
    BY ONLY TypeInv, <2>1 DEF TypeInv, Known
  <2>5. \A n \in Message : Stage(n)'
    <3> SUFFICES ASSUME NEW n \in Message PROVE Stage(n)'
      OBVIOUS
    <3>1. Stage(n) /\ pc \in [Message -> {"new", "getId", "post", "done", "failed"}]
      BY ONLY TypeInv, n \in Message DEF TypeInv, TypeOK, VarTypes
    <3>2. \/ req'[n] = req[n] /\ (pc'[n] = pc[n] \/ pc'[n] = "failed")
          \/ req'[n] = "none" /\ pc'[n] = "failed"
      BY ONLY <2>1, <2>2, <3>1, n \in Message
    <3> QED
      BY ONLY <2>1, <3>1, <3>2 DEF Stage
  <2> QED
    BY ONLY <2>3, <2>4, <2>5 DEF TypeInv, TypeOK
<1>9. ASSUME NEW m \in Message, PostAgain(m) PROVE TypeInv'
  BY <1>9 DEF PostAgain
<1>10. ASSUME NEW m \in Message, PublishFails(m) PROVE TypeInv'
  BY <1>10 DEF PublishFails
<1>11. ASSUME NEW c \in Channel, channelRead0(c) PROVE TypeInv'
  <2> DEFINE m == Head(queue[c])
             p == CLIENT_SESSION_MAP[to[m]]
  <2>1. m \in Message /\ to[m] \in User /\ LoggedIn(c) /\ p \in Page \cup {None}
    BY <1>11 DEF channelRead0
  <2>2. /\ Tail(queue[c]) \in Seq(Message) /\ queue' = [queue EXCEPT ![c] = Tail(@)]
        /\ \A i \in DOMAIN Tail(queue[c]) : i + 1 \in DOMAIN queue[c]
                                         /\ Tail(queue[c])[i] = queue[c][i + 1]
    BY <1>11 DEF channelRead0
  <2>3. /\ queue' \in [Channel -> Seq(Message)]
        /\ \A d \in Channel : \A i \in DOMAIN queue'[d] :
             LoggedIn(d) /\ to[queue'[d][i]] \in User
    BY <2>2
  <2>4. \/ loop' = loop
        \/ p # None /\ loop' = [chan |-> c, msg |-> m, page |-> p]
    BY <1>11 DEF channelRead0
  <2>5. loop' \in {NotWriting} \cup [chan : Channel, msg : Message, page : Page]
    BY <2>1, <2>4
  <2>6. link' = link \/ link' = [link EXCEPT ![c] = "closed"]
    BY <1>11 DEF channelRead0, closeLink
  <2>7. /\ link' \in [Channel -> Link]
        /\ \A d \in Channel : /\ link'[d] # "new" <=> link[d] # "new"
                              /\ LoggedIn(d)' <=> LoggedIn(d)
    <3>1. link \in [Channel -> Link]
      OBVIOUS
    <3> QED
      BY ONLY <2>1, <2>6, <3>1, c \in Channel, Closing DEF LoggedIn
  <2>8. loop' # NotWriting => loop'.chan = c /\ LoggedIn(c)'
    BY <1>11, <2>1, <2>4, <2>7 DEF channelRead0, NotWriting
  <2> HIDE DEF m, p
  <2> QED
    BY <1>11, <2>3, <2>5, <2>7, <2>8 DEF channelRead0
<1>12. CASE sendText
  <2>1. loop \in [chan : Channel, msg : Message, page : Page] /\ loop' = NotWriting
    BY <1>12 DEF sendText
  <2>2. shown' = Append(shown, <<loop.page, loop.msg>>) \/ shown' = shown
    BY <1>12 DEF sendText
  <2>3. shown' \in Seq(Page \X Message)
    <3> DEFINE P == Page \X Message
    <3>1. <<loop.page, loop.msg>> \in P /\ shown \in Seq(P)
      BY <2>1
    <3> HIDE DEF P
    <3>2. Append(shown, <<loop.page, loop.msg>>) \in Seq(P)
      BY ONLY <3>1, AppendProperties
    <3>3. shown' \in Seq(P)
      BY ONLY <2>2, <3>1, <3>2
    <3> QED
      BY ONLY <3>3 DEF P
  <2>4. link' = link \/ link' = [link EXCEPT ![loop.chan] = "closed"]
    BY <1>12 DEF sendText, closeLink
  <2>5. /\ link' \in [Channel -> Link]
        /\ \A d \in Channel : /\ link'[d] # "new" <=> link[d] # "new"
                              /\ LoggedIn(d)' <=> LoggedIn(d)
    <3>1. loop.chan \in Channel /\ link \in [Channel -> Link]
          /\ LoggedIn(loop.chan)
      BY <1>12, <2>1 DEF sendText
    <3> QED
      BY ONLY <2>4, <3>1, Closing DEF LoggedIn
  <2> QED
    BY <1>12, <2>1, <2>3, <2>5 DEF sendText
<1>13. ASSUME NEW p \in Page, NEW u \in User, onConnectionOpen(p, u) PROVE TypeInv'
  BY <1>13 DEF onConnectionOpen
<1>14. ASSUME NEW p \in Page, Leave(p) PROVE TypeInv'
  BY <1>14 DEF Leave
<1>15. ASSUME NEW p \in Page, onClose(p) PROVE TypeInv'
  BY <1>15 DEF onClose
<1>16. CASE UNCHANGED vars
  BY <1>16 DEF vars
<1> QED
  BY <1>1, <1>2, <1>3, <1>4, <1>5, <1>6, <1>7, <1>8, <1>9, <1>10, <1>11, <1>12, <1>13,
     <1>14, <1>15, <1>16 DEF OpenNext, Chat, EventLoop, sendSingleMessage

LEMMA SingleChatStarts == Init => TypeInv
  BY NoneIsNothing, BoundsAreNat DEF Init, TypeInv, Known, LoggedIn, Link,
     TypeOK, VarTypes, Stage, NotWriting

----------------------------------------------------------------------------
(* The contracts: what SingleChat's own environment, the loop and the pages  *)
(* do to connections, entries and routes is what they allow.                 *)

LEMMA Untouched ==
  ASSUME UNCHANGED <<links, tables>> PROVE WithinContracts
<1>1. UNCHANGED <<link, owner, at, CHANNEL_MAP, route>>
  BY DEF links, tables
<1>2. UNCHANGED Gateway!vars
  BY <1>1 DEF Gateway!vars
<1>3. ASSUME NEW s \in Server PROVE UNCHANGED Table(s)!vars
  BY <1>1 DEF Table!vars, LoggedIn
<1> QED
  BY <1>2, <1>3 DEF WithinContracts

(* A server does not see a connection before it has read its LOGIN.          *)
LEMMA UnseenByServers ==
  ASSUME UNCHANGED CHANNEL_MAP,
         \A c \in Channel : /\ LoggedIn(c)' <=> LoggedIn(c)
                            /\ LoggedIn(c) => /\ link'[c] = link[c]
                                              /\ at'[c] = at[c] /\ owner'[c] = owner[c]
  PROVE  \A s \in Server : UNCHANGED Table(s)!vars
<1> SUFFICES ASSUME NEW s \in Server PROVE UNCHANGED Table(s)!vars
  OBVIOUS
<1>1. UNCHANGED <<DownLink(s), DownOwner(s)>>
  BY DEF DownLink, DownOwner
<1> QED
  BY <1>1 DEF Table!vars, DownLink, DownOwner

(* The gateway, too, sees a connection close.                                *)
LEMMA GatewayLoses ==
  ASSUME NEW c \in Channel, UNCHANGED <<owner, at, route>>, TypeInv,
         UpLink' = [UpLink EXCEPT ![c] = "closed"], UpLink[c] \in {"open", "closed"}
  PROVE  Gateway!Next
<1>1. PICK C \in SUBSET Channel, U \in SUBSET User : C = {c} /\ U = {}
  OBVIOUS
<1>2. route \in [User -> Server \cup {None}]
  BY DEF TypeInv, TypeOK, VarTypes
<1>3. /\ UpLink' = [d \in Channel |-> IF d \in C /\ UpLink[d] = "open" THEN "closed" ELSE UpLink[d]]
      /\ route' = [u \in User |-> IF u \in U THEN None ELSE route[u]]
  <2>1. UpLink = [d \in Channel |-> UpLink[d]]
    BY DEF UpLink
  <2> QED
    BY ONLY <1>1, <1>2, <2>1, c \in Channel, UNCHANGED <<owner, at, route>>,
            UpLink' = [UpLink EXCEPT ![c] = "closed"], UpLink[c] \in {"open", "closed"}
<1>4. Gateway!Lose(C, U)
  BY <1>3 DEF Gateway!Lose, UpLink
<1> QED
  BY <1>4 DEF Gateway!Next

LEMMA ServersLose ==
  ASSUME TypeInv, NEW c \in Channel, LoggedIn(c), link' = [link EXCEPT ![c] = "closed"],
         UNCHANGED <<owner, at, CHANNEL_MAP>>, NEW s \in Server
  PROVE  UNCHANGED Table(s)!vars \/ Table(s)!Next
<1>1. /\ link \in [Channel -> Link]
      /\ CHANNEL_MAP \in [Server -> [User -> Channel \cup {None}]]
  BY DEF TypeInv, TypeOK, VarTypes
<1>2. PICK C \in SUBSET Channel, U \in SUBSET User : C = {c} /\ U = {}
  OBVIOUS
<1>3. \A d \in Channel : LoggedIn(d)' <=> LoggedIn(d)
  BY <1>1 DEF LoggedIn
<1>4. DownLink(s)' = [d \in Channel |-> IF d \in C /\ DownLink(s)[d] = "open" THEN "closed"
                                        ELSE DownLink(s)[d]]
  BY <1>1, <1>2, <1>3 DEF DownLink, LoggedIn
<1>5. DownOwner(s)' = DownOwner(s)
  BY <1>3 DEF DownOwner
<1>6. CHANNEL_MAP'[s] = [u \in User |-> IF u \in U THEN None ELSE CHANNEL_MAP[s][u]]
  <2>1. CHANNEL_MAP[s] = [u \in User |-> CHANNEL_MAP[s][u]]
    BY <1>1
  <2> QED
    BY <1>2, <2>1
<1>7. Table(s)!Lose(C, U)
  BY <1>4, <1>5, <1>6 DEF Table!Lose, DownLink, DownOwner
<1> QED
  BY <1>7 DEF Table!Next

LEMMA ClosingWithin ==
  ASSUME TypeInv, NEW c \in Channel, LoggedIn(c), link' = [link EXCEPT ![c] = "closed"],
         UNCHANGED <<owner, at, tables>>
  PROVE  WithinContracts
<1>1. link \in [Channel -> Link] /\ UNCHANGED <<CHANNEL_MAP, route>>
  BY DEF TypeInv, TypeOK, VarTypes, tables
<1>2. UpLink[c] \in {"open", "closed"} /\ UpLink' = [UpLink EXCEPT ![c] = "closed"]
  BY <1>1 DEF UpLink, LoggedIn
<1> QED
  BY <1>1, <1>2, GatewayLoses, ServersLose DEF WithinContracts

(* The event loop closes connections that have logged in; nothing else of a  *)
(* call or of a page touches connections, entries or routes.                 *)
LEMMA ChatWithin == ASSUME TypeInv, Chat PROVE WithinContracts
<1>1. ASSUME NEW c \in Channel, channelRead0(c) PROVE WithinContracts
  <2>1. UNCHANGED <<owner, at, tables>> /\ queue[c] # <<>> /\ queue[c] \in Seq(Message)
    BY <1>1 DEF channelRead0, TypeInv, TypeOK, VarTypes
  <2>2. LoggedIn(c)
    <3>1. 1 \in DOMAIN queue[c]
      BY ONLY <2>1
    <3> QED
      BY <3>1 DEF TypeInv, Known
  <2> QED
    BY <1>1, <2>1, <2>2, ClosingWithin, Untouched DEF channelRead0, closeLink, links
<1>2. CASE sendText
  <2>1. UNCHANGED <<owner, at, tables>> /\ loop.chan \in Channel /\ LoggedIn(loop.chan)
    BY <1>2 DEF sendText, TypeInv, TypeOK, VarTypes, Known
  <2> QED
    BY <1>2, <2>1, ClosingWithin, Untouched DEF sendText, closeLink, links
<1>3. \/ sendText
      \/ \E c \in Channel : channelRead0(c)
      \/ UNCHANGED <<links, tables>>
  BY DEF Chat, EventLoop, sendSingleMessage, getRouteInfoByUser, NoRoute, getId, sendMessage,
         writeAndFlush, Publish, PostFails, PostAgain, PublishFails, onConnectionOpen, Leave,
         onClose, links
<1> QED
  BY <1>1, <1>2, <1>3, Untouched

LEMMA EnvironmentWithin == ASSUME TypeInv, Environment PROVE AnyEnvironment
<1>1. /\ link \in [Channel -> Link] /\ owner \in [Channel -> User \cup {None}]
      /\ at \in [Channel -> Server \cup {None}] /\ queue \in [Channel -> Seq(Message)]
      /\ CHANNEL_MAP \in [Server -> [User -> Channel \cup {None}]]
      /\ route \in [User -> Server \cup {None}] /\ losses \in Nat
      /\ \A c \in Channel : link[c] # "new" => owner[c] \in User /\ at[c] \in Server
  BY DEF TypeInv, TypeOK, VarTypes, Known
<1> DEFINE Rest == UNCHANGED <<pc, call, push, idGen, loop, pages, shown, published, broken,
                               retried>>
<1>2. ASSUME Rest, link' \in [Channel -> Link], losses' \in Nat, WithinContracts, UNCHANGED queue,
             CHANNEL_MAP' \in [Server -> [User -> Channel \cup {None}]]
      PROVE  AnyEnvironment
  BY <1>1, <1>2 DEF AnyEnvironment, QueuesOnlyCut
<1>3. ASSUME NEW c \in Channel, NEW u \in User, NEW s \in Server, Login(c, u, s)
      PROVE  AnyEnvironment
  <2>1. /\ link[c] = "new" /\ link' = [link EXCEPT ![c] = "sent"]
        /\ owner' = [owner EXCEPT ![c] = u] /\ at' = [at EXCEPT ![c] = s]
        /\ UNCHANGED <<CHANNEL_MAP, route, queue, losses>> /\ Rest
    BY <1>3 DEF Login, First, tables, history
  <2>2. UpLink[c] = "new" /\ UpLink' = [UpLink EXCEPT ![c] = "open"]
    BY <1>1, <2>1 DEF UpLink
  <2>3. Gateway!Login(c, u, s)
    BY <2>1, <2>2 DEF Gateway!Login, UpLink
  <2>4. \A t \in Server : UNCHANGED Table(t)!vars
    BY <1>1, <2>1, UnseenByServers DEF LoggedIn
  <2>5. WithinContracts
    BY <2>3, <2>4 DEF WithinContracts, Gateway!Next
  <2>6. link' \in [Channel -> Link]
    BY <1>1, <2>1 DEF Link
  <2> QED
    BY <1>1, <1>2, <2>1, <2>5, <2>6
<1>4. ASSUME NEW c \in Channel, ReadLogin(c) PROVE AnyEnvironment
  <2>1. PICK s \in Server, u \in User : s = at[c] /\ u = owner[c]
    BY <1>1, <1>4 DEF ReadLogin
  <2>2. /\ link[c] \in {"sent", "lost"}
        /\ link' = [link EXCEPT ![c] = IF link[c] = "sent" THEN "open" ELSE "closed"]
        /\ CHANNEL_MAP' = [CHANNEL_MAP EXCEPT ![s] = [CHANNEL_MAP[s] EXCEPT ![u] = c]]
        /\ UNCHANGED <<owner, at, route, queue, losses>> /\ Rest
    BY <1>1, <1>4, <2>1 DEF ReadLogin, history
  <2>3. UNCHANGED Gateway!vars
    <3>1. UNCHANGED UpLink
      BY <1>1, <2>2 DEF UpLink
    <3> QED
      BY <2>2, <3>1 DEF Gateway!vars, UpLink
  <2>4. ASSUME NEW t \in Server PROVE UNCHANGED Table(t)!vars \/ Table(t)!Next
    <3>1. CASE t = s
      <4>1. /\ DownLink(s)[c] = "new"
            /\ \E l \in {"open", "closed"} : DownLink(s)' = [DownLink(s) EXCEPT ![c] = l]
        BY <1>1, <2>1, <2>2 DEF DownLink, LoggedIn
      <4>2. DownOwner(s)' = [DownOwner(s) EXCEPT ![c] = u]
        BY <1>1, <2>1, <2>2 DEF DownOwner, LoggedIn
      <4>3. CHANNEL_MAP'[s] = [CHANNEL_MAP[s] EXCEPT ![u] = c]
        BY <1>1, <2>2
      <4>4. Table(s)!Login(c, u)
        BY <4>1, <4>2, <4>3 DEF Table!Login, DownLink, DownOwner
      <4> QED
        BY <3>1, <4>4 DEF Table!Next
    <3>2. CASE t # s
      <4>1. CHANNEL_MAP'[t] = CHANNEL_MAP[t]
        BY <1>1, <2>2, <3>2
      <4>2. DownLink(t)' = DownLink(t) /\ DownOwner(t)' = DownOwner(t)
        BY <1>1, <2>1, <2>2, <3>2 DEF DownLink, DownOwner, LoggedIn
      <4> QED
        BY <4>1, <4>2 DEF Table!vars, DownLink, DownOwner
    <3> QED
      BY <3>1, <3>2
  <2>5. WithinContracts
    BY <2>3, <2>4 DEF WithinContracts
  <2>6. /\ link' \in [Channel -> Link]
        /\ CHANNEL_MAP' \in [Server -> [User -> Channel \cup {None}]]
    BY <1>1, <2>2 DEF Link
  <2> QED
    BY <1>1, <1>2, <2>2, <2>5, <2>6
<1>5. ASSUME NEW c \in Channel, savaUserRouteInfo(c) PROVE AnyEnvironment
  <2>1. /\ link[c] # "new" /\ route' = [route EXCEPT ![owner[c]] = at[c]]
        /\ UNCHANGED <<link, owner, at, CHANNEL_MAP, queue, losses>> /\ Rest
    BY <1>5 DEF savaUserRouteInfo, links, history
  <2>2. UpLink[c] # "new" /\ UNCHANGED UpLink
    BY <1>1, <2>1 DEF UpLink
  <2>3. Gateway!SaveRoute(c)
    BY <2>1, <2>2 DEF Gateway!SaveRoute, UpLink
  <2>4. \A t \in Server : UNCHANGED Table(t)!vars
    BY <2>1, UnseenByServers DEF LoggedIn
  <2>5. WithinContracts
    BY <2>3, <2>4 DEF WithinContracts, Gateway!Next
  <2> QED
    BY <1>1, <1>2, <2>1, <2>5
<1>6. ASSUME NEW u \in User, DropRoute(u) PROVE AnyEnvironment
  <2>1. /\ route' = [route EXCEPT ![u] = None] /\ losses' = losses + 1
        /\ UNCHANGED <<link, owner, at, CHANNEL_MAP, queue>> /\ Rest
    BY <1>6 DEF DropRoute, Lost, links
  <2>2. PICK C \in SUBSET Channel, U \in SUBSET User : C = {} /\ U = {u}
    OBVIOUS
  <2>3. /\ UpLink' = [d \in Channel |-> IF d \in C /\ UpLink[d] = "open" THEN "closed"
                                         ELSE UpLink[d]]
        /\ route' = [v \in User |-> IF v \in U THEN None ELSE route[v]]
    BY <1>1, <2>1, <2>2 DEF UpLink
  <2>4. Gateway!Lose(C, U)
    BY <2>1, <2>3 DEF Gateway!Lose, UpLink
  <2>5. \A t \in Server : UNCHANGED Table(t)!vars
    BY <2>1, UnseenByServers DEF LoggedIn
  <2>6. WithinContracts
    BY <2>4, <2>5 DEF WithinContracts, Gateway!Next
  <2> QED
    BY <1>1, <1>2, <2>1, <2>6
<1>7. ASSUME NEW u \in User, NEW s \in Server, DropEntry(s, u) PROVE AnyEnvironment
  <2>1. /\ CHANNEL_MAP' = [CHANNEL_MAP EXCEPT ![s] = [CHANNEL_MAP[s] EXCEPT ![u] = None]]
        /\ UNCHANGED <<link, owner, at, route, queue>> /\ Rest /\ losses' = losses + 1
    BY <1>1, <1>7 DEF DropEntry, Lost, links
  <2>2. PICK C \in SUBSET Channel, U \in SUBSET User : C = {} /\ U = {u}
    OBVIOUS
  <2>3. UNCHANGED Gateway!vars
    BY <2>1 DEF Gateway!vars
  <2>4. ASSUME NEW t \in Server PROVE UNCHANGED Table(t)!vars \/ Table(t)!Next
    <3>1. DownLink(t)' = DownLink(t) /\ DownOwner(t)' = DownOwner(t)
      BY <2>1 DEF DownLink, DownOwner, LoggedIn
    <3>2. CASE t = s
      <4>1. CHANNEL_MAP'[s] = [v \in User |-> IF v \in U THEN None ELSE CHANNEL_MAP[s][v]]
        BY <1>1, <2>1, <2>2
      <4>2. DownLink(s)' = [d \in Channel |-> IF d \in C /\ DownLink(s)[d] = "open"
                                              THEN "closed" ELSE DownLink(s)[d]]
        BY <2>2, <3>1, <3>2 DEF DownLink
      <4>3. Table(s)!Lose(C, U)
        BY <3>1, <3>2, <4>1, <4>2 DEF Table!Lose, DownLink, DownOwner
      <4> QED
        BY <3>2, <4>3 DEF Table!Next
    <3>3. CASE t # s
      <4>1. CHANNEL_MAP'[t] = CHANNEL_MAP[t]
        BY <1>1, <2>1, <3>3
      <4> QED
        BY <3>1, <4>1 DEF Table!vars, DownLink, DownOwner
    <3> QED
      BY <3>2, <3>3
  <2>5. WithinContracts
    BY <2>3, <2>4 DEF WithinContracts
  <2>6. CHANNEL_MAP' \in [Server -> [User -> Channel \cup {None}]]
    BY <1>1, <2>1
  <2> QED
    BY <1>1, <1>2, <2>1, <2>5, <2>6
<1>8. ASSUME NEW c \in Channel, DropLink(c) PROVE AnyEnvironment
  <2>1. /\ link[c] \in {"sent", "open"} /\ losses' = losses + 1
        /\ link' = [link EXCEPT ![c] = IF link[c] = "sent" THEN "lost" ELSE "closed"]
        /\ UNCHANGED <<owner, at, tables>> /\ Rest
    BY <1>1, <1>8 DEF DropLink, Lost
  <2>2. PICK n \in 0 .. Len(queue[c]) : queue' = [queue EXCEPT ![c] = SubSeq(queue[c], 1, n)]
    BY <1>1, <1>8 DEF DropLink, Cut
  <2>3. QueuesOnlyCut
    <3>1. SubSeq(queue[c], 1, n) \in Seq(Message) /\ link'[c] # "open"
      BY <1>1, <2>1
    <3>2. queue' \in [Channel -> Seq(Message)]
      BY <1>1, <2>2, <3>1
    <3> QED
      BY <1>1, <2>2, <3>1, <3>2 DEF QueuesOnlyCut
  <2>4. WithinContracts
    <3>1. CASE link[c] = "open"
      BY <1>1, <2>1, <3>1, ClosingWithin DEF LoggedIn
    <3>2. CASE link[c] = "sent"
      <4>1. UpLink[c] \in {"open", "closed"} /\ UpLink' = [UpLink EXCEPT ![c] = "closed"]
        BY <1>1, <2>1, <3>2 DEF UpLink
      <4>2. UNCHANGED <<owner, at, route, CHANNEL_MAP>>
        BY <2>1 DEF tables
      <4>3. \A t \in Server : UNCHANGED Table(t)!vars
        BY <1>1, <2>1, <3>2, <4>2, UnseenByServers DEF LoggedIn
      <4> QED
        BY <4>1, <4>2, <4>3, GatewayLoses DEF WithinContracts
    <3> QED
      BY <2>1, <3>1, <3>2
  <2>5. link' \in [Channel -> Link] /\ losses' \in Nat /\ UNCHANGED CHANNEL_MAP
    BY <1>1, <2>1 DEF Link, tables
  <2> QED
    BY <1>1, <2>1, <2>3, <2>4, <2>5 DEF AnyEnvironment
<1> QED
  BY <1>3, <1>4, <1>5, <1>6, <1>7, <1>8 DEF Environment

LEMMA StepWithin ==
  ASSUME TypeInv, [Next]_vars PROVE [OpenNext]_vars /\ WithinContracts
<1>1. CASE Environment
  BY <1>1, EnvironmentWithin DEF AnyEnvironment, OpenNext
<1>2. CASE Chat
  BY <1>2, ChatWithin DEF OpenNext
<1>3. CASE UNCHANGED vars
  BY <1>3, Untouched DEF vars, links, tables
<1> QED
  BY <1>1, <1>2, <1>3 DEF Next

LEMMA TypesHold == OpenSpec => []TypeInv
  BY SingleChatStarts, SingleChatTypes, PTL DEF OpenSpec

LEMMA SpecIsOpen == Spec => OpenSpec
<1>1. TypeInv /\ [Next]_vars => [OpenNext]_vars
  BY StepWithin
<1> QED
  BY <1>1, SingleChatStarts, SingleChatTypes, PTL DEF Spec, OpenSpec

(* KeepsContracts of SingleChat: its environment is one that keeps the       *)
(* contracts of the gateway and of every server (so that what holds with any *)
(* such environment holds of SingleChat), and so does what the event loop    *)
(* does to the connections it closes.                                        *)
THEOREM ContractsKept == Spec => OpenSpec /\ KeepsContracts
<1>1. TypeInv /\ [Next]_vars => WithinContracts
  BY StepWithin
<1>2. WithinContracts => [WithinContracts]_vars
  OBVIOUS
<1> QED
  BY <1>1, <1>2, SpecIsOpen, TypesHold, PTL DEF Spec, KeepsContracts

(* TypeOK of SingleChat: a post in progress has the server it goes to, a     *)
(* write its channel, and a message is published after nettyServer is done.  *)
THEOREM ChatTypes == Spec => []TypeOK
<1>1. TypeInv => TypeOK
  BY DEF TypeInv
<1> QED
  BY <1>1, TypesHold, SpecIsOpen, PTL
----------------------------------------------------------------------------
(* Ids: what was given out is not above the counter.                         *)

IdInv == \A m \in Message : id[m] # 0 =>
  /\ id[m] \in 1 .. MaxId /\ id[m] <= idGen
  /\ \A n \in Message \ {m} : id[n] # id[m]

LEMMA OnlyGetId == [OpenNext]_vars => \/ UNCHANGED <<id, idGen>>
                                 \/ \E m \in Message : getId(m)
  BY DEF OpenNext, AnyEnvironment, Chat, vars, EventLoop, sendSingleMessage, call,
         getRouteInfoByUser, NoRoute, sendMessage, writeAndFlush, Publish, PostFails, PostAgain,
         PublishFails, channelRead0, sendText,
         onConnectionOpen, Leave, onClose

LEMMA IdStep ==
  ASSUME id \in [Message -> Int], idGen \in Nat, IdInv, NEW m \in Message, getId(m)
  PROVE  IdInv'
<1>1. idGen' = idGen + 1
  BY DEF getId
<1>2. CASE UNCHANGED id
  BY <1>1, <1>2 DEF IdInv
<1>3. CASE id' = [id EXCEPT ![m] = idGen'] /\ idGen' <= MaxId
  <2>1. \A n \in Message \ {m} : id'[n] = id[n] /\ (id[n] # 0 => id[n] <= idGen)
    BY <1>3 DEF IdInv
  <2>2. id'[m] = idGen'
    BY <1>3
  <2> QED
    BY <1>1, <1>3, <2>1, <2>2, BoundsAreNat DEF IdInv
<1> QED
  BY <1>1, <1>2, <1>3, BoundsAreNat DEF getId

LEMMA IdsHold == OpenSpec => []IdsAreFresh
<1>1. Init => TypeInv /\ IdInv
  BY SingleChatStarts DEF Init, IdInv
<1>2. TypeInv /\ IdInv /\ [OpenNext]_vars => TypeInv' /\ IdInv'
  <2> SUFFICES ASSUME TypeInv, IdInv, [OpenNext]_vars PROVE IdInv'
    BY SingleChatTypes
  <2>1. CASE UNCHANGED <<id, idGen>>
    BY <2>1 DEF IdInv
  <2>2. ASSUME NEW m \in Message, getId(m) PROVE IdInv'
    <3>1. id \in [Message -> Int] /\ idGen \in Nat
      BY DEF TypeInv, TypeOK, VarTypes
    <3> QED
      BY <2>2, <3>1, IdStep
  <2> QED
    BY <2>1, <2>2, OnlyGetId
<1>3. IdInv => IdsAreFresh
  BY DEF IdInv, IdsAreFresh
<1> QED
  BY <1>1, <1>2, <1>3, PTL DEF OpenSpec

(* IdsAreFresh of SingleChat: the ids getId gives out are positive ints, and *)
(* no two messages share one, whatever the counter stood at.                 *)
THEOREM FreshIds == Spec => []IdsAreFresh
  BY IdsHold, SpecIsOpen, PTL
----------------------------------------------------------------------------
(* Messages on their way: in a queue, with the loop, shown.                  *)

Queued(m, c, i) == i \in DOMAIN queue[c] /\ queue[c][i] = m
InLoop(m)       == loop # NotWriting /\ loop.msg = m
ShownAt(m, i)   == i \in DOMAIN shown /\ shown[i][2] = m

Away(m) == \/ \E c \in Channel : \E i \in DOMAIN queue[c] : Queued(m, c, i)
           \/ InLoop(m)
           \/ \E i \in DOMAIN shown : ShownAt(m, i)

(* Every other step leaves what is on its way where it is.                   *)
LEMMA WhatMoves == [OpenNext]_vars =>
  \/ UNCHANGED <<queue, loop, shown>>
  \/ \E m \in Message : writeAndFlush(m)
  \/ \E c \in Channel : channelRead0(c)
  \/ sendText
  \/ AnyEnvironment
  BY DEF OpenNext, Chat, vars, EventLoop, sendSingleMessage, getRouteInfoByUser, NoRoute, getId,
         sendMessage, Publish, PostFails, PostAgain, PublishFails, onConnectionOpen, Leave, onClose

LEMMA Appended ==
  ASSUME NEW S, NEW q \in Seq(S), NEW x \in S
  PROVE  \A i \in DOMAIN Append(q, x) :
           \/ i \in DOMAIN q /\ Append(q, x)[i] = q[i]
           \/ Append(q, x)[i] = x /\ i = Len(q) + 1
OBVIOUS

LEMMA Writing ==
  ASSUME TypeInv, NEW m \in Message, writeAndFlush(m)
  PROVE  /\ req[m] = "write" /\ UNCHANGED <<loop, shown>>
         /\ \A c \in Channel : \A i \in DOMAIN queue'[c] :
              \/ i \in DOMAIN queue[c] /\ queue'[c][i] = queue[c][i]
              \/ c = chan[m] /\ queue'[c][i] = m /\ i = Len(queue[c]) + 1
<1>1. req[m] = "write" /\ UNCHANGED <<loop, shown>>
  BY DEF writeAndFlush
<1>2. chan[m] \in Channel /\ queue \in [Channel -> Seq(Message)]
  BY <1>1 DEF TypeInv, TypeOK, VarTypes, Stage
<1>3. queue' = queue \/ queue' = [queue EXCEPT ![chan[m]] = Append(@, m)]
  BY DEF writeAndFlush
<1> DEFINE k == chan[m]
<1>4. /\ \A c \in Channel : c # k => queue'[c] = queue[c]
      /\ queue'[k] = queue[k] \/ queue'[k] = Append(queue[k], m)
  BY <1>2, <1>3
<1>5. \A i \in DOMAIN Append(queue[k], m) :
        \/ i \in DOMAIN queue[k] /\ Append(queue[k], m)[i] = queue[k][i]
        \/ Append(queue[k], m)[i] = m /\ i = Len(queue[k]) + 1
  BY <1>2, Appended
<1> HIDE DEF k
<1>6. ASSUME NEW c \in Channel, NEW i \in DOMAIN queue'[c]
      PROVE  \/ i \in DOMAIN queue[c] /\ queue'[c][i] = queue[c][i]
             \/ c = k /\ queue'[c][i] = m /\ i = Len(queue[c]) + 1
  BY ONLY <1>4, <1>5, <1>6
<1> QED
  BY <1>1, <1>6 DEF k

LEMMA Cutting ==
  ASSUME TypeInv, AnyEnvironment
  PROVE  /\ UNCHANGED <<to, chan, loop, shown>>
         /\ \A d \in Channel : \A i \in DOMAIN queue'[d] :
              i \in DOMAIN queue[d] /\ queue'[d][i] = queue[d][i]
  BY EnvironmentKeeps DEF AnyEnvironment, call, push

LEMMA Reading ==
  ASSUME TypeInv, NEW c \in Channel, channelRead0(c)
  PROVE  /\ loop = NotWriting /\ UNCHANGED shown
         /\ 1 \in DOMAIN queue[c] /\ queue[c][1] \in Message /\ to[queue[c][1]] \in User
         /\ \A d \in Channel \ {c} : queue'[d] = queue[d]
         /\ \A i \in DOMAIN queue'[c] : i + 1 \in DOMAIN queue[c] /\ queue'[c][i] = queue[c][i + 1]
         /\ \/ loop' = NotWriting
            \/ /\ CLIENT_SESSION_MAP[to[queue[c][1]]] # None
               /\ loop' = [chan |-> c, msg |-> queue[c][1],
                           page |-> CLIENT_SESSION_MAP[to[queue[c][1]]]]
<1>1. queue \in [Channel -> Seq(Message)]
  BY DEF TypeInv, TypeOK, VarTypes
<1>2. queue[c] # <<>> /\ queue' = [queue EXCEPT ![c] = Tail(@)]
  BY DEF channelRead0
<1>3. 1 \in DOMAIN queue[c] /\ Head(queue[c]) = queue[c][1] /\ queue[c][1] \in Message
  BY ONLY <1>1, <1>2
<1>4. to[queue[c][1]] \in User
  BY <1>3 DEF TypeInv, Known
<1>5. /\ \A d \in Channel \ {c} : queue'[d] = queue[d]
      /\ \A i \in DOMAIN queue'[c] : i + 1 \in DOMAIN queue[c] /\ queue'[c][i] = queue[c][i + 1]
  BY ONLY <1>1, <1>2
<1> QED
  BY <1>3, <1>4, <1>5 DEF channelRead0

LEMMA Showing ==
  ASSUME TypeInv, sendText
  PROVE  /\ loop # NotWriting /\ loop' = NotWriting /\ UNCHANGED queue
         /\ \A i \in DOMAIN shown' :
              \/ i \in DOMAIN shown /\ shown'[i] = shown[i]
              \/ shown'[i] = <<loop.page, loop.msg>> /\ i = Len(shown) + 1
<1> DEFINE P == Page \X Message
           e == <<loop.page, loop.msg>>
<1>1. loop # NotWriting /\ loop' = NotWriting /\ UNCHANGED queue
  BY DEF sendText
<1>2. e \in P /\ shown \in Seq(P)
  BY <1>1 DEF TypeInv, TypeOK, VarTypes
<1>3. shown' = Append(shown, e) \/ shown' = shown
  BY DEF sendText
<1> HIDE DEF P, e
<1>4. \A i \in DOMAIN shown' : \/ i \in DOMAIN shown /\ shown'[i] = shown[i]
                               \/ shown'[i] = e /\ i = Len(shown) + 1
  BY ONLY <1>2, <1>3
<1> QED
  BY ONLY <1>1, <1>4 DEF e

(* Only a write puts a message on its way.                                   *)
LEMMA AwayStep ==
  ASSUME TypeInv, [OpenNext]_vars, NEW m \in Message, Away(m)'
  PROVE  Away(m) \/ writeAndFlush(m)
<1> USE DEF Away, Queued, InLoop, ShownAt
<1>1. CASE UNCHANGED <<queue, loop, shown>>
  BY <1>1
<1>2. ASSUME NEW n \in Message, writeAndFlush(n) PROVE Away(m) \/ writeAndFlush(m)
  BY <1>2, Writing
<1>3. CASE AnyEnvironment
  BY <1>3, Cutting
<1>4. ASSUME NEW c \in Channel, channelRead0(c) PROVE Away(m)
  BY <1>4, Reading
<1>5. CASE sendText
  BY <1>5, Showing
<1> QED
  BY <1>1, <1>2, <1>3, <1>4, <1>5, WhatMoves
----------------------------------------------------------------------------
(* How far the sender's thread is for what nettyServer has done.             *)

Life(m) ==
  /\ pc[m] \in {"new", "getId"} => ~Away(m) /\ m \notin retried
  /\ m \in published <=> pc[m] = "done"
  /\ m \in broken => pc[m] = "failed"
  /\ Away(m) => req[m] = "done" \/ m \in retried
  /\ req[m] # "none" \/ m \in retried =>
       id[m] \in 1 .. MaxId /\ (pc[m] \in {"post", "done"} \/ m \in broken)

LifeInv == \A m \in Message : Life(m)

(* Every other step is not one of the sender or of its post.                 *)
LEMMA SenderSteps == [OpenNext]_vars =>
  \/ UNCHANGED <<pc, to, prior, id, req, chan, published, broken, retried>>
  \/ \E m \in Message : \/ \E u \in User : getRouteInfoByUser(m, u) \/ NoRoute(m, u)
                        \/ sendSingleMessage(m)
                        \/ PostFails(m) \/ PostAgain(m) \/ PublishFails(m)
  BY DEF OpenNext, AnyEnvironment, Chat, vars, call, push, EventLoop, channelRead0,
         sendText, onConnectionOpen, Leave, onClose, history

LEMMA LifeStep == ASSUME TypeInv, LifeInv, [OpenNext]_vars PROVE LifeInv'
<1> SUFFICES ASSUME NEW n \in Message PROVE Life(n)'
  BY DEF LifeInv
<1>1. Life(n) /\ (Away(n)' => Away(n) \/ writeAndFlush(n))
  BY AwayStep DEF LifeInv
<1>2. /\ pc \in [Message -> {"new", "getId", "post", "done", "failed"}]
      /\ req \in [Message -> {"none", "pending", "write", "done"}]
      /\ id \in [Message -> Int] /\ idGen \in Nat /\ Stage(n)
  BY DEF TypeInv, TypeOK, VarTypes
<1> USE DEF Life, Stage, Goto, call, push, history
<1>3. ASSUME UNCHANGED <<pc, req, id, published, broken, retried>>, ~writeAndFlush(n)
      PROVE  Life(n)'
  BY ONLY <1>1, <1>3
<1>4. CASE writeAndFlush(n)
  BY <1>1, <1>2, <1>4 DEF writeAndFlush
<1>5. ASSUME NEW m \in Message, writeAndFlush(m), ~writeAndFlush(n) PROVE Life(n)'
  BY <1>1, <1>2, <1>5 DEF writeAndFlush
<1>6. ASSUME NEW m \in Message, NEW u \in User, getRouteInfoByUser(m, u), ~writeAndFlush(n)
      PROVE  Life(n)'
  BY ONLY <1>1, <1>2, <1>6 DEF getRouteInfoByUser, First
<1>7. ASSUME NEW m \in Message, NEW u \in User, NoRoute(m, u), ~writeAndFlush(n) PROVE Life(n)'
  BY ONLY <1>1, <1>2, <1>7 DEF NoRoute, First
<1>8. ASSUME NEW m \in Message, getId(m), ~writeAndFlush(n) PROVE Life(n)'
  <2>1. CASE m # n
    BY ONLY <1>1, <1>2, <1>8, <2>1 DEF getId
  <2>2. CASE m = n
    BY ONLY <1>1, <1>2, <1>8, <2>2, BoundsAreNat DEF getId
  <2> QED
    BY <2>1, <2>2
<1>9. ASSUME NEW m \in Message, sendMessage(m), ~writeAndFlush(n) PROVE Life(n)'
  BY ONLY <1>1, <1>2, <1>9 DEF sendMessage
<1>10. ASSUME NEW m \in Message, Publish(m), ~writeAndFlush(n) PROVE Life(n)'
  BY ONLY <1>1, <1>2, <1>10 DEF Publish
<1>11. ASSUME NEW m \in Message, PostFails(m), ~writeAndFlush(n) PROVE Life(n)'
  BY ONLY <1>1, <1>2, <1>11 DEF PostFails
<1>12. ASSUME NEW m \in Message, PostAgain(m), ~writeAndFlush(n) PROVE Life(n)'
  BY ONLY <1>1, <1>2, <1>12 DEF PostAgain
<1>13. ASSUME NEW m \in Message, PublishFails(m), ~writeAndFlush(n) PROVE Life(n)'
  BY ONLY <1>1, <1>2, <1>13 DEF PublishFails
<1> QED
  BY <1>3, <1>4, <1>5, <1>6, <1>7, <1>8, <1>9, <1>10, <1>11, <1>12, <1>13, SenderSteps
  DEF sendSingleMessage

LEMMA LifeStarts == Init => LifeInv
  BY DEF Init, LifeInv, Life, Away, Queued, InLoop, ShownAt

LEMMA ShownAway ==
  ASSUME NEW m PROVE m \in Shown => Away(m)
BY DEF Shown, Away, ShownAt

LEMMA LifeHolds == OpenSpec => [](TypeInv /\ LifeInv)
<1>1. Init => TypeInv /\ LifeInv
  BY SingleChatStarts, LifeStarts
<1>2. TypeInv /\ LifeInv /\ [OpenNext]_vars => (TypeInv /\ LifeInv)'
  BY SingleChatTypes, LifeStep
<1> QED
  BY <1>1, <1>2, PTL DEF OpenSpec

LEMMA StoredHolds == OpenSpec => []ShownIsPublished
<1>1. TypeInv /\ LifeInv => ShownIsPublished
  <2> SUFFICES ASSUME LifeInv, NEW m \in Message
               PROVE  /\ m \in Shown => m \in published \cup broken \/ pc[m] = "post"
                      /\ pc[m] = "done" => m \in published
    BY DEF ShownIsPublished
  <2>1. Life(m) /\ (m \in Shown => Away(m))
    BY ShownAway DEF LifeInv
  <2> QED
    BY <2>1 DEF Life
<1> QED
  BY <1>1, LifeHolds, PTL

(* ShownIsPublished of SingleChat: a message a page has shown is stored, or  *)
(* its sender is still at it, or its own post or publication failed; and one *)
(* that sendSingleMessage returned for is stored.                            *)
THEOREM ShownStored == Spec => []ShownIsPublished
  BY StoredHolds, SpecIsOpen, PTL

(* What the mapping sees of a message: its id does not change once nettyServer *)
(* has it, and it is a legal id.                                             *)
LEMMA HandledIds ==
  ASSUME TypeInv, LifeInv, NEW m \in Message,
         Handled(m) \/ m \in published \/ m \in Shown
  PROVE  Handled(m) /\ id[m] \in 1 .. MaxId /\ pc[m] \notin {"new", "getId"}
<1>1. Life(m) /\ Stage(m) /\ (m \in Shown => Away(m))
  BY ShownAway DEF LifeInv, TypeInv, TypeOK
<1> QED
  BY <1>1 DEF Life, Stage, Handled

(* The steps the mapping can see.                                            *)
LEMMA SeenSteps == [OpenNext]_vars =>
  \/ UNCHANGED <<id, req, retried, published, shown>>
  \/ \E m \in Message : \/ getId(m) \/ sendMessage(m) \/ writeAndFlush(m) \/ Publish(m)
                        \/ PostFails(m) \/ PostAgain(m)
  \/ sendText
  BY DEF OpenNext, AnyEnvironment, Chat, vars, call, push, EventLoop, sendSingleMessage,
         getRouteInfoByUser, NoRoute, PublishFails,
         channelRead0, onConnectionOpen, Leave, onClose, history

LEMMA ShownGrows ==
  ASSUME NEW P, NEW q \in Seq(P), NEW e \in P, NEW r, r = Append(q, e)
  PROVE  {r[i][2] : i \in DOMAIN r} = {q[i][2] : i \in DOMAIN q} \cup {e[2]}
<1>1. /\ \A i \in DOMAIN q : i \in DOMAIN r /\ r[i] = q[i]
      /\ Len(q) + 1 \in DOMAIN r /\ r[Len(q) + 1] = e
      /\ \A i \in DOMAIN r : i \in DOMAIN q \/ i = Len(q) + 1
  OBVIOUS
<1> QED
  BY ONLY <1>1

LEMMA SenderInit == Init => Sender!Init
  BY DEF Init, Sender!Init, Handled, Shown

LEMMA SenderStep ==
  ASSUME TypeInv, LifeInv, [OpenNext]_vars PROVE [Sender!Next]_(Sender!vars)
<1> DEFINE pushedIds == {id[m] : m \in {n \in Message : Handled(n)}}
           publishedIds == {id[m] : m \in published}
           reportedIds == {id[m] : m \in Shown}
<1>1. /\ pc \in [Message -> {"new", "getId", "post", "done", "failed"}]
      /\ req \in [Message -> {"none", "pending", "write", "done"}]
      /\ id \in [Message -> Int] /\ published \subseteq Message
  BY DEF TypeInv, TypeOK, VarTypes
<1>2. \A m \in Message : Handled(m) \/ m \in published \/ m \in Shown =>
        Handled(m) /\ id[m] \in 1 .. MaxId /\ pc[m] \notin {"new", "getId"}
  BY HandledIds
<1>3. Shown \subseteq Message
  BY DEF TypeInv, TypeOK, VarTypes, Shown
<1>4. ASSUME UNCHANGED <<pushedIds, publishedIds, reportedIds>>
      PROVE  [Sender!Next]_(Sender!vars)
  BY <1>4 DEF Sender!vars
<1>5. ASSUME NEW i \in 1 .. MaxId, pushedIds' = pushedIds \cup {i},
             UNCHANGED <<publishedIds, reportedIds>>
      PROVE  [Sender!Next]_(Sender!vars)
  BY <1>5 DEF Sender!Next, Sender!Push
<1>6. ASSUME NEW i \in 1 .. MaxId, i \in pushedIds, publishedIds' = publishedIds \cup {i},
             UNCHANGED <<pushedIds, reportedIds>>
      PROVE  [Sender!Next]_(Sender!vars)
  BY <1>6 DEF Sender!Next, Sender!Publish
<1>7. ASSUME NEW i \in 1 .. MaxId, i \in pushedIds, reportedIds' = reportedIds \cup {i},
             UNCHANGED <<pushedIds, publishedIds>>
      PROVE  [Sender!Next]_(Sender!vars)
  BY <1>7 DEF Sender!Next, Sender!Report
<1> HIDE DEF pushedIds, publishedIds, reportedIds
<1>8. ASSUME UNCHANGED <<id, published, shown>>,
             \A m \in Message : Handled(m)' <=> Handled(m)
      PROVE  [Sender!Next]_(Sender!vars)
  <2>1. UNCHANGED <<pushedIds, publishedIds, reportedIds>>
    BY <1>8 DEF pushedIds, publishedIds, reportedIds, Shown
  <2> QED
    BY <1>4, <2>1
<1>9. ASSUME NEW m \in Message, getId(m) PROVE [Sender!Next]_(Sender!vars)
  <2>1. /\ UNCHANGED <<published, shown, retried>> /\ pc[m] = "getId"
        /\ \A n \in Message \ {m} : id'[n] = id[n] /\ req'[n] = req[n]
        /\ req' = req \/ req'[m] = "pending"
    BY <1>1, <1>9 DEF getId, history
  <2>2. \A n \in Message : Handled(n)' <=> Handled(n)
    BY <1>2, <2>1 DEF Handled
  <2>3. m \notin Shown /\ m \notin published /\ ~Handled(m) /\ Shown' = Shown
    BY <1>2, <2>1 DEF Shown
  <2>4. pushedIds' = pushedIds
    BY <2>1, <2>2, <2>3 DEF pushedIds
  <2>5. publishedIds' = publishedIds
    BY <1>1, <2>1, <2>3 DEF publishedIds
  <2>6. reportedIds' = reportedIds
    BY <1>3, <2>1, <2>3 DEF reportedIds
  <2> QED
    BY <1>4, <2>4, <2>5, <2>6
<1>10. ASSUME NEW m \in Message, sendMessage(m) PROVE [Sender!Next]_(Sender!vars)
  <2>1. /\ req[m] = "pending" /\ req'[m] \in {"write", "done"}
        /\ \A n \in Message \ {m} : req'[n] = req[n]
        /\ UNCHANGED <<id, published, shown, retried>>
    BY <1>1, <1>10 DEF sendMessage, call, history
  <2>2. \A n \in Message : Handled(n)' <=> Handled(n) \/ n = m
    BY <2>1 DEF Handled
  <2>3. pushedIds' = pushedIds \cup {id[m]}
    BY <2>1, <2>2 DEF pushedIds
  <2>4. UNCHANGED <<publishedIds, reportedIds>>
    BY <2>1 DEF publishedIds, reportedIds, Shown
  <2>5. Life(m)
    BY DEF LifeInv
  <2>6. id[m] \in 1 .. MaxId
    BY <2>1, <2>5 DEF Life
  <2> QED
    BY <1>5, <2>3, <2>4, <2>6
<1>11. ASSUME NEW m \in Message, writeAndFlush(m) PROVE [Sender!Next]_(Sender!vars)
  <2>1. \A n \in Message : Handled(n)' <=> Handled(n)
    BY <1>1, <1>11 DEF writeAndFlush, history, Handled
  <2> QED
    BY <1>8, <1>11, <2>1 DEF writeAndFlush, call
<1>12. ASSUME NEW m \in Message, Publish(m) PROVE [Sender!Next]_(Sender!vars)
  <2>1. /\ req[m] = "done" /\ published' = published \cup {m}
        /\ UNCHANGED <<id, req, shown, retried>>
    BY <1>12 DEF Publish, call, push, history
  <2>2. Handled(m) /\ \A n \in Message : Handled(n)' <=> Handled(n)
    BY <2>1 DEF Handled
  <2>3. id[m] \in pushedIds /\ UNCHANGED <<pushedIds, reportedIds>>
    BY <2>1, <2>2 DEF pushedIds, reportedIds, Shown
  <2>4. publishedIds' = publishedIds \cup {id[m]}
    BY <2>1 DEF publishedIds
  <2> QED
    BY <1>2, <1>6, <2>2, <2>3, <2>4
<1>13. CASE sendText
  <2>1. /\ UNCHANGED <<id, req, retried, published>> /\ loop # NotWriting
        /\ shown' = Append(shown, <<loop.page, loop.msg>>) \/ shown' = shown
    BY <1>13 DEF sendText, call, push, history
  <2>2. loop.page \in Page /\ loop.msg \in Message /\ shown \in Seq(Page \X Message)
    BY <2>1 DEF TypeInv, TypeOK, VarTypes
  <2>3. \A n \in Message : Handled(n)' <=> Handled(n)
    BY <2>1 DEF Handled
  <2>4. CASE shown' = shown
    BY <1>8, <2>1, <2>3, <2>4
  <2>5. CASE shown' = Append(shown, <<loop.page, loop.msg>>)
    <3>1. Shown' = Shown \cup {loop.msg}
      <4> DEFINE e == <<loop.page, loop.msg>>
                 P == Page \X Message
      <4>1. shown \in Seq(P) /\ e \in P /\ e[2] = loop.msg /\ shown' = Append(shown, e)
        BY ONLY <2>2, <2>5
      <4> HIDE DEF e, P
      <4>2. {shown'[i][2] : i \in DOMAIN shown'}
              = {shown[i][2] : i \in DOMAIN shown} \cup {e[2]}
        BY ONLY <4>1, ShownGrows
      <4> QED
        BY ONLY <4>1, <4>2 DEF Shown
    <3>2. reportedIds' = reportedIds \cup {id[loop.msg]}
      BY <2>1, <3>1 DEF reportedIds
    <3>3. UNCHANGED <<pushedIds, publishedIds>>
      BY <2>1, <2>3 DEF pushedIds, publishedIds
    <3>4. Life(loop.msg) /\ Away(loop.msg)
      BY <2>1, <2>2 DEF LifeInv, Away, InLoop
    <3>5. Handled(loop.msg)
      BY <3>4 DEF Life, Handled
    <3>6. id[loop.msg] \in pushedIds
      BY <2>2, <3>5 DEF pushedIds
    <3> QED
      BY <1>2, <1>7, <2>2, <3>2, <3>3, <3>5, <3>6
  <2> QED
    BY <2>1, <2>4, <2>5
<1>14. ASSUME NEW m \in Message, PostFails(m) PROVE [Sender!Next]_(Sender!vars)
  <2>1. \A n \in Message : Handled(n)' <=> Handled(n)
    BY <1>1, <1>14 DEF PostFails, Handled
  <2> QED
    BY <1>8, <1>14, <2>1 DEF PostFails, call
<1>15. ASSUME NEW m \in Message, PostAgain(m) PROVE [Sender!Next]_(Sender!vars)
  <2>1. \A n \in Message : Handled(n)' <=> Handled(n)
    BY <1>1, <1>15 DEF PostAgain, Handled
  <2> QED
    BY <1>8, <1>15, <2>1 DEF PostAgain, call
<1>16. CASE UNCHANGED <<id, req, retried, published, shown>>
  BY <1>8, <1>16 DEF Handled
<1> QED
  BY <1>9, <1>10, <1>11, <1>12, <1>13, <1>14, <1>15, <1>16, SeenSteps

LEMMA SenderHolds == OpenSpec => Implements
<1>1. Init => Sender!Init
  BY SenderInit
<1>2. TypeInv /\ LifeInv /\ [OpenNext]_vars => [Sender!Next]_(Sender!vars)
  BY SenderStep
<1> QED
  BY <1>1, <1>2, LifeHolds, PTL DEF OpenSpec, Implements, Sender!Spec

(* Implements of SingleChat: what MessageStore relies on, that an id is      *)
(* published or reported only after nettyServer was handed it, holds of      *)
(* sendSingleMessage, the push and the pages.                                *)
THEOREM ChatImplements == Spec => Implements
  BY SenderHolds, SpecIsOpen, PTL
----------------------------------------------------------------------------
(* The pages: they are numbered in the order they open, and the entry of a   *)
(* user is a page of that user, the one that opened last.                    *)

PageInv ==
  /\ \A p, q \in Page : page[p] = "new" /\ p < q => page[q] = "new"
  /\ \A u \in User : CLIENT_SESSION_MAP[u] # None =>
       page[CLIENT_SESSION_MAP[u]] # "new" /\ viewer[CLIENT_SESSION_MAP[u]] = u
  /\ \A p \in Page : page[p] # "new" =>
       /\ CLIENT_SESSION_MAP[viewer[p]] # None
       /\ p <= CLIENT_SESSION_MAP[viewer[p]]

(* A page that has opened stays one, with the user it opened for.            *)
LEMMA PageSteps ==
  ASSUME TypeInv, [OpenNext]_vars
  PROVE  \/ UNCHANGED <<page, viewer, CLIENT_SESSION_MAP>>
         \/ \E p \in Page : \/ \E u \in User : onConnectionOpen(p, u)
                            \/ Leave(p) \/ onClose(p)
<1> DEFINE Still == UNCHANGED <<page, viewer, CLIENT_SESSION_MAP>>
<1>1. UNCHANGED vars => Still
  BY DEF vars, pages
<1>2. AnyEnvironment => Still
  BY DEF AnyEnvironment, pages
<1>3. ASSUME NEW m \in Message,
             \/ \E u \in User : getRouteInfoByUser(m, u) \/ NoRoute(m, u)
             \/ PostFails(m) \/ PostAgain(m) \/ PublishFails(m)
      PROVE  Still
  BY <1>3 DEF getRouteInfoByUser, NoRoute, PostFails, PostAgain, PublishFails, pages
<1>4. ASSUME NEW m \in Message, sendSingleMessage(m) PROVE Still
  BY <1>4 DEF sendSingleMessage, getId, sendMessage, writeAndFlush, Publish, pages
<1>5. EventLoop => Still
  BY DEF EventLoop, channelRead0, sendText, pages
<1> DEFINE Turn == \E p \in Page : \/ \E u \in User : onConnectionOpen(p, u)
                                   \/ Leave(p) \/ onClose(p)
<1>6. ASSUME OpenNext PROVE Still \/ Turn
  <2> HIDE DEF Still
  <2>1. CASE AnyEnvironment
    BY <1>2, <2>1
  <2>2. CASE \E m \in Message : \/ \E u \in User : getRouteInfoByUser(m, u) \/ NoRoute(m, u)
                                \/ sendSingleMessage(m)
                                \/ PostFails(m) \/ PostAgain(m) \/ PublishFails(m)
    BY <1>3, <1>4, <2>2
  <2>3. CASE EventLoop
    BY <1>5, <2>3
  <2>4. CASE \E p \in Page : \/ \E u \in User : onConnectionOpen(p, u)
                             \/ Leave(p) \/ onClose(p)
    BY <2>4
  <2> HIDE DEF Turn
  <2> QED
    BY ONLY <1>6, <2>1, <2>2, <2>3, <2>4 DEF OpenNext, Chat
<1> QED
  BY <1>1, <1>6

LEMMA ViewersStay ==
  ASSUME TypeInv, [OpenNext]_vars, NEW p \in Page, page[p] # "new"
  PROVE  page'[p] # "new" /\ viewer'[p] = viewer[p]
<1>1. /\ page \in [Page -> {"new", "open", "gone", "closed"}]
      /\ viewer \in [Page -> User \cup {None}]
  BY DEF TypeInv, TypeOK, VarTypes
<1> QED
  BY <1>1, PageSteps DEF onConnectionOpen, First, Leave, onClose

LEMMA PageStep == ASSUME TypeInv, PageInv, [OpenNext]_vars PROVE PageInv'
<1>1. /\ page \in [Page -> {"new", "open", "gone", "closed"}]
      /\ viewer \in [Page -> User \cup {None}]
      /\ CLIENT_SESSION_MAP \in [User -> Page \cup {None}]
      /\ Page \subseteq Nat /\ None \notin Page
      /\ \A p \in Page : page[p] # "new" => viewer[p] \in User
  BY NoneIsNothing, BoundsAreNat DEF TypeInv, TypeOK, VarTypes, Known, Page
<1>2. CASE UNCHANGED <<page, viewer, CLIENT_SESSION_MAP>>
  BY <1>2 DEF PageInv
<1>3. ASSUME NEW p \in Page, Leave(p) \/ onClose(p) PROVE PageInv'
  <2>1. /\ UNCHANGED <<viewer, CLIENT_SESSION_MAP>>
        /\ \A q \in Page : page'[q] = "new" <=> page[q] = "new"
    BY <1>1, <1>3 DEF Leave, onClose
  <2>2. (\A q, r \in Page : page[q] = "new" /\ q < r => page[r] = "new")'
    <3>1. \A q, r \in Page : page[q] = "new" /\ q < r => page[r] = "new"
      BY DEF PageInv
    <3>2. \A q \in Page : page'[q] = "new" <=> page[q] = "new"
      BY ONLY <2>1
    <3> QED
      BY ONLY <3>1, <3>2 DEF Page
  <2>3. (\A v \in User : CLIENT_SESSION_MAP[v] # None =>
           page[CLIENT_SESSION_MAP[v]] # "new" /\ viewer[CLIENT_SESSION_MAP[v]] = v)'
    <3>1. \A v \in User : CLIENT_SESSION_MAP[v] # None =>
            /\ CLIENT_SESSION_MAP[v] \in Page
            /\ page[CLIENT_SESSION_MAP[v]] # "new" /\ viewer[CLIENT_SESSION_MAP[v]] = v
      BY <1>1 DEF PageInv
    <3> QED
      BY ONLY <2>1, <3>1
  <2>4. (\A q \in Page : page[q] # "new" =>
           CLIENT_SESSION_MAP[viewer[q]] # None /\ q <= CLIENT_SESSION_MAP[viewer[q]])'
    <3>1. \A q \in Page : page[q] # "new" =>
             CLIENT_SESSION_MAP[viewer[q]] # None /\ q <= CLIENT_SESSION_MAP[viewer[q]]
      BY DEF PageInv
    <3> QED
      BY ONLY <2>1, <3>1
  <2> QED
    BY <2>2, <2>3, <2>4 DEF PageInv
<1>4. ASSUME NEW p \in Page, NEW u \in User, onConnectionOpen(p, u) PROVE PageInv'
  <2>1. /\ page[p] = "new" /\ page'[p] = "open" /\ viewer'[p] = u /\ CLIENT_SESSION_MAP'[u] = p
        /\ \A q \in Page \ {p} : page'[q] = page[q] /\ viewer'[q] = viewer[q]
        /\ \A v \in User \ {u} : CLIENT_SESSION_MAP'[v] = CLIENT_SESSION_MAP[v]
        /\ \A q \in Page : q < p => page[q] # "new"
    BY <1>1, <1>4 DEF onConnectionOpen, First
  <2>2. \A q \in Page : page[q] # "new" => q < p
    BY <1>1, <2>1 DEF PageInv
  <2>3. (\A q, r \in Page : page[q] = "new" /\ q < r => page[r] = "new")'
    BY <1>1, <2>1, <2>2 DEF PageInv
  <2>4. (\A v \in User : CLIENT_SESSION_MAP[v] # None =>
           page[CLIENT_SESSION_MAP[v]] # "new" /\ viewer[CLIENT_SESSION_MAP[v]] = v)'
    <3> SUFFICES ASSUME NEW v \in User, CLIENT_SESSION_MAP'[v] # None
                 PROVE  /\ page'[CLIENT_SESSION_MAP'[v]] # "new"
                        /\ viewer'[CLIENT_SESSION_MAP'[v]] = v
      OBVIOUS
    <3>1. CASE v = u
      BY <2>1, <3>1
    <3>2. CASE v # u
      <4> DEFINE q == CLIENT_SESSION_MAP[v]
      <4>1. CLIENT_SESSION_MAP'[v] = q /\ q \in Page /\ page[q] # "new" /\ viewer[q] = v
        BY <1>1, <2>1, <3>2 DEF PageInv
      <4> HIDE DEF q
      <4> QED
        BY <2>1, <4>1
    <3> QED
      BY <3>1, <3>2
  <2>5. (\A q \in Page : page[q] # "new" =>
           CLIENT_SESSION_MAP[viewer[q]] # None /\ q <= CLIENT_SESSION_MAP[viewer[q]])'
    BY <1>1, <2>1, <2>2 DEF PageInv
  <2> QED
    BY <2>3, <2>4, <2>5 DEF PageInv
<1> QED
  BY <1>2, <1>3, <1>4, PageSteps

LEMMA LatestHolds == OpenSpec => []LatestPage
<1>1. Init => TypeInv /\ PageInv
  BY SingleChatStarts DEF Init, PageInv
<1>2. TypeInv /\ PageInv /\ [OpenNext]_vars => (TypeInv /\ PageInv)'
  BY SingleChatTypes, PageStep
<1>3. TypeInv /\ PageInv => LatestPage
  <2> SUFFICES ASSUME TypeInv, PageInv, NEW p \in Page, page[p] = "open",
                      \A q \in Page : q > p => viewer[q] # viewer[p]
               PROVE  CLIENT_SESSION_MAP[viewer[p]] = p
    BY DEF LatestPage
  <2>1. /\ viewer[p] \in User /\ CLIENT_SESSION_MAP \in [User -> Page \cup {None}]
        /\ Page \subseteq Nat
    BY DEF TypeInv, TypeOK, VarTypes, Known, Page
  <2> DEFINE q == CLIENT_SESSION_MAP[viewer[p]]
  <2>2. q \in Page /\ p <= q /\ viewer[q] = viewer[p]
    BY <2>1 DEF PageInv
  <2> HIDE DEF q
  <2>3. q = p
    BY <2>1, <2>2
  <2> QED
    BY <2>3 DEF q
<1> QED
  BY <1>1, <1>2, <1>3, PTL DEF OpenSpec

(* LatestPage of SingleChat: while the page that a user opened last is open, *)
(* it is the one that gets the user's messages: the onClose of another page  *)
(* never takes its entry.                                                    *)
THEOREM LatestGets == Spec => []LatestPage
  BY LatestHolds, SpecIsOpen, PTL
----------------------------------------------------------------------------
(* Who sees what: the pages a message can reach are pages of its recipient.  *)

Right ==
  /\ loop # NotWriting => page[loop.page] # "new" /\ viewer[loop.page] = to[loop.msg]
  /\ \A i \in DOMAIN shown :
       page[shown[i][1]] # "new" /\ viewer[shown[i][1]] = to[shown[i][2]]

(* The recipient is fixed before a message is on its way.                    *)
LEMMA RecipientsStay ==
  ASSUME TypeInv, LifeInv, [OpenNext]_vars, NEW m \in Message, Away(m)
  PROVE  to'[m] = to[m]
<1>1. Life(m) /\ to \in [Message -> User \cup {None}]
  BY DEF LifeInv, TypeInv, TypeOK, VarTypes
<1>2. CASE UNCHANGED to
  BY <1>2
<1>3. ASSUME NEW n \in Message, NEW u \in User, getRouteInfoByUser(n, u) PROVE to'[m] = to[m]
  BY <1>1, <1>3 DEF getRouteInfoByUser, First, Life
<1> QED
  BY <1>2, <1>3, SenderSteps DEF sendSingleMessage, NoRoute, getId, sendMessage, writeAndFlush,
     Publish, PostFails, PostAgain, PublishFails, call

LEMMA RightStep ==
  ASSUME TypeInv, LifeInv, PageInv, Right, [OpenNext]_vars PROVE Right'
<1>1. /\ loop \in {NotWriting} \cup [chan : Channel, msg : Message, page : Page]
      /\ shown \in Seq(Page \X Message)
      /\ CLIENT_SESSION_MAP \in [User -> Page \cup {None}]
  BY DEF TypeInv, TypeOK, VarTypes
<1>2. \A i \in DOMAIN shown : /\ shown[i] \in Page \X Message
                              /\ Away(shown[i][2])
  BY <1>1 DEF Away, ShownAt
<1>3. \A i \in DOMAIN shown : /\ page'[shown[i][1]] # "new"
                              /\ viewer'[shown[i][1]] = to'[shown[i][2]]
  BY <1>2, ViewersStay, RecipientsStay DEF Right
<1>4. loop # NotWriting => /\ page'[loop.page] # "new"
                           /\ viewer'[loop.page] = to'[loop.msg]
  BY <1>1, ViewersStay, RecipientsStay DEF Right, Away, InLoop
<1>5. CASE UNCHANGED <<loop, shown>>
  BY <1>3, <1>4, <1>5 DEF Right
<1>6. ASSUME NEW c \in Channel, channelRead0(c) PROVE Right'
  <2> DEFINE m == queue[c][1]
             p == CLIENT_SESSION_MAP[to[m]]
  <2>1. /\ UNCHANGED <<shown, to, page, viewer>> /\ to[m] \in User
        /\ \/ loop' = NotWriting
           \/ p # None /\ loop' = [chan |-> c, msg |-> m, page |-> p]
    BY <1>6, Reading DEF channelRead0, call, pages
  <2>2. p # None => page[p] # "new" /\ viewer[p] = to[m]
    BY <2>1 DEF PageInv
  <2> QED
    BY <1>3, <2>1, <2>2 DEF Right
<1>7. CASE sendText
  <2>1. /\ loop # NotWriting /\ loop' = NotWriting
        /\ \A i \in DOMAIN shown' : \/ i \in DOMAIN shown /\ shown'[i] = shown[i]
                                    \/ shown'[i] = <<loop.page, loop.msg>>
    BY <1>7, Showing
  <2>2. \A i \in DOMAIN shown' : /\ page'[shown'[i][1]] # "new"
                                 /\ viewer'[shown'[i][1]] = to'[shown'[i][2]]
    BY <1>3, <1>4, <2>1
  <2> QED
    BY <2>1, <2>2 DEF Right
<1> QED
  BY <1>5, <1>6, <1>7, WhatMoves DEF writeAndFlush, AnyEnvironment
----------------------------------------------------------------------------
(* A message is in one place, unless its post was sent again.                *)

Once(m) == m \notin retried =>
  /\ \A c \in Channel : \A i \in DOMAIN queue[c] : Queued(m, c, i) =>
       /\ c = chan[m] /\ ~InLoop(m)
       /\ \A j \in DOMAIN queue[c] : Queued(m, c, j) => j = i
       /\ \A j \in DOMAIN shown : ~ShownAt(m, j)
  /\ InLoop(m) => loop.chan = chan[m] /\ \A j \in DOMAIN shown : ~ShownAt(m, j)
  /\ \A i, j \in DOMAIN shown : ShownAt(m, i) /\ ShownAt(m, j) => i = j

OnceInv == \A m \in Message : Once(m)

(* The channel of a message on its way is looked up again only for a retry.  *)
LEMMA ChannelsStay ==
  ASSUME TypeInv, LifeInv, [OpenNext]_vars, NEW m \in Message, m \notin retried,
         Away(m) \/ req[m] = "done"
  PROVE  chan'[m] = chan[m]
<1>1. Life(m) /\ chan \in [Message -> Channel \cup {None}]
  BY DEF LifeInv, TypeInv, TypeOK, VarTypes
<1>2. CASE UNCHANGED chan
  BY <1>2
<1>3. ASSUME NEW n \in Message, sendMessage(n) PROVE chan'[m] = chan[m]
  BY <1>1, <1>3 DEF sendMessage, Life
<1> QED
  BY <1>2, <1>3, SenderSteps DEF sendSingleMessage, NoRoute, getId, getRouteInfoByUser,
     writeAndFlush, Publish, PostFails, PostAgain, PublishFails, push

LEMMA RetriesStay == [OpenNext]_vars => retried \subseteq retried'
  BY SenderSteps DEF sendSingleMessage, NoRoute, getId, getRouteInfoByUser, sendMessage,
     writeAndFlush, Publish, PostFails, PostAgain, PublishFails, history

LEMMA OnceStep ==
  ASSUME TypeInv, LifeInv, OnceInv, [OpenNext]_vars PROVE OnceInv'
<1> SUFFICES ASSUME NEW n \in Message, n \notin retried' PROVE Once(n)'
  BY DEF OnceInv, Once
<1>1. n \notin retried /\ Once(n) /\ Life(n)
  BY RetriesStay DEF OnceInv, LifeInv
<1>2. Away(n) => chan'[n] = chan[n]
  BY <1>1, ChannelsStay
<1>3. /\ loop \in {NotWriting} \cup [chan : Channel, msg : Message, page : Page]
      /\ queue \in [Channel -> Seq(Message)]
  BY DEF TypeInv, TypeOK, VarTypes
<1> USE DEF Once, Queued, InLoop, ShownAt
<1>4. CASE UNCHANGED <<queue, loop, shown>>
  BY <1>1, <1>2, <1>4 DEF Away
<1>5. ASSUME NEW m \in Message, writeAndFlush(m) PROVE Once(n)'
  <2>1. CASE m = n
    <3>1. ~Away(n) /\ UNCHANGED <<loop, shown, chan>>
      BY <1>1, <1>5, <2>1, Writing DEF Life, writeAndFlush
    <3>2. \A c \in Channel : \A i \in DOMAIN queue'[c] :
            queue'[c][i] = n => c = chan[n] /\ i = Len(queue[c]) + 1
      BY <1>5, <2>1, <3>1, Writing DEF Away
    <3> QED
      BY ONLY <3>1, <3>2 DEF Away
  <2>2. CASE m # n
    <3>1. \A c \in Channel : \A i \in DOMAIN queue'[c] :
            queue'[c][i] = n => i \in DOMAIN queue[c] /\ queue[c][i] = n
      BY <1>5, <2>2, Writing
    <3>2. UNCHANGED <<loop, shown, chan>>
      BY <1>5 DEF writeAndFlush
    <3> QED
      BY ONLY <1>1, <3>1, <3>2
  <2> QED
    BY <2>1, <2>2
<1>6. CASE AnyEnvironment
  <2>1. /\ UNCHANGED <<chan, loop, shown>>
        /\ \A d \in Channel : \A i \in DOMAIN queue'[d] :
              i \in DOMAIN queue[d] /\ queue'[d][i] = queue[d][i]
    BY <1>6, Cutting
  <2> QED
    BY ONLY <1>1, <2>1
<1>7. ASSUME NEW c \in Channel, channelRead0(c) PROVE Once(n)'
  <2> DEFINE m == queue[c][1]
  <2>1. UNCHANGED <<chan, shown>> /\ loop = NotWriting /\ 1 \in DOMAIN queue[c]
    BY <1>7, Reading DEF channelRead0, push
  <2>2. \A d \in Channel : \A i \in DOMAIN queue'[d] :
          \/ d # c /\ i \in DOMAIN queue[d] /\ queue'[d][i] = queue[d][i]
          \/ d = c /\ i + 1 \in DOMAIN queue[c] /\ queue'[c][i] = queue[c][i + 1] /\ i \in Nat \ {0}
    <3>1. /\ \A d \in Channel \ {c} : queue'[d] = queue[d]
          /\ \A i \in DOMAIN queue'[c] : i + 1 \in DOMAIN queue[c]
                                      /\ queue'[c][i] = queue[c][i + 1]
      BY <1>7, Reading
    <3>2. queue' \in [Channel -> Seq(Message)]
      BY SingleChatTypes DEF TypeInv, TypeOK, VarTypes
    <3>3. \A i \in DOMAIN queue'[c] : i \in Nat \ {0}
      BY ONLY <3>2, c \in Channel
    <3> QED
      BY ONLY <3>1, <3>3
  <2>3. loop' = NotWriting \/ (loop'.msg = m /\ loop'.chan = c)
    BY <1>7, Reading
  <2> HIDE DEF m
  <2>4. CASE n = m
    <3>1. Queued(n, c, 1)
      BY <2>1, <2>4 DEF m
    <3>2. \A d \in Channel : \A i \in DOMAIN queue'[d] : queue'[d][i] # n
      BY ONLY <1>1, <2>1, <2>2, <3>1
    <3> QED
      BY ONLY <1>1, <2>1, <2>3, <3>1, <3>2
  <2>5. CASE n # m
    BY ONLY <1>1, <2>1, <2>2, <2>3, <2>5
  <2> QED
    BY <2>4, <2>5
<1>8. CASE sendText
  <2>1. UNCHANGED chan
    BY <1>8 DEF sendText, push
  <2>2. /\ loop # NotWriting /\ loop' = NotWriting /\ UNCHANGED queue
        /\ \A i \in DOMAIN shown' :
              \/ i \in DOMAIN shown /\ shown'[i] = shown[i]
              \/ shown'[i][2] = loop.msg /\ i = Len(shown) + 1
    BY <1>8, Showing
  <2>3. CASE loop.msg = n
    BY ONLY <1>1, <2>1, <2>2, <2>3
  <2>4. CASE loop.msg # n
    BY ONLY <1>1, <2>1, <2>2, <2>4
  <2> QED
    BY <2>3, <2>4
<1> QED
  BY <1>4, <1>5, <1>6, <1>7, <1>8, WhatMoves

LEMMA ChatHolds == OpenSpec => [](TypeInv /\ LifeInv /\ PageInv /\ Right /\ OnceInv)
<1>1. Init => TypeInv /\ LifeInv /\ PageInv /\ Right /\ OnceInv
  BY SingleChatStarts, LifeStarts DEF Init, PageInv, Right, OnceInv, Once, Queued, InLoop, ShownAt
<1>2. TypeInv /\ LifeInv /\ PageInv /\ Right /\ OnceInv /\ [OpenNext]_vars
        => (TypeInv /\ LifeInv /\ PageInv /\ Right /\ OnceInv)'
  BY SingleChatTypes, LifeStep, PageStep, RightStep, OnceStep
<1> QED
  BY <1>1, <1>2, PTL DEF OpenSpec

LEMMA RightHolds == OpenSpec => []ShownRight
<1>1. TypeInv /\ Right /\ OnceInv => ShownRight
  <2> SUFFICES ASSUME TypeInv, Right, OnceInv, NEW i \in DOMAIN shown
               PROVE  /\ viewer[shown[i][1]] = to[shown[i][2]]
                      /\ \A j \in DOMAIN shown :
                           i # j /\ shown[i][2] = shown[j][2] => shown[i][2] \in retried
    BY DEF ShownRight
  <2>1. shown[i][2] \in Message
    BY DEF TypeInv, TypeOK, VarTypes
  <2> QED
    BY <2>1 DEF Right, OnceInv, Once, ShownAt
<1> QED
  BY <1>1, ChatHolds, PTL

(* ShownRight of SingleChat: only pages of the recipient show a message, and *)
(* twice only one whose post the HTTP client sent again.                     *)
THEOREM ShownToRecipients == Spec => []ShownRight
  BY RightHolds, SpecIsOpen, PTL
----------------------------------------------------------------------------
(* n has not overtaken m, for the calls m that had returned when n's began.  *)

Ordered(m, n) ==
  /\ \A c \in Channel : \A i, j \in DOMAIN queue[c] :
       Queued(m, c, i) /\ Queued(n, c, j) => i < j
  /\ InLoop(n) \/ (\E j \in DOMAIN shown : ShownAt(n, j)) =>
       ~InLoop(m) /\ \A c \in Channel : \A i \in DOMAIN queue[c] : ~Queued(m, c, i)
  /\ \A i, j \in DOMAIN shown : ShownAt(m, i) /\ ShownAt(n, j) => i < j

OrderInv == \A n \in Message : \A m \in prior[n] :
  /\ m # n /\ pc[m] = "done"
  /\ chan[m] = chan[n] /\ {m, n} \cap retried = {} => Ordered(m, n)

LEMMA DoneStays ==
  ASSUME TypeInv, [OpenNext]_vars, NEW m \in Message, pc[m] = "done" PROVE pc'[m] = "done"
<1>1. pc \in [Message -> {"new", "getId", "post", "done", "failed"}]
  BY DEF TypeInv, TypeOK, VarTypes
<1>2. UNCHANGED pc \/ \E n \in Message \ {m} : \E l \in {"getId", "post", "done", "failed"} :
                        pc' = [pc EXCEPT ![n] = l]
  BY <1>1, SenderSteps DEF sendSingleMessage, NoRoute, First, getId, getRouteInfoByUser,
     sendMessage, writeAndFlush, Publish, PostFails, PostAgain, PublishFails, Goto
<1> QED
  BY <1>1, <1>2

(* The calls that came before are recorded while a call is not yet pushed.   *)
LEMMA PriorSteps ==
  ASSUME TypeInv, [OpenNext]_vars, NEW n \in Message, NEW m \in prior'[n]
  PROVE  \/ m \in prior[n]
         \/ pc[n] = "new" /\ pc[m] = "done" /\ UNCHANGED <<queue, loop, shown>>
<1>1. prior \in [Message -> SUBSET Message]
  BY DEF TypeInv, TypeOK, VarTypes
<1>2. CASE UNCHANGED prior
  BY <1>2
<1>3. ASSUME NEW k \in Message, NEW u \in User, getRouteInfoByUser(k, u)
      PROVE  \/ m \in prior[n]
             \/ pc[n] = "new" /\ pc[m] = "done" /\ UNCHANGED <<queue, loop, shown>>
  BY <1>1, <1>3 DEF getRouteInfoByUser, First
<1> QED
  BY <1>2, <1>3, SenderSteps DEF sendSingleMessage, NoRoute, getId, sendMessage, writeAndFlush,
     Publish, PostFails, PostAgain, PublishFails, call

(* A step keeps the order of two messages when neither is being written.     *)
LEMMA OrderKept ==
  ASSUME TypeInv, [OpenNext]_vars, NEW m \in Message, NEW n \in Message, m # n,
         Ordered(m, n), Once(m), Once(n), m \notin retried, n \notin retried,
         chan[m] = chan[n], ~writeAndFlush(m), ~writeAndFlush(n)
  PROVE  Ordered(m, n)'
<1> USE DEF Ordered, Queued, InLoop, ShownAt
<1>1. CASE UNCHANGED <<queue, loop, shown>>
  BY ONLY <1>1, Ordered(m, n)
<1>2. ASSUME NEW k \in Message, writeAndFlush(k) PROVE Ordered(m, n)'
  <2>1. UNCHANGED <<loop, shown>>
    BY <1>2, Writing
  <2>2. \A c \in Channel : \A i \in DOMAIN queue'[c] :
          queue'[c][i] \in {m, n} => i \in DOMAIN queue[c] /\ queue[c][i] = queue'[c][i]
    BY <1>2, Writing
  <2> QED
    BY ONLY <2>1, <2>2, Ordered(m, n)
<1>3. CASE AnyEnvironment
  <2>1. /\ UNCHANGED <<loop, shown>>
        /\ \A d \in Channel : \A i \in DOMAIN queue'[d] :
              i \in DOMAIN queue[d] /\ queue'[d][i] = queue[d][i]
    BY <1>3, Cutting
  <2> QED
    BY ONLY <2>1, Ordered(m, n)
<1>4. ASSUME NEW c \in Channel, channelRead0(c) PROVE Ordered(m, n)'
  <2> DEFINE h == queue[c][1]
  <2>1. UNCHANGED shown /\ loop = NotWriting /\ 1 \in DOMAIN queue[c]
    BY <1>4, Reading
  <2>2. \A d \in Channel : \A i \in DOMAIN queue'[d] :
          \/ d # c /\ i \in DOMAIN queue[d] /\ queue'[d][i] = queue[d][i]
          \/ d = c /\ i + 1 \in DOMAIN queue[c] /\ queue'[c][i] = queue[c][i + 1] /\ i \in Nat \ {0}
    <3>1. /\ \A d \in Channel \ {c} : queue'[d] = queue[d]
          /\ \A i \in DOMAIN queue'[c] : i + 1 \in DOMAIN queue[c]
                                      /\ queue'[c][i] = queue[c][i + 1]
      BY <1>4, Reading
    <3>2. queue' \in [Channel -> Seq(Message)]
      BY SingleChatTypes DEF TypeInv, TypeOK, VarTypes
    <3>3. \A i \in DOMAIN queue'[c] : i \in Nat \ {0}
      BY ONLY <3>2, c \in Channel
    <3> QED
      BY ONLY <3>1, <3>3
  <2>3. loop' = NotWriting \/ loop'.msg = h
    BY <1>4, Reading
  <2>4. Queued(h, c, 1)
    BY <2>1
  <2> HIDE DEF h
  <2>5. \A d \in Channel : \A i, j \in DOMAIN queue'[d] :
          queue'[d][i] = m /\ queue'[d][j] = n => i < j
    BY ONLY <2>2, Ordered(m, n)
  <2>6. \A i \in DOMAIN shown : shown[i][2] = n => h # m
    BY ONLY <2>4, c \in Channel, Ordered(m, n)
  <2>7. CASE h = n
    <3>1. \A d \in Channel : \A i \in DOMAIN queue'[d] : queue'[d][i] # m
      <4> SUFFICES ASSUME NEW d \in Channel, NEW i \in DOMAIN queue'[d], queue'[d][i] = m
                   PROVE  FALSE
        OBVIOUS
      <4>1. PICK k \in DOMAIN queue[d] : queue[d][k] = m
        BY ONLY <2>2, d \in Channel, i \in DOMAIN queue'[d], queue'[d][i] = m
      <4>2. d = chan[m] /\ c = chan[n]
        BY <2>4, <2>7, <4>1 DEF Once
      <4>3. d = c
        BY <4>2
      <4>4. k < 1 /\ k \in Int
        BY <2>4, <2>7, <4>1, <4>3 DEF TypeInv, TypeOK, VarTypes
      <4>5. k >= 1
        BY <4>1 DEF TypeInv, TypeOK, VarTypes
      <4> QED
        BY <4>4, <4>5
    <3> QED
      BY ONLY <2>1, <2>3, <2>5, <2>7, <3>1, m # n, Ordered(m, n)
  <2>8. CASE h # n
    <3>1. \A i \in DOMAIN shown : shown[i][2] = n =>
            \A d \in Channel : \A k \in DOMAIN queue'[d] : queue'[d][k] # m
      BY ONLY <2>2, Ordered(m, n)
    <3> QED
      BY ONLY <2>1, <2>3, <2>5, <2>6, <2>8, <3>1, Ordered(m, n)
  <2> QED
    BY <2>7, <2>8
<1>5. CASE sendText
  <2>1. /\ loop # NotWriting /\ loop' = NotWriting /\ UNCHANGED queue
        /\ \A i \in DOMAIN shown' :
              \/ i \in DOMAIN shown /\ shown'[i] = shown[i]
              \/ shown'[i][2] = loop.msg /\ i = Len(shown) + 1
    BY <1>5, Showing
  <2>2. \A i \in DOMAIN shown : i < Len(shown) + 1
    BY DEF TypeInv, TypeOK, VarTypes
  <2> QED
    BY ONLY <2>1, <2>2, m # n, Ordered(m, n)
<1> QED
  BY <1>1, <1>2, <1>3, <1>4, <1>5, WhatMoves

LEMMA OrderStep ==
  ASSUME TypeInv, LifeInv, OnceInv, OrderInv, [OpenNext]_vars PROVE OrderInv'
<1> SUFFICES ASSUME NEW n \in Message, NEW m \in prior'[n]
             PROVE  /\ m # n /\ pc'[m] = "done"
                    /\ chan'[m] = chan'[n] /\ {m, n} \cap retried' = {} => Ordered(m, n)'
  BY DEF OrderInv
<1>1. prior' \in [Message -> SUBSET Message]
  BY SingleChatTypes DEF TypeInv, TypeOK, VarTypes
<1>2. m \in Message
  BY <1>1
<1>3. m # n /\ pc[m] = "done"
  BY PriorSteps DEF OrderInv
<1>4. pc'[m] = "done"
  BY <1>2, <1>3, DoneStays
<1>5. ASSUME chan'[m] = chan'[n], m \notin retried', n \notin retried' PROVE Ordered(m, n)'
  <2>1. m \notin retried /\ n \notin retried
    BY <1>5, RetriesStay
  <2>2. Life(m) /\ Life(n) /\ Once(m) /\ Once(n) /\ Stage(m)
    BY <1>2 DEF LifeInv, OnceInv, TypeInv, TypeOK
  <2>3. req[m] = "done" /\ ~writeAndFlush(m)
    BY <1>3, <2>2 DEF Stage, writeAndFlush
  <2>4. chan'[m] = chan[m]
    BY <1>2, <2>1, <2>3, ChannelsStay
  <2>5. CASE ~Away(n) /\ writeAndFlush(n)
    <3>1. UNCHANGED <<loop, shown>> /\ ~InLoop(n) /\ \A i \in DOMAIN shown : ~ShownAt(n, i)
      BY <2>5, Writing DEF Away
    <3>2. /\ \A c \in Channel : \A i \in DOMAIN queue'[c] :
               /\ queue'[c][i] = n => i = Len(queue[c]) + 1
               /\ queue'[c][i] = m => i \in DOMAIN queue[c]
      BY <1>2, <1>3, <2>5, Writing DEF Away, Queued
    <3>3. \A c \in Channel : \A i \in DOMAIN queue[c] : i < Len(queue[c]) + 1
      BY DEF TypeInv, TypeOK, VarTypes
    <3> QED
      BY ONLY <3>1, <3>2, <3>3 DEF Ordered, Queued, InLoop, ShownAt
  <2>6. CASE ~Away(n) /\ ~writeAndFlush(n)
    <3>1. ~Away(n)'
      BY <2>6, AwayStep
    <3> QED
      BY ONLY <3>1 DEF Ordered, Away
  <2>7. CASE Away(n)
    <3>1. m \in prior[n]
      BY <1>2, <2>2, <2>7, PriorSteps DEF Life
    <3>2. chan'[n] = chan[n]
      BY <2>1, <2>7, ChannelsStay
    <3>3. Ordered(m, n)
      BY <1>5, <2>1, <2>4, <3>1, <3>2 DEF OrderInv
    <3>4. ~writeAndFlush(n)
      BY <2>1, <2>2, <2>7 DEF Life, writeAndFlush
    <3> QED
      BY <1>2, <1>3, <1>5, <2>1, <2>2, <2>3, <2>4, <3>2, <3>3, <3>4, OrderKept
  <2> QED
    BY <2>5, <2>6, <2>7
<1> QED
  BY <1>3, <1>4, <1>5

LEMMA OrderHolds == OpenSpec => []InOrder
<1> DEFINE All == TypeInv /\ LifeInv /\ PageInv /\ Right /\ OnceInv
<1>1. Init => OrderInv
  BY DEF Init, OrderInv
<1>2. All /\ OrderInv /\ [OpenNext]_vars => OrderInv'
  BY OrderStep
<1>3. All /\ OrderInv => InOrder
  BY DEF OrderInv, Ordered, InOrder, ShownAt
<1>4. OpenSpec => []All
  BY ChatHolds
<1> HIDE DEF All
<1> QED
  BY <1>1, <1>2, <1>3, <1>4, PTL DEF OpenSpec

(* InOrder of SingleChat: of two calls, one after the other, whose messages  *)
(* were written to the same connection, the later is not shown before the    *)
(* earlier, unless a post was sent again.                                    *)
THEOREM ShownInOrder == Spec => []InOrder
  BY OrderHolds, SpecIsOpen, PTL
----------------------------------------------------------------------------
(* What was written to an open connection is not lost: it can only go from   *)
(* the buffers to the loop, and from the loop to a page of the recipient.    *)

InHand(m) == loop # NotWriting /\ loop.chan = chan[m] /\ loop.msg = m

Written(m) == req[m] = "done" /\ chan[m] # None /\ link[chan[m]] = "open"

Kept(m) == \/ \E i \in DOMAIN queue[chan[m]] : queue[chan[m]][i] = m
           \/ InHand(m) \/ m \in Shown \/ HasLeft(to[m])

(* The channel of an entry or of a post is one whose LOGIN has been read, so *)
(* that no LOGIN opens it.                                                   *)
Connected == /\ \A s \in Server, u \in User :
                  CHANNEL_MAP[s][u] # None => LoggedIn(CHANNEL_MAP[s][u])
             /\ \A m \in Message : chan[m] # None => LoggedIn(chan[m])

KeepInv == Connected /\ \A m \in Message : Written(m) => Kept(m)

LEMMA LinkSteps ==
  ASSUME TypeInv, [OpenNext]_vars, NEW c \in Channel, LoggedIn(c)
  PROVE  LoggedIn(c)' /\ (link'[c] = "open" => link[c] = "open")
<1>1. link \in [Channel -> Link]
  BY DEF TypeInv, TypeOK, VarTypes
<1>2. CASE AnyEnvironment
  BY <1>2, EnvironmentKeeps
<1>3. CASE ~AnyEnvironment
  <2>1. UNCHANGED link \/ \E d \in Channel : link' = [link EXCEPT ![d] = "closed"]
    <3>1. CASE sendText
      BY <3>1 DEF sendText, closeLink, TypeInv, TypeOK, VarTypes
    <3>2. UNCHANGED link \/ sendText \/ \E d \in Channel : channelRead0(d)
      BY <1>3 DEF OpenNext, Chat, vars, links, EventLoop, sendSingleMessage, getRouteInfoByUser,
                  NoRoute, getId, sendMessage, writeAndFlush, Publish, PostFails, PostAgain,
                  PublishFails, onConnectionOpen, Leave, onClose
    <3> QED
      BY <3>1, <3>2 DEF channelRead0, closeLink
  <2> QED
    BY ONLY <1>1, <2>1, c \in Channel, LoggedIn(c) DEF LoggedIn
<1> QED
  BY <1>2, <1>3

LEMMA ConnectedStep == ASSUME TypeInv, Connected, [OpenNext]_vars PROVE Connected'
<1>1. /\ CHANNEL_MAP \in [Server -> [User -> Channel \cup {None}]]
      /\ chan \in [Message -> Channel \cup {None}]
      /\ server \in [Message -> Server \cup {None}] /\ to \in [Message -> User \cup {None}]
      /\ \A m \in Message : req[m] = "pending" => server[m] \in Server /\ to[m] \in User
  BY DEF TypeInv, TypeOK, VarTypes, Stage
<1>2. /\ \A s \in Server, u \in User : CHANNEL_MAP[s][u] # None =>
           link'[CHANNEL_MAP[s][u]] \in {"open", "closed"}
      /\ \A m \in Message : chan[m] # None => link'[chan[m]] \in {"open", "closed"}
  BY <1>1, LinkSteps DEF Connected, LoggedIn
<1>3. CASE UNCHANGED <<CHANNEL_MAP, chan>>
  BY ONLY <1>2, <1>3 DEF Connected, LoggedIn
<1>4. CASE AnyEnvironment
  <2>1. /\ chan' = chan
        /\ \A s \in Server, u \in User :
             \/ CHANNEL_MAP'[s][u] \in {CHANNEL_MAP[s][u], None}
             \/ \E c \in Channel : CHANNEL_MAP'[s][u] = c /\ LoggedIn(c)'
    BY <1>4, EnvironmentKeeps DEF AnyEnvironment, push
  <2> QED
    BY ONLY <1>2, <2>1 DEF Connected, LoggedIn
<1>5. ASSUME NEW m \in Message, sendMessage(m) PROVE Connected'
  <2>1. /\ req[m] = "pending" /\ CHANNEL_MAP' = CHANNEL_MAP
        /\ chan' = [chan EXCEPT ![m] = CHANNEL_MAP[server[m]][to[m]]]
    BY <1>5 DEF sendMessage, tables
  <2>2. server[m] \in Server /\ to[m] \in User
    BY <1>1, <2>1
  <2>3. \A n \in Message : chan'[n] \in {chan[n], CHANNEL_MAP[server[m]][to[m]]}
    BY ONLY <1>1, <2>1
  <2> QED
    BY ONLY <1>2, <2>1, <2>2, <2>3 DEF Connected, LoggedIn
<1> QED
  BY <1>3, <1>4, <1>5
  DEF OpenNext, Chat, vars, push, tables, EventLoop, sendSingleMessage, getRouteInfoByUser,
      NoRoute, getId, writeAndFlush, Publish, PostFails, PostAgain, PublishFails, channelRead0,
      sendText, onConnectionOpen, Leave, onClose

LEMMA LeftStays ==
  ASSUME TypeInv, [OpenNext]_vars, NEW u, HasLeft(u) PROVE HasLeft(u)'
<1>1. PICK p \in Page : page[p] \in {"gone", "closed"} /\ viewer[p] = u
  BY DEF HasLeft
<1>2. page \in [Page -> {"new", "open", "gone", "closed"}]
  BY DEF TypeInv, TypeOK, VarTypes
<1>3. viewer'[p] = u
  BY <1>1, ViewersStay
<1>4. page'[p] \in {"gone", "closed"}
  BY <1>1, <1>2, PageSteps DEF onConnectionOpen, First, Leave, onClose
<1> QED
  BY <1>3, <1>4 DEF HasLeft

(* A message that is handled stays with its recipient and its channel, until *)
(* its post is taken up again.                                               *)
LEMMA WrittenBefore ==
  ASSUME TypeInv, Connected, [OpenNext]_vars, NEW m \in Message, Written(m)'
  PROVE  /\ to'[m] = to[m] /\ chan'[m] = chan[m] /\ chan[m] \in Channel
         /\ Written(m) \/ (writeAndFlush(m) /\ link[chan[m]] = "open")
<1>1. /\ chan \in [Message -> Channel \cup {None}] /\ chan' \in [Message -> Channel \cup {None}]
      /\ req \in [Message -> {"none", "pending", "write", "done"}]
      /\ to \in [Message -> User \cup {None}] /\ Stage(m)
      /\ pc \in [Message -> {"new", "getId", "post", "done", "failed"}]
  BY SingleChatTypes DEF TypeInv, TypeOK, VarTypes
<1>2. req'[m] = "done" /\ chan'[m] # None /\ link'[chan'[m]] = "open"
  BY DEF Written
<1>3. /\ to'[m] = to[m] /\ chan'[m] = chan[m]
      /\ req[m] = "done" \/ writeAndFlush(m)
  <2>1. CASE UNCHANGED <<to, chan, req>>
    BY <1>2, <2>1
  <2>2. ASSUME NEW n \in Message, NEW u \in User, getRouteInfoByUser(n, u) PROVE <1>3
    BY <1>1, <1>2, <2>2 DEF getRouteInfoByUser, First, Stage, push
  <2>3. ASSUME NEW n \in Message, getId(n) PROVE <1>3
    BY <1>1, <1>2, <2>3 DEF getId
  <2>4. ASSUME NEW n \in Message, sendMessage(n) PROVE <1>3
    BY <1>1, <1>2, <2>4 DEF sendMessage, call
  <2>5. ASSUME NEW n \in Message, writeAndFlush(n) PROVE <1>3
    BY <1>1, <1>2, <2>5 DEF writeAndFlush, call
  <2>6. ASSUME NEW n \in Message, PostFails(n) PROVE <1>3
    BY <1>1, <1>2, <2>6 DEF PostFails, call
  <2>7. ASSUME NEW n \in Message, PostAgain(n) PROVE <1>3
    BY <1>1, <1>2, <2>7 DEF PostAgain, call
  <2> QED
    BY <2>1, <2>2, <2>3, <2>4, <2>5, <2>6, <2>7, SenderSteps
    DEF sendSingleMessage, NoRoute, Publish, PublishFails, call, push
<1>4. chan[m] \in Channel /\ link[chan[m]] = "open"
  BY <1>1, <1>2, <1>3, LinkSteps DEF Connected
<1> QED
  BY <1>2, <1>3, <1>4 DEF Written

LEMMA KeepStep ==
  ASSUME TypeInv, Right, KeepInv, [OpenNext]_vars, NEW m \in Message, Written(m)'
  PROVE  Kept(m)'
<1>1. /\ to'[m] = to[m] /\ chan'[m] = chan[m] /\ chan[m] \in Channel
      /\ Written(m) \/ (writeAndFlush(m) /\ link[chan[m]] = "open")
  BY WrittenBefore DEF KeepInv
<1>2. /\ queue \in [Channel -> Seq(Message)] /\ shown \in Seq(Page \X Message)
      /\ loop \in {NotWriting} \cup [chan : Channel, msg : Message, page : Page]
      /\ page \in [Page -> {"new", "open", "gone", "closed"}]
      /\ link \in [Channel -> Link]
  BY DEF TypeInv, TypeOK, VarTypes
<1>3. link'[chan[m]] = "open"
  BY <1>1 DEF Written
<1> DEFINE k == chan[m]
<1>4. CASE writeAndFlush(m)
  <2>1. queue' = [queue EXCEPT ![k] = Append(@, m)] /\ UNCHANGED <<chan, link>>
    BY <1>1, <1>4 DEF writeAndFlush, Written, links
  <2>2. queue'[k][Len(queue[k]) + 1] = m /\ Len(queue[k]) + 1 \in DOMAIN queue'[k]
    BY <1>1, <1>2, <2>1
  <2> QED
    BY <2>1, <2>2 DEF Kept
<1>5. CASE ~writeAndFlush(m)
  <2>1. Kept(m)
    BY <1>1, <1>5 DEF KeepInv
  <2>2. CASE HasLeft(to[m])
    <3>1. PICK u : u = to[m]
      OBVIOUS
    <3>2. HasLeft(u) /\ to'[m] = u
      BY <1>1, <2>2, <3>1
    <3>3. HasLeft(u)'
      BY <3>2, LeftStays
    <3> QED
      BY <3>2, <3>3 DEF Kept, HasLeft
  <2>3. CASE m \in Shown
    <3>1. PICK i \in DOMAIN shown : shown[i][2] = m
      BY <2>3 DEF Shown
    <3>2. i \in DOMAIN shown' /\ shown'[i] = shown[i]
      <4>1. CASE UNCHANGED shown
        BY <3>1, <4>1
      <4>2. ASSUME NEW e, shown' = Append(shown, e)
            PROVE  i \in DOMAIN shown' /\ shown'[i] = shown[i]
        BY <1>2, <3>1, <4>2
      <4> QED
        BY <4>1, <4>2, WhatMoves DEF sendText, writeAndFlush, channelRead0, AnyEnvironment
    <3>3. m \in Shown'
      BY <3>1, <3>2 DEF Shown
    <3> QED
      BY <3>3 DEF Kept
  <2>4. ASSUME NEW i \in DOMAIN queue[k], queue[k][i] = m PROVE Kept(m)'
    <3>1. CASE UNCHANGED <<queue, loop, shown>>
      BY <1>1, <2>4, <3>1 DEF Kept
    <3>2. ASSUME NEW n \in Message, writeAndFlush(n) PROVE Kept(m)'
      <4>1. queue' = queue \/ queue' = [queue EXCEPT ![chan[n]] = Append(@, n)]
        BY <3>2 DEF writeAndFlush
      <4>2. queue'[k] = queue[k] \/ queue'[k] = Append(queue[k], n)
        BY <1>1, <1>2, <4>1
      <4>3. i \in DOMAIN queue'[k] /\ queue'[k][i] = m
        <5>1. queue[k] \in Seq(Message)
          BY <1>1, <1>2
        <5> HIDE DEF k
        <5> QED
          BY ONLY <2>4, <4>2, <5>1
      <4> QED
        BY <1>1, <4>3 DEF Kept
    <3>3. CASE AnyEnvironment
      <4>1. queue'[k] = queue[k]
        BY <1>1, <1>3, <3>3, EnvironmentKeeps
      <4> QED
        BY <1>1, <2>4, <4>1 DEF Kept
    <3>4. ASSUME NEW c \in Channel, channelRead0(c) PROVE Kept(m)'
      <4>1. queue[c] # <<>> /\ queue' = [queue EXCEPT ![c] = Tail(@)]
        BY <3>4 DEF channelRead0
      <4>2. CASE c # k
        <5>1. queue'[k] = queue[k]
          BY <1>1, <1>2, <4>1, <4>2
        <5> QED
          BY <1>1, <2>4, <5>1 DEF Kept
      <4>3. CASE c = k /\ i # 1
        <5>1. queue'[k] = Tail(queue[k]) /\ queue[k] \in Seq(Message)
          BY <1>1, <1>2, <4>1, <4>3
        <5>2. i - 1 \in DOMAIN queue'[k] /\ queue'[k][i - 1] = m
          <6> HIDE DEF k
          <6> QED
            BY ONLY <2>4, <4>3, <5>1
        <5> QED
          BY <1>1, <5>2 DEF Kept
      <4>4. CASE c = k /\ i = 1
        <5>1. Head(queue[c]) = m
          BY <1>1, <1>2, <2>4, <4>1, <4>4
        <5>2. loop' = [chan |-> c, msg |-> m, page |-> CLIENT_SESSION_MAP[to[m]]]
          <6>1. ~closeLink(c)
            BY <1>1, <1>2, <1>3, <4>4 DEF closeLink
          <6> QED
            BY <3>4, <5>1, <6>1 DEF channelRead0
        <5>3. InHand(m)'
          <6>1. loop' # NotWriting
            BY <5>2, NoneIsNothing, BoundsAreNat DEF NotWriting, Message
          <6> QED
            BY <1>1, <4>4, <5>2, <6>1 DEF InHand
        <5> QED
          BY <5>3 DEF Kept
      <4> QED
        BY <4>2, <4>3, <4>4
    <3>5. CASE sendText
      BY <1>1, <2>4, <3>5 DEF sendText, Kept
    <3> QED
      BY <3>1, <3>2, <3>3, <3>4, <3>5, WhatMoves
  <2>5. CASE InHand(m)
    <3>1. CASE UNCHANGED loop
      BY <1>1, <2>5, <3>1 DEF InHand, Kept
    <3>2. CASE sendText
      <4> DEFINE p == loop.page
      <4>1. /\ loop # NotWriting /\ loop.chan = k /\ loop.msg = m
            /\ p \in Page /\ page[p] # "new" /\ viewer[p] = to[m]
        BY <1>2, <2>5 DEF InHand, Right
      <4>2. CASE page[p] = "open"
        <5> DEFINE P == Page \X Message
                   e == <<p, m>>
        <5>1. shown' = Append(shown, e) /\ shown \in Seq(P) /\ e \in P /\ e[2] = m
          BY <1>2, <3>2, <4>1, <4>2 DEF sendText
        <5> HIDE DEF P, e
        <5>2. Len(shown) + 1 \in DOMAIN shown' /\ shown'[Len(shown) + 1] = e
          BY ONLY <5>1
        <5>3. m \in Shown'
          BY <5>1, <5>2 DEF Shown
        <5> QED
          BY <5>3 DEF Kept
      <4>3. CASE page[p] # "open"
        <5>1. page[p] \in {"gone", "closed"}
          BY <1>2, <4>1, <4>3
        <5>2. HasLeft(to[m])
          BY <4>1, <5>1 DEF HasLeft
        <5> QED
          BY <2>2, <5>2
      <4> QED
        BY <4>2, <4>3
    <3> QED
      BY <2>5, <3>1, <3>2, WhatMoves DEF InHand, writeAndFlush, channelRead0, AnyEnvironment
  <2> QED
    BY <2>1, <2>2, <2>3, <2>4, <2>5 DEF Kept
<1> QED
  BY <1>4, <1>5

LEMMA KeepHolds == OpenSpec => []OpenLosesNothing
<1> DEFINE All == TypeInv /\ LifeInv /\ PageInv /\ Right /\ OnceInv
<1>1. Init => KeepInv
  BY NoneIsNothing, BoundsAreNat DEF Init, KeepInv, Connected, Written
<1>2. All /\ KeepInv /\ [OpenNext]_vars => KeepInv'
  <2> SUFFICES ASSUME All, KeepInv, [OpenNext]_vars PROVE KeepInv'
    OBVIOUS
  <2>1. Connected'
    BY ConnectedStep DEF KeepInv
  <2>2. ASSUME NEW m \in Message, Written(m)' PROVE Kept(m)'
    BY <2>2, KeepStep
  <2> QED
    BY <2>1, <2>2 DEF KeepInv
<1>3. KeepInv => OpenLosesNothing
  BY DEF KeepInv, Written, Kept, InHand, OpenLosesNothing
<1>4. OpenSpec => []All
  BY ChatHolds
<1> HIDE DEF All
<1> QED
  BY <1>1, <1>2, <1>3, <1>4, PTL DEF OpenSpec

(* OpenLosesNothing of SingleChat: a message written to a connection that is *)
(* still up is in its buffers, with the loop, or was shown, unless its       *)
(* recipient has left a page.                                                *)
THEOREM NothingLost == Spec => []OpenLosesNothing
  BY KeepHolds, SpecIsOpen, PTL
----------------------------------------------------------------------------
(* Every safety property of SingleChat holds with any gateway and any        *)
(* servers that keep RouteTable and SessionTable, not only with the ones of  *)
(* Next, which lose one connection, entry or route at a time: what           *)
(* sendSingleMessage and the event loop promise rests on the two contracts.  *)
THEOREM SafeWithAnyParts ==
  OpenSpec => /\ Implements
              /\ [](/\ TypeOK /\ IdsAreFresh /\ ShownIsPublished /\ ShownRight
                   /\ InOrder /\ LatestPage /\ OpenLosesNothing)
<1>1. TypeInv => TypeOK
  BY DEF TypeInv
<1> QED
  BY <1>1, TypesHold, IdsHold, StoredHolds, RightHolds, OrderHolds, LatestHolds, KeepHolds,
     SenderHolds, PTL
----------------------------------------------------------------------------
(* The whole way, from the call to the rows.                                 *)

PublishedIds == {id[m] : m \in published}
ReportedIds  == {id[m] : m \in Shown}

(* What the store has is published, what it has marked was shown.            *)
RowInv == \A i \in 1 .. MaxId :
  /\ status[i] # "absent" => i \in PublishedIds /\ boxes[i] = Store!OneEach
  /\ status[i] = "received" => i \in ReportedIds

RowTypes == /\ status \in [1 .. MaxId -> {"absent", "unread", "received"}]
            /\ boxes \in [1 .. MaxId -> {Store!NoBoxes, Store!OneEach}]

LEMMA StoreSteps ==
  ASSUME TypeInv, LifeInv, [SystemNext]_systemVars
  PROVE  /\ [OpenNext]_vars
         /\ [Store!Next]_(Store!vars)
         /\ PublishedIds \subseteq PublishedIds' /\ ReportedIds \subseteq ReportedIds'
<1>1. CASE [OpenNext]_vars /\ UNCHANGED rows
  <2>1. [Sender!Next]_(Sender!vars)
    BY <1>1, SenderStep
  <2>2. CASE UNCHANGED Sender!vars
    <3>1. UNCHANGED <<PublishedIds, ReportedIds>>
      BY <2>2 DEF Sender!vars, PublishedIds, ReportedIds
    <3> QED
      BY <1>1, <3>1 DEF Store!vars, PublishedIds, ReportedIds, rows
  <2>3. ASSUME NEW i \in 1 .. MaxId, Sender!Push(i)
        PROVE  /\ [Store!Next]_(Store!vars)
               /\ PublishedIds \subseteq PublishedIds' /\ ReportedIds \subseteq ReportedIds'
    <3>1. UNCHANGED <<PublishedIds, ReportedIds>>
      BY <2>3 DEF Sender!Push, PublishedIds, ReportedIds
    <3> QED
      BY <1>1, <3>1 DEF Store!vars, PublishedIds, ReportedIds, rows
  <2>4. ASSUME NEW i \in 1 .. MaxId, Sender!Publish(i)
        PROVE  /\ [Store!Next]_(Store!vars)
               /\ PublishedIds \subseteq PublishedIds' /\ ReportedIds \subseteq ReportedIds'
    <3>1. PublishedIds' = PublishedIds \cup {i} /\ UNCHANGED ReportedIds
      BY <2>4 DEF Sender!Publish, PublishedIds, ReportedIds
    <3>2. Store!Publish(i)
      BY <1>1, <3>1 DEF Store!Publish, PublishedIds, ReportedIds, rows
    <3> QED
      BY <3>1, <3>2 DEF Store!Next
  <2>5. ASSUME NEW i \in 1 .. MaxId, Sender!Report(i)
        PROVE  /\ [Store!Next]_(Store!vars)
               /\ PublishedIds \subseteq PublishedIds' /\ ReportedIds \subseteq ReportedIds'
    <3>1. ReportedIds' = ReportedIds \cup {i} /\ UNCHANGED PublishedIds
      BY <2>5 DEF Sender!Report, PublishedIds, ReportedIds
    <3>2. Store!Report(i)
      BY <1>1, <3>1 DEF Store!Report, PublishedIds, ReportedIds, rows
    <3> QED
      BY <3>1, <3>2 DEF Store!Next
  <2> QED
    BY <1>1, <2>1, <2>2, <2>3, <2>4, <2>5 DEF Sender!Next
<1>2. CASE Persist
  <2>1. UNCHANGED <<PublishedIds, ReportedIds>>
    BY <1>2 DEF Persist, vars, PublishedIds, ReportedIds, Shown
  <2>2. Store!Next
    BY <1>2 DEF Persist, Store!Next
  <2> QED
    BY <1>2, <2>1, <2>2 DEF Persist
<1> QED
  BY <1>1, <1>2 DEF SystemNext, systemVars

LEMMA RowStep ==
  ASSUME TypeInv, LifeInv, RowTypes, RowInv, [SystemNext]_systemVars
  PROVE  RowTypes' /\ RowInv'
<1>1. PublishedIds \subseteq PublishedIds' /\ ReportedIds \subseteq ReportedIds'
  BY StoreSteps
<1>2. CASE UNCHANGED <<status, boxes>>
  BY <1>1, <1>2 DEF RowTypes, RowInv, Store!OneEach, Store!NoBoxes, Store!BoxType
<1>3. ASSUME NEW i \in 1 .. MaxId, Store!Store(i) PROVE RowTypes' /\ RowInv'
  <2>1. /\ i \in PublishedIds /\ status' = [status EXCEPT ![i] = "unread"]
        /\ boxes' = [boxes EXCEPT ![i] = Store!OneEach]
    BY <1>3 DEF Store!Store, PublishedIds
  <2> QED
    BY <1>1, <2>1 DEF RowTypes, RowInv, Store!OneEach, Store!NoBoxes, Store!BoxType
<1>4. ASSUME NEW i \in 1 .. MaxId, Store!Receive(i) PROVE RowTypes' /\ RowInv'
  <2>1. /\ i \in ReportedIds /\ status[i] = "unread" /\ UNCHANGED boxes
        /\ status' = [status EXCEPT ![i] = "received"]
    BY <1>4 DEF Store!Receive, ReportedIds
  <2> QED
    BY <1>1, <2>1 DEF RowTypes, RowInv, Store!OneEach, Store!NoBoxes, Store!BoxType
<1> QED
  BY <1>2, <1>3, <1>4 DEF SystemNext, systemVars, rows, Persist

(* A system is a chat with rows beside it.                                   *)
LEMMA SystemHolds == SystemSpec => OpenSpec /\ [](RowTypes /\ RowInv)
<1>1. SystemInit => TypeInv /\ LifeInv /\ RowTypes /\ RowInv
  BY SingleChatStarts, LifeStarts
  DEF SystemInit, RowTypes, RowInv
<1>2. TypeInv /\ LifeInv /\ RowTypes /\ RowInv /\ [SystemNext]_systemVars
        => [OpenNext]_vars /\ (TypeInv /\ LifeInv /\ RowTypes /\ RowInv)'
  BY StoreSteps, RowStep, SingleChatTypes, LifeStep
<1>3. SystemInit => Init
  BY DEF SystemInit
<1> QED
  BY <1>1, <1>2, <1>3, PTL DEF SystemSpec, OpenSpec

(* EndToEnd of ChatSystem: a row is the row of one message, whose sender's   *)
(* call published it, and is marked received only after a page of the        *)
(* recipient has shown that message.                                         *)
THEOREM RowsAreRight == SystemSpec => []EndToEnd
<1>1. ASSUME TypeInv, RowInv, IdsAreFresh, ShownRight PROVE EndToEnd
  <2> SUFFICES ASSUME NEW i \in 1 .. MaxId, status[i] # "absent"
               PROVE  \E m \in published :
                        /\ id[m] = i
                        /\ \A n \in Message : id[n] = i => n = m
                        /\ boxes[i] = Store!OneEach
                        /\ status[i] = "received" =>
                             \E j \in DOMAIN shown : shown[j][2] = m /\ viewer[shown[j][1]] = to[m]
    BY DEF EndToEnd
  <2>1. PICK m \in published : id[m] = i
    BY <1>1 DEF RowInv, PublishedIds
  <2>2. m \in Message /\ i # 0
    BY <1>1 DEF TypeInv, TypeOK, VarTypes
  <2>3. \A n \in Message : id[n] = i => n = m
    BY <1>1, <2>1, <2>2 DEF IdsAreFresh
  <2>4. boxes[i] = Store!OneEach
    BY <1>1 DEF RowInv
  <2>5. ASSUME status[i] = "received"
        PROVE  \E j \in DOMAIN shown : shown[j][2] = m /\ viewer[shown[j][1]] = to[m]
    <3>1. PICK n \in Shown : id[n] = i
      BY <1>1, <2>5 DEF RowInv, ReportedIds
    <3>2. PICK j \in DOMAIN shown : shown[j][2] = n
      BY <3>1 DEF Shown
    <3>3. n \in Message
      BY <1>1, <3>2 DEF TypeInv, TypeOK, VarTypes
    <3>4. n = m
      BY <2>3, <3>1, <3>3
    <3> QED
      BY <1>1, <3>2, <3>4 DEF ShownRight
  <2> QED
    BY <2>1, <2>3, <2>4, <2>5
<1> QED
  BY <1>1, SystemHolds, TypesHold, IdsHold, RightHolds, PTL

(* ImplementsLog of ChatSystem: seen from the database, the calls and the    *)
(* pages are producers of ids that are stored once and received for good.    *)
THEOREM SystemImplementsLog == SystemSpec => ImplementsLog
<1>1. SystemInit => Store!Init
  BY DEF SystemInit, Init, Store!Init, Shown
<1>2. TypeInv /\ LifeInv /\ [SystemNext]_systemVars => [Store!Next]_(Store!vars)
  BY StoreSteps
<1> QED
  BY <1>1, <1>2, SystemHolds, LifeHolds, PTL DEF SystemSpec, ImplementsLog, Store!Spec
============================================================================
