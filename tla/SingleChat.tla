----------------------------- MODULE SingleChat -----------------------------
(* A single chat message from the sender's thread in userService to the page *)
(* of its recipient: RouteServiceImpl.sendSingleMessage (route, id, HTTP     *)
(* post, publication), nettyServer's UserServiceImpl.sendMessage (look up    *)
(* the channel, write), MyClientHandler on the event loop of NettyClient,    *)
(* and WsMessageEndPoint with the page sessions.                             *)
(*                                                                           *)
(* Connections, session tables and routes are the environment here, and do   *)
(* what SessionTable and RouteTable allow, which NettyServer and UserGateway *)
(* implement: an entry is the connection whose LOGIN was read last, a route  *)
(* names a server that was sent a LOGIN, not necessarily read, and entry,    *)
(* route and connection can be gone at any time, each without the others.    *)
(* Next has an environment that TLC can enumerate, OpenNext has every one    *)
(* that keeps the two contracts.                                             *)
EXTENDS Integers, Sequences, FiniteSets

CONSTANTS User, Server,
          None,         \* null
          MaxId,        \* Integer.MAX_VALUE
          MaxMessages,  \* bound: messages sent, numbered in the order of their calls
          MaxChannels,  \* bound: logins, numbered in their order
          MaxPages,     \* bound: page sessions, numbered in the order they open
          MaxFaults     \* bound: posts and publications that fail, posts sent again,
                        \* losses of connections, entries and routes

Message == 1 .. MaxMessages
Channel == 1 .. MaxChannels
Page    == 1 .. MaxPages
Link    == {"new", "sent", "open", "lost", "closed"}

ASSUME NoneIsNothing == None \notin User \cup Server \cup Nat
ASSUME BoundsAreNat == /\ MaxId \in Nat /\ MaxMessages \in Nat /\ MaxChannels \in Nat
                       /\ MaxPages \in Nat /\ MaxFaults \in Nat

VARIABLES
  pc,          \* pc[m]: where the sender's thread is
  to, server,  \* to[m]: the recipient; server[m]: the server its route named
  id,          \* id[m]: msgId, 0 before there is one
  prior,       \* history: prior[m], the calls that had returned when m's began
  req, chan,   \* req[m]: nettyServer's handling of the post, with its channel
  idGen,       \* Redis idGen
  link, owner, at, \* connections: new, sent (a LOGIN not yet read), open, lost
                   \* (closed with its LOGIN unread) or closed; user and server
  queue,       \* queue[c]: messages written to c and not yet read
  CHANNEL_MAP, \* SessionSocketHolder of every nettyServer: user -> channel
  route,       \* Redis user-route:<u>
  loop,        \* the loop is writing message msg, read from chan, to page
  CLIENT_SESSION_MAP, \* WsMessageEndPoint: user -> page session
  page, viewer,       \* page[p]: new, open, gone (onClose due) or closed; its user
  shown,       \* what the pages have shown, in order: <<page, message>>
  published,   \* messages in single_topic
  broken,      \* history: messages whose post or publication failed
  retried,     \* history: messages whose post was sent again
  losses

call    == <<to, server, id, prior>>
push    == <<req, chan>>
links   == <<link, owner, at>>
tables  == <<CHANNEL_MAP, route>>
pages   == <<CLIENT_SESSION_MAP, page, viewer>>
history == <<broken, retried, losses>>
vars == <<pc, to, server, id, prior, req, chan, idGen, link, owner, at, queue,
          CHANNEL_MAP, route, loop, CLIENT_SESSION_MAP, page, viewer, shown,
          published, broken, retried, losses>>

NotWriting == [chan |-> None, msg |-> None, page |-> None]

Init == /\ pc = [m \in Message |-> "new"]
        /\ to = [m \in Message |-> None]
        /\ server = [m \in Message |-> None]
        /\ id = [m \in Message |-> 0]
        /\ prior = [m \in Message |-> {}]
        /\ req = [m \in Message |-> "none"]
        /\ chan = [m \in Message |-> None]
        /\ idGen \in 0 .. MaxId
        /\ link = [c \in Channel |-> "new"]
        /\ owner = [c \in Channel |-> None]
        /\ at = [c \in Channel |-> None]
        /\ queue = [c \in Channel |-> <<>>]
        /\ CHANNEL_MAP = [s \in Server |-> [u \in User |-> None]]
        /\ route = [u \in User |-> None]
        /\ loop = NotWriting
        /\ CLIENT_SESSION_MAP = [u \in User |-> None]
        /\ page = [p \in Page |-> "new"]
        /\ viewer = [p \in Page |-> None]
        /\ shown = <<>>
        /\ published = {}
        /\ broken = {} /\ retried = {} /\ losses = 0
----------------------------------------------------------------------------
(* Connections, tables and routes, as the other modules leave them.          *)

First(state, x) == state[x] = "new" /\ \A y \in DOMAIN state : y < x => state[y] # "new"

\* A login has connected and sends its LOGIN.
Login(c, u, s) ==
  /\ First(link, c)
  /\ link' = [link EXCEPT ![c] = "sent"]
  /\ owner' = [owner EXCEPT ![c] = u]
  /\ at' = [at EXCEPT ![c] = s]
  /\ UNCHANGED <<pc, call, push, idGen, queue, tables, loop, pages, shown, published, history>>

\* Mutant: the LOGIN of a lost connection opens it.
ReadLogin_Reopens(c) ==
  /\ link[c] \in {"sent", "lost"}
  /\ link' = [link EXCEPT ![c] = "open"]
  /\ CHANNEL_MAP' = [CHANNEL_MAP EXCEPT ![at[c]][owner[c]] = c]
  /\ UNCHANGED <<pc, call, push, idGen, owner, at, queue, route, loop, pages, shown,
                 published, history>>

\* The LOGIN is read, which can be after the loss of its connection: the entry
\* of an earlier one goes.
ReadLogin(c) ==
  /\ link[c] \in {"sent", "lost"}
  /\ link' = [link EXCEPT ![c] = IF @ = "sent" THEN "open" ELSE "closed"]
  /\ CHANNEL_MAP' = [CHANNEL_MAP EXCEPT ![at[c]][owner[c]] = c]
  /\ UNCHANGED <<pc, call, push, idGen, owner, at, queue, route, loop, pages, shown,
                 published, history>>

\* The login saves its route, which can be before its LOGIN is read and after
\* the loss of its connection.
savaUserRouteInfo(c) ==
  /\ link[c] # "new"
  /\ route[owner[c]] # at[c]
  /\ route' = [route EXCEPT ![owner[c]] = at[c]]
  /\ UNCHANGED <<pc, call, push, idGen, links, queue, CHANNEL_MAP, loop, pages, shown,
                 published, history>>

MayFail == Cardinality(broken) + Cardinality(retried) + losses < MaxFaults

Lost == MayFail /\ losses' = losses + 1

\* Expiry, or the loss of a connection of u has been handled.
DropRoute(u) == /\ route[u] # None
                /\ Lost
                /\ route' = [route EXCEPT ![u] = None]
                /\ UNCHANGED <<pc, call, push, idGen, links, queue, CHANNEL_MAP, loop,
                               pages, shown, published, broken, retried>>

DropEntry(s, u) == /\ CHANNEL_MAP[s][u] # None
                   /\ Lost
                   /\ CHANNEL_MAP' = [CHANNEL_MAP EXCEPT ![s][u] = None]
                   /\ UNCHANGED <<pc, call, push, idGen, links, queue, route, loop,
                                  pages, shown, published, broken, retried>>

\* What has arrived at the loop is still read, the end of the rest is lost.
Cut(c) == \E n \in 0 .. Len(queue[c]) :
            queue' = [queue EXCEPT ![c] = SubSeq(@, 1, n)]

DropLink(c) == /\ link[c] \in {"sent", "open"}
               /\ Lost
               /\ link' = [link EXCEPT ![c] = IF @ = "sent" THEN "lost" ELSE "closed"]
               /\ Cut(c)
               /\ UNCHANGED <<pc, call, push, idGen, owner, at, tables, loop, pages,
                              shown, published, broken, retried>>
----------------------------------------------------------------------------
(* The sender's thread: sendSingleMessage.                                   *)

Goto(m, l) == pc' = [pc EXCEPT ![m] = l]

getRouteInfoByUser(m, u) ==
  /\ First(pc, m)
  /\ route[u] # None
  /\ to' = [to EXCEPT ![m] = u]
  /\ server' = [server EXCEPT ![m] = route[u]]
  /\ prior' = [prior EXCEPT ![m] = {n \in Message : pc[n] = "done"}]
  /\ Goto(m, "getId")
  /\ UNCHANGED <<id, push, idGen, links, queue, tables, loop, pages, shown, published, history>>

\* Without a route, zkUtils.parse(null) throws: m is neither pushed nor stored.
NoRoute(m, u) ==
  /\ First(pc, m)
  /\ route[u] = None
  /\ Goto(m, "failed")
  /\ UNCHANGED <<call, push, idGen, links, queue, tables, loop, pages, shown, published,
                 history>>

\* Mutant: the counter is cast to int, and wraps.
getId_Wraps(m) ==
  /\ pc[m] = "getId"
  /\ idGen' = idGen + 1
  /\ id' = [id EXCEPT ![m] = ((idGen' + MaxId + 1) % (2 * (MaxId + 1))) - (MaxId + 1)]
  /\ req' = [req EXCEPT ![m] = "pending"]
  /\ Goto(m, "post")
  /\ UNCHANGED <<to, server, prior, chan, links, queue, tables, loop, pages, shown,
                 published, history>>

\* Mutant: publish, then post.
getId_PublishFirst(m) ==
  /\ pc[m] = "getId"
  /\ idGen' = idGen + 1 /\ idGen' <= MaxId
  /\ id' = [id EXCEPT ![m] = idGen']
  /\ req' = [req EXCEPT ![m] = "pending"]
  /\ published' = published \cup {m}
  /\ Goto(m, "post")
  /\ UNCHANGED <<to, server, prior, chan, links, queue, tables, loop, pages, shown,
                 history>>

\* INCR idGen; Math.toIntExact throws past 2^31 - 1. The post starts.
getId(m) ==
  /\ pc[m] = "getId"
  /\ idGen' = idGen + 1
  /\ IF idGen' > MaxId
     THEN Goto(m, "failed") /\ UNCHANGED <<id, req>>
     ELSE /\ id' = [id EXCEPT ![m] = idGen']
          /\ req' = [req EXCEPT ![m] = "pending"]
          /\ Goto(m, "post")
  /\ UNCHANGED <<to, server, prior, chan, links, queue, tables, loop, pages, shown,
                 published, history>>

\* Refused, reset or timed out: response is null in the finally block, which
\* throws. nettyServer may get to the request all the same.
PostFails(m) == /\ pc[m] = "post"
                /\ MayFail
                /\ Goto(m, "failed")
                /\ broken' = broken \cup {m}
                /\ req' \in {req, [req EXCEPT ![m] = IF @ = "pending" THEN "none" ELSE @]}
                /\ UNCHANGED <<call, chan, idGen, links, queue, tables, loop, pages,
                               shown, published, retried, losses>>

\* The connection breaks before the answer: OkHttp sends the request again.
PostAgain(m) == /\ pc[m] = "post" /\ req[m] = "done"
                /\ MayFail /\ m \notin retried
                /\ req' = [req EXCEPT ![m] = "pending"]
                /\ retried' = retried \cup {m}
                /\ UNCHANGED <<pc, call, chan, idGen, links, queue, tables, loop, pages,
                               shown, published, broken, losses>>

\* Mutant: the response does not wait for the write.
Publish_Early(m) == /\ pc[m] = "post" /\ req[m] \in {"write", "done"}
                    /\ Goto(m, "done")
                    /\ published' = published \cup {m}
                    /\ UNCHANGED <<call, push, idGen, links, queue, tables, loop, pages,
                                   shown, history>>

\* Mutant: online recipients' messages are not published.
Publish_NotStored(m) ==
  /\ pc[m] = "post" /\ req[m] = "done"
  /\ Goto(m, "done")
  /\ published' = IF chan[m] = None THEN published \cup {m} ELSE published
  /\ UNCHANGED <<call, push, idGen, links, queue, tables, loop, pages, shown, history>>

\* The response is 200 whatever sendMessage did.
Publish(m) == /\ pc[m] = "post" /\ req[m] = "done"
              /\ Goto(m, "done")
              /\ published' = published \cup {m}
              /\ UNCHANGED <<call, push, idGen, links, queue, tables, loop, pages, shown,
                             history>>

\* kafkaTemplate.send throws, or gives the record up later.
PublishFails(m) == /\ pc[m] = "post" /\ req[m] = "done"
                   /\ MayFail
                   /\ Goto(m, "failed")
                   /\ broken' = broken \cup {m}
                   /\ UNCHANGED <<call, push, idGen, links, queue, tables, loop, pages,
                                  shown, published, retried, losses>>
----------------------------------------------------------------------------
(* nettyServer: SendMessageController and UserServiceImpl.sendMessage, on a  *)
(* servlet thread.                                                           *)

\* Without a channel, it returns.
sendMessage(m) ==
  LET c == CHANNEL_MAP[server[m]][to[m]] IN
  /\ req[m] = "pending"
  /\ chan' = [chan EXCEPT ![m] = c]
  /\ req' = [req EXCEPT ![m] = IF c = None THEN "done" ELSE "write"]
  /\ UNCHANGED <<pc, call, idGen, links, queue, tables, loop, pages, shown, published, history>>

\* Mutant: write without flush.
writeAndFlush_NoFlush(m) ==
  /\ req[m] = "write"
  /\ req' = [req EXCEPT ![m] = "done"]
  /\ UNCHANGED <<pc, call, chan, idGen, links, queue, tables, loop, pages, shown, published,
                 history>>

\* A write to a closed channel fails, and its listener only logs.
writeAndFlush(m) ==
  /\ req[m] = "write"
  /\ req' = [req EXCEPT ![m] = "done"]
  /\ queue' = IF link[chan[m]] = "open" THEN [queue EXCEPT ![chan[m]] = Append(@, m)]
                                        ELSE queue
  /\ UNCHANGED <<pc, call, chan, idGen, links, tables, loop, pages, shown, published, history>>
----------------------------------------------------------------------------
(* MyClientHandler.channelRead0 and sendMessageForClient, on the one event   *)
(* loop. An exception ends in exceptionCaught, which closes the connection.  *)

closeLink(c) == link' = [link EXCEPT ![c] = "closed"]

\* The session of the recipient; without one, a NullPointerException.
channelRead0(c) ==
  LET m == Head(queue[c])
      p == CLIENT_SESSION_MAP[to[m]] IN
  /\ loop = NotWriting
  /\ queue[c] # <<>>
  /\ queue' = [queue EXCEPT ![c] = Tail(@)]
  /\ IF p = None
     THEN closeLink(c) /\ UNCHANGED loop
     ELSE loop' = [chan |-> c, msg |-> m, page |-> p] /\ UNCHANGED link
  /\ UNCHANGED <<pc, call, push, idGen, owner, at, tables, pages, shown, published, history>>

\* Mutant: the message goes to every page, as in sendMessageForAllClient.
sendText_All ==
  /\ loop # NotWriting
  /\ \E p \in Page : /\ page[p] = "open"
                     /\ shown' = Append(shown, <<p, loop.msg>>)
  /\ loop' = NotWriting
  /\ UNCHANGED <<pc, call, push, idGen, links, queue, tables, pages, published, history>>

\* A page that has gone takes the text and shows nothing; a session that was
\* closed throws.
sendText ==
  /\ loop # NotWriting
  /\ shown' = IF page[loop.page] = "open" THEN Append(shown, <<loop.page, loop.msg>>)
                                          ELSE shown
  /\ IF page[loop.page] = "closed" THEN closeLink(loop.chan) ELSE UNCHANGED link
  /\ loop' = NotWriting
  /\ UNCHANGED <<pc, call, push, idGen, owner, at, queue, tables, pages, published, history>>
----------------------------------------------------------------------------
(* The pages.                                                                *)

onConnectionOpen(p, u) ==
  /\ First(page, p)
  /\ page' = [page EXCEPT ![p] = "open"]
  /\ viewer' = [viewer EXCEPT ![p] = u]
  /\ CLIENT_SESSION_MAP' = [CLIENT_SESSION_MAP EXCEPT ![u] = p]
  /\ UNCHANGED <<pc, call, push, idGen, links, queue, tables, loop, shown, published, history>>

\* The browser leaves or reloads the page; userService hears of it later.
Leave(p) == /\ page[p] = "open"
            /\ page' = [page EXCEPT ![p] = "gone"]
            /\ UNCHANGED <<pc, call, push, idGen, links, queue, tables, loop,
                           CLIENT_SESSION_MAP, viewer, shown, published, history>>

\* Mutant: the entry is removed under the id that onConnectionOpen uses.
onClose_ById(p) ==
  /\ page[p] = "gone"
  /\ page' = [page EXCEPT ![p] = "closed"]
  /\ CLIENT_SESSION_MAP' = [CLIENT_SESSION_MAP EXCEPT ![viewer[p]] = None]
  /\ UNCHANGED <<pc, call, push, idGen, links, queue, tables, loop, viewer, shown,
                 published, history>>

\* There is no "userId" in the token, and remove(null) throws: the entry stays.
onClose(p) == /\ page[p] = "gone"
              /\ page' = [page EXCEPT ![p] = "closed"]
              /\ UNCHANGED <<pc, call, push, idGen, links, queue, tables, loop,
                             CLIENT_SESSION_MAP, viewer, shown, published, history>>

Shown == {shown[i][2] : i \in DOMAIN shown}

----------------------------------------------------------------------------
\* The sender's thread waits while the servlet thread is at work: there is one
\* step to take at a time.
sendSingleMessage(m) == getId(m) \/ sendMessage(m) \/ writeAndFlush(m) \/ Publish(m)

EventLoop == sendText \/ \E c \in Channel : channelRead0(c)

Environment ==
  \/ \E c \in Channel : \/ \E u \in User, s \in Server : Login(c, u, s)
                        \/ ReadLogin(c) \/ savaUserRouteInfo(c) \/ DropLink(c)
  \/ \E u \in User : DropRoute(u) \/ \E s \in Server : DropEntry(s, u)

Chat ==
  \/ \E m \in Message : \/ \E u \in User : getRouteInfoByUser(m, u) \/ NoRoute(m, u)
                        \/ sendSingleMessage(m)
                        \/ PostFails(m) \/ PostAgain(m) \/ PublishFails(m)
  \/ EventLoop
  \/ \E p \in Page : \/ \E u \in User : onConnectionOpen(p, u)
                     \/ Leave(p) \/ onClose(p)

Next == Environment \/ Chat

Spec == Init /\ [][Next]_vars

\* Some thread or the event loop always runs. Logins, pages and users promise
\* nothing, and neither does what can fail.
Running == EventLoop \/ \E m \in Message : sendSingleMessage(m)

Fairness == WF_vars(Running)

FairSpec == Spec /\ Fairness
----------------------------------------------------------------------------
(* Any gateway and any servers that keep their contracts.                    *)

LoggedIn(c) == link[c] \in {"open", "closed"}

Gateway == INSTANCE RouteTable WITH
  link <- [c \in Channel |-> IF link[c] = "sent" THEN "open"
                            ELSE IF link[c] = "lost" THEN "closed" ELSE link[c]]

Table(s) == INSTANCE SessionTable WITH
  link  <- [c \in Channel |-> IF at[c] = s /\ LoggedIn(c) THEN link[c] ELSE "new"],
  owner <- [c \in Channel |-> IF at[c] = s /\ LoggedIn(c) THEN owner[c] ELSE None],
  entry <- CHANNEL_MAP[s]

WithinContracts ==
  /\ UNCHANGED Gateway!vars \/ Gateway!Next
  /\ \A s \in Server : UNCHANGED Table(s)!vars \/ Table(s)!Next

\* What a queue can lose is the end of what was written to a connection that is
\* not up any more.
QueuesOnlyCut == /\ queue' \in [Channel -> Seq(Message)]
                 /\ \A c \in Channel :
                      \/ queue'[c] = queue[c]
                      \/ /\ link'[c] # "open"
                         /\ \E n \in 0 .. Len(queue[c]) : queue'[c] = SubSeq(queue[c], 1, n)

AnyEnvironment ==
  /\ UNCHANGED <<pc, call, push, idGen, loop, pages, shown, published, broken, retried>>
  /\ link' \in [Channel -> Link]
  /\ CHANNEL_MAP' \in [Server -> [User -> Channel \cup {None}]]
  /\ losses' \in Nat
  /\ QueuesOnlyCut
  /\ WithinContracts

OpenNext == AnyEnvironment \/ Chat

OpenSpec == Init /\ [][OpenNext]_vars
----------------------------------------------------------------------------
\* A nettyServer has started on m's post.
Handled(m) == req[m] \in {"write", "done"} \/ m \in retried

Sender == INSTANCE Delivery WITH
            Id <- 1 .. MaxId,
            pushed <- {id[m] : m \in {n \in Message : Handled(n)}},
            published <- {id[m] : m \in published},
            reported <- {id[m] : m \in Shown}

VarTypes ==
  /\ pc \in [Message -> {"new", "getId", "post", "done", "failed"}]
  /\ to \in [Message -> User \cup {None}]
  /\ server \in [Message -> Server \cup {None}]
  /\ id \in [Message -> Int]
  /\ prior \in [Message -> SUBSET Message]
  /\ req \in [Message -> {"none", "pending", "write", "done"}]
  /\ chan \in [Message -> Channel \cup {None}]
  /\ idGen \in Nat
  /\ link \in [Channel -> Link]
  /\ owner \in [Channel -> User \cup {None}]
  /\ at \in [Channel -> Server \cup {None}]
  /\ queue \in [Channel -> Seq(Message)]
  /\ CHANNEL_MAP \in [Server -> [User -> Channel \cup {None}]]
  /\ route \in [User -> Server \cup {None}]
  /\ loop \in {NotWriting} \cup [chan : Channel, msg : Message, page : Page]
  /\ CLIENT_SESSION_MAP \in [User -> Page \cup {None}]
  /\ page \in [Page -> {"new", "open", "gone", "closed"}]
  /\ viewer \in [Page -> User \cup {None}]
  /\ shown \in Seq(Page \X Message)
  /\ published \subseteq Message
  /\ broken \subseteq Message /\ retried \subseteq Message
  /\ losses \in Nat

Stage(m) ==
  /\ pc[m] \in {"getId", "post", "done"} => server[m] # None
  /\ server[m] # None => to[m] # None
  /\ pc[m] \in {"new", "getId"} => req[m] = "none"
  /\ req[m] = "write" => chan[m] # None
  /\ pc[m] = "done" => req[m] = "done"
  /\ req[m] # "none" => server[m] # None

(* Type correctness; a post has the server it goes to, a write its channel,  *)
(* and nothing is published while nettyServer is still at it.                *)
TypeOK == VarTypes /\ \A m \in Message : Stage(m)

(* No two messages get the same id, none gets an id used before (idGen       *)
(* outlives the processes), and none gets one that is not a positive int:    *)
(* ids are the primary key saveMessage drops duplicates by.                  *)
IdsAreFresh == \A m \in Message : id[m] # 0 =>
  /\ id[m] \in 1 .. MaxId
  /\ \A n \in Message \ {m} : id[n] # id[m]

(* What a recipient has seen is stored, or its sender is still at it, or the *)
(* post or publication of that very message failed: with the recipient, the  *)
(* connection or the page gone half-way, a message is published all the same *)
(* and one that sendSingleMessage returned for always is.                    *)
ShownIsPublished == \A m \in Message :
  /\ m \in Shown => m \in published \cup broken \/ pc[m] = "post"
  /\ pc[m] = "done" => m \in published

(* Messages reach only pages of their recipient, and a page once, unless the *)
(* HTTP client sent the post again.                                          *)
ShownRight == \A i \in DOMAIN shown :
  /\ viewer[shown[i][1]] = to[shown[i][2]]
  /\ \A j \in DOMAIN shown :
       i # j /\ shown[i][2] = shown[j][2] => shown[i][2] \in retried

(* When the call for m had returned before the call for n began and both     *)
(* were written to the same connection, n is not shown before m, although    *)
(* the calls ran on different threads, two servers' threads and the loop are *)
(* in between and pages come and go.                                         *)
InOrder == \A n \in Message : \A m \in prior[n] :
  chan[m] = chan[n] /\ {m, n} \cap retried = {} =>
  \A i, j \in DOMAIN shown : shown[i][2] = n /\ shown[j][2] = m => j < i

(* The page of a user that opened last gets the messages as long as it is    *)
(* open: the onClose of the page it replaced, which may come after its       *)
(* onConnectionOpen (a reload), takes nothing away from it.                  *)
LatestPage == \A p \in Page :
  page[p] = "open" /\ (\A q \in Page : q > p => viewer[q] # viewer[p])
  => CLIENT_SESSION_MAP[viewer[p]] = p

HasLeft(u) == \E p \in Page : page[p] \in {"gone", "closed"} /\ viewer[p] = u

(* A message that was written to a connection that is still up is in the     *)
(* buffers of that connection, in the hands of the loop that reads it, or    *)
(* was shown, unless the recipient has left a page: whoever else's page is   *)
(* missing or closed, and however often connections, entries and pages of    *)
(* others come and go, nothing on an open connection gets lost on the way.   *)
OpenLosesNothing == \A m \in Message :
  req[m] = "done" /\ chan[m] # None /\ link[chan[m]] = "open" =>
    \/ \E i \in DOMAIN queue[chan[m]] : queue[chan[m]][i] = m
    \/ loop # NotWriting /\ loop.chan = chan[m] /\ loop.msg = m
    \/ m \in Shown
    \/ HasLeft(to[m])

(* SingleChat implements Delivery: what MessageStore takes for granted of    *)
(* its producers holds of the code that writes single_topic and makes        *)
(* pages show what they then report as read.                                 *)
Implements == Sender!Spec

(* The environment above does nothing that the contracts of the gateway and  *)
(* of the servers do not allow, and neither do the event loop and the pages, *)
(* which close connections that the gateway and a server have open: the      *)
(* components fit, whoever loses a connection first and although a LOGIN may *)
(* be read after its connection is gone.                                     *)
KeepsContracts == [][WithinContracts]_vars

Reachable(u, c, p) == /\ link[c] = "open" /\ owner[c] = u
                      /\ CHANNEL_MAP[at[c]][u] = c
                      /\ CLIENT_SESSION_MAP[u] = p /\ page[p] = "open"

(* A message for a user who is logged in and has a page open is shown there, *)
(* unless the user stops being reachable or the call itself fails: messages  *)
(* of other users, whose pages may be missing, do not get in its way.        *)
ReachableIsShown == [](\A m \in Message, c \in Channel, p \in Page :
  pc[m] = "getId" /\ Reachable(to[m], c, p) /\ server[m] = at[c]
  => <>(\/ <<p, m>> \in {shown[i] : i \in DOMAIN shown}
        \/ ~Reachable(to[m], c, p)
        \/ pc[m] = "failed"))
============================================================================
