# Verification of im-chat

im-chat is an instant messaging system in Java: web pages talk to `userService`
over a WebSocket, `userService` keeps one long TCP (Netty) connection per login
to a `nettyServer`, single chat messages travel from the sender's `userService`
over HTTP to the recipient's `nettyServer` and over the Netty connection back to
the recipient's `userService` and page, and in parallel through Kafka to
`nettyConsumer`, which stores them in MySQL. This directory holds TLA+ models of
its parts, TLC configurations that check them on small instances, and proofs of
their main theorems that TLAPS checks for all instances.

Paths are relative to the repository's source tree; `NC/` stands for
`nettyCommon/src/main/java/com/wwm/nettycommon/`.

## 1. Inventory

| Component | State | Operations | What makes it hard | What makes it correct |
|---|---|---|---|---|
| Message consumer: `nettyConsumer/.../SingleConsumer`, `NC/service/impl/UserServiceImpl.saveMessage` | topics `single_topic`, `single_topic_read`, consumer group offsets; tables `im_msg_content`, `im_user_msg_box`; Redis `is_exists:<mid>` | `singleConsumer`, `singleConsumerRead`, `saveMessage` | at-least-once delivery, rebalances and zombies, crash between save and acknowledge, two topics with no common order, TTL, `nack` plus `acknowledge` | a message is stored once, never lost behind a commit; a receipt takes effect once its message is there |
| Session table: `nettyServer/.../MyNettyServerHandler`, `NC/session/SessionSocketHolder`, `NC/handler/RouteHandler`, `HeartBeatHandler` | `CHANNEL_MAP`, `SESSION_MAP`, reader time of each channel | LOGIN, PING, `channelInactive`, reader idle, `userOffLine` | event loops interleave on shared maps; check-then-act removal; a remote call in the middle | the entry of a user is the latest connection, dead connections have none, hanging peers are evicted |
| Push: `SendMessageController`, `UserServiceImpl.sendMessage` | none of its own | look up the channel, write | channel closed or replaced after the look-up | a message goes to the current connection or is known to be undelivered |
| Sending: `NC/service/impl/RouteServiceImpl.sendSingleMessage` | Redis `user-route:<uid>`, `idGen` | look up the route, take an id, HTTP post, publish | a failing post, a stale or missing route, 32 bit id | every accepted message is published, pushed or not |
| Login and connections: `UserServiceImpl.login/connectNettyServer`, `NC/nettyClient/*`, `ClientSessionSocketHolder`, `ClientHearBeatHandler` | client channel and session maps, the single event loop thread, the route in Redis | login, LOGIN message, close, reconnect | half-done logins, a reconnect that blocks the loop it waits for, close before registration | a logged-in user has a live connection and a route to its server |
| Page sessions: `NC/websocket/WsMessageEndPoint` | `CLIENT_SESSION_MAP` | open, close, message in, message out | a page that reloads, a close that finds nothing, a missing session that throws on the event loop | the page opened last gets the messages |
| Server registry and cache: `NC/utils/ZkUtils`, `NC/cache/ServerCache`, `CommonBizUtils`, `ZkListener`, `NettyServerApplication` | ephemeral nodes, the Guava cache, the user name cache | register, list, rebuild, check | watch events against request threads, a cache that refills from itself, restart within the session timeout | logins find the servers that run; the cache follows ZooKeeper (it does not: run `cache_stale`), and a rebuild loses no server |
| Script loader of the pages: `layui/layui.js`, `login.html`, `index.html` | modules asked for, exports, the ready list | `use`, `define`, polling, the ready list | scripts that fail or depend on each other in a circle, callbacks that call `use` or throw | a callback finds its modules, is called once and in order, and no use hangs for another's script |
| Snowflake ids: `NC/utils/SnowFlakeUtil` | last timestamp, sequence | `nextId` | clock going back, sequence overflow, shifts | ids are unique and grow |
| Wire protocol: `NC/protocol/*` | decoder buffer | encode, decode | frames that arrive in pieces | what is decoded is what was sent |
| Token check: `userService/.../CheckTokenInterceptor`, `JwtUtils` | the thread's user | `preHandle`, `afterCompletion` | a pooled thread keeping the last user | a request runs as the user of its token |
| Group chat: `RouteServiceImpl.sendGroupMessage`, `GroupConsumer` | group cache | builds local maps only | (unfinished) | - |
| Contact lists: `UserServiceImpl.initUserInfo`, `getGroupMemberList` | none | read-only queries | early returns that drop part of the answer | the answer is the join it stands for |
| Not program logic | - | controllers, entities, mappers, DTOs, exception texts, generator, void `nettyClent`, layim pages | - | - |

How they interact: calls within `userService`; HTTP from `userService` to
`nettyServer` (push) and Feign from `nettyServer` to `userService` (clear the
route); Netty messages LOGIN, PING, single chat; Kafka from `userService` to
`nettyConsumer`; shared state in Redis, MySQL and ZooKeeper; WebSocket and HTTP
from the page, which posts a read receipt as soon as it shows a message.

The hazards, each at its line and with the properties that are about it, are
listed in `PROJECT.json`.

## 2. Plan

1. `MessageLog`, `MessageStore`, `MessageStoreProofs`: the persistence path, the
   one promise the system makes to its users. **Done.**
2. `SessionTable`, `NettyServer`, `NettyServerProofs`: the session table. **Done.**
3. `RouteTable`, `UserGateway`, `UserGatewayProofs`: login, client tables, the event loop of
   `NettyClient`, reconnect, the Redis route. **Done.**
4. `Delivery`, `SingleChat`: composes the route of 3 (as `RouteTable`), the table of 2
   (as `SessionTable`), the page sessions and the publication of 1: id, post, push,
   page, publish. `Delivery` is what 1 takes for granted of its producers. **Done.**
5. `ServerRegistry`: ephemeral nodes, sessions, restart, concurrent rebuilds of the
   cache. **Done.**
6. `SnowFlake`, `FrameCodec`, `TokenCheck`, `PageLoader`: the remaining parts with
   state of their own. **Done.**
7. `SingleChatProofs`, `PageLoaderProofs`, `SnowFlakeProofs`, `FrameCodecProofs`,
   `PartsProofs` (`ServerRegistry`, `TokenCheck` and the sum): every safety property and every
   refinement of the modules of 4, 5 and 6. **Done.**
8. The contracts between the parts: `NettyServer` implements `SessionTable`,
   `UserGateway` implements `RouteTable`, `SingleChat` implements `Delivery`,
   `MessageStore` implements `MessageLog`, each proved. **Done.**
9. The parts put together: `SingleChat` is safe with any gateway and any servers that
   keep the contracts of 8 (`OpenSpec`), and `ChatSystem`, which adds the store as
   `MessageLog` promises it, is right from the sender's call to the rows. **Done.**

Liveness stays with TLC (section 5). Still open: the weak consistency of Guava's
iterators in `ServerRegistry`.

## 3. Modules

### MessageLog (abstract) and MessageStore

`MessageLog` is what the persistence side promises: a published message is
stored at most once, with one mailbox row for its sender and one for its
recipient, and is marked received only after a receipt, for good.

`MessageStore` is the code that has to keep the promise.

| TLA+ | Code |
|---|---|
| `PostToServer`, `Publish`, `updateMessageRead` | `sendSingleMessage` (post, then publish) and the page's receipt, as producers of the two topics |
| `GetById`, `InsertContent`, `InsertBoxes`, `CommitSave` | `saveMessage`, statement by statement inside its transaction |
| `DuplicateKey` | the primary key of `MsgContent` |
| `SetExists`, `AckSave` | the rest of `singleConsumer` |
| `GetExists`, `UpdateReceived`, `AckRead`, `LeaveRead` | `singleConsumerRead`, with `nack` not followed by a return |
| `SaveFails`, `ReadFails` | an exception of MySQL or Redis in the listener, `ReadFails` at the `get` or at the update: spring-kafka 2.3.2 logs it and goes on with the next record |
| `Expire` | the 10 s TTL of `is_exists:<mid>` |
| `Assign`, `Poll`, `Revoke`, `Crash`, `Acknowledge`, `NextRecord`, `SeekBack` | Kafka's consumer group and the listener container under the settings of `nettyConsumer`'s `application.yml` |

Both producers always write partition 0, so a topic is one sequence; each
listener is one thread per process. An instance that lost a partition goes on
with the batch it has: its effects on MySQL and Redis are real, its commits are
refused. An insert locks its row until the transaction ends; a reader of
`getById` sees committed rows only, the receipt's UPDATE waits for the lock.
`skipped` is a history variable: the messages whose `singleConsumer` call failed.

### SessionTable (abstract) and NettyServer

`SessionTable` is what one nettyServer promises to those who push messages: a
connection logs in once, for one user, and becomes the user's entry; connections and
entries can be lost at any time, in any number and each without the other, and what
was lost does not come back. `NettyServer` is the code. It implements `SessionTable`
with a connection `new` until its LOGIN is read and `closed` once its socket is not
open; `ReadLogin` is `Login`, `RemoveKey`, `Close` and the rest are losses or stutter.

One action per map operation, because that is where event loops interleave; the
callbacks of one channel run in sequence.

| TLA+ | Code |
|---|---|
| `Connect` | `NettyClient.initUserConnectServer` and `loginNettyServer`, the peer |
| `ReadLogin` (`put`), `saveSession` | LOGIN in `MyNettyServerHandler.channelRead0` |
| `ReadPing`, `Elapse` | PING and the age of `NettyAttrUtil`'s reader time |
| `process` | `HeartBeatHandler.process`, called on READER_IDLE |
| `channelInactive`, `getUserId`, `userOffLine`, `removeSession`, `clearRouteInfo`, `ClearRouteFails` | the offline handling of a channel, with the Feign call |
| `Filter`, `FilterEmpty`, `RemoveKey` | `SessionSocketHolder.remove`: stream filter by value, then removal by key |
| `Close`, `Vanish` | the peer closes, an exception closes, or the peer's event loop hangs with its socket up (it writes to pages synchronously, so one slow page can do that) |

`latest` (channel of a user's last LOGIN) and `failed` (channels whose
`channelInactive` ended in a throw) are history variables. What the Feign call
does in `userService` is left out; here it returns or throws.

### RouteTable (abstract) and UserGateway

`RouteTable` is what the gateway promises to those who send messages: a route names
the server at which a login of that very user was sent its LOGIN, over a connection
that may be lost by then. `UserGateway` implements it with a connection `new` until
LOGIN is sent on it (`sent`); `loginNettyServer` is `Login`, `savaUserRouteInfo` is
`SaveRoute`, `userOffLine`, `Expire`, `Drop` and `Crash` are losses.

Request threads and one event loop share the client tables and the routes. Every
login has a connection and a `User` object (its request body) of its own, so one
identity stands for the three, and `SESSION_MAP` maps a user to the login whose
object it holds. A connect that fails counts as one of `UserFailCount` attempts, 10 in
every `User` (`NC/entity/User.java:85`), so the early return of
`initUserConnectServer` at lines 44-48, which a count of one would take, is not
modelled.

| TLA+ | Code |
|---|---|
| `connectNettyServer`, `loginNettyServer`, `ConnectFails`, `saveSession`, `put`, `checkServerAvailable`, `savaUserRouteInfo`, `LoginFails` | the request thread: `UserServiceImpl.login` to `savaUserRouteInfo`, with `NettyClient.initUserConnectServer` |
| `Established`, `Refused` | the loop completes the connect that `sync()` waits for; only between two callbacks |
| `Drop`, `channelInactive` | the connection is lost, and the handler gets to it |
| `setReconnect`, `userOffLine`, `OffLineFails`, `remove`, `Reconnect`, `restore` | `ClientHearBeatHandler.process`, its `finally` included |
| `Expire` | the five days of `RedisUtil.setStr` |
| `Crash` | the process dies: tables and connections go, routes stay |

`process` runs on the loop it would need for its own `connect().sync()`: Netty
refuses to wait there and throws, so `Reconnect` goes straight to `finally`, and the
queued connection comes up later with nobody knowing it (`orphans`). Two map calls
are one step where no other thread touches what lies between them: `remove` and the
three assignments of `restore` (only the loop touches the entry of a lost
connection and the marks). `missed` is a history variable, the connections whose
loss cleared no route: lost before `put` (the handler finds no user and throws),
handled before the login saved its route, lost with Redis failing, or with the
process. `unrouted` is another: the connections whose login threw before it saved its
route, or whose route expired.

### Delivery (abstract) and SingleChat

`Delivery` says that a message id is published to `single_topic`, or reported as
read, only after the message was handed to a nettyServer, and leaves the order of
the two open: this is the environment `MessageStore` assumes (`PostToServer`,
`Publish`, `updateMessageRead`). `SingleChat` is the code.

| TLA+ | Code |
|---|---|
| `getRouteInfoByUser`, `NoRoute`, `getId`, `Publish`, `PublishFails` | `RouteServiceImpl.sendSingleMessage` on the thread of the sender's WebSocket |
| `PostFails`, `PostAgain` | the HTTP call: `ProxyManager`, `HttpClient.call` with a default `OkHttpClient`, which repeats a request whose pooled connection breaks |
| `sendMessage`, `writeAndFlush` | `SendMessageController` and `UserServiceImpl.sendMessage` in `nettyServer`, the look-up and the write |
| `channelRead0`, `sendText`, `closeLink` | `MyClientHandler` on the one event loop of `NettyClient`, and `sendMessageForClient` |
| `onConnectionOpen`, `onClose` | `WsMessageEndPoint` |
| `Login`, `savaUserRouteInfo`, `DropRoute` | what `UserGateway` does to connections and routes, as `RouteTable` says it |
| `ReadLogin`, `DropEntry` | what each `NettyServer` does to its entries, as `SessionTable` says it |
| `DropLink` | the loss of a connection, before or after its LOGIN is read; a LOGIN that has arrived when the connection is lost (`lost`) is read all the same |
| `Leave` | the browser closes or reloads the page |

`Next` is `Environment`, what the gateway and the servers do, or `Chat`, the senders,
the loop and the pages. A connection is seen from both ends: `Gateway` is the view of
`RouteTable`, for which it is open once LOGIN is sent (`sent`), and `Table(s)` the view
of `SessionTable` at server `s`, for which it is new until LOGIN is read (`open`); in
between, a route can be saved and a message posted. `KeepsContracts` says that every
step is a step of all these views. `OpenNext` replaces `Environment` by
`AnyEnvironment`: any change of connections, entries and routes the contracts allow,
any number at once, with queues of connections that are not up cut anywhere. The
actions of `Environment` are what TLC runs; the proofs are about `OpenSpec`, whose
environment the code is one case of, since `UserGateway` implements `RouteTable` and
`NettyServer` implements `SessionTable`.

Messages, connections and pages are numbered in the order they begin, so identity
stands for age. The response is 200 whatever `sendMessage` did, and waits for the
write to be queued, not to be done. `broken`, `retried`, `losses` are history and
share one bound, of which posts and publications that fail, repeated posts and losses
draw. The acceptance of a message by `receiveClientMessage` is the first
step, `getRouteInfoByUser` or `NoRoute`.

### ChatSystem

The whole path of a message: `SingleChat` with any gateway and any servers (`OpenNext`),
and the rows of MySQL with the steps `MessageLog` allows (`Persist`: `saveMessage` is
`Store`, the update of a receipt is `Receive`), where the ids published and reported are
those of the messages `SingleChat` has published and shown. The store knows ids only;
`EndToEnd` says what its rows mean: each is one message, sent under that id, and is
marked received only when a page of that message's recipient has shown it.
`ImplementsLog` says that the system as a whole is a `MessageLog`.

No run checks this module: its specification has the open environment, whose steps TLC
would have to draw from all functions of connections and entries, and it repeats each
state of `chat` for every stage of the rows. Both properties are theorems. With `Next`
in place of `OpenNext`, TLC finds `EndToEnd` true in the 1,163,265 states of the
instance of `chat`.

### PageLoader

`layui.js` is two long lines: the loader (line 1) and the jQuery of layui with its
`Callbacks` (line 2).

| TLA+ | Code |
|---|---|
| `use`, `Use`, `Missing`, `Asked` | `layui.use`: the first module of the list that is not there, a script of its own or polling |
| `Load`, `LoadNothing`, `LoadFails` | the script runs and calls `layui.define`, its load event goes to the use that sent for it; nothing listens to the error event |
| `Poll` | the timer of 4 ms, whose limit is tested before the module is looked for |
| `RunFactory` | a `define` that is through runs its factory, which exports the module or throws before it does |
| `Add`, `DomReady`, `Fire`, `Return`, `Throw` | `jQuery(callback)` and the ready list: `Callbacks("once memory")`, which calls its functions in a loop that an exception leaves |

Modules built into `layui.js` are available from the start. A script calls `define`
once, as those in `layui/lay/modules` do. `holdReady` is never used by the pages.
The module follows `login.html`; `index.html` loads a jQuery from elsewhere, which
`use` takes instead of layui's own, so the ready list there is that library's.

### ServerRegistry

| TLA+ | Code |
|---|---|
| `Start`, `createEphemeral` | `NettyServerApplication.run`; a node that is still there makes the runner throw, which closes the application context and its ZooKeeper session, but not the threads of Netty (`MyNettyServer` never shuts them down): the process stays as a `stray`, with its port open and unregistered, until it is killed |
| `Stop`, `Die`, `ExpireDead`, `ExpireLive` | shutdown, death, and ZooKeeper's session timeout; Curator opens a new session for a server that runs, and nothing listens for that to register it again |
| `childEvent`, `checkServerAvailable` | the two callers of `rebuildCacheList`: Curator's event thread and a login whose server does not answer |
| `Size`, `GetChildren`, `GetChildrenFails`, `addCache`, `Copy`, `InvalidateAll` | `getServerList` and `updateCache`, one action per operation on the cache or ZooKeeper |

`kept`, `seen`, `overlapped` and `lapsed` are history variables: of the last rebuild,
what it found (in the cache or in ZooKeeper) as far as ZooKeeper has listed it ever
since, and everything that ZooKeeper has listed at some time since it began. A rebuild
should leave a cache between the two: `RebuildKeeps` is the lower bound and holds,
`CacheFollows` the upper one and does not.

### SnowFlake, FrameCodec, TokenCheck

`SnowFlake`: `nextId` (synchronized, so one call at a time) with its wait
`getNextMillis`, while the clock is set to anything at any moment. Times count from
`INIT_EPOCH`, and the shifts are multiplications by the sizes of the fields.
`FrameCodec`: `encode` and `decode` with a buffer that grows by pieces of any size;
the length is an int of four bytes in base `Base`, read back with its sign;
`decode` is called as long as it makes progress, as `ByteToMessageDecoder` does.
`TokenCheck`: the `ThreadLocal` of a pooled thread through requests with a token,
pre-flight requests, and the login, which is excluded from the interceptor.

### MCParts

`NettyServer` and the five components above share no state with each other, so a
product of their instances would only multiply states: `MCParts` is their sum. A
behaviour belongs to one component, chosen in the initial state; the others do not move.

## 4. Runs

| Run | Instance | Shows |
|---|---|---|
| `safety` | 2 messages, 2 consumers, 2 records, 1 receipt, 1 error, 1 rebalance or crash, TTL may elapse | `TypeOK`, `CommittedIsSettled`, `CommitsAdvance`, `Implements` |
| `live` | 2 messages, 2 consumers, 2 records, 1 receipt, 1 rebalance or crash | `PublishedIsStored`, `ReportIsRecorded` |
| `save_lost` | 2 messages, 1 consumer, 1 error | `CommittedIsStored` fails: an error in one save is skipped and the next commit passes it |
| `read_blocked` | 2 messages, 1 consumer, TTL may elapse | `ReportIsRecorded` fails: a receipt after the TTL is nacked for ever and blocks the others |
| `read_lost` | 2 messages, 1 consumer, 1 crash | `CommittedIsReceived` fails: `acknowledge` after `nack` commits a receipt that had no effect |
| `gateway` | 2 users, 2 logins, 2 servers, 1 failure, 1 crash | `TypeOK`, `LossesAreHandled`, `RouteIsBacked`, `RouteIsKept`, `LoginEnds`, `ImplementsRoutes` |
| `reconnect` | 1 login, no failure but the loss of its connection | `Reconnects` fails: `process` ends without LOGIN and without a route |
| `chat` | 2 users, 1 server, 2 messages, 1 login, 2 pages, 1 fault, ids up to 2 | `TypeOK`, `IdsAreFresh`, `ShownIsPublished`, `ShownRight`, `InOrder`, `LatestPage`, `OpenLosesNothing`, `Implements`, `KeepsContracts`, `ReachableIsShown` |
| `parts` | session table: 2 users, 2 connections; 2 modules and 1 built-in, 3 uses, 2 polls; 2 servers, 2 sessions, 2 rebuilding threads; 2 ids per ms, 4 clock values, 5 ids; 3 frames out of 3; 2 threads, 2 users | `TypeOK`, `GoneIsUnmapped`, `ActiveIsMapped`, `NamesMatch`, `PingedIsClosed`, `ImplementsTable` of the session table; `PartsTypeOK`; `DependenciesFirst`, `CalledInOrder`, `NobodyForgotten`, `UseEnds`; `RunningIsListed`, `RebuildKeeps`; `IdsIncrease`, `TimeDecodes`; `DecodedIsPrefix`, `NothingHeldBack`; `RunsAsCaller` |
| `cache_stale` | 2 servers, 1 session | `CacheFollows` fails: a server that left ZooKeeper stays in the cache, which a rebuild fills from itself |
| `login_lost` | 1 user, 2 connections | `LoginLasts` fails: the removal by key takes the entry of a newer LOGIN |
| `silent` | 1 user, 1 connection | `SilentIsClosed` fails: a peer that hangs before its first PING is never closed |

Why the bounds are enough. Two consumers and two records of the same or
of different messages give every pair of a zombie and a successor on the same
record, a duplicate by retry, and a batch of one or two; one rebalance or crash
is enough for the redelivery of anything; a third record would repeat these
situations at a higher offset, which the proofs cover for any number (of receipts
too: `safety` has one). Two
records per receipt topic are needed for one receipt to block another. In the session
table of `parts`, two connections are an old and a new login of one user or two users'
connections, or one of them never sends a LOGIN, as what the reconnect of
`UserGateway` opens; in `gateway`, two logins are enough for one to replace the
object and the route of the other at every step of the loop. The safety properties
of both are proved for any number. In `chat`, `idGen` starts anywhere up to its
limit, so two messages are enough for it to run out; two messages of one sender or
of two, to the same recipient or not, over one connection are what order, mixing up
and the loss of the queue behind a failed push need, and two pages are a reload, or
an owner and a stranger. One fault leaves the rest of the path intact, which is what
`ReachableIsShown` and the properties with an exception for "that very message" are
about; several faults at once, such as a repeated post and a connection lost in
between, are covered by the proofs. One login: that a second replaces the first is
covered by the proofs too, and by the session table of `parts`. In the
other parts, the lists make a module depend on a built-in one, on another module or on itself, two
modules on each other, and a module that nobody else has asked for; three uses are
one that sends for a script, one that polls for it and one from within a callback;
two sessions are a server and its hurried successor, or one that loses its session;
four clock values on both sides of the epoch let the clock run, stop and go back
during a wait; the frames are an empty one, one of one byte, and one that looks like
a length, cut at every byte; with two values to a byte (`Base`), their lengths take
several of the four bytes. Symmetry is used
in `safety` and `login_lost` only, which have no liveness property. Deadlock is not checked: the
producers and the connections are bounded, so a run of the model ends.

Fairness. `MessageStore`: listener threads keep running, `poll` returns records
when there are any, and the coordinator assigns a partition nobody owns.
Producers, errors, rebalances, crashes and the TTL promise nothing; a transaction
that waits for a row lock is not enabled, and weak fairness is enough because the
holder always releases it. `NettyServer`: event loops run, time passes, and
READER_IDLE keeps firing (`IdleStateHandler(20, 0, 0)` reschedules itself) while
nothing is read. Peers promise nothing. `UserGateway`: request threads and the
loop run (a push to a page that hangs delays the loop, but a WebSocket send has a
time limit in Tomcat), and a connect is established or refused in the end (it has a
timeout); new logins, losses, failures and the TTL promise nothing. `SingleChat`: weak
fairness of "some sender's thread or the event loop takes a step", which is weaker
than fairness of each thread and enough, because every one of them comes to an end;
users, pages and everything that can fail promise nothing. A post does not wait for
ever: the servlet thread that handles it never blocks, and `OkHttpClient` has a
timeout, which is one of the failures. `PageLoader`: the browser goes on with some
task while it has one. Nothing in the other parts is fair: connections may stop,
ZooKeeper may be slow, servers, logins and rebuilds promise nothing.

`ReportIsRecorded` is conditional: a receipt of a message that is never
published is nacked for ever by design, and `read_lost` shows what losing the
partition does. `live` runs with a TTL that does not elapse, `read_blocked` shows
what happens when it does.

Not a run of its own: with `ClearRouteFails` a channel whose `clearRouteInfo` call
throws in `channelInactive` keeps its entry for good (`RouteHandler` calls it
before the removal, lines 38 and 42). `GoneIsUnmapped` therefore excepts exactly
those channels.

Not runs of their own either, but visible in the models, most of them as exceptions
of a property:

- A message whose recipient has no route, or whose post fails, is neither pushed nor
  stored (`NoRoute`, `PostFails`), although `RouteServiceImpl.java:148` speaks of
  storing offline messages: `response` is null in the `finally` block, and
  `zkUtils.parse(null)` throws. `ShownIsPublished` states what is left.
- A closed page is never evicted although `WsMessageEndPoint.java:78` says so:
  `onClose` looks for `userId`, which the token does not have, and `remove(null)`
  throws. The next message to that user closes the user's connection. Were it to
  evict by user id, a reload would evict the new page: the mutant of `LatestPage`.
- Rebuilds of the cache that overlap can lose a server that ZooKeeper lists:
  `RebuildKeeps` speaks of those that do not. Logins list ZooKeeper and read the cache
  only to find it empty, so neither this nor `cache_stale` keeps a user from a server.
- A removal that races with a LOGIN of the same user leaves a name with no entry
  (`NamesMatch` asks for two connections of one user).
- The loss of an old connection deletes the route of a user who has logged in again
  since (`userOffLine` compares nothing): `RouteIsKept` says that nothing else does, the
  losses of other users and overlapping logins in particular.
- A message posted before the recipient's LOGIN is read goes to the entry of an older
  connection, or to nobody, and is published all the same.
- A server whose session expired while it runs is not found by logins
  (`RunningIsListed` excepts it by `lapsed`), and neither is one that was restarted
  before the session of its predecessor expired: its `create()` fails, and it stays
  `down` or a `stray`. What `RunningIsListed` says is that no server takes the node of
  its predecessor for its own.
- `nettyServer`'s Feign call of `userOffLine` carries no token, and
  `CheckTokenInterceptor` covers `/api/**`: the route is not cleared that way.

## 5. Proofs

The eight proof modules hold for every value of the constants and need only the
assumptions named in the component modules: the bounds are natural numbers, `None`
is a value of its own, the fields of a Snowflake id fit its base, the bytes of a
message are bytes and their number fits a Java int (`FrameCodec` is proved for bytes
of any number of values).

`MessageStoreProofs`

- `TypeCorrect`: types, and the window `pos <= lim <= Len(log)`, strict inside a
  record. Inductive as it stands; one step per action.
- `StoresOnce`: `StoredOnce` needs `RowsLocked`: an open transaction's row is not
  committed and no other transaction holds it. With it, only one of several
  transactions that passed `getById` can commit. It is a theorem only: in the runs,
  `Implements` contains it.
- `CommitsOnlySettled`: `CommittedIsSettled` speaks of the committed offset only;
  a consumer commits its own position, so the invariant (`PassedIsSettled`) says
  that every instance has settled all it has passed, the one that lost the
  partition included, since positions start at the committed offset and advance
  past a record only when it is stored or its call failed.
- `OffsetsAdvance`: the owner's position is at most one record behind the
  committed offset (`OwnerNotBehind`): `nack` rewinds by the record just
  acknowledged, and a zombie cannot commit.
- `ImplementsLog`: `MessageStore` implements `MessageLog` under
  `published <- records of single_topic`, `reported <- records of
  single_topic_read`. `CommitSave` is `Store`, `UpdateReceived` of an unread row
  is `Receive`, and by `RowsLocked` no commit overwrites a row. Every other step
  stutters or appends.

`NettyServerProofs`

- `SessionTypes`: types and the life cycle of a connection.
- `OnlyLatest`: `LatestOrNone`.
- `NoDeadEntry`, `ActiveReachable`: both rest on `Entries`: an entry was put under
  the id its channel logged in with (so a channel has at most one entry, and one
  pass of filter and removal is enough), and the key about to be removed is the
  channel's own id (so no other user's entry is ever removed).
- `NamesFollow`: `NamesMatch` compares the two tables, which no step changes together.
  `OwnId` gives every name a connection that logged in for it; `SoleName` says that the
  only connection of a user loses its name before its entry, and that its removal has
  not passed the name when the entry is missing; `ActiveName` that a connection not
  going offline keeps the name of its user.
- `ServerImplements`: `NettyServer` implements `SessionTable`. One lemma, `TableLoses`,
  serves every step but `ReadLogin`: it shows that closing any connections and removing
  any entries is a `Lose`, and each action names the two sets.

`UserGatewayProofs`

- `GatewayTypes`, `DropsAreHandled`: proved together, since `setReconnect` marks what
  it finds under the user and must find something. `LossesAreHandled` alone is
  not inductive: `process` removes the object of a user who has other connections.
  `Sessions` says of all users but the one whose object is away (`Kept`) that those
  with a connection have one, and says it of a login between `saveSession` and `put`.
  `Marks` says that no object outside the map is saved again once
  it has been marked: a marked object's login is past `saveSession`, and what
  `finally` saves is the one it unmarks.
- `RoutesAreBacked`: the loss of a connection deletes the route of its user, or ends
  in `missed`; `Marks` is needed, because a handler that found a mark would do
  neither.
- `RoutesAreKept`: `RouteIsKept` is inductive over `TypeOK`: the loop deletes the route
  of the user of a connection that is gone, and a login passes from saving the route to
  its end in one step.
- `GatewayImplements`: `UserGateway` implements `RouteTable`. `Settled` says that user
  and server of a connection are fixed once LOGIN is sent; `sync()` is what makes a
  connection whose LOGIN is sent one that never opens again, and without it (the mutant)
  the refinement fails. A crash is the loss of all connections in one step, with the
  routes left.

`SingleChatProofs` (one conjunct of the invariant per theme, each proved over
`TypeInv` and the ones before it; `WhatMoves`, `SenderSteps` and `PageSteps` say
once which actions touch which part of the state). Every lemma is about `OpenNext`: of
the gateway and the servers it uses what `EnvironmentKeeps` reads off the contracts
(no connection that was lost opens again, a new entry is a connection whose LOGIN was
read, the server of a connection stays, queues are cut at the end), and nothing else.

- `ContractsKept`: the actions of `Environment` are steps of `AnyEnvironment`
  (`EnvironmentWithin`), and the loop and the pages, which close connections, do what a
  `Lose` allows in the view of the gateway and of every server (`ChatWithin`). So every
  behaviour of `Spec` is one of `OpenSpec`, and each theorem about `OpenSpec` is one
  about `Spec`.
- `SafeWithAnyParts`: all safety properties of `SingleChat`, and that it implements
  `Delivery`, hold under `OpenSpec`: they rest on what the two contracts promise and on
  no detail of the environment TLC runs.
- `ChatTypes`: `TypeOK` needs `Known`: a connection or a page that is not new has a
  user, and what is in a queue has a recipient.
- `FreshIds`: every id given out is at most the counter, so the next one is new.
- `ShownStored`: a message that is queued, with the event loop or shown (`Away`) was
  posted; `Life` ties the sender's thread to what nettyServer and Kafka have of it.
- `ChatImplements`: `SingleChat` implements `Delivery`. `sendMessage` and the write are
  `PostToServer`, `Publish` and `sendText` are the other two; `Life` says that the id
  was handed over before either.
- `LatestGets`: pages open in the order of their numbers, and the entry of a user is
  never older than an open page of the user (`PageInv`).
- `ShownToRecipients`: `Right` carries the recipient from the queue to the page, `Once`
  says that a message whose post was not repeated is in one place only.
- `NothingLost`: `OpenLosesNothing` follows a message from the write to the page: through
  the queue, with the loop, to `Shown`. `Connected` says that the channel of an entry or
  of a post has had its LOGIN read, so that no LOGIN opens a connection a message was
  already dropped on; what closes the connection of a message (`closeLink`) is why the
  property speaks of open ones, and only a page the recipient has left takes a text and
  shows nothing.
- `RowsAreRight`: `EndToEnd` of `ChatSystem`. `RowInv` says that a row has a published
  id and, once received, a shown one, which holds because what is published or shown
  stays so; `IdsAreFresh` then makes the message of the row unique, and `ShownRight`
  makes the page that showed it one of its recipient.
- `SystemImplementsLog`: a step of `SingleChat` that publishes or shows a message is one
  by which `MessageLog`'s environment grows (`Life` gives the id), `Persist` is
  `MessageLog`'s own.
- `ShownInOrder`: `Ordered` says of two messages of one connection that the earlier
  never sits behind the later: in the queue, between the queue and the loop, or shown.

`PageLoaderProofs`

- `LoaderTypesHold`: `Progress` (a use has passed only exported modules and waits at
  one that has been asked for) and `Scripts` (a script under way has exactly one use
  that waits for it) need each other.
- `DependenciesLoaded`: from `Progress`, since `status` only grows; `AddedDone` says it
  of the callbacks in the ready list.
- `CallbacksInOrder`: `Queue` locates the ready list in the history of what was added,
  while `fire` is called from it and callbacks append to it. The least index that
  `Missing` chooses exists by well-foundedness of the naturals. That each is called once
  needs `AddedOnce`: a use is through once.
- `EveryoneWaitedFor`: `NobodyForgotten` is the safety core of `UseEnds`. `Drained` says
  that a ready list which is not being called, after the document is ready, has nothing
  left to call; `ThroughOnly` that what is in it is through.

`PartsProofs`, the registry

- `RegistryTypes`, `RunningListed`: a running server's session owns its node unless it
  has lapsed; a starting server's session owns none yet.
- `RebuildsKeep`: `Found` says, step by step, where a rebuild keeps what it found and
  ZooKeeper still lists: in the cache, in its list, or, while it refills, in one of the
  two; `Alone` that nobody else is rebuilding as long as none has overlapped. Servers
  that come and go take from what has to be kept and touch nothing else.

`SnowFlakeProofs`

- `SnowTypes`, `IdsGrow`, `TimesDecode`: no id issued exceeds the one of the last time
  and sequence number (`Bounded`). The arithmetic rests on one lemma, `Outweighs`: a
  field that is one higher outweighs all the fields below it; division by the base
  follows from it.

`PartsProofs`, the token check and the sum

- `CallersOnly`: `RunsAsCaller` needs `IdleIsEmpty`: the ThreadLocal is empty between
  two requests, because a login does not set it.
- `SumOfParts`: a step of `MCParts` is a step of one component and stutters on the
  others, so every theorem about a component holds in the sum, `PartsTypes` for one.

`FrameCodecProofs`

- `FramesSurvive`: `Stream` says that the buffer, the wire and what a close threw away
  are together what follows the last decoded message: for every message sent, its
  frame and then what follows it. `Cuts` compares two ways to cut one sequence, and
  `HeadIsNext` concludes that four bytes and as many as they say are the next message.
  `IntsSurvive` says that a length written by `writeInt` is read back by `readInt`, for
  every length a Java array can have and every base.
- `NothingWaits`: when `decode` has returned without progress, what follows the last
  decoded message is not a whole frame, so with nothing on the wire it is nothing.

Only model-checked: the liveness properties (eventualities under fairness:
`PublishedIsStored`, `ReportIsRecorded`, `PingedIsClosed`, `LoginEnds`,
`ReachableIsShown`, `UseEnds`), whose proofs need ENABLED and induction over how far
the system has come, which are outside what the installed provers do. For two of them
the safety core is proved, which says that nothing is forgotten or lost while they
wait: `NobodyForgotten` and `OpenLosesNothing`. Every other property of every passing
run is a theorem, and so are `StoredOnce` and `LatestOrNone` (`OnlyLatest`), which no run
checks because `Implements` and `ImplementsTable` contain them, `EndToEnd` and
`ImplementsLog` of `ChatSystem`, and the three parts of `PartsTypeOK`.

## 6. Not modelled

- Group chat: `sendGroupMessage` has no caller and pushes nothing, `GroupConsumer` is
  empty, and the group cache is written under a key nobody reads. Contact lists:
  read-only joins. The user login cache and the user name cache: no caller is left.
- The content of messages, formatting and logging; the JWT signature; Protostuff's
  bytes; MySQL, Redis, Kafka, ZooKeeper and Netty beyond the behaviour the code
  relies on. In particular the iteration over the cache's entries and
  `invalidateAll` are one step each, although Guava promises only weak consistency
  while another thread writes.
- A restart of a node within a millisecond, which would let
  `SnowFlake` repeat an id, is outside: the state is that of one process.
- In the pages: the widgets of layui and the layout.
- The void `nettyClent` module, the code generator, controllers, entities and mappers
  without logic.
