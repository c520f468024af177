------------------------- MODULE NettyServerProofs -------------------------
(* Proofs about NettyServer for every number of users and connections.       *)
EXTENDS NettyServer, TLAPS

(* An entry of CHANNEL_MAP was put under the id its channel logged in with,  *)
(* so a channel has at most one entry.                                       *)
EntryIsLogin == \A u \in User : \A c \in Channel :
  CHANNEL_MAP[u] = c => login[c] = u /\ link[c] # "new"

(* The key that SessionSocketHolder.remove is about to remove is the         *)
(* channel's own id.                                                         *)
KeyIsLogin == \A c \in Channel : pc[c] = "removeKey" => who[c] = login[c]

Entries == EntryIsLogin /\ KeyIsLogin
----------------------------------------------------------------------------
(* Each step of a channel keeps the types and its life cycle.                *)
LEMMA TypeStep == TypeOK /\ [Next]_vars => TypeOK'
<1> USE NoneIsNew DEF TypeOK, VarTypes, Lifecycle, Offlining, Idle
<1> SUFFICES ASSUME TypeOK, [Next]_vars PROVE TypeOK'
  OBVIOUS
<1>0. CASE UNCHANGED vars
  BY <1>0 DEF vars
<1> SUFFICES ASSUME NEW c \in Channel,
                    \/ \E u \in User \cup {None} : Connect(c, u)
                    \/ Vanish(c) \/ Close(c) \/ Elapse(c)
                    \/ ReadPing(c) \/ process(c) \/ EventLoop(c)
             PROVE TypeOK'
  BY <1>0 DEF Next
<1>1. ASSUME NEW u \in User \cup {None}, Connect(c, u) PROVE TypeOK'
  BY <1>1 DEF Connect, maps
<1>2. CASE Vanish(c)
  BY <1>2 DEF Vanish, maps
<1>3. CASE Close(c)
  BY <1>3 DEF Close, peer, maps
<1>4. CASE Elapse(c)
  BY <1>4 DEF Elapse, peer, maps
<1>5. CASE ReadPing(c)
  BY <1>5 DEF ReadPing, peer, maps
<1>6. CASE process(c)
  BY <1>6 DEF process, userOffLine, getUserId, peer, maps
<1>7. CASE ReadLogin(c)
  BY <1>7 DEF ReadLogin, put
<1>8. CASE saveSession(c)
  BY <1>8 DEF saveSession, peer
<1>9. CASE channelInactive(c)
  BY <1>9 DEF channelInactive, userOffLine, getUserId, peer, maps
<1>10. CASE removeSession(c)
  BY <1>10 DEF removeSession, peer
<1>11. CASE clearRouteInfo(c)
  BY <1>11 DEF clearRouteInfo, peer, maps
<1>12. CASE ClearRouteFails(c)
  BY <1>12 DEF ClearRouteFails, Offline, peer, maps
<1>13. CASE Filter(c)
  BY <1>13 DEF Filter, peer, maps
<1>14. CASE FilterEmpty(c)
  BY <1>14 DEF FilterEmpty, Offline, peer, maps
<1>15. CASE RemoveKey(c)
  BY <1>15 DEF RemoveKey, Offline, peer
<1>. QED
  BY <1>1, <1>2, <1>3, <1>4, <1>5, <1>6, <1>7, <1>8, <1>9, <1>10, <1>11, <1>12,
     <1>13, <1>14, <1>15 DEF EventLoop
----------------------------------------------------------------------------
(* LOGIN writes the only kind of entry, and the removal's key is one.        *)
LEMMA EntriesStep == TypeOK /\ Entries /\ [Next]_vars => Entries'
<1> USE NoneIsNew DEF TypeOK, VarTypes, Lifecycle, Offlining, Idle, Entries,
        EntryIsLogin, KeyIsLogin
<1> SUFFICES ASSUME TypeOK, Entries, [Next]_vars PROVE Entries'
  OBVIOUS
<1>0. CASE UNCHANGED vars
  BY <1>0 DEF vars
<1> SUFFICES ASSUME NEW c \in Channel,
                    \/ \E u \in User \cup {None} : Connect(c, u)
                    \/ Vanish(c) \/ Close(c) \/ Elapse(c)
                    \/ ReadPing(c) \/ process(c) \/ EventLoop(c)
             PROVE Entries'
  BY <1>0 DEF Next
<1>1. ASSUME NEW u \in User \cup {None}, Connect(c, u) PROVE Entries'
  BY <1>1 DEF Connect, maps
<1>2. CASE Vanish(c) \/ Close(c) \/ Elapse(c) \/ ReadPing(c)
  BY <1>2 DEF Vanish, Close, Elapse, ReadPing, peer, maps
<1>3. CASE process(c)
  BY <1>3 DEF process, userOffLine, getUserId, peer, maps
<1>4. CASE ReadLogin(c)
  BY <1>4 DEF ReadLogin, put
<1>5. CASE saveSession(c) \/ removeSession(c) \/ clearRouteInfo(c)
  BY <1>5 DEF saveSession, removeSession, clearRouteInfo, peer, maps
<1>6. CASE channelInactive(c)
  BY <1>6 DEF channelInactive, userOffLine, getUserId, peer, maps
<1>7. CASE ClearRouteFails(c) \/ FilterEmpty(c)
  BY <1>7 DEF ClearRouteFails, FilterEmpty, Offline, peer, maps
<1>8. CASE Filter(c)
  BY <1>8 DEF Filter, peer, maps
<1>9. CASE RemoveKey(c)
  BY <1>9 DEF RemoveKey, Offline, peer
<1>. QED
  BY <1>1, <1>2, <1>3, <1>4, <1>5, <1>6, <1>7, <1>8, <1>9 DEF EventLoop

(* An entry changes to the channel that just logged in or to nothing.        *)
LEMMA LatestStep == TypeOK /\ LatestOrNone /\ [Next]_vars => LatestOrNone'
<1> USE NoneIsNew DEF TypeOK, VarTypes, Lifecycle, Idle, LatestOrNone
<1> SUFFICES ASSUME TypeOK, LatestOrNone, [Next]_vars PROVE LatestOrNone'
  OBVIOUS
<1>1. CASE UNCHANGED <<CHANNEL_MAP, latest>>
  BY <1>1
<1>2. ASSUME NEW c \in Channel, ReadLogin(c) PROVE LatestOrNone'
  BY <1>2 DEF ReadLogin, put
<1>3. ASSUME NEW c \in Channel, RemoveKey(c) PROVE LatestOrNone'
  BY <1>3 DEF RemoveKey
<1>4. \/ UNCHANGED <<CHANNEL_MAP, latest>>
      \/ \E c \in Channel : ReadLogin(c) \/ RemoveKey(c)
  BY DEF Next, vars, Connect, Vanish, Close, Elapse, ReadPing, process, EventLoop,
         saveSession, channelInactive, removeSession, clearRouteInfo,
         ClearRouteFails, Filter, FilterEmpty, maps
<1>. QED
  BY <1>1, <1>2, <1>3, <1>4

(* A channel that ends channelInactive without a throw has no entry and      *)
(* cannot get one back: only an open channel reads a LOGIN.                  *)
LEMMA GoneStep == TypeOK /\ Entries /\ GoneIsUnmapped /\ [Next]_vars
                  => GoneIsUnmapped'
<1> USE NoneIsNew DEF TypeOK, VarTypes, Lifecycle, Offlining, Idle, Entries,
        EntryIsLogin, KeyIsLogin, GoneIsUnmapped
<1> SUFFICES ASSUME TypeOK, Entries, GoneIsUnmapped, [Next]_vars
             PROVE GoneIsUnmapped'
  OBVIOUS
<1>0. CASE UNCHANGED vars
  BY <1>0 DEF vars
<1> SUFFICES ASSUME NEW c \in Channel,
                    \/ \E u \in User \cup {None} : Connect(c, u)
                    \/ Vanish(c) \/ Close(c) \/ Elapse(c)
                    \/ ReadPing(c) \/ process(c) \/ EventLoop(c)
             PROVE GoneIsUnmapped'
  BY <1>0 DEF Next
<1>1. ASSUME NEW u \in User \cup {None}, Connect(c, u) PROVE GoneIsUnmapped'
  BY <1>1 DEF Connect, maps
<1>2. CASE Vanish(c) \/ Close(c) \/ Elapse(c) \/ ReadPing(c)
  BY <1>2 DEF Vanish, Close, Elapse, ReadPing, peer, maps
<1>3. CASE process(c)
  BY <1>3 DEF process, userOffLine, getUserId, peer, maps
<1>4. CASE ReadLogin(c)
  BY <1>4 DEF ReadLogin, put
<1>5. CASE saveSession(c) \/ removeSession(c) \/ clearRouteInfo(c)
  BY <1>5 DEF saveSession, removeSession, clearRouteInfo, peer, maps
<1>6. CASE channelInactive(c)
  BY <1>6 DEF channelInactive, userOffLine, getUserId, peer, maps
<1>7. CASE ClearRouteFails(c)
  BY <1>7 DEF ClearRouteFails, Offline, peer, maps
<1>8. CASE Filter(c)
  BY <1>8 DEF Filter, peer, maps
<1>9. CASE FilterEmpty(c)
  BY <1>9 DEF FilterEmpty, Offline, peer, maps
<1>10. CASE RemoveKey(c)
  BY <1>10 DEF RemoveKey, Offline, peer
<1>. QED
  BY <1>1, <1>2, <1>3, <1>4, <1>5, <1>6, <1>7, <1>8, <1>9, <1>10 DEF EventLoop

(* Only a channel of the same user can take an entry away, and it is going   *)
(* offline when it does.                                                     *)
LEMMA ActiveStep == TypeOK /\ Entries /\ ActiveIsMapped /\ [Next]_vars
                    => ActiveIsMapped'
<1> USE NoneIsNew DEF TypeOK, VarTypes, Lifecycle, Offlining, Idle, Entries,
        EntryIsLogin, KeyIsLogin, ActiveIsMapped, Active
<1> SUFFICES ASSUME TypeOK, Entries, ActiveIsMapped, [Next]_vars
             PROVE ActiveIsMapped'
  OBVIOUS
<1>0. CASE UNCHANGED vars
  BY <1>0 DEF vars
<1> SUFFICES ASSUME NEW c \in Channel,
                    \/ \E u \in User \cup {None} : Connect(c, u)
                    \/ Vanish(c) \/ Close(c) \/ Elapse(c)
                    \/ ReadPing(c) \/ process(c) \/ EventLoop(c)
             PROVE ActiveIsMapped'
  BY <1>0 DEF Next
<1>1. ASSUME NEW u \in User \cup {None}, Connect(c, u) PROVE ActiveIsMapped'
  BY <1>1 DEF Connect, maps
<1>2. CASE Vanish(c) \/ Close(c) \/ Elapse(c) \/ ReadPing(c)
  BY <1>2 DEF Vanish, Close, Elapse, ReadPing, peer, maps
<1>3. CASE process(c)
  BY <1>3 DEF process, userOffLine, getUserId, peer, maps
<1>4. CASE ReadLogin(c)
  BY <1>4 DEF ReadLogin, put
<1>5. CASE saveSession(c) \/ removeSession(c) \/ clearRouteInfo(c)
  BY <1>5 DEF saveSession, removeSession, clearRouteInfo, peer, maps
<1>6. CASE channelInactive(c)
  BY <1>6 DEF channelInactive, userOffLine, getUserId, peer, maps
<1>7. CASE ClearRouteFails(c) \/ FilterEmpty(c)
  BY <1>7 DEF ClearRouteFails, FilterEmpty, Offline, peer, maps
<1>8. CASE Filter(c)
  BY <1>8 DEF Filter, peer, maps
<1>9. CASE RemoveKey(c)
  BY <1>9 DEF RemoveKey, Offline, peer
<1>. QED
  BY <1>1, <1>2, <1>3, <1>4, <1>5, <1>6, <1>7, <1>8, <1>9 DEF EventLoop
----------------------------------------------------------------------------
(* Nobody is connected at the start.                                         *)
LEMMA InitFacts == Init => /\ TypeOK /\ Entries /\ LatestOrNone
                           /\ GoneIsUnmapped /\ ActiveIsMapped
<1> SUFFICES ASSUME Init
             PROVE /\ TypeOK /\ Entries /\ LatestOrNone
                   /\ GoneIsUnmapped /\ ActiveIsMapped
  OBVIOUS
<1> USE NoneIsNew DEF Init
<1>1. TypeOK
  BY DEF TypeOK, VarTypes, Lifecycle, Offlining
<1>2. Entries /\ LatestOrNone
  BY DEF Entries, EntryIsLogin, KeyIsLogin, LatestOrNone
<1>3. GoneIsUnmapped /\ ActiveIsMapped
  BY DEF GoneIsUnmapped, ActiveIsMapped
<1>. QED
  BY <1>1, <1>2, <1>3

(* The session table is well typed and event loops keep their life cycle:    *)
(* userOffLine and RemoveKey never dereference a null user.                  *)
THEOREM SessionTypes == Spec => []TypeOK
<1>1. Init => TypeOK
  BY InitFacts
<1>. QED
  BY <1>1, TypeStep, PTL DEF Spec

(* The entry of a user is the channel of the last LOGIN or nothing.          *)
THEOREM OnlyLatest == Spec => []LatestOrNone
<1>1. Init => LatestOrNone
  BY InitFacts
<1>. QED
  BY <1>1, SessionTypes, LatestStep, PTL DEF Spec

(* One entry per channel, under its own id.                                  *)
LEMMA EntriesAlways == Spec => []Entries
<1>1. Init => Entries
  BY InitFacts
<1>. QED
  BY <1>1, SessionTypes, EntriesStep, PTL DEF Spec

(* No entry survives its channel, unless clearRouteInfo threw for that very  *)
(* channel.                                                                  *)
THEOREM NoDeadEntry == Spec => []GoneIsUnmapped
<1>1. Init => GoneIsUnmapped
  BY InitFacts
<1>. QED
  BY <1>1, GoneStep, SessionTypes, EntriesAlways, PTL DEF Spec

(* A user whose connections are all active is reachable on the latest one,   *)
(* however many other users come and go, and even if userService fails.      *)
THEOREM ActiveReachable == Spec => []ActiveIsMapped
<1>1. Init => ActiveIsMapped
  BY InitFacts
<1>. QED
  BY <1>1, SessionTypes, EntriesAlways, ActiveStep, PTL DEF Spec
----------------------------------------------------------------------------
(* The two tables. A connection that is the only one of its user.            *)
Sole(c) == login[c] # None /\ \A d \in Channel : login[d] = login[c] => d = c

(* A removal works for the id of its connection, and names come from LOGINs. *)
OwnId == /\ \A c \in Channel :
              pc[c] \in {"removeSession", "clearRouteInfo", "removeKey"} => who[c] = login[c]
         /\ \A u \in SESSION_MAP : \E c \in Channel : login[c] = u
         /\ \A u \in User : \A c \in Channel : latest[u] = c => login[c] = u

(* The name of a sole connection is there only while its entry is.           *)
SoleName == \A c \in Channel : Sole(c) =>
  /\ login[c] \in SESSION_MAP \/ pc[c] = "saveSession" => CHANNEL_MAP[login[c]] = c
  /\ pc[c] \in {"clearRouteInfo", "remove", "removeKey"} => login[c] \notin SESSION_MAP

ActiveName == \A u \in User : \A c \in Channel :
  latest[u] = c /\ Idle(c) /\ (\A d \in Channel : login[d] = u => Active(d))
  => u \in SESSION_MAP

Names == OwnId /\ SoleName /\ ActiveName

LEMMA OwnIdStep == TypeOK /\ Entries /\ OwnId /\ [Next]_vars => OwnId'
<1> USE NoneIsNew DEF TypeOK, VarTypes, Lifecycle, Offlining, Idle, OwnId, Entries, EntryIsLogin
<1> SUFFICES ASSUME TypeOK, Entries, OwnId, [Next]_vars PROVE OwnId'
  OBVIOUS
<1>0. CASE UNCHANGED vars
  BY <1>0 DEF vars
<1> SUFFICES ASSUME NEW c \in Channel,
                    \/ \E u \in User \cup {None} : Connect(c, u)
                    \/ Vanish(c) \/ Close(c) \/ Elapse(c)
                    \/ ReadPing(c) \/ process(c) \/ EventLoop(c)
             PROVE OwnId'
  BY <1>0 DEF Next
<1>1. ASSUME NEW u \in User \cup {None}, Connect(c, u) PROVE OwnId'
  BY <1>1 DEF Connect, maps
<1>2. CASE Vanish(c) \/ Close(c) \/ Elapse(c) \/ ReadPing(c)
  BY <1>2 DEF Vanish, Close, Elapse, ReadPing, peer, maps
<1>3. CASE process(c)
  BY <1>3 DEF process, userOffLine, getUserId, peer, maps
<1>4. CASE ReadLogin(c)
  BY <1>4 DEF ReadLogin, put
<1>5. CASE saveSession(c)
  BY <1>5 DEF saveSession, peer, maps
<1>6. CASE removeSession(c) \/ clearRouteInfo(c)
  BY <1>6 DEF removeSession, clearRouteInfo, peer, maps
<1>7. CASE channelInactive(c)
  BY <1>7 DEF channelInactive, userOffLine, getUserId, peer, maps
<1>8. CASE ClearRouteFails(c) \/ FilterEmpty(c)
  BY <1>8 DEF ClearRouteFails, FilterEmpty, Offline, peer, maps
<1>9. CASE Filter(c)
  BY <1>9 DEF Filter, peer, maps
<1>10. CASE RemoveKey(c)
  BY <1>10 DEF RemoveKey, Offline, peer
<1>. QED
  BY <1>1, <1>2, <1>3, <1>4, <1>5, <1>6, <1>7, <1>8, <1>9, <1>10 DEF EventLoop

(* A removal of the sole connection takes the name before the entry, and one *)
(* that finds no entry finds no name either.                                 *)
LEMMA SoleStep == TypeOK /\ Entries /\ OwnId /\ SoleName /\ [Next]_vars => SoleName'
<1> USE NoneIsNew DEF TypeOK, VarTypes, Lifecycle, Offlining, Idle, OwnId, Entries, EntryIsLogin, SoleName, Sole
<1> SUFFICES ASSUME TypeOK, Entries, OwnId, SoleName, [Next]_vars PROVE SoleName'
  OBVIOUS
<1>0. CASE UNCHANGED vars
  BY <1>0 DEF vars
<1> SUFFICES ASSUME NEW c \in Channel,
                    \/ \E u \in User \cup {None} : Connect(c, u)
                    \/ Vanish(c) \/ Close(c) \/ Elapse(c)
                    \/ ReadPing(c) \/ process(c) \/ EventLoop(c)
             PROVE SoleName'
  BY <1>0 DEF Next
<1>1. ASSUME NEW u \in User \cup {None}, Connect(c, u) PROVE SoleName'
  BY <1>1 DEF Connect, maps
<1>2. CASE Vanish(c) \/ Close(c) \/ Elapse(c) \/ ReadPing(c)
  BY <1>2 DEF Vanish, Close, Elapse, ReadPing, peer, maps
<1>3. CASE process(c)
  BY <1>3 DEF process, userOffLine, getUserId, peer, maps
<1>4. CASE ReadLogin(c)
  BY <1>4 DEF ReadLogin, put
<1>5. CASE saveSession(c)
  BY <1>5 DEF saveSession, peer, maps
<1>6. CASE removeSession(c) \/ clearRouteInfo(c)
  BY <1>6 DEF removeSession, clearRouteInfo, peer, maps
<1>7. CASE channelInactive(c)
  BY <1>7 DEF channelInactive, userOffLine, getUserId, peer, maps
<1>8. CASE ClearRouteFails(c) \/ FilterEmpty(c)
  BY <1>8 DEF ClearRouteFails, FilterEmpty, Offline, peer, maps
<1>9. CASE Filter(c)
  BY <1>9 DEF Filter, peer, maps
<1>10. CASE RemoveKey(c)
  BY <1>10 DEF RemoveKey, Offline, peer
<1>. QED
  BY <1>1, <1>2, <1>3, <1>4, <1>5, <1>6, <1>7, <1>8, <1>9, <1>10 DEF EventLoop

(* Only a connection that is going offline takes its user's name.            *)
LEMMA ActiveNameStep == TypeOK /\ OwnId /\ ActiveName /\ [Next]_vars => ActiveName'
<1> USE NoneIsNew DEF TypeOK, VarTypes, Lifecycle, Offlining, Idle, OwnId, Active, ActiveName
<1> SUFFICES ASSUME TypeOK, OwnId, ActiveName, [Next]_vars PROVE ActiveName'
  OBVIOUS
<1>0. CASE UNCHANGED vars
  BY <1>0 DEF vars
<1> SUFFICES ASSUME NEW c \in Channel,
                    \/ \E u \in User \cup {None} : Connect(c, u)
                    \/ Vanish(c) \/ Close(c) \/ Elapse(c)
                    \/ ReadPing(c) \/ process(c) \/ EventLoop(c)
             PROVE ActiveName'
  BY <1>0 DEF Next
<1>1. ASSUME NEW u \in User \cup {None}, Connect(c, u) PROVE ActiveName'
  BY <1>1 DEF Connect, maps
<1>2. CASE Vanish(c) \/ Close(c) \/ Elapse(c) \/ ReadPing(c)
  BY <1>2 DEF Vanish, Close, Elapse, ReadPing, peer, maps
<1>3. CASE process(c)
  BY <1>3 DEF process, userOffLine, getUserId, peer, maps
<1>4. CASE ReadLogin(c)
  BY <1>4 DEF ReadLogin, put
<1>5. CASE saveSession(c)
  BY <1>5 DEF saveSession, peer, maps
<1>6. CASE removeSession(c) \/ clearRouteInfo(c)
  BY <1>6 DEF removeSession, clearRouteInfo, peer, maps
<1>7. CASE channelInactive(c)
  BY <1>7 DEF channelInactive, userOffLine, getUserId, peer, maps
<1>8. CASE ClearRouteFails(c) \/ FilterEmpty(c)
  BY <1>8 DEF ClearRouteFails, FilterEmpty, Offline, peer, maps
<1>9. CASE Filter(c)
  BY <1>9 DEF Filter, peer, maps
<1>10. CASE RemoveKey(c)
  BY <1>10 DEF RemoveKey, Offline, peer
<1>. QED
  BY <1>1, <1>2, <1>3, <1>4, <1>5, <1>6, <1>7, <1>8, <1>9, <1>10 DEF EventLoop

LEMMA NamesAlways == Spec => []Names
<1>1. Init => Names
  BY NoneIsNew DEF Init, Names, OwnId, SoleName, Sole, ActiveName
<1>2. TypeOK /\ Entries /\ Names /\ [Next]_vars => Names'
  BY OwnIdStep, SoleStep, ActiveNameStep DEF Names
<1>. QED
  BY <1>1, <1>2, SessionTypes, EntriesAlways, PTL DEF Spec

(* SESSION_MAP agrees with CHANNEL_MAP about every user whose connections do *)
(* not race, also when userService fails between the two removals.           *)
THEOREM NamesFollow == Spec => []NamesMatch
<1>1. TypeOK /\ Entries /\ Names => NamesMatch
  <2> SUFFICES ASSUME TypeOK, Entries, Names, NEW u \in User
               PROVE  /\ u \in SESSION_MAP /\ CHANNEL_MAP[u] = None =>
                           \E c, d \in Channel : c # d /\ login[c] = u /\ login[d] = u
                      /\ latest[u] # None /\ Idle(latest[u])
                         /\ (\A d \in Channel : login[d] = u => Active(d))
                         => u \in SESSION_MAP
    BY DEF NamesMatch
  <2>1. ASSUME u \in SESSION_MAP, CHANNEL_MAP[u] = None
        PROVE  \E c, d \in Channel : c # d /\ login[c] = u /\ login[d] = u
    <3>1. PICK c \in Channel : login[c] = u
      BY <2>1 DEF Names, OwnId
    <3>2. CHANNEL_MAP[u] # c /\ u # None
      BY <2>1, NoneIsNew
    <3>3. ~Sole(c)
      BY <2>1, <3>1, <3>2 DEF Names, SoleName
    <3> QED
      BY <3>1, <3>2, <3>3 DEF Sole
  <2>2. latest[u] # None => latest[u] \in Channel
    BY DEF TypeOK, VarTypes
  <2> QED
    BY <2>1, <2>2 DEF Names, ActiveName
<1>. QED
  BY <1>1, SessionTypes, EntriesAlways, NamesAlways, PTL
----------------------------------------------------------------------------
(* The session table that others rely on.                                    *)

(* How the table sees the connections.                                       *)
TableLink == [c \in Channel |-> IF ~LoggedIn(c) THEN "new"
                               ELSE IF link[c] = "open" THEN "open" ELSE "closed"]
TableOwner == [c \in Channel |-> IF LoggedIn(c) THEN login[c] ELSE None]

TableStep == [Table!Next]_(Table!vars)

LEMMA TableStutters ==
  ASSUME UNCHANGED <<TableLink, TableOwner, CHANNEL_MAP>> PROVE TableStep
BY DEF TableStep, TableLink, TableOwner, Table!vars

(* A step that logs nobody in is a loss, or nothing at all.                  *)
LEMMA TableLoses ==
  ASSUME TypeOK, NEW C \in SUBSET Channel, NEW U \in SUBSET User,
         UNCHANGED <<login, unread>>,
         \A c \in Channel : link'[c] = "open" <=> link[c] = "open" /\ c \notin C,
         CHANNEL_MAP' = [u \in User |-> IF u \in U THEN None ELSE CHANNEL_MAP[u]]
  PROVE  TableStep
<1>1. \A c \in Channel : LoggedIn(c)' <=> LoggedIn(c)
  BY DEF LoggedIn
<1>2. TableOwner' = TableOwner
  BY <1>1 DEF TableOwner
<1>3. TableLink' = [c \in Channel |-> IF c \in C /\ TableLink[c] = "open" THEN "closed"
                                     ELSE TableLink[c]]
  BY <1>1 DEF TableLink
<1> QED
  BY <1>2, <1>3 DEF TableStep, TableLink, TableOwner, Table!Next, Table!Lose

LEMMA TableKeeps ==
  ASSUME TypeOK, UNCHANGED <<login, unread, CHANNEL_MAP>>,
         \A c \in Channel : link'[c] = "open" <=> link[c] = "open"
  PROVE  TableStep
<1>1. PICK C \in SUBSET Channel, U \in SUBSET User : C = {} /\ U = {}
  OBVIOUS
<1>2. CHANNEL_MAP' = [u \in User |-> IF u \in U THEN None ELSE CHANNEL_MAP[u]]
  BY <1>1 DEF TypeOK, VarTypes
<1>3. \A c \in Channel : link'[c] = "open" <=> link[c] = "open" /\ c \notin C
  BY <1>1
<1> QED
  BY <1>2, <1>3, TableLoses

LEMMA TableConnects ==
  ASSUME TypeOK, NEW c \in Channel, NEW u \in User \cup {None}, Connect(c, u)
  PROVE  TableStep
<1>1. /\ \A d \in Channel \ {c} : login'[d] = login[d] /\ unread'[d] = unread[d]
                                  /\ link'[d] = link[d]
      /\ login[c] = None /\ login'[c] = u /\ unread'[c] = (u # None)
      /\ CHANNEL_MAP' = CHANNEL_MAP
  BY DEF Connect, maps, TypeOK, VarTypes, Lifecycle
<1>2. \A d \in Channel : LoggedIn(d)' <=> LoggedIn(d)
  BY <1>1 DEF LoggedIn
<1>3. ~LoggedIn(c)
  BY <1>1 DEF LoggedIn
<1>4. TableLink' = TableLink /\ TableOwner' = TableOwner
  BY <1>1, <1>2, <1>3 DEF TableLink, TableOwner
<1> QED
  BY <1>1, <1>4, TableStutters

LEMMA TableLogsIn == ASSUME TypeOK, NEW c \in Channel, ReadLogin(c) PROVE TableStep
<1>1. PICK u \in User : u = login[c]
  BY DEF ReadLogin, TypeOK, VarTypes, Lifecycle
<1>2. /\ unread[c] /\ unread'[c] = FALSE /\ link[c] = "open"
      /\ \A d \in Channel \ {c} : unread'[d] = unread[d]
      /\ UNCHANGED <<link, login>>
      /\ CHANNEL_MAP' = [CHANNEL_MAP EXCEPT ![u] = c]
  BY <1>1 DEF ReadLogin, put, TypeOK, VarTypes
<1>3. /\ ~LoggedIn(c) /\ LoggedIn(c)'
      /\ \A d \in Channel \ {c} : LoggedIn(d)' <=> LoggedIn(d)
  BY <1>1, <1>2, NoneIsNew DEF LoggedIn
<1>4. /\ TableLink[c] = "new" /\ TableLink' = [TableLink EXCEPT ![c] = "open"]
      /\ TableOwner' = [TableOwner EXCEPT ![c] = u]
  BY <1>1, <1>2, <1>3 DEF TableLink, TableOwner
<1> QED
  BY <1>2, <1>4 DEF TableStep, TableLink, TableOwner, Table!Next, Table!Login

(* The removal closes the connection too: entry and link go in one step.     *)
LEMMA TableRemoves == ASSUME TypeOK, NEW c \in Channel, RemoveKey(c) PROVE TableStep
<1>1. PICK u \in User : u = who[c]
  BY DEF RemoveKey, TypeOK, VarTypes, Lifecycle
<1>2. PICK C \in SUBSET Channel, U \in SUBSET User : C = {c} /\ U = {u}
  OBVIOUS
<1>3. CHANNEL_MAP' = [v \in User |-> IF v \in U THEN None ELSE CHANNEL_MAP[v]]
  BY <1>1, <1>2 DEF RemoveKey, TypeOK, VarTypes
<1>4. /\ \A d \in Channel : link'[d] = "open" <=> link[d] = "open" /\ d \notin C
      /\ UNCHANGED <<login, unread>>
  BY <1>2 DEF RemoveKey, Offline, peer, TypeOK, VarTypes
<1> QED
  BY <1>3, <1>4, TableLoses

LEMMA TableCloses ==
  ASSUME TypeOK, NEW c \in Channel, Close(c) \/ ClearRouteFails(c) \/ FilterEmpty(c)
  PROVE  TableStep
<1>1. PICK C \in SUBSET Channel, U \in SUBSET User : C = {c} /\ U = {}
  OBVIOUS
<1>2. /\ \A d \in Channel : link'[d] = "open" <=> link[d] = "open" /\ d \notin C
      /\ UNCHANGED <<login, unread, CHANNEL_MAP>>
  BY <1>1 DEF Close, ClearRouteFails, FilterEmpty, Offline, peer, maps, TypeOK, VarTypes
<1>3. CHANNEL_MAP' = [u \in User |-> IF u \in U THEN None ELSE CHANNEL_MAP[u]]
  BY <1>1, <1>2 DEF TypeOK, VarTypes
<1> QED
  BY <1>2, <1>3, TableLoses

(* Every step of nettyServer is a step of the table.                         *)
LEMMA TableSteps == TypeOK /\ [Next]_vars => TableStep
<1> SUFFICES ASSUME TypeOK, [Next]_vars PROVE TableStep
  OBVIOUS
<1>1. CASE UNCHANGED vars
  BY <1>1, TableKeeps DEF vars
<1>2. ASSUME NEW c \in Channel,
             \/ Vanish(c) \/ Elapse(c) \/ ReadPing(c) \/ process(c) \/ saveSession(c)
             \/ removeSession(c) \/ clearRouteInfo(c) \/ Filter(c)
      PROVE  TableStep
  <2>1. UNCHANGED <<link, login, unread, CHANNEL_MAP>>
    BY <1>2 DEF Vanish, Elapse, ReadPing, process, saveSession, removeSession,
                clearRouteInfo, Filter, peer, maps
  <2> QED
    BY <2>1, TableKeeps
<1>3. ASSUME NEW c \in Channel, channelInactive(c) PROVE TableStep
  <2>1. /\ UNCHANGED <<login, unread, CHANNEL_MAP>>
        /\ \A d \in Channel : link'[d] = "open" <=> link[d] = "open"
    BY <1>3 DEF channelInactive, peer, maps, TypeOK, VarTypes
  <2> QED
    BY <2>1, TableKeeps
<1> QED
  BY <1>1, <1>2, <1>3, TableConnects, TableLogsIn, TableRemoves, TableCloses
     DEF Next, EventLoop

(* NettyServer implements SessionTable: what SingleChat assumes of a server  *)
(* holds for every number of users and connections.                          *)
THEOREM ServerImplements == Spec => ImplementsTable
<1>1. Init => Table!Init
  BY NoneIsNew DEF Init, Table!Init, LoggedIn
<1>2. TypeOK /\ [Next]_vars => [Table!Next]_(Table!vars)
  BY TableSteps DEF TableStep
<1>. QED
  BY <1>1, <1>2, SessionTypes, PTL DEF Spec, ImplementsTable, Table!Spec
============================================================================
