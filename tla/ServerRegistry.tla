--------------------------- MODULE ServerRegistry ---------------------------
(* The nettyServers in ZooKeeper and the cache of their addresses in         *)
(* userService. A server registers once, when it has started, by an          *)
(* ephemeral node that bears its address; a ZooKeeper session that ends      *)
(* takes its node away, which for a process that died is some time later.    *)
(* userService rebuilds its cache on the thread of the ZooKeeper events and  *)
(* on request threads that found their server unreachable, with no lock.     *)
EXTENDS Naturals, Sequences, FiniteSets

CONSTANTS Address,     \* of the servers
          Request,     \* request threads of userService that rebuild
          ZkEvents,    \* the event thread of Curator
          MaxSessions  \* bound: ZooKeeper sessions of all servers

Rebuilder == Request \cup {ZkEvents}
Session == 1 .. MaxSessions
NoSession == 0

ASSUME OneEventThread == ZkEvents \notin Request
ASSUME SessionsAreNat == MaxSessions \in Nat

VARIABLES
  jvm,       \* jvm[a]: down, started (not registered yet), up (registered), or
             \* stray (create() has failed: the Netty port is still open)
  session,   \* session[a]: the ZooKeeper session of that process
  node,      \* node[a]: the session that owns the node of a
  sessions,  \* sessions opened so far
  lapsed,    \* history: running servers that lost a session since they started
  cache,     \* ServerCache.cache: its keys
  at,        \* at[t]: where a rebuild is
  got,       \* got[t]: its list, as far as it is not back in the cache
  overlapped,\* history: another rebuild was running when the last one began
  kept,      \* history: what that one found, as far as ZooKeeper listed it ever since
  seen       \* history: what ZooKeeper has listed at some time since it began

zk == <<jvm, session, node, sessions, lapsed>>
rebuild == <<cache, at, got, overlapped>>
listed == <<kept, seen>>
registryVars == <<zk, rebuild, listed>>

RegistryInit ==
  /\ jvm = [a \in Address |-> "down"]
  /\ session = [a \in Address |-> NoSession]
  /\ node = [a \in Address |-> NoSession]
  /\ sessions = 0 /\ lapsed = {}
  /\ cache = {}
  /\ at = [t \in Rebuilder |-> "idle"]
  /\ got = [t \in Rebuilder |-> {}]
  /\ overlapped = FALSE /\ kept = {} /\ seen = {}

Listed == {a \in Address : node[a] # NoSession}
----------------------------------------------------------------------------
(* The servers.                                                              *)

NewSession(a) == /\ sessions < MaxSessions
                 /\ sessions' = sessions + 1
                 /\ session' = [session EXCEPT ![a] = sessions + 1]

Register(a) == /\ node' = [node EXCEPT ![a] = session[a]]
               /\ seen' = seen \cup {a}
               /\ UNCHANGED kept

Unregister(a) == /\ node' = [node EXCEPT ![a] = NoSession]
                 /\ kept' = kept \ {a}
                 /\ UNCHANGED seen

Start(a) == /\ jvm[a] = "down"
            /\ NewSession(a)
            /\ jvm' = [jvm EXCEPT ![a] = "started"]
            /\ lapsed' = lapsed \ {a}
            /\ UNCHANGED <<node, rebuild, listed>>

\* Mutant: the exception for a node that exists is caught.
createEphemeral_Caught(a) ==
  /\ jvm[a] = "started"
  /\ jvm' = [jvm EXCEPT ![a] = "up"]
  /\ IF node[a] = NoSession THEN Register(a) ELSE UNCHANGED <<node, listed>>
  /\ UNCHANGED <<session, sessions, lapsed, rebuild>>

\* A node that the last process left is still there: the runner throws, and
\* the application context closes, its ZooKeeper session with it. The threads of
\* Netty go on, and with them the port.
createEphemeral(a) ==
  /\ jvm[a] = "started"
  /\ IF node[a] = NoSession
     THEN Register(a) /\ jvm' = [jvm EXCEPT ![a] = "up"]
     ELSE jvm' = [jvm EXCEPT ![a] = "stray"] /\ UNCHANGED <<node, listed>>
  /\ UNCHANGED <<session, sessions, lapsed, rebuild>>

Owns(a) == node[a] = session[a] /\ node[a] # NoSession

\* A shutdown closes the session.
Stop(a) == /\ jvm[a] = "up"
           /\ jvm' = [jvm EXCEPT ![a] = "down"]
           /\ IF Owns(a) THEN Unregister(a) ELSE UNCHANGED <<node, listed>>
           /\ UNCHANGED <<session, sessions, lapsed, rebuild>>

Die(a) == /\ jvm[a] # "down"
          /\ jvm' = [jvm EXCEPT ![a] = "down"]
          /\ UNCHANGED <<session, node, sessions, lapsed, rebuild, listed>>

\* The session of a process that died times out.
ExpireDead(a) == /\ node[a] # NoSession
                 /\ jvm[a] = "down" \/ ~Owns(a)
                 /\ Unregister(a)
                 /\ UNCHANGED <<jvm, session, sessions, lapsed, rebuild>>

\* A server is cut off from ZooKeeper for longer than the timeout. Curator
\* opens another session for it; nothing registers it again.
ExpireLive(a) == /\ jvm[a] = "up" /\ Owns(a)
                 /\ NewSession(a)
                 /\ Unregister(a)
                 /\ lapsed' = lapsed \cup {a}
                 /\ UNCHANGED <<jvm, rebuild>>
----------------------------------------------------------------------------
(* rebuildCacheList: updateCache(getServerList()).                           *)

To(t, l) == at' = [at EXCEPT ![t] = l]

Idling(t) == at[t] = "idle"

Begin(t) == /\ Idling(t)
            /\ To(t, "size")
            /\ overlapped' = \E x \in Rebuilder : ~Idling(x)
            /\ kept' = cache \cap Listed
            /\ seen' = Listed
            /\ UNCHANGED <<zk, cache, got>>

\* A node or the connection to ZooKeeper has changed.
childEvent == Begin(ZkEvents)

\* A login whose server, listed when it asked ZooKeeper, cannot be reached.
checkServerAvailable(t) == Begin(t)

\* cache.size() == 0
Size(t) == /\ at[t] = "size"
           /\ To(t, IF cache = {} THEN "getChildren" ELSE "copy")
           /\ UNCHANGED <<zk, cache, got, overlapped, listed>>

GetChildren(t) == /\ at[t] = "getChildren"
                  /\ got' = [got EXCEPT ![t] = Listed]
                  /\ kept' = Listed
                  /\ To(t, "fill")
                  /\ UNCHANGED <<zk, cache, overlapped, seen>>

GetChildrenFails(t) == /\ at[t] = "getChildren"
                       /\ To(t, "idle")
                       /\ UNCHANGED <<zk, cache, got, overlapped, listed>>

\* What follows the two loops.
After == [fill |-> "copy", put |-> "idle"]

addCache(t) ==
  /\ at[t] \in DOMAIN After
  /\ IF got[t] = {} THEN To(t, After[at[t]]) /\ UNCHANGED <<cache, got>>
     ELSE \E a \in got[t] : /\ cache' = cache \cup {a}
                            /\ got' = [got EXCEPT ![t] = @ \ {a}]
                            /\ UNCHANGED at
  /\ UNCHANGED <<zk, overlapped, listed>>

\* The keys, in a list of its own.
Copy(t) == /\ at[t] = "copy"
           /\ got' = [got EXCEPT ![t] = cache]
           /\ To(t, "invalidateAll")
           /\ UNCHANGED <<zk, cache, overlapped, listed>>

\* Mutant: the list is a view of the cache.
InvalidateAll_View(t) == /\ at[t] = "invalidateAll"
                         /\ cache' = {}
                         /\ got' = [got EXCEPT ![t] = {}]
                         /\ To(t, "put")
                         /\ UNCHANGED <<zk, overlapped, listed>>

InvalidateAll(t) == /\ at[t] = "invalidateAll"
                    /\ cache' = {}
                    /\ To(t, "put")
                    /\ UNCHANGED <<zk, got, overlapped, listed>>

rebuildCacheList(t) == \/ Size(t) \/ GetChildren(t) \/ GetChildrenFails(t)
                       \/ addCache(t) \/ Copy(t) \/ InvalidateAll(t)
----------------------------------------------------------------------------
RegistryNext ==
  \/ \E a \in Address : \/ Start(a) \/ createEphemeral(a) \/ Stop(a) \/ Die(a)
                        \/ ExpireDead(a) \/ ExpireLive(a)
  \/ childEvent
  \/ \E t \in Request : checkServerAvailable(t)
  \/ \E t \in Rebuilder : rebuildCacheList(t)

RegistrySpec == RegistryInit /\ [][RegistryNext]_registryVars
----------------------------------------------------------------------------
(* Type correctness; the session of a server that has not registered owns no *)
(* node, and a rebuild leaves nothing of its list behind.                    *)
RegistryTypeOK ==
  /\ jvm \in [Address -> {"down", "started", "up", "stray"}]
  /\ session \in [Address -> Session \cup {NoSession}]
  /\ node \in [Address -> Session \cup {NoSession}]
  /\ sessions \in 0 .. MaxSessions
  /\ lapsed \subseteq Address
  /\ cache \subseteq Address
  /\ at \in [Rebuilder -> {"idle", "size", "getChildren", "fill", "copy",
                           "invalidateAll", "put"}]
  /\ got \in [Rebuilder -> SUBSET Address]
  /\ overlapped \in BOOLEAN
  /\ kept \subseteq Listed /\ seen \subseteq Address
  /\ \A t \in Rebuilder : at[t] \in {"idle", "size", "getChildren"} => got[t] = {}
  /\ \A a \in Address : /\ session[a] <= sessions /\ node[a] <= session[a]
                        /\ jvm[a] \in {"started", "stray"} => node[a] # session[a]

(* A server that has registered can be found by logins as long as it runs:   *)
(* its node is there, and it is its own, not one that the process before it  *)
(* left and that is about to expire. Not found are a server that lost a      *)
(* session while it ran, and a stray one.                                    *)
RunningIsListed == \A a \in Address :
  jvm[a] = "up" /\ a \notin lapsed => Owns(a)

(* A rebuild that no other one overlaps loses no server on the way from the  *)
(* cache, or ZooKeeper, through its list and the invalidation back into the  *)
(* cache: of what it found, everything that ZooKeeper has listed ever since  *)
(* is there. What has left ZooKeeper may be there or not.                    *)
RebuildKeeps == ~overlapped /\ (\A t \in Rebuilder : Idling(t)) => kept \subseteq cache

(* ServerCache 56 and 98: a rebuild updates the whole cache with the current *)
(* children, "first delete, then add". So after one that no other overlaps,  *)
(* the cache has no server that ZooKeeper has not listed since it began.     *)
CacheFollows == ~overlapped /\ (\A t \in Rebuilder : Idling(t)) => cache \subseteq seen
============================================================================
