---------------------------- MODULE PartsProofs -----------------------------
(* Registration of the servers and rebuilds of the cache, for any number of  *)
(* servers, sessions and request threads; the user of a servlet thread, for  *)
(* any number of threads and users; and the sum of the parts.                *)
EXTENDS MCParts, PageLoaderProofs, SnowFlakeProofs, TLAPS

Servers == RegistryTypeOK /\ RunningIsListed
----------------------------------------------------------------------------
(* The servers and ZooKeeper.                                                *)
LEMMA ServersInductive == Servers /\ [RegistryNext]_registryVars => Servers'
<1> SUFFICES ASSUME Servers, [RegistryNext]_registryVars PROVE Servers'
  OBVIOUS
<1> USE SessionsAreNat DEF Servers, RegistryTypeOK, RunningIsListed, Owns, Session, NoSession,
        Listed, Register, Unregister, NewSession, zk, rebuild, listed
<1>1. ASSUME NEW a \in Address, Start(a) PROVE Servers'
  BY <1>1 DEF Start
<1>2. ASSUME NEW a \in Address, createEphemeral(a) PROVE Servers'
  BY <1>2 DEF createEphemeral
<1>3. ASSUME NEW a \in Address, Stop(a) PROVE Servers'
  BY <1>3 DEF Stop
<1>4. ASSUME NEW a \in Address, Die(a) PROVE Servers'
  BY <1>4 DEF Die
<1>5. ASSUME NEW a \in Address, ExpireDead(a) PROVE Servers'
  BY <1>5 DEF ExpireDead
<1>6. ASSUME NEW a \in Address, ExpireLive(a) PROVE Servers'
  BY <1>6 DEF ExpireLive
<1>7. ASSUME NEW t \in Rebuilder, Begin(t) PROVE Servers'
  BY <1>7 DEF Begin, Idling, To
<1>8. ASSUME NEW t \in Rebuilder, rebuildCacheList(t) PROVE Servers'
  <2>1. CASE Size(t)             BY <2>1 DEF Size, To
  <2>2. CASE GetChildren(t)      BY <2>2 DEF GetChildren, To
  <2>3. CASE GetChildrenFails(t) BY <2>3 DEF GetChildrenFails, To
  <2>4. CASE addCache(t)         BY <2>4 DEF addCache, To, After
  <2>5. CASE Copy(t)             BY <2>5 DEF Copy, To
  <2>6. CASE InvalidateAll(t)    BY <2>6 DEF InvalidateAll, To
  <2> QED
    BY <1>8, <2>1, <2>2, <2>3, <2>4, <2>5, <2>6 DEF rebuildCacheList
<1>9. CASE UNCHANGED registryVars
  BY <1>9 DEF registryVars
<1> QED
  BY <1>1, <1>2, <1>3, <1>4, <1>5, <1>6, <1>7, <1>8, <1>9
     DEF RegistryNext, childEvent, checkServerAvailable, Rebuilder

LEMMA ServersInit == RegistryInit => Servers
<1> SUFFICES ASSUME RegistryInit PROVE Servers
  OBVIOUS
<1> USE SessionsAreNat DEF RegistryInit, NoSession
<1>1. RegistryTypeOK
  <2>1. overlapped \in BOOLEAN
    BY Zenon
  <2>2. sessions \in 0 .. MaxSessions
    OBVIOUS
  <2>3. \A a \in Address : session[a] <= sessions /\ node[a] <= session[a]
    OBVIOUS
  <2> QED
    BY <2>1, <2>2, <2>3 DEF RegistryTypeOK
<1>2. RunningIsListed
  BY DEF RunningIsListed
<1> QED
  BY <1>1, <1>2 DEF Servers

(* The registry and the cache are well typed, the session of a server that   *)
(* starts owns no node yet, and a rebuild leaves nothing of its list behind. *)
THEOREM RegistryTypes == RegistrySpec => []RegistryTypeOK
<1>1. Servers => RegistryTypeOK
  BY DEF Servers
<1> QED
  BY <1>1, ServersInit, ServersInductive, PTL DEF RegistrySpec

(* NettyServerApplication.run: a server that runs owns the node that logins  *)
(* find it by, whatever the processes before it left in ZooKeeper, unless    *)
(* its session has expired since it started.                                 *)
THEOREM RunningListed == RegistrySpec => []RunningIsListed
<1>1. Servers => RunningIsListed
  BY DEF Servers
<1> QED
  BY <1>1, ServersInit, ServersInductive, PTL DEF RegistrySpec
----------------------------------------------------------------------------
(* The cache.                                                                *)

(* As long as no other rebuild has joined it, a rebuild is on its own.       *)
Alone == ~overlapped => \A t, x \in Rebuilder : ~Idling(t) /\ ~Idling(x) => t = x

(* What it keeps is in the cache, in its list, or, while the cache is being  *)
(* filled from the list, in one of them.                                     *)
Found(t) == CASE at[t] \in {"size", "copy"} -> kept \subseteq cache
              [] at[t] = "getChildren"      -> kept = {} /\ cache = {}
              [] at[t] = "invalidateAll"    -> kept \subseteq got[t]
              [] at[t] \in DOMAIN After     -> kept \subseteq cache \cup got[t]
              [] OTHER                      -> TRUE

Rebuilds == /\ RegistryTypeOK /\ Alone
            /\ ~overlapped => \A t \in Rebuilder : Found(t)
            /\ ~overlapped /\ (\A t \in Rebuilder : Idling(t)) => kept \subseteq cache

(* One step per operation on the cache; the servers do not touch it, and can *)
(* only take from what is kept.                                              *)
LEMMA RebuildsInductive ==
  Servers /\ Rebuilds /\ [RegistryNext]_registryVars => Rebuilds'
<1> SUFFICES ASSUME Servers, Rebuilds, [RegistryNext]_registryVars PROVE Rebuilds'
  OBVIOUS
<1>0. RegistryTypeOK'
  BY ServersInductive DEF Servers
<1> USE DEF Rebuilds, Alone, Found, Idling, After
<1>1. ASSUME UNCHANGED rebuild, kept' \subseteq kept PROVE Rebuilds'
  BY <1>0, <1>1 DEF rebuild
<1>2. ASSUME NEW t \in Rebuilder, Begin(t) PROVE Rebuilds'
  BY <1>0, <1>2 DEF Begin, To, RegistryTypeOK
<1>3. ASSUME NEW t \in Rebuilder, rebuildCacheList(t) PROVE Rebuilds'
  <2> USE <1>0 DEF RegistryTypeOK
  <2>1. CASE Size(t)             BY <2>1 DEF Size, To, listed
  <2>2. CASE GetChildren(t)      BY <2>2 DEF GetChildren, To
  <2>3. CASE GetChildrenFails(t)
    <3>1. /\ at[t] = "getChildren" /\ at'[t] = "idle"
          /\ \A x \in Rebuilder : x # t => at'[x] = at[x]
          /\ UNCHANGED <<cache, got, kept, overlapped>>
      BY <2>3 DEF GetChildrenFails, To, listed
    <3>2. ~overlapped => /\ \A x \in Rebuilder : x # t => at[x] = "idle"
                         /\ kept \subseteq cache
      BY <3>1
    <3> QED
      BY ONLY <1>0, <3>1, <3>2 DEF Rebuilds, Alone, Found, Idling
  <2>4. CASE addCache(t)
    <3>1. /\ at[t] \in {"fill", "put"} /\ UNCHANGED <<kept, overlapped>>
          /\ \A x \in Rebuilder : x # t => at'[x] = at[x]
      BY <2>4 DEF addCache, To, listed
    <3>2. ~overlapped => /\ \A x \in Rebuilder : x # t => at[x] = "idle"
                         /\ kept \subseteq cache \cup got[t]
      BY <3>1
    <3>3. CASE got[t] = {}
      <4>1. at'[t] \in {"copy", "idle"} /\ UNCHANGED <<cache, got>>
        BY <2>4, <3>1, <3>3 DEF addCache, To
      <4> QED
        BY ONLY <1>0, <3>1, <3>2, <3>3, <4>1 DEF Rebuilds, Alone, Found, Idling
    <3>4. CASE got[t] # {}
      <4>1. PICK a \in got[t] : /\ cache' = cache \cup {a}
                                /\ got' = [got EXCEPT ![t] = @ \ {a}] /\ UNCHANGED at
        BY <2>4, <3>4 DEF addCache
      <4>2. cache' \cup got'[t] = cache \cup got[t]
        BY <4>1
      <4> QED
        BY ONLY <1>0, <3>1, <3>2, <4>1, <4>2 DEF Rebuilds, Alone, Found, Idling, After
    <3> QED
      BY <3>3, <3>4
  <2>5. CASE Copy(t)             BY <2>5 DEF Copy, To, listed
  <2>6. CASE InvalidateAll(t)    BY <2>6 DEF InvalidateAll, To, listed
  <2> QED
    BY <1>3, <2>1, <2>2, <2>3, <2>4, <2>5, <2>6 DEF rebuildCacheList
<1>4. ASSUME NEW a \in Address,
             \/ Start(a) \/ createEphemeral(a) \/ Stop(a) \/ Die(a)
             \/ ExpireDead(a) \/ ExpireLive(a)
      PROVE  Rebuilds'
  <2>1. UNCHANGED rebuild /\ kept' \subseteq kept
    BY <1>4 DEF Start, createEphemeral, Stop, Die, ExpireDead, ExpireLive,
                Register, Unregister, listed
  <2> QED
    BY <1>1, <2>1
<1>5. CASE UNCHANGED registryVars
  BY <1>1, <1>5 DEF registryVars, listed
<1> QED
  BY <1>2, <1>3, <1>4, <1>5
     DEF RegistryNext, childEvent, checkServerAvailable, Rebuilder

(* ServerCache.rebuildCacheList: a rebuild that no other one overlaps loses  *)
(* no server that it found and that stays in ZooKeeper.                      *)
THEOREM RebuildsKeep == RegistrySpec => []RebuildKeeps
<1>1. RegistryInit => Rebuilds
  BY ServersInit DEF RegistryInit, Rebuilds, Alone, Found, Idling, Servers, After
<1>2. Rebuilds => RebuildKeeps
  BY DEF Rebuilds, RebuildKeeps
<1> QED
  BY <1>1, <1>2, ServersInit, ServersInductive, RebuildsInductive, PTL DEF RegistrySpec
----------------------------------------------------------------------------
(* The user of a servlet thread.                                             *)
Types == /\ serving \in [Worker -> {"idle", "login", "handler"}]
         /\ caller \in [Worker -> Caller \cup {NoUser}]
         /\ userThreadLocal \in [Worker -> Caller \cup {NoUser}]

(* RunsAsCaller alone is not inductive: a login leaves the ThreadLocal as it *)
(* is, so it has to be empty between two requests.                           *)
IdleIsEmpty == \A w \in Worker : serving[w] # "handler" => caller[w] = NoUser

TokenInv == Types /\ RunsAsCaller /\ IdleIsEmpty

LEMMA TokenInductive == TokenInv /\ [TokenNext]_tokenVars => TokenInv'
<1> SUFFICES ASSUME TokenInv, [TokenNext]_tokenVars PROVE TokenInv'
  OBVIOUS
<1> USE DEF TokenInv, Types, RunsAsCaller, IdleIsEmpty
<1>1. ASSUME NEW w \in Worker, userLogin(w) PROVE TokenInv'
  BY <1>1 DEF userLogin, Serve
<1>2. ASSUME NEW w \in Worker, Preflight(w) PROVE TokenInv'
  BY <1>2 DEF Preflight, Serve
<1>3. ASSUME NEW w \in Worker, afterCompletion(w) PROVE TokenInv'
  BY <1>3 DEF afterCompletion
<1>4. ASSUME NEW w \in Worker, LoginReturns(w) PROVE TokenInv'
  BY <1>4 DEF LoginReturns
<1>5. ASSUME NEW w \in Worker, NEW u \in Caller, preHandle(w, u) PROVE TokenInv'
  BY <1>5 DEF preHandle, Serve
<1>6. CASE UNCHANGED tokenVars
  BY <1>6 DEF tokenVars
<1> QED
  BY <1>1, <1>2, <1>3, <1>4, <1>5, <1>6 DEF TokenNext

(* CheckTokenInterceptor: whatever requests a thread has served, it runs the *)
(* next one as the user of its token, and as nobody if it has none.          *)
THEOREM CallersOnly == TokenSpec => []RunsAsCaller
<1>1. TokenInit => TokenInv
  BY DEF TokenInit, TokenInv, Types, RunsAsCaller, IdleIsEmpty
<1>2. TokenInv => RunsAsCaller
  BY DEF TokenInv
<1> QED
  BY <1>1, <1>2, TokenInductive, PTL DEF TokenSpec
----------------------------------------------------------------------------
(* The sum of the parts                                                      *)

(* A behaviour of the sum is one of every part: a step of one part leaves    *)
(* the others alone, whose next-state relations it therefore stutters on.    *)
THEOREM SumOfParts ==
  PartsSpec => Spec /\ LoaderSpec /\ RegistrySpec /\ SnowSpec /\ CodecSpec /\ TokenSpec
<1>1. PartsInit => /\ Init /\ LoaderInit /\ RegistryInit /\ SnowInit
                   /\ CodecInit /\ TokenInit
  BY DEF PartsInit
<1>2. [PartsNext]_partVars => /\ [Next]_vars
                              /\ [LoaderNext]_loaderVars
                              /\ [RegistryNext]_registryVars
                              /\ [SnowNext]_snowVars
                              /\ [CodecNext]_codecVars
                              /\ [TokenNext]_tokenVars
  BY Zenon DEF PartsNext, SessionsPart, LoaderPart, RegistryPart, SnowPart, CodecPart, TokenPart,
               partVars
<1>. QED
  BY <1>1, <1>2, PTL DEF PartsSpec, Spec, LoaderSpec, RegistrySpec, SnowSpec, CodecSpec,
                         TokenSpec

(* Every part is well typed.                                                 *)
THEOREM PartsTypes == PartsSpec => []PartsTypeOK
<1>1. LoaderTypeOK /\ RegistryTypeOK /\ SnowTypeOK => PartsTypeOK
  BY DEF PartsTypeOK
<1>. QED
  BY <1>1, SumOfParts, LoaderTypesHold, RegistryTypes, SnowTypes, PTL
============================================================================
