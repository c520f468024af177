----------------------------- MODULE PageLoader -----------------------------
(* The loader of the web pages: layui.use and layui.define, which fetch      *)
(* modules as scripts, wait for their exports by polling, and hand the       *)
(* page's callback to the ready list of the jQuery in layui.js (Callbacks    *)
(* with "once memory"). login.html and index.html run everything they do     *)
(* with the servers inside such a callback.                                  *)
(*                                                                           *)
(* JavaScript runs one task at a time: a task is one action, except that the *)
(* ready list calls its callbacks one by one, because a callback may call    *)
(* use again and come back to the list that is calling it.                   *)
EXTENDS Naturals, Sequences

CONSTANTS Module,    \* modules in files of their own, such as layim
          Builtin,   \* modules that layui.js defines itself
          NoCall,    \* null
          MaxPolls,  \* polls before a use gives up: 1e3 * timeout / 4
          MaxUses,   \* bound: calls of use by the page, in their order
          List       \* bound: what use and define are called with

PageCall == 1 .. MaxUses
Call == PageCall \cup Module   \* the script of a module calls define once
Name == Module \cup Builtin

ASSUME NamesDiffer == /\ Module \cap Builtin = {}
                      /\ NoCall \notin Call
                      /\ PageCall \cap Module = {}
ASSUME ListsOfNames == List \subseteq Seq(Name)
ASSUME PollsArePositive == MaxPolls \in Nat \ {0} /\ MaxUses \in Nat

VARIABLES
  call,     \* call[k]: its list, the position it is at, what it waits for, polls
  modules,  \* modules whose script has been asked for
  status,   \* modules that have been exported
  script,   \* script[h]: none, sent, loaded or failed
  fired,    \* the document is ready, and the ready list has been resolved
  firing,   \* the ready list is calling its callbacks
  ready,    \* the ready list
  fire,     \* how many of it have been called
  thrown,   \* a callback has thrown, and with it the loop that called it
  running,  \* the use whose callback is running
  added,    \* history: the uses that had all their modules, in order
  called    \* history: the uses whose callback has been called, in order

readyList == <<fired, firing, ready, fire, thrown, running, called>>
loaderVars == <<call, modules, status, script, readyList, added>>

LoaderInit ==
  /\ call = [k \in Call |-> [list |-> <<>>, pos |-> 1, wait |-> "none", polls |-> 0]]
  /\ modules = {} /\ status = {}
  /\ script = [h \in Module |-> "none"]
  /\ fired = FALSE /\ firing = FALSE
  /\ ready = <<>> /\ fire = 0 /\ thrown = FALSE /\ running = NoCall
  /\ added = <<>> /\ called = <<>>
----------------------------------------------------------------------------
Head1(k) == call[k].list[call[k].pos]

\* The list that is calling is a task of its own.
Free == ~firing \/ thrown

\* The first position of l from i on whose module is neither built in nor in st.
Missing(l, i, st) ==
  CHOOSE j \in i .. Len(l) + 1 :
    /\ j <= Len(l) => l[j] \notin Builtin \cup st
    /\ \A n \in i .. j - 1 : l[n] \in Builtin \cup st

\* Where use(l) gets from position i on: through its list, to a script of its
\* own, or to polling for a module that another use has asked for.
Use(l, i, st, md) ==
  LET j == Missing(l, i, st) IN
  [list |-> l, pos |-> j, polls |-> IF j <= Len(l) /\ l[j] \in md THEN 1 ELSE 0,
   wait |-> CASE j > Len(l) -> "done" [] j <= Len(l) /\ l[j] \in md -> "poll"
              [] OTHER -> "script"]

Asked(c) == IF c.wait = "script" THEN {c.list[c.pos]} ELSE {}

\* A define that is through runs its factory, which exports the module ...
Exported(k, c) == IF c.wait = "done" /\ k \in Module THEN {k} ELSE {}

\* ... unless it throws before it has.
RunFactory(k, c, st) == status' \in {st, st \cup Exported(k, c)}

Send(hs) == [h \in Module |-> IF h \in hs THEN "sent" ELSE script[h]]

\* Mutant: add does not look whether the list is being called.
Add_Nested(k) == /\ added' = Append(added, k)
                 /\ IF fired
                    THEN /\ ready' = <<k>> /\ fire' = 1 /\ firing' = TRUE
                         /\ running' = k /\ called' = Append(called, k)
                         /\ UNCHANGED <<fired, thrown>>
                    ELSE /\ ready' = Append(ready, k)
                         /\ UNCHANGED <<fired, firing, fire, thrown, running, called>>

\* Mutant: a list that was resolved does not remember it.
Add_NoMemory(k) == /\ added' = Append(added, k)
                   /\ ready' = Append(ready, k)
                   /\ UNCHANGED <<fired, firing, fire, thrown, running, called>>

\* jquery(callback): on a list that was resolved it is called at once, unless
\* the list is just calling the others.
Add(k) == /\ added' = Append(added, k)
          /\ ready' = Append(ready, k)
          /\ firing' = fired
          /\ UNCHANGED <<fired, fire, thrown, running, called>>

\* A page's use that is through goes to the ready list.
Finish(k, c) == IF c.wait = "done" /\ k \in PageCall THEN Add(k)
                ELSE UNCHANGED <<readyList, added>>

use(k, l) == LET c == Use(l, 1, status, modules) IN
  /\ Free \/ running # NoCall
  /\ call[k].wait = "none" /\ \A i \in 1 .. k - 1 : call[i].wait # "none"
  /\ call' = [call EXCEPT ![k] = c]
  /\ modules' = modules \cup Asked(c)
  /\ script' = Send(Asked(c))
  /\ Finish(k, c)
  /\ UNCHANGED status

\* Mutant: a module that has been asked for is taken for loaded.
Poll_NoStatus(k) ==
  LET m == call[k].polls + 1
      c == IF m > MaxPolls THEN [call[k] EXCEPT !.wait = "invalid", !.polls = m]
           ELSE Use(call[k].list, call[k].pos + 1, status, modules) IN
  /\ Free
  /\ call[k].wait = "poll"
  /\ call' = [call EXCEPT ![k] = c]
  /\ modules' = modules \cup Asked(c)
  /\ status' = status \cup Exported(k, c)
  /\ script' = Send(Asked(c))
  /\ Finish(k, c)

\* Mutant: the polls are not counted.
Poll_NoTimeout(k) ==
  LET c == IF Head1(k) \in status
           THEN Use(call[k].list, call[k].pos + 1, status, modules)
           ELSE call[k] IN
  /\ Free
  /\ call[k].wait = "poll"
  /\ call' = [call EXCEPT ![k] = c]
  /\ modules' = modules \cup Asked(c)
  /\ status' = status \cup Exported(k, c)
  /\ script' = Send(Asked(c))
  /\ Finish(k, c)

\* The timer of a use that polls: the limit comes before the look at status.
Poll(k) ==
  LET m == call[k].polls + 1
      c == IF m > MaxPolls THEN [call[k] EXCEPT !.wait = "invalid", !.polls = m]
           ELSE IF Head1(k) \in status
           THEN Use(call[k].list, call[k].pos + 1, status, modules)
           ELSE [call[k] EXCEPT !.polls = m] IN
  /\ Free
  /\ call[k].wait = "poll"
  /\ call' = [call EXCEPT ![k] = c]
  /\ modules' = modules \cup Asked(c)
  /\ RunFactory(k, c, status)
  /\ script' = Send(Asked(c))
  /\ Finish(k, c)

\* Script h runs and calls define(l, factory), then its load event goes to the
\* use k that had sent for it, which polls for the first time.
Load(h, k, l) ==
  LET d  == Use(l, 1, status, modules)
      md == modules \cup Asked(d)
      st == status \cup Exported(h, d)
      c  == IF h \in st THEN Use(call[k].list, call[k].pos + 1, st, md)
            ELSE [call[k] EXCEPT !.wait = "poll", !.polls = 1] IN
  /\ Free
  /\ script[h] = "sent"
  /\ call[k].wait = "script" /\ Head1(k) = h
  /\ call' = [call EXCEPT ![h] = d, ![k] = c]
  /\ modules' = md \cup Asked(c)
  /\ RunFactory(k, c, st)
  /\ script' = [Send(Asked(d) \cup Asked(c)) EXCEPT ![h] = "loaded"]
  /\ Finish(k, c)

\* The file loads and defines nothing, or its factory runs at once and throws.
LoadNothing(h, k) ==
  /\ Free
  /\ script[h] = "sent"
  /\ call[k].wait = "script" /\ Head1(k) = h
  /\ script' = [script EXCEPT ![h] = "loaded"]
  /\ call' = [call EXCEPT ![k].wait = "poll", ![k].polls = 1]
  /\ UNCHANGED <<modules, status, readyList, added>>

\* Mutant: an error clears the entry, so that the next use asks again.
LoadFails_Retry(h) == /\ Free
                      /\ script[h] = "sent"
                      /\ script' = [script EXCEPT ![h] = "none"]
                      /\ modules' = modules \ {h}
                      /\ UNCHANGED <<call, status, readyList, added>>

\* The file is missing or the server is down: nothing listens to the error
\* event, and modules still has the entry.
LoadFails(h) == /\ Free
                /\ script[h] = "sent"
                /\ script' = [script EXCEPT ![h] = "failed"]
                /\ UNCHANGED <<call, modules, status, readyList, added>>

\* DOMContentLoaded or load, whichever is first.
DomReady == /\ ~fired
            /\ fired' = TRUE /\ firing' = TRUE
            /\ UNCHANGED <<call, modules, status, script, ready, fire, thrown, running, added,
                           called>>

\* The list calls the next callback, or is through and is emptied.
Fire == /\ firing /\ ~thrown /\ running = NoCall
        /\ IF fire < Len(ready)
           THEN /\ fire' = fire + 1
                /\ running' = ready[fire + 1]
                /\ called' = Append(called, ready[fire + 1])
                /\ UNCHANGED <<firing, ready>>
           ELSE /\ firing' = FALSE /\ ready' = <<>> /\ fire' = 0
                /\ UNCHANGED <<running, called>>
        /\ UNCHANGED <<call, modules, status, script, fired, thrown, added>>

Return == /\ running # NoCall
          /\ running' = NoCall
          /\ UNCHANGED <<call, modules, status, script, fired, firing, ready, fire, thrown,
                         added, called>>

\* An exception leaves the loop with the list marked as firing: what is added
\* later is never called.
Throw == /\ running # NoCall
         /\ running' = NoCall
         /\ thrown' = TRUE
         /\ UNCHANGED <<call, modules, status, script, fired, firing, ready, fire, added,
                        called>>
----------------------------------------------------------------------------
Arrive(h) == \/ \E k \in Call : LoadNothing(h, k) \/ \E l \in List : Load(h, k, l)
             \/ LoadFails(h)

\* Timers, scripts and events: what the browser runs.
Task == \/ \E k \in Call : Poll(k)
        \/ \E h \in Module : Arrive(h)
        \/ DomReady \/ Fire \/ Return \/ Throw

LoaderNext == Task \/ \E k \in PageCall, l \in List : use(k, l)

LoaderSpec == LoaderInit /\ [][LoaderNext]_loaderVars
----------------------------------------------------------------------------
LoaderTypes ==
  /\ call \in [Call -> [list : Seq(Name), pos : Nat, polls : Nat,
                        wait : {"none", "script", "poll", "done", "invalid"}]]
  /\ modules \subseteq Module /\ status \subseteq Module
  /\ script \in [Module -> {"none", "sent", "loaded", "failed"}]
  /\ fired \in BOOLEAN /\ firing \in BOOLEAN
  /\ ready \in Seq(PageCall) /\ fire \in 0 .. Len(ready)
  /\ thrown \in BOOLEAN /\ running \in PageCall \cup {NoCall}
  /\ added \in Seq(PageCall) /\ called \in Seq(PageCall)

Waiting(k) == call[k].wait \in {"script", "poll"}

(* Type correctness; a call that waits is at a module of its list, exactly   *)
(* one call waits for a script that is under way, and a script is asked for  *)
(* once.                                                                     *)
LoaderTypeOK ==
  /\ LoaderTypes
  /\ \A k \in Call : Waiting(k) => call[k].pos <= Len(call[k].list) /\ Head1(k) \in modules
  /\ \A h \in Module :
       /\ h \in modules <=> script[h] # "none"
       /\ script[h] \in {"sent", "failed"} =>
            \E k \in Call : /\ call[k].wait = "script" /\ Head1(k) = h
                            /\ \A j \in Call \ {k} :
                                 call[j].wait = "script" => Head1(j) # h

(* Factories and callbacks find what they asked for: when a module has been  *)
(* exported, so have the modules it depends on, and when a use is handed to  *)
(* the ready list, so have all of its own, whichever use sent for them and   *)
(* in whatever order the scripts came.                                       *)
DependenciesFirst ==
  /\ \A h \in status : \A i \in DOMAIN call[h].list : call[h].list[i] \in Builtin \cup status
  /\ \A n \in DOMAIN added :
       LET l == call[added[n]].list IN \A i \in DOMAIN l : l[i] \in Builtin \cup status

(* The callbacks of the page are called once each, in the order their uses   *)
(* were through, and none before the document is ready, although callbacks   *)
(* call use while the list is being called.                                  *)
CalledInOrder ==
  /\ Len(called) <= Len(added)
  /\ called = SubSeq(added, 1, Len(called))
  /\ \A i, j \in DOMAIN called : called[i] = called[j] => i = j
  /\ called # <<>> => fired

(* Whoever waits is waited for: the script a use needs is under way or has   *)
(* failed, never loaded behind its back, and a use that is through has been  *)
(* called or is among those the ready list has still to call, which is then  *)
(* calling them or will be when the document is ready. Only what the network *)
(* or a callback that throws does can keep a use from its end.               *)
NobodyForgotten == \A k \in PageCall :
  /\ call[k].wait = "script" => script[Head1(k)] \in {"sent", "failed"}
  /\ call[k].wait = "done" =>
       \/ \E i \in DOMAIN called : called[i] = k
       \/ \E i \in fire + 1 .. Len(ready) : ready[i] = k /\ (fired => firing)

(* Every use comes to an end: its callback is called or it is reported as    *)
(* invalid, also when modules depend on each other in a circle. There are    *)
(* two exceptions: the one use that sent for a script which fails to load,   *)
(* and those that get to the ready list after a callback has thrown.         *)
UseEnds == [](\A k \in PageCall : call[k].wait # "none" =>
  <>(\/ \E i \in DOMAIN called : called[i] = k
     \/ call[k].wait = "invalid"
     \/ call[k].wait = "script" /\ script[Head1(k)] = "failed"
     \/ call[k].wait = "done" /\ thrown))
============================================================================
