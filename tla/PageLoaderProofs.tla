-------------------------- MODULE PageLoaderProofs --------------------------
(* The page loader, for any modules, lists of modules and number of uses.    *)
EXTENDS PageLoader, Integers, WellFoundedInduction, SequenceTheorems, TLAPS

Calls == [list : Seq(Name), pos : Nat, polls : Nat,
          wait : {"none", "script", "poll", "done", "invalid"}]

LEMMA Least == ASSUME NEW T, T \subseteq Nat, T # {}
               PROVE  \E x \in T : \A y \in T : x <= y
<1>1. PICK x \in T : \A y \in T : <<y, x>> \notin OpToRel(<, Nat)
  BY WFMin, NatLessThanWellFounded
<1>2. \A y \in T : ~(y < x)
  BY <1>1 DEF OpToRel
<1> QED
  BY <1>2

(* Missing finds a position: the end of the list if nothing is missing.      *)
LEMMA MissingFound ==
  ASSUME NEW l \in Seq(Name), NEW i \in 1 .. Len(l) + 1, NEW st,
         NEW j, j = Missing(l, i, st)
  PROVE  /\ j \in i .. Len(l) + 1
         /\ j <= Len(l) => l[j] \notin Builtin \cup st
         /\ \A n \in i .. j - 1 : l[n] \in Builtin \cup st
<1> DEFINE P(x) == /\ x <= Len(l) => l[x] \notin Builtin \cup st
                   /\ \A n \in i .. x - 1 : l[n] \in Builtin \cup st
           T == {x \in i .. Len(l) + 1 : x <= Len(l) => l[x] \notin Builtin \cup st}
<1>1. Len(l) + 1 \in T /\ T \subseteq Nat
  OBVIOUS
<1>2. PICK x \in T : \A y \in T : x <= y
  BY <1>1, Least
<1>3. \A n \in i .. x - 1 : l[n] \in Builtin \cup st
  <2> SUFFICES ASSUME NEW n \in i .. x - 1, l[n] \notin Builtin \cup st PROVE FALSE
    OBVIOUS
  <2>1. x \in i .. Len(l) + 1 /\ n \in i .. Len(l) + 1
    BY <1>1
  <2>2. n \in T
    BY <2>1
  <2> QED
    BY <1>2, <2>1, <2>2
<1>4. \E y \in i .. Len(l) + 1 : P(y)
  BY <1>2, <1>3
<1>5. j = CHOOSE y \in i .. Len(l) + 1 : P(y)
  BY DEF Missing
<1> HIDE DEF P, T
<1>6. j \in i .. Len(l) + 1 /\ P(j)
  BY <1>4, <1>5
<1> QED
  BY <1>6 DEF P

(* What Use returns: how far it got and what it waits for there.             *)
LEMMA UseResult ==
  ASSUME NEW l \in Seq(Name), NEW i \in 1 .. Len(l) + 1, NEW st, NEW md,
         \A n \in 1 .. i - 1 : l[n] \in Builtin \cup st,
         NEW c, c = Use(l, i, st, md)
  PROVE  /\ c \in Calls /\ c.list = l
         /\ \A n \in 1 .. c.pos - 1 : l[n] \in Builtin \cup st
         /\ \/ c.wait = "done" /\ c.pos = Len(l) + 1 /\ Asked(c) = {}
            \/ /\ c.wait = "poll" /\ Asked(c) = {}
               /\ c.pos \in 1 .. Len(l) /\ l[c.pos] \in Module \cap md
            \/ /\ c.wait = "script" /\ Asked(c) = {l[c.pos]}
               /\ c.pos \in 1 .. Len(l) /\ l[c.pos] \in Module \ md
<1> DEFINE j == Missing(l, i, st)
<1>1. /\ j \in i .. Len(l) + 1
      /\ j <= Len(l) => l[j] \notin Builtin \cup st
      /\ \A n \in i .. j - 1 : l[n] \in Builtin \cup st
  BY MissingFound
<1>2. c = [list |-> l, pos |-> j, polls |-> IF j <= Len(l) /\ l[j] \in md THEN 1 ELSE 0,
           wait |-> CASE j > Len(l) -> "done" [] j <= Len(l) /\ l[j] \in md -> "poll"
                      [] OTHER -> "script"]
  BY DEF Use
<1> HIDE DEF j
<1>3. j \in 1 .. Len(l) => l[j] \in Module
  BY <1>1 DEF Name
<1>4. \A n \in 1 .. j - 1 : l[n] \in Builtin \cup st
  BY <1>1
<1>5. CASE j > Len(l)
  BY <1>1, <1>2, <1>4, <1>5 DEF Calls, Asked
<1>6. CASE j <= Len(l) /\ l[j] \in md
  BY <1>1, <1>2, <1>3, <1>4, <1>6 DEF Calls, Asked
<1>7. CASE j <= Len(l) /\ l[j] \notin md
  BY <1>1, <1>2, <1>3, <1>4, <1>7 DEF Calls, Asked
<1> QED
  BY <1>1, <1>5, <1>6, <1>7
----------------------------------------------------------------------------
(* The calls: how far each has got, and whose script is under way.           *)

LoadTypes == /\ call \in [Call -> Calls]
             /\ modules \subseteq Module /\ status \subseteq Module
             /\ script \in [Module -> {"none", "sent", "loaded", "failed"}]

Progress(k) ==
  LET c == call[k] IN
  /\ c.wait # "none" => \A n \in 1 .. c.pos - 1 : c.list[n] \in Builtin \cup status
  /\ c.wait = "done" => c.pos = Len(c.list) + 1
  /\ c.wait \in {"script", "poll"} =>
       c.pos \in 1 .. Len(c.list) /\ c.list[c.pos] \in modules

WaitsFor(k, h) == call[k].wait = "script" /\ call[k].list[call[k].pos] = h

Scripts(h) ==
  /\ h \in modules <=> script[h] # "none"
  /\ script[h] # "loaded" => call[h].wait = "none"
  /\ h \in status => call[h].wait = "done"
  /\ script[h] \in {"sent", "failed"} =>
       \E k \in Call : WaitsFor(k, h) /\ \A j \in Call \ {k} : ~WaitsFor(j, h)

(* The script that a call listens to has not come behind its back.           *)
Listens(k) ==
  call[k].wait = "script" => script[call[k].list[call[k].pos]] \in {"sent", "failed"}

LoadInv == /\ LoadTypes
           /\ \A k \in Call : Progress(k)
           /\ \A h \in Module : Scripts(h)
           /\ \A k \in Call : Listens(k)

(* A call that goes on to c, and asks for what it needs next.                *)
Goes(c, st, md) ==
  /\ c \in Calls
  /\ c.wait # "none"
  /\ \A n \in 1 .. c.pos - 1 : c.list[n] \in Builtin \cup st
  /\ \/ c.wait = "invalid" /\ Asked(c) = {}
     \/ c.wait = "done" /\ c.pos = Len(c.list) + 1 /\ Asked(c) = {}
     \/ /\ c.wait = "poll" /\ Asked(c) = {}
        /\ c.pos \in 1 .. Len(c.list) /\ c.list[c.pos] \in Module \cap md
     \/ /\ c.wait = "script" /\ Asked(c) = {c.list[c.pos]}
        /\ c.pos \in 1 .. Len(c.list) /\ c.list[c.pos] \in Module \ md

LEMMA UseGoes ==
  ASSUME NEW l \in Seq(Name), NEW i \in 1 .. Len(l) + 1, NEW st, NEW md,
         \A n \in 1 .. i - 1 : l[n] \in Builtin \cup st,
         NEW c, c = Use(l, i, st, md)
  PROVE  Goes(c, st, md)
<1>1. /\ c \in Calls /\ c.list = l
      /\ \A n \in 1 .. c.pos - 1 : l[n] \in Builtin \cup st
      /\ \/ c.wait = "done" /\ c.pos = Len(l) + 1 /\ Asked(c) = {}
         \/ /\ c.wait = "poll" /\ Asked(c) = {}
            /\ c.pos \in 1 .. Len(l) /\ l[c.pos] \in Module \cap md
         \/ /\ c.wait = "script" /\ Asked(c) = {l[c.pos]}
            /\ c.pos \in 1 .. Len(l) /\ l[c.pos] \in Module \ md
  BY UseResult
<1> QED
  BY ONLY <1>1 DEF Goes

(* One call that is polling, or a page's use that begins, goes on.           *)
LEMMA OneGoes ==
  ASSUME LoadInv, NEW k \in Call, NEW c, Goes(c, status, modules),
         \/ call[k].wait = "poll"
         \/ call[k].wait = "none" /\ k \notin Module,
         call' = [call EXCEPT ![k] = c],
         modules' = modules \cup Asked(c),
         RunFactory(k, c, status),
         script' = Send(Asked(c))
  PROVE  LoadInv'
<1> USE DEF Goes, WaitsFor, RunFactory
<1>1. LoadTypes'
  BY DEF LoadInv, LoadTypes, Exported, Send
<1>2. /\ call'[k] = c /\ \A j \in Call \ {k} : call'[j] = call[j]
      /\ modules \subseteq modules' /\ status \subseteq status'
      /\ Module \subseteq Call
  BY DEF LoadInv, LoadTypes, Call
<1>3. ASSUME NEW j \in Call PROVE Progress(j)'
  <2>1. CASE j # k
    BY <1>2, <2>1 DEF LoadInv, Progress
  <2>2. CASE j = k
    BY <1>2, <2>2 DEF Progress
  <2> QED
    BY <2>1, <2>2
<1>4. ASSUME NEW h \in Module PROVE Scripts(h)'
  <2>1. Scripts(h) /\ h \in Call
    BY <1>2 DEF LoadInv
  <2>2. script'[h] = IF h \in Asked(c) THEN "sent" ELSE script[h]
    BY DEF Send
  <2>3. h \in modules' <=> script'[h] # "none"
    BY <2>1, <2>2 DEF Scripts
  <2>4. script'[h] # "loaded" => call'[h].wait = "none"
    BY <1>2, <2>1, <2>2 DEF Scripts
  <2>5. h \in status' => call'[h].wait = "done"
    BY <1>2, <2>1 DEF Scripts, Exported
  <2>6. ASSUME script'[h] \in {"sent", "failed"}
        PROVE  \E j \in Call : WaitsFor(j, h)' /\ \A i \in Call \ {j} : ~WaitsFor(i, h)'
    <3>1. CASE h \in Asked(c)
      <4>1. h \notin modules /\ WaitsFor(k, h)'
        BY <1>2, <3>1
      <4>2. \A i \in Call \ {k} : ~WaitsFor(i, h)'
        BY <1>2, <4>1 DEF LoadInv, Progress
      <4> QED
        BY <4>1, <4>2
    <3>2. CASE h \notin Asked(c)
      <4>1. script[h] \in {"sent", "failed"} /\ h \in modules
        BY <2>1, <2>2, <2>6, <3>2 DEF Scripts
      <4>2. PICK j \in Call : WaitsFor(j, h) /\ \A i \in Call \ {j} : ~WaitsFor(i, h)
        BY <2>1, <4>1 DEF Scripts
      <4>3. j # k /\ ~WaitsFor(k, h)'
        BY <1>2, <3>2, <4>2
      <4> QED
        BY <1>2, <4>2, <4>3
    <3> QED
      BY <3>1, <3>2
  <2> QED
    BY <2>3, <2>4, <2>5, <2>6 DEF Scripts
<1>5. ASSUME NEW j \in Call PROVE Listens(j)'
  <2>1. \A h \in Module : script'[h] = IF h \in Asked(c) THEN "sent" ELSE script[h]
    BY DEF Send
  <2>2. CASE j = k
    <3>1. c.wait = "script" => c.list[c.pos] \in Module /\ c.list[c.pos] \in Asked(c)
      OBVIOUS
    <3> QED
      BY ONLY <1>2, <2>1, <2>2, <3>1 DEF Listens
  <2>3. CASE j # k
    <3>1. call'[j] = call[j] /\ Progress(j) /\ Listens(j) /\ modules \subseteq Module
      BY <1>2, <2>3 DEF LoadInv, LoadTypes
    <3> QED
      BY ONLY <2>1, <3>1 DEF Listens, Progress
  <2> QED
    BY <2>2, <2>3
<1> QED
  BY <1>1, <1>3, <1>4, <1>5 DEF LoadInv

LEMMA LoaderUses ==
  ASSUME LoadInv, NEW k \in PageCall, NEW l \in List, use(k, l) PROVE LoadInv'
<1> DEFINE c == Use(l, 1, status, modules)
<1>1. l \in Seq(Name) /\ k \in Call /\ k \notin Module
  BY ListsOfNames, NamesDiffer DEF Call
<1>2. Goes(c, status, modules)
  BY <1>1, UseGoes
<1>3. /\ call[k].wait = "none"
      /\ call' = [call EXCEPT ![k] = c] /\ modules' = modules \cup Asked(c)
      /\ script' = Send(Asked(c)) /\ status' = status
  BY DEF use
<1> HIDE DEF c
<1>4. RunFactory(k, c, status)
  BY <1>1, <1>3 DEF RunFactory
<1> QED
  BY <1>1, <1>2, <1>3, <1>4, OneGoes

(* A call that stays where it is: it polls on, or gives up.                  *)
LEMMA StaysPut ==
  ASSUME NEW x \in Calls, NEW m \in Nat, NEW w \in {"invalid", "poll"}, NEW st, NEW md,
         x.pos \in 1 .. Len(x.list), x.list[x.pos] \in Module \cap md,
         \A n \in 1 .. x.pos - 1 : x.list[n] \in Builtin \cup st,
         NEW c, c = [x EXCEPT !.wait = w, !.polls = m]
  PROVE  Goes(c, st, md)
<1>1. c \in Calls /\ c.pos = x.pos /\ c.list = x.list /\ c.wait = w
  BY DEF Calls
<1> QED
  BY <1>1 DEF Goes, Asked

LEMMA LoaderPolls == ASSUME LoadInv, NEW k \in Call, Poll(k) PROVE LoadInv'
<1> DEFINE m == call[k].polls + 1
           c == IF m > MaxPolls THEN [call[k] EXCEPT !.wait = "invalid", !.polls = m]
                ELSE IF Head1(k) \in status
                THEN Use(call[k].list, call[k].pos + 1, status, modules)
                ELSE [call[k] EXCEPT !.polls = m]
<1>1. /\ call[k].wait = "poll"
      /\ call' = [call EXCEPT ![k] = c] /\ modules' = modules \cup Asked(c)
      /\ RunFactory(k, c, status) /\ script' = Send(Asked(c))
  BY DEF Poll
<1>2. /\ call[k] \in Calls /\ modules \subseteq Module
      /\ call[k].pos \in 1 .. Len(call[k].list)
      /\ call[k].list[call[k].pos] \in modules
      /\ \A n \in 1 .. call[k].pos - 1 : call[k].list[n] \in Builtin \cup status
  BY <1>1 DEF LoadInv, LoadTypes, Progress
<1>3. Goes(c, status, modules)
  <2> DEFINE x == call[k]
  <2>1. CASE m > MaxPolls
    <3>1. c = [x EXCEPT !.wait = "invalid", !.polls = m]
      BY <2>1
    <3>2. /\ x \in Calls /\ x.wait = "poll" /\ m \in Nat
          /\ x.pos \in 1 .. Len(x.list) /\ x.list[x.pos] \in Module \cap modules
          /\ \A n \in 1 .. x.pos - 1 : x.list[n] \in Builtin \cup status
      BY <1>1, <1>2 DEF Calls
    <3> HIDE DEF c, x, m
    <3> QED
      BY ONLY <3>1, <3>2, StaysPut
  <2>2. CASE ~(m > MaxPolls) /\ Head1(k) \in status
    <3>1. c = Use(x.list, x.pos + 1, status, modules)
      BY <2>2
    <3>2. /\ x.list \in Seq(Name) /\ x.pos + 1 \in 1 .. Len(x.list) + 1
          /\ \A n \in 1 .. (x.pos + 1) - 1 : x.list[n] \in Builtin \cup status
      BY <1>2, <2>2 DEF Calls, Head1
    <3> QED
      BY ONLY <3>1, <3>2, UseGoes
  <2>3. CASE ~(m > MaxPolls) /\ Head1(k) \notin status
    <3>1. c = [x EXCEPT !.wait = "poll", !.polls = m]
      BY <1>1, <1>2, <2>3 DEF Calls
    <3>2. /\ x \in Calls /\ x.wait = "poll" /\ m \in Nat
          /\ x.pos \in 1 .. Len(x.list) /\ x.list[x.pos] \in Module \cap modules
          /\ \A n \in 1 .. x.pos - 1 : x.list[n] \in Builtin \cup status
      BY <1>1, <1>2 DEF Calls
    <3> HIDE DEF c, x, m
    <3> QED
      BY ONLY <3>1, <3>2, StaysPut
  <2> QED
    BY <2>1, <2>2, <2>3
<1> HIDE DEF c
<1> QED
  BY <1>1, <1>3, OneGoes
(* A script has loaded: its define goes on to d, the call that sent for it   *)
(* to c.                                                                     *)
LEMMA TwoGo ==
  ASSUME LoadInv, NEW h \in Module, NEW k \in Call, script[h] = "sent", WaitsFor(k, h),
         NEW d, NEW c, Goes(d, status, modules),
         NEW st, st = status \cup Exported(h, d),
         NEW md, md = modules \cup Asked(d), Goes(c, st, md),
         call' = [call EXCEPT ![h] = d, ![k] = c],
         modules' = md \cup Asked(c),
         RunFactory(k, c, st),
         script' = [Send(Asked(d) \cup Asked(c)) EXCEPT ![h] = "loaded"]
  PROVE  LoadInv'
<1>1. /\ call[h].wait = "none" /\ h \notin status /\ h \in modules /\ h # k
      /\ Module \subseteq Call
      /\ k \in Module => script[k] = "loaded" /\ k \in modules
  BY DEF LoadInv, Scripts, Call, WaitsFor
<1> USE DEF Goes, WaitsFor, RunFactory
<1>2. LoadTypes'
  BY DEF LoadInv, LoadTypes, Exported, Send
<1>3. /\ call'[k] = c /\ call'[h] = d
      /\ \A j \in Call \ {h, k} : call'[j] = call[j]
  BY <1>1 DEF LoadInv, LoadTypes
<1>4. /\ modules \subseteq md /\ md \subseteq modules'
      /\ status \subseteq st /\ st \subseteq status'
  OBVIOUS
<1>5. ASSUME NEW j \in Call PROVE Progress(j)'
  <2>1. CASE j \notin {h, k}
    <3>1. call'[j] = call[j] /\ Progress(j)
      BY <1>3, <2>1 DEF LoadInv
    <3> QED
      BY ONLY <1>4, <3>1 DEF Progress
  <2>2. CASE j = h
    BY <1>3, <1>4, <2>2 DEF Progress
  <2>3. CASE j = k
    <3>1. call'[k] = c /\ modules' = md \cup Asked(c) /\ st \subseteq status'
      BY <1>3, <1>4
    <3>2. Goes(c, st, md)
      OBVIOUS
    <3> QED
      BY ONLY <2>3, <3>1, <3>2 DEF Progress, Goes
  <2> QED
    BY <2>1, <2>2, <2>3
<1>6. /\ c.wait = "script" => Asked(c) = {c.list[c.pos]} /\ c.list[c.pos] \notin md
      /\ d.wait = "script" => Asked(d) = {d.list[d.pos]} /\ d.list[d.pos] \notin modules
  <2>1. Goes(c, st, md) /\ Goes(d, status, modules)
    OBVIOUS
  <2> QED
    BY ONLY <2>1 DEF Goes
<1>7. ASSUME NEW g \in Module PROVE Scripts(g)'
  <2>1. Scripts(g) /\ g \in Call
    BY <1>1 DEF LoadInv
  <2>2. script'[g] = IF g = h THEN "loaded"
                     ELSE IF g \in Asked(d) \cup Asked(c) THEN "sent" ELSE script[g]
    BY DEF Send
  <2>3. \A e \in Asked(d) \cup Asked(c) : e \notin modules
    BY <1>4
  <2>4. g \in modules' <=> script'[g] # "none"
    BY <1>1, <1>4, <2>1, <2>2 DEF Scripts
  <2>5. script'[g] # "loaded" => call'[g].wait = "none"
    BY <1>1, <1>3, <2>1, <2>2, <2>3 DEF Scripts
  <2>6. g \in status' => call'[g].wait = "done"
    <3>1. /\ g \in status' => g \in status \cup Exported(h, d) \cup Exported(k, c)
          /\ g \in status => g \notin {h, k} /\ call[g].wait = "done"
      BY <1>1, <2>1 DEF Scripts
    <3>2. /\ g \in Exported(h, d) => g = h /\ d.wait = "done"
          /\ g \in Exported(k, c) => g = k /\ c.wait = "done"
      BY DEF Exported
    <3> QED
      BY ONLY <1>3, <2>1, <3>1, <3>2
  <2>7. ASSUME script'[g] \in {"sent", "failed"}
        PROVE  \E j \in Call : WaitsFor(j, g)' /\ \A i \in Call \ {j} : ~WaitsFor(i, g)'
    <3>1. g # h
      BY <2>2, <2>7
    <3>2. g \notin modules => \A j \in Call \ {h, k} : ~WaitsFor(j, g)'
      <4>1. \A j \in Call \ {h, k} : call'[j] = call[j] /\ Progress(j)
        BY <1>3 DEF LoadInv
      <4> QED
        BY ONLY <4>1 DEF Progress, WaitsFor
    <3>3. CASE g \in Asked(d)
      <4>1. g \notin modules /\ WaitsFor(h, g)' /\ g \in md
        BY <1>3, <3>3
      <4>2. ~WaitsFor(k, g)'
        BY ONLY <1>3, <1>6, <4>1 DEF WaitsFor
      <4> HIDE DEF WaitsFor, Goes
      <4>3. h \in Call
        BY <1>1
      <4> QED
        BY ONLY <3>2, <4>1, <4>2, <4>3
    <3>4. CASE g \in Asked(c)
      <4>1. g \notin md /\ g \notin modules /\ WaitsFor(k, g)'
        BY <1>3, <1>4, <3>4
      <4>2. ~WaitsFor(h, g)'
        BY <1>3, <4>1
      <4> QED
        BY <3>2, <4>1, <4>2
    <3>5. CASE g \notin Asked(c) \cup Asked(d)
      <4>1. script[g] \in {"sent", "failed"} /\ g \in modules
        BY <2>1, <2>2, <2>7, <3>1, <3>5 DEF Scripts
      <4>2. PICK j \in Call : WaitsFor(j, g) /\ \A i \in Call \ {j} : ~WaitsFor(i, g)
        BY <2>1, <4>1 DEF Scripts
      <4>3. j # k /\ j # h
        BY <1>1, <3>1, <4>2
      <4>4. ~WaitsFor(k, g)' /\ ~WaitsFor(h, g)'
        BY ONLY <1>3, <1>6, <3>5 DEF WaitsFor
      <4>5. \A i \in Call \ {h, k} : WaitsFor(i, g)' <=> WaitsFor(i, g)
        BY <1>3
      <4> HIDE DEF WaitsFor, Goes
      <4> QED
        BY ONLY <4>2, <4>3, <4>4, <4>5
    <3> QED
      BY <3>3, <3>4, <3>5
  <2> QED
    BY <2>4, <2>5, <2>6, <2>7 DEF Scripts
<1>8. ASSUME NEW j \in Call PROVE Listens(j)'
  <2>1. \A g \in Module : script'[g] = IF g = h THEN "loaded"
                                       ELSE IF g \in Asked(d) \cup Asked(c) THEN "sent"
                                       ELSE script[g]
    BY DEF Send
  <2>2. /\ d.wait = "script" => d.list[d.pos] \in Module /\ d.list[d.pos] # h
        /\ c.wait = "script" => c.list[c.pos] \in Module /\ c.list[c.pos] # h
    BY <1>1, <1>4
  <2>3. CASE j \in {h, k}
    BY ONLY <1>3, <1>6, <2>1, <2>2, <2>3 DEF Listens
  <2>4. CASE j \notin {h, k}
    <3>1. /\ call'[j] = call[j] /\ Progress(j) /\ Listens(j) /\ ~WaitsFor(j, h)
          /\ modules \subseteq Module
      BY <1>1, <1>3, <2>4 DEF LoadInv, LoadTypes, Scripts
    <3> QED
      BY ONLY <2>1, <3>1 DEF Listens, Progress, WaitsFor
  <2> QED
    BY <2>3, <2>4
<1> QED
  BY <1>2, <1>5, <1>7, <1>8 DEF LoadInv

LEMMA LoaderLoads ==
  ASSUME LoadInv, NEW h \in Module, NEW k \in Call, NEW l \in List, Load(h, k, l)
  PROVE  LoadInv'
<1> DEFINE d == Use(l, 1, status, modules)
           st == status \cup Exported(h, d)
           md == modules \cup Asked(d)
           x == call[k]
           c == IF h \in st THEN Use(x.list, x.pos + 1, st, md)
                ELSE [x EXCEPT !.wait = "poll", !.polls = 1]
<1>1. /\ script[h] = "sent" /\ WaitsFor(k, h)
      /\ call' = [call EXCEPT ![h] = d, ![k] = c]
      /\ modules' = md \cup Asked(c)
      /\ RunFactory(k, c, st)
      /\ script' = [Send(Asked(d) \cup Asked(c)) EXCEPT ![h] = "loaded"]
  BY DEF Load, WaitsFor, Head1
<1>2. /\ x \in Calls /\ x.pos \in 1 .. Len(x.list) /\ x.list[x.pos] = h
      /\ \A n \in 1 .. x.pos - 1 : x.list[n] \in Builtin \cup status
      /\ h \in modules
  <2>1. x \in Calls /\ Progress(k) /\ Scripts(h)
    BY DEF LoadInv, LoadTypes
  <2>2. x.wait = "script" /\ x.list[x.pos] = h
    BY <1>1 DEF WaitsFor
  <2>3. h \in modules
    BY ONLY <1>1, <2>1 DEF Scripts
  <2> QED
    BY ONLY <2>1, <2>2, <2>3 DEF Progress
<1>3. Goes(d, status, modules)
  BY UseGoes, ListsOfNames
<1>4. status \subseteq st /\ modules \subseteq md
  OBVIOUS
<1> HIDE DEF d, st, md
<1>5. Goes(c, st, md)
  <2>1. CASE h \in st
    <3>1. /\ x.list \in Seq(Name) /\ x.pos + 1 \in 1 .. Len(x.list) + 1
          /\ \A n \in 1 .. (x.pos + 1) - 1 : x.list[n] \in Builtin \cup st
      BY <1>2, <1>4, <2>1 DEF Calls
    <3>2. c = Use(x.list, x.pos + 1, st, md)
      BY <2>1
    <3> QED
      BY ONLY <3>1, <3>2, UseGoes
  <2>2. CASE h \notin st
    <3>1. c = [x EXCEPT !.wait = "poll", !.polls = 1]
      BY <2>2
    <3>2. /\ x.list[x.pos] \in Module \cap md
          /\ \A n \in 1 .. x.pos - 1 : x.list[n] \in Builtin \cup st
      BY <1>2, <1>4
    <3> HIDE DEF c, x
    <3> QED
      BY ONLY <1>2, <3>1, <3>2, StaysPut
  <2> QED
    BY <2>1, <2>2
<1> HIDE DEF c
<1>6. st = status \cup Exported(h, d) /\ md = modules \cup Asked(d)
  BY DEF st, md
<1> QED
  BY <1>1, <1>3, <1>5, <1>6, TwoGo

LEMMA LoaderLoadsNothing ==
  ASSUME LoadInv, NEW h \in Module, NEW k \in Call, LoadNothing(h, k)
  PROVE  LoadInv'
<1> DEFINE x == call[k]
           c == [x EXCEPT !.wait = "poll", !.polls = 1]
<1>1. /\ script[h] = "sent" /\ WaitsFor(k, h)
      /\ script' = [script EXCEPT ![h] = "loaded"]
      /\ UNCHANGED <<modules, status>>
  BY DEF LoadNothing, WaitsFor, Head1
<1>2. /\ x \in Calls /\ x.pos \in 1 .. Len(x.list) /\ x.list[x.pos] = h
      /\ \A n \in 1 .. x.pos - 1 : x.list[n] \in Builtin \cup status
      /\ h \in modules /\ call \in [Call -> Calls]
      /\ call[h].wait = "none" /\ h # k /\ Module \subseteq Call
      /\ k \in Module => script[k] = "loaded"
  BY <1>1 DEF LoadInv, LoadTypes, Progress, WaitsFor, Scripts, Call
<1>3. c \in Calls /\ c.list = x.list /\ c.pos = x.pos /\ c.wait = "poll"
  BY <1>2 DEF Calls
<1>4. call' = [call EXCEPT ![k] = c]
  BY <1>2 DEF LoadNothing, Calls
<1> HIDE DEF c
<1>5. LoadTypes'
  BY <1>1, <1>2, <1>3, <1>4 DEF LoadInv, LoadTypes
<1>6. ASSUME NEW j \in Call PROVE Progress(j)'
  BY <1>1, <1>2, <1>3, <1>4 DEF LoadInv, Progress
<1>7. ASSUME NEW g \in Module PROVE Scripts(g)'
  <2>1. Scripts(g) /\ g \in Call
    BY <1>2 DEF LoadInv
  <2>2. /\ \A j \in Call \ {k} : WaitsFor(j, g)' <=> WaitsFor(j, g)
        /\ g # h => ~WaitsFor(k, g) /\ ~WaitsFor(k, g)'
    BY <1>2, <1>3, <1>4 DEF WaitsFor
  <2>3. CASE g = h
    BY <1>1, <1>2, <1>4, <2>1, <2>3 DEF Scripts, LoadInv, LoadTypes
  <2>4. CASE g # h
    <3>1. script'[g] = script[g] /\ modules' = modules /\ status' = status
      BY <1>1, <2>4
    <3>2. g # k => call'[g] = call[g]
      BY <1>2, <1>4, <2>1
    <3>3. g = k => script[g] = "loaded" /\ g \notin status
      BY <1>1, <1>2, <2>1 DEF Scripts, WaitsFor
    <3>4. script'[g] \in {"sent", "failed"} =>
            \E j \in Call : WaitsFor(j, g)' /\ \A i \in Call \ {j} : ~WaitsFor(i, g)'
      BY <2>1, <2>2, <2>4, <3>1 DEF Scripts
    <3> QED
      BY <2>1, <3>1, <3>2, <3>3, <3>4 DEF Scripts
  <2> QED
    BY <2>3, <2>4
<1>8. ASSUME NEW j \in Call PROVE Listens(j)'
  <2>1. CASE j = k
    BY <1>2, <1>3, <1>4, <2>1 DEF Listens
  <2>2. CASE j # k
    <3>1. call'[j] = call[j] /\ Progress(j) /\ Listens(j) /\ ~WaitsFor(j, h)
          /\ modules \subseteq Module /\ script \in [Module -> {"none", "sent", "loaded", "failed"}]
      BY <1>1, <1>2, <1>4, <2>2 DEF LoadInv, LoadTypes, Scripts
    <3> QED
      BY ONLY <1>1, <3>1 DEF Listens, Progress, WaitsFor
  <2> QED
    BY <2>1, <2>2
<1> QED
  BY <1>5, <1>6, <1>7, <1>8 DEF LoadInv

LEMMA LoaderFails == ASSUME LoadInv, NEW h \in Module, LoadFails(h) PROVE LoadInv'
<1>1. /\ script[h] = "sent" /\ script' = [script EXCEPT ![h] = "failed"]
      /\ UNCHANGED <<call, modules, status>>
  BY DEF LoadFails
<1>2. LoadTypes' /\ \A k \in Call : Progress(k)'
  BY <1>1 DEF LoadInv, LoadTypes, Progress
<1>3. ASSUME NEW g \in Module PROVE Scripts(g)'
  BY <1>1 DEF LoadInv, LoadTypes, Scripts, WaitsFor
<1>4. ASSUME NEW k \in Call PROVE Listens(k)'
  BY <1>1 DEF LoadInv, LoadTypes, Progress, Listens
<1> QED
  BY <1>2, <1>3, <1>4 DEF LoadInv

LEMMA LoadStep == ASSUME LoadInv, [LoaderNext]_loaderVars PROVE LoadInv'
<1>1. CASE UNCHANGED <<call, modules, status, script>>
  BY <1>1 DEF LoadInv, LoadTypes, Progress, Scripts, WaitsFor, Listens
<1> QED
  BY <1>1, LoaderUses, LoaderPolls, LoaderLoads, LoaderLoadsNothing, LoaderFails
  DEF LoaderNext, Task, Arrive, DomReady, Fire, Return, Throw, loaderVars
----------------------------------------------------------------------------
(* The ready list holds what has been added and not called, behind the fire  *)
(* callbacks it has called since it was last emptied.                        *)

Booleans == fired \in BOOLEAN /\ firing \in BOOLEAN /\ thrown \in BOOLEAN

Queue == /\ ready \in Seq(PageCall) /\ added \in Seq(PageCall) /\ called \in Seq(PageCall)
         /\ fire \in 0 .. Len(ready) /\ running \in PageCall \cup {NoCall}
         /\ fire <= Len(called)
         /\ Len(added) = Len(called) - fire + Len(ready)
         /\ \A i \in 1 .. Len(ready) : ready[i] = added[Len(called) - fire + i]
         /\ \A i \in 1 .. Len(called) : called[i] = added[i]

AddedDone == \A n \in 1 .. Len(added) : call[added[n]].wait = "done"

(* A use that is through has been added, and once only.                      *)
AddedOnce ==
  /\ \A k \in PageCall : call[k].wait = "done" => \E n \in 1 .. Len(added) : added[n] = k
  /\ \A m, n \in 1 .. Len(added) : added[m] = added[n] => m = n

(* A list that is resolved and not being called is empty.                    *)
Drained == fired /\ ~firing => ready = <<>>

LoaderInv == /\ LoadInv /\ Booleans /\ Queue /\ (firing \/ called # <<>> => fired)
             /\ AddedDone /\ AddedOnce /\ Drained

(* Of the uses of the page, none is newly through but those in K.            *)
ThroughOnly(K) ==
  \A j \in PageCall \ K : call'[j].wait = "done" => call[j].wait = "done"

(* What a step does to the list: nothing, or the one use that is through is  *)
(* added, or the list goes its own way.                                      *)
LEMMA QueueSteps ==
  ASSUME LoadInv, [LoaderNext]_loaderVars
  PROVE  \/ UNCHANGED <<readyList, added>> /\ ThroughOnly({})
         \/ \E k \in PageCall :
              Add(k) /\ call[k].wait # "done" /\ call'[k].wait = "done" /\ ThroughOnly({k})
         \/ (DomReady \/ Fire \/ Return \/ Throw) /\ UNCHANGED call
<1> DEFINE G == \/ UNCHANGED <<readyList, added>> /\ ThroughOnly({})
                \/ \E k \in PageCall : /\ Add(k) /\ ThroughOnly({k})
                                       /\ call[k].wait # "done" /\ call'[k].wait = "done"
                \/ (DomReady \/ Fire \/ Return \/ Throw) /\ UNCHANGED call
<1>1. ASSUME NEW k \in Call, NEW c, Finish(k, c), call[k].wait # "done", call'[k] = c,
             ThroughOnly({k})
      PROVE  G
  <2>1. CASE c.wait = "done" /\ k \in PageCall
    BY <1>1, <2>1 DEF Finish
  <2>2. CASE ~(c.wait = "done" /\ k \in PageCall)
    <3>1. UNCHANGED <<readyList, added>>
      BY <1>1, <2>2 DEF Finish
    <3>2. ThroughOnly({})
      BY <1>1, <2>2 DEF ThroughOnly
    <3> QED
      BY <3>1, <3>2
  <2> QED
    BY <2>1, <2>2
<1> HIDE DEF G
<1>2. /\ call \in [Call -> Calls] /\ PageCall \cap Module = {}
      /\ PageCall \subseteq Call /\ Module \subseteq Call
  BY NamesDiffer DEF LoadInv, LoadTypes, Call
<1>3. ASSUME NEW k \in Call, NEW c, call' = [call EXCEPT ![k] = c]
      PROVE  call'[k] = c /\ ThroughOnly({k})
  BY <1>2, <1>3 DEF ThroughOnly
<1>4. ASSUME NEW h \in Module, NEW k \in Call, NEW d, NEW c,
             call' = [call EXCEPT ![h] = d, ![k] = c]
      PROVE  call'[k] = c /\ ThroughOnly({k})
  BY <1>2, <1>4 DEF ThroughOnly
<1>5. ASSUME NEW k \in PageCall, NEW l \in List, use(k, l) PROVE G
  <2>1. PICK c : /\ call[k].wait = "none" /\ call' = [call EXCEPT ![k] = c]
                 /\ Finish(k, c)
    BY <1>5 DEF use
  <2> QED
    BY <1>1, <1>2, <1>3, <2>1
<1>6. ASSUME NEW k \in Call, Poll(k) PROVE G
  <2>1. PICK c : /\ call[k].wait = "poll" /\ call' = [call EXCEPT ![k] = c]
                 /\ Finish(k, c)
    BY <1>6 DEF Poll
  <2> QED
    BY <1>1, <1>3, <2>1
<1>7. ASSUME NEW h \in Module, NEW k \in Call, NEW l \in List, Load(h, k, l) PROVE G
  <2>1. PICK d, c : /\ call[k].wait = "script" /\ call' = [call EXCEPT ![h] = d, ![k] = c]
                    /\ Finish(k, c)
    BY <1>7 DEF Load
  <2> QED
    BY <1>1, <1>4, <2>1
<1>8. ASSUME NEW h \in Module, NEW k \in Call, LoadNothing(h, k) PROVE G
  <2>1. /\ call' = [call EXCEPT ![k].wait = "poll", ![k].polls = 1]
        /\ UNCHANGED <<readyList, added>>
    BY <1>8 DEF LoadNothing
  <2>2. call'[k].wait = "poll" /\ \A j \in Call \ {k} : call'[j] = call[j]
    BY <1>2, <2>1 DEF Calls
  <2>3. ThroughOnly({})
    BY <1>2, <2>2 DEF ThroughOnly
  <2> QED
    BY <2>1, <2>3 DEF G
<1>9. ASSUME UNCHANGED call, UNCHANGED <<readyList, added>> \/ DomReady \/ Fire \/ Return \/ Throw
      PROVE  G
  BY <1>9 DEF G, ThroughOnly
<1>10. ASSUME LoaderNext PROVE G
  <2>1. ASSUME NEW h \in Module, LoadFails(h) PROVE G
    BY <1>9, <2>1 DEF LoadFails
  <2>2. ASSUME NEW h \in Module, Arrive(h) PROVE G
    BY <1>7, <1>8, <2>1, <2>2 DEF Arrive
  <2>3. ASSUME DomReady \/ Fire \/ Return \/ Throw PROVE G
    <3>1. UNCHANGED call
      BY <2>3 DEF DomReady, Fire, Return, Throw
    <3> QED
      BY ONLY <1>9, <2>3, <3>1, Zenon
  <2>4. \/ \E k \in Call : Poll(k)
        \/ \E h \in Module : Arrive(h)
        \/ DomReady \/ Fire \/ Return \/ Throw
        \/ \E k \in PageCall, l \in List : use(k, l)
    BY <1>10 DEF LoaderNext, Task
  <2> QED
    BY ONLY <1>5, <1>6, <2>2, <2>3, <2>4, Zenon
<1>11. ASSUME UNCHANGED loaderVars PROVE G
  BY <1>9, <1>11 DEF loaderVars
<1> QED
  BY <1>10, <1>11 DEF G

LEMMA DoneStays ==
  ASSUME LoadInv, [LoaderNext]_loaderVars, NEW k \in Call, call[k].wait = "done"
  PROVE  call'[k] = call[k]
<1>1. call \in [Call -> Calls] /\ Module \subseteq Call /\ PageCall \subseteq Call
  BY DEF LoadInv, LoadTypes, Call
<1>2. CASE UNCHANGED call
  BY <1>2
<1>3. ASSUME NEW j \in Call, NEW c, call[j].wait # "done", call' = [call EXCEPT ![j] = c]
      PROVE  call'[k] = call[k]
  BY <1>1, <1>3
<1>4. ASSUME NEW j \in PageCall, NEW l \in List, use(j, l) PROVE call'[k] = call[k]
  BY <1>1, <1>3, <1>4 DEF use
<1>5. ASSUME NEW j \in Call, Poll(j) PROVE call'[k] = call[k]
  BY <1>1, <1>3, <1>5 DEF Poll
<1>6. ASSUME NEW h \in Module, NEW j \in Call, NEW l \in List, Load(h, j, l)
      PROVE  call'[k] = call[k]
  <2>1. /\ call[h].wait = "none" /\ call[j].wait = "script"
        /\ \E d, c : call' = [call EXCEPT ![h] = d, ![j] = c]
    BY <1>6 DEF Load, LoadInv, Scripts
  <2> QED
    BY <1>1, <2>1
<1>7. ASSUME NEW h \in Module, NEW j \in Call, LoadNothing(h, j) PROVE call'[k] = call[k]
  BY <1>1, <1>7 DEF LoadNothing
<1> QED
  BY <1>2, <1>4, <1>5, <1>6, <1>7
  DEF LoaderNext, Task, Arrive, LoadFails, DomReady, Fire, Return, Throw, loaderVars

LEMMA QueueAdds == ASSUME Queue, NEW k \in PageCall, Add(k) PROVE Queue'
<1>1. /\ ready' = Append(ready, k) /\ added' = Append(added, k)
      /\ UNCHANGED <<fire, running, called>>
  BY DEF Add
<1> QED
  BY <1>1 DEF Queue

LEMMA QueueFires == ASSUME Queue, Fire PROVE Queue'
<1>1. CASE fire < Len(ready)
  <2>1. /\ fire' = fire + 1 /\ running' = ready[fire + 1]
        /\ called' = Append(called, ready[fire + 1]) /\ UNCHANGED <<ready, added>>
    BY <1>1 DEF Fire
  <2>2. /\ ready \in Seq(PageCall) /\ called \in Seq(PageCall) /\ fire + 1 \in 1 .. Len(ready)
        /\ fire <= Len(called) /\ ready[fire + 1] = added[Len(called) + 1]
        /\ fire \in Nat /\ Len(called) \in Nat /\ Len(ready) \in Nat
        /\ Len(added) = Len(called) - fire + Len(ready)
        /\ \A i \in 1 .. Len(called) : called[i] = added[i]
        /\ \A i \in 1 .. Len(ready) : ready[i] = added[Len(called) - fire + i]
    BY <1>1 DEF Queue
  <2>3. /\ ready[fire + 1] \in PageCall /\ called' \in Seq(PageCall)
        /\ Len(called') = Len(called) + 1 /\ called'[Len(called) + 1] = ready[fire + 1]
        /\ \A i \in 1 .. Len(called) : called'[i] = called[i]
    BY ONLY <2>1, <2>2
  <2>4. \A i \in 1 .. Len(called') : called'[i] = added[i]
    BY ONLY <2>1, <2>2, <2>3
  <2>5. \A i \in 1 .. Len(ready) : ready[i] = added[Len(called') - fire' + i]
    <3>1. Len(called') - fire' = Len(called) - fire
      BY ONLY <2>1, <2>2, <2>3
    <3> QED
      BY ONLY <2>2, <3>1
  <2>6. fire' \in 0 .. Len(ready) /\ fire' <= Len(called')
    BY ONLY <2>1, <2>2, <2>3
  <2>7. Len(added) = Len(called') - fire' + Len(ready)
    BY ONLY <2>1, <2>2, <2>3
  <2> QED
    BY <2>1, <2>3, <2>4, <2>5, <2>6, <2>7 DEF Queue
<1>2. CASE ~(fire < Len(ready))
  <2>1. ready' = <<>> /\ fire' = 0 /\ UNCHANGED <<running, called, added>>
    BY <1>2 DEF Fire
  <2> QED
    BY <1>2, <2>1 DEF Queue
<1> QED
  BY <1>1, <1>2

LEMMA LoaderInductive == LoaderInv /\ [LoaderNext]_loaderVars => LoaderInv'
<1> SUFFICES ASSUME LoaderInv, [LoaderNext]_loaderVars PROVE LoaderInv'
  OBVIOUS
<1>1. /\ LoadInv /\ Booleans /\ Queue /\ (firing \/ called # <<>> => fired)
      /\ AddedDone /\ AddedOnce /\ Drained
  BY DEF LoaderInv
<1>2. LoadInv'
  BY <1>1, LoadStep
<1>3. Queue'
  BY <1>1, QueueSteps, QueueAdds, QueueFires
  DEF DomReady, Return, Throw, readyList, Queue
<1>4. Booleans'
  BY <1>1, QueueSteps, Zenon DEF DomReady, Fire, Return, Throw, Add, readyList, Booleans
<1>5. (firing \/ called # <<>> => fired)'
  <2>1. CASE UNCHANGED <<fired, firing, called>>
    BY <1>1, <2>1
  <2>2. CASE fired /\ fired' = fired
    BY <2>2
  <2>3. CASE fired' = TRUE
    BY <2>3
  <2>4. ASSUME NEW k \in PageCall, Add(k) PROVE (firing \/ called # <<>> => fired)'
    BY <1>1, <2>4 DEF Add, Booleans
  <2>5. ASSUME Fire PROVE fired /\ fired' = fired
    BY <1>1, <2>5 DEF Fire
  <2> QED
    BY <1>1, <2>1, <2>2, <2>3, <2>4, <2>5, QueueSteps DEF DomReady, Return, Throw, readyList
<1>6. AddedDone'
  <2>1. \A n \in 1 .. Len(added) : call'[added[n]].wait = "done"
    <3> SUFFICES ASSUME NEW n \in 1 .. Len(added) PROVE call'[added[n]].wait = "done"
      OBVIOUS
    <3>1. added[n] \in PageCall /\ call[added[n]].wait = "done"
      <4>1. AddedDone /\ added \in Seq(PageCall)
        BY <1>1 DEF Queue
      <4> QED
        BY ONLY <4>1, n \in 1 .. Len(added) DEF AddedDone
    <3>2. added[n] \in Call
      BY <3>1 DEF Call
    <3> QED
      BY <1>1, <3>1, <3>2, DoneStays
  <2>2. CASE UNCHANGED added
    BY <2>1, <2>2 DEF AddedDone
  <2>3. ASSUME NEW k \in PageCall, Add(k), call'[k].wait = "done" PROVE AddedDone'
    <3>1. added' = Append(added, k) /\ added \in Seq(PageCall)
      BY <1>1, <2>3 DEF Add, Queue
    <3> QED
      BY ONLY <2>1, <2>3, <3>1 DEF AddedDone
  <2> QED
    BY <1>1, <2>2, <2>3, QueueSteps DEF DomReady, Fire, Return, Throw
<1>7. AddedOnce'
  <2>1. CASE UNCHANGED added /\ ThroughOnly({})
    BY <1>1, <2>1 DEF AddedOnce, ThroughOnly
  <2>2. ASSUME NEW k \in PageCall, Add(k), call[k].wait # "done", ThroughOnly({k})
        PROVE  AddedOnce'
    <3>1. added' = Append(added, k) /\ added \in Seq(PageCall)
      BY <1>1, <2>2 DEF Add, Queue
    <3>2. \A n \in 1 .. Len(added) : added[n] # k
      BY <1>1, <2>2 DEF AddedDone
    <3>3. /\ Len(added') = Len(added) + 1 /\ added'[Len(added) + 1] = k
          /\ \A n \in 1 .. Len(added) : added'[n] = added[n]
          /\ Len(added) \in Nat
      BY ONLY <3>1
    <3>4. AddedOnce /\ ThroughOnly({k})
      BY <1>1, <2>2
    <3> QED
      BY ONLY <3>2, <3>3, <3>4 DEF AddedOnce, ThroughOnly
  <2>3. ASSUME UNCHANGED <<added, call>> PROVE AddedOnce'
    <3>1. AddedOnce /\ added' = added /\ call' = call
      BY <1>1, <2>3
    <3> QED
      BY ONLY <3>1 DEF AddedOnce
  <2> QED
    <3>1. (DomReady \/ Fire \/ Return \/ Throw) => UNCHANGED added
      BY DEF DomReady, Fire, Return, Throw
    <3>2. \/ UNCHANGED added /\ ThroughOnly({})
          \/ \E k \in PageCall : Add(k) /\ call[k].wait # "done" /\ ThroughOnly({k})
          \/ UNCHANGED <<added, call>>
      BY <1>1, <3>1, QueueSteps
    <3> QED
      BY ONLY <2>1, <2>2, <2>3, <3>2
<1>8. Drained'
  <2>1. CASE UNCHANGED <<fired, firing, ready>>
    BY <1>1, <2>1 DEF Drained
  <2>2. CASE firing'
    BY <2>2 DEF Drained
  <2>3. ASSUME NEW k \in PageCall, Add(k) PROVE Drained'
    BY <1>1, <2>3, Zenon DEF Add, Drained
  <2>4. ASSUME Fire PROVE Drained'
    BY <1>1, <2>4 DEF Fire, Drained
  <2>5. ASSUME DomReady PROVE firing'
    BY <2>5 DEF DomReady
  <2> QED
    BY <1>1, <2>1, <2>2, <2>3, <2>4, <2>5, QueueSteps DEF Return, Throw, readyList
<1> QED
  BY <1>2, <1>3, <1>4, <1>5, <1>6, <1>7, <1>8 DEF LoaderInv

LEMMA LoaderStarts == LoaderInit => LoaderInv
<1> SUFFICES ASSUME LoaderInit PROVE LoaderInv
  OBVIOUS
<1>1. call = [k \in Call |-> [list |-> <<>>, pos |-> 1, wait |-> "none", polls |-> 0]]
  BY DEF LoaderInit
<1>2. [list |-> <<>>, pos |-> 1, wait |-> "none", polls |-> 0] \in Calls
  BY DEF Calls
<1>3. LoadInv
  BY <1>1, <1>2, Call = PageCall \cup Module
  DEF LoaderInit, LoadInv, LoadTypes, Progress, Scripts, Listens, Call
<1>4. Booleans
  BY Zenon DEF LoaderInit, Booleans
<1>5. Queue /\ AddedDone /\ Drained /\ (firing \/ called # <<>> => fired)
  BY DEF LoaderInit, Queue, AddedDone, Drained
<1>6. AddedOnce
  BY <1>1 DEF LoaderInit, AddedOnce, Call
<1> QED
  BY <1>3, <1>4, <1>5, <1>6 DEF LoaderInv

LEMMA LoaderHolds == LoaderSpec => []LoaderInv
  BY LoaderStarts, LoaderInductive, PTL DEF LoaderSpec

(* LoaderTypeOK of PageLoader: a use waits for a module of its list that has *)
(* been asked for, and a script is asked for once and for one use.           *)
THEOREM LoaderTypesHold == LoaderSpec => []LoaderTypeOK
<1>1. LoaderInv => LoaderTypeOK
  <2> SUFFICES ASSUME LoaderInv PROVE LoaderTypeOK
    OBVIOUS
  <2>1. LoadInv /\ Booleans /\ Queue
    BY DEF LoaderInv
  <2>2. LoaderTypes
    BY <2>1 DEF LoaderTypes, LoadInv, LoadTypes, Booleans, Queue, Calls
  <2>3. \A k \in Call : Waiting(k) =>
          call[k].pos <= Len(call[k].list) /\ Head1(k) \in modules
    BY <2>1 DEF LoadInv, LoadTypes, Calls, Progress, Waiting, Head1
  <2>4. ASSUME NEW h \in Module
        PROVE  /\ h \in modules <=> script[h] # "none"
               /\ script[h] \in {"sent", "failed"} =>
                    \E k \in Call : /\ call[k].wait = "script" /\ Head1(k) = h
                                    /\ \A j \in Call \ {k} :
                                         call[j].wait = "script" => Head1(j) # h
    BY <2>1 DEF LoadInv, Scripts, WaitsFor, Head1
  <2> QED
    BY <2>2, <2>3, <2>4 DEF LoaderTypeOK
<1> QED
  BY <1>1, LoaderHolds, PTL

(* DependenciesFirst of PageLoader: a factory or a callback never runs       *)
(* before the modules it names have been exported.                           *)
THEOREM DependenciesLoaded == LoaderSpec => []DependenciesFirst
<1>1. LoaderInv => DependenciesFirst
  <2> SUFFICES ASSUME LoaderInv PROVE DependenciesFirst
    OBVIOUS
  <2>1. LoadInv /\ Queue /\ AddedDone /\ call \in [Call -> Calls]
    BY DEF LoaderInv, LoadInv, LoadTypes
  <2>2. ASSUME NEW k \in Call, call[k].wait = "done", NEW i \in DOMAIN call[k].list
        PROVE  call[k].list[i] \in Builtin \cup status
    <3> DEFINE c == call[k]
    <3>1. c \in Calls /\ c.pos = Len(c.list) + 1
          /\ \A n \in 1 .. c.pos - 1 : c.list[n] \in Builtin \cup status
      BY <2>1, <2>2 DEF LoadInv, Progress
    <3>2. i \in 1 .. c.pos - 1
      BY <2>2, <3>1 DEF Calls
    <3> QED
      BY <3>1, <3>2
  <2>3. \A h \in status : h \in Call /\ call[h].wait = "done"
    BY <2>1 DEF LoadInv, LoadTypes, Scripts, Call
  <2>4. \A n \in DOMAIN added : added[n] \in Call /\ call[added[n]].wait = "done"
    BY <2>1 DEF Queue, AddedDone, Call
  <2> QED
    BY <2>2, <2>3, <2>4 DEF DependenciesFirst
<1> QED
  BY <1>1, LoaderHolds, PTL

(* CalledInOrder of PageLoader: the callbacks of the page are called once    *)
(* each, in the order their uses were through, after the document is ready.  *)
THEOREM CallbacksInOrder == LoaderSpec => []CalledInOrder
<1>1. LoaderInv => CalledInOrder
  <2> SUFFICES ASSUME LoaderInv PROVE CalledInOrder
    OBVIOUS
  <2>1. Queue /\ (called # <<>> => fired)
    BY DEF LoaderInv
  <2>2. Len(called) <= Len(added)
    BY <2>1 DEF Queue
  <2>3. called = SubSeq(added, 1, Len(called))
    <3>1. /\ called \in Seq(PageCall) /\ added \in Seq(PageCall)
          /\ \A i \in 1 .. Len(called) : called[i] = added[i]
      BY <2>1 DEF Queue
    <3> QED
      BY ONLY <2>2, <3>1
  <2>4. \A i, j \in DOMAIN called : called[i] = called[j] => i = j
    <3>1. AddedOnce
      BY DEF LoaderInv
    <3> QED
      BY <2>1, <2>2, <3>1 DEF Queue, AddedOnce
  <2> QED
    BY <2>1, <2>2, <2>3, <2>4 DEF CalledInOrder
<1> QED
  BY <1>1, LoaderHolds, PTL

(* NobodyForgotten of PageLoader: a use that waits for a script waits for    *)
(* one that is under way or has failed, and a use that is through has been   *)
(* called or is in the list, among the callbacks it has still to call.        *)
THEOREM EveryoneWaitedFor == LoaderSpec => []NobodyForgotten
<1>1. LoaderInv => NobodyForgotten
  <2> SUFFICES ASSUME LoaderInv, NEW k \in PageCall
               PROVE  /\ call[k].wait = "script" => script[Head1(k)] \in {"sent", "failed"}
                      /\ call[k].wait = "done" =>
                           \/ \E i \in DOMAIN called : called[i] = k
                           \/ \E i \in fire + 1 .. Len(ready) :
                                ready[i] = k /\ (fired => firing)
    BY DEF NobodyForgotten
  <2>1. Queue /\ AddedOnce /\ Drained /\ Listens(k)
    BY DEF LoaderInv, LoadInv, Call
  <2>2. ASSUME call[k].wait = "done"
        PROVE  \/ \E i \in DOMAIN called : called[i] = k
               \/ \E i \in fire + 1 .. Len(ready) : ready[i] = k /\ (fired => firing)
    <3>1. PICK n \in 1 .. Len(added) : added[n] = k
      BY <2>1, <2>2 DEF AddedOnce
    <3>2. CASE n <= Len(called)
      BY <2>1, <3>1, <3>2 DEF Queue
    <3>3. CASE n > Len(called)
      <4> DEFINE i == n - (Len(called) - fire)
      <4>1. i \in fire + 1 .. Len(ready) /\ ready[i] = k
        <5>1. /\ fire \in Nat /\ Len(called) \in Nat /\ Len(ready) \in Nat
              /\ fire <= Len(called) /\ Len(added) = Len(called) - fire + Len(ready)
              /\ \A j \in 1 .. Len(ready) : ready[j] = added[Len(called) - fire + j]
          BY <2>1 DEF Queue
        <5>2. i \in fire + 1 .. Len(ready) /\ i \in 1 .. Len(ready)
              /\ Len(called) - fire + i = n
          BY ONLY <3>1, <3>3, <5>1
        <5> HIDE DEF i
        <5> QED
          BY ONLY <3>1, <5>1, <5>2
      <4>2. ready # <<>>
        BY <2>1, <4>1 DEF Queue
      <4> QED
        BY <2>1, <4>1, <4>2 DEF Drained
    <3> QED
      BY <2>1, <3>1, <3>2, <3>3 DEF Queue
  <2> QED
    BY <2>1, <2>2 DEF Listens, Head1
<1> QED
  BY <1>1, LoaderHolds, PTL
=============================================================================
