------------------------ MODULE MessageStoreProofs ------------------------
(* Proofs about MessageStore, for every number of messages, instances, log   *)
(* lengths, faults and rebalances.                                           *)
EXTENDS MessageStore, SequenceTheorems, TLAPS

(* The open transactions: a row that some transaction has inserted is not    *)
(* committed yet, and no other transaction holds it.                         *)
RowsLocked ==
  \A i \in Instance : Holding(i) =>
    /\ status[Record(SINGLE_TOPIC, i)] = "absent"
    /\ \A j \in Instance \ {i} : ~HoldsRow(j, Record(SINGLE_TOPIC, i))

(* The owner's position is at most one record behind the committed offset.   *)
OwnerNotBehind ==
  \A t \in Topic : \A i \in Instance :
    owner[t] = i => committed[t] <= pos[t][i] + 1

(* How many records of single_topic i is done with, the one it is about to   *)
(* acknowledge included.                                                     *)
Passed(i) == IF pc[SINGLE_TOPIC][i] \in {"setExists", "ack"}
             THEN pos[SINGLE_TOPIC][i] + 1 ELSE pos[SINGLE_TOPIC][i]

Settled(m) == status[m] # "absent" \/ m \in skipped

SettledUpTo(n) == \A k \in 1 .. n : Settled(log[SINGLE_TOPIC][k])

(* Every record an instance has passed is stored, or its call failed.        *)
PassedIsSettled == /\ SettledUpTo(committed[SINGLE_TOPIC])
                   /\ \A i \in Instance : SettledUpTo(Passed(i))
----------------------------------------------------------------------------
(* What the parts of an action do to the functions they update.              *)
LEMMA NestedUpdate ==
  ASSUME NEW S, NEW T, NEW R, NEW f \in [S -> [T -> R]],
         NEW s \in S, NEW t \in T, NEW v \in R
  PROVE  /\ [f EXCEPT ![s][t] = v] \in [S -> [T -> R]]
         /\ \A x \in S : \A y \in T :
              [f EXCEPT ![s][t] = v][x][y] = IF x = s /\ y = t THEN v ELSE f[x][y]
OBVIOUS

(* A listener inside a record is inside its batch.                           *)
LEMMA InRecord ==
  ASSUME TypeOK, NEW t \in Topic, NEW i \in Instance, pc[t][i] # "idle"
  PROVE  /\ pos[t][i] < lim[t][i]
         /\ pos[t][i] + 1 <= lim[t][i] /\ pos[t][i] + 1 <= Len(log[t])
<1>1. pos[t][i] < lim[t][i] /\ lim[t][i] <= Len(log[t])
  BY DEF TypeOK, Window
<1>2. pos[t][i] \in Nat /\ lim[t][i] \in Nat /\ Len(log[t]) \in Nat
  BY LenProperties DEF TypeOK, VarTypes
<1> QED
  BY <1>1, <1>2

(* A listener thread moves to l and no other thread moves.                   *)
LEMMA GotoFacts ==
  ASSUME VarTypes, NEW t \in Topic, NEW i \in Instance,
         NEW l \in SavePC \cup ReadPC, Goto(t, i, l)
  PROVE  /\ pc' \in [Topic -> [Instance -> SavePC \cup ReadPC]]
         /\ \A u \in Topic : \A j \in Instance :
              pc'[u][j] = IF u = t /\ j = i THEN l ELSE pc[u][j]
<1> DEFINE R == SavePC \cup ReadPC
<1> SUFFICES /\ [pc EXCEPT ![t][i] = l] \in [Topic -> [Instance -> R]]
             /\ \A u \in Topic : \A j \in Instance :
                  [pc EXCEPT ![t][i] = l][u][j]
                    = IF u = t /\ j = i THEN l ELSE pc[u][j]
  BY Zenon DEF Goto
<1>1. pc \in [Topic -> [Instance -> R]] /\ l \in R
  BY DEF VarTypes
<1> HIDE DEF R
<1> QED
  BY ONLY <1>1, t \in Topic, i \in Instance, NestedUpdate

(* Leaving a record: the position advances by one, the batch stays.          *)
LEMMA NextRecordFacts ==
  ASSUME VarTypes, NEW t \in Topic, NEW i \in Instance, NextRecord(t, i)
  PROVE  /\ pc' \in [Topic -> [Instance -> SavePC \cup ReadPC]]
         /\ pos' \in [Topic -> [Instance -> Nat]]
         /\ lim' = lim
         /\ \A u \in Topic : \A j \in Instance :
              /\ pc'[u][j] = IF u = t /\ j = i THEN "idle" ELSE pc[u][j]
              /\ pos'[u][j] = IF u = t /\ j = i THEN pos[t][i] + 1 ELSE pos[u][j]
<1>1. "idle" \in SavePC \cup ReadPC
  BY DEF SavePC
<1>2. pos[t][i] + 1 \in Nat
  BY DEF VarTypes
<1>3. pos' = [pos EXCEPT ![t][i] = pos[t][i] + 1]
  BY DEF NextRecord
<1>4. /\ pos' \in [Topic -> [Instance -> Nat]]
      /\ \A u \in Topic : \A j \in Instance :
           pos'[u][j] = IF u = t /\ j = i THEN pos[t][i] + 1 ELSE pos[u][j]
  <2>1. pos \in [Topic -> [Instance -> Nat]]
    BY DEF VarTypes
  <2> QED
    BY ONLY <1>2, <1>3, <2>1, t \in Topic, i \in Instance, NestedUpdate
<1> QED
  BY <1>1, <1>4, GotoFacts DEF NextRecord

(* Seeking back: the position stays and the rest of the batch is dropped.    *)
LEMMA SeekBackFacts ==
  ASSUME VarTypes, NEW t \in Topic, NEW i \in Instance, SeekBack(t, i)
  PROVE  /\ pc' \in [Topic -> [Instance -> SavePC \cup ReadPC]]
         /\ lim' \in [Topic -> [Instance -> Nat]]
         /\ pos' = pos
         /\ \A u \in Topic : \A j \in Instance :
              /\ pc'[u][j] = IF u = t /\ j = i THEN "idle" ELSE pc[u][j]
              /\ lim'[u][j] = IF u = t /\ j = i THEN pos[t][i] ELSE lim[u][j]
<1>1. "idle" \in SavePC \cup ReadPC
  BY DEF SavePC
<1>2. pos[t][i] \in Nat /\ lim' = [lim EXCEPT ![t][i] = pos[t][i]]
  BY DEF VarTypes, SeekBack
<1>3. /\ lim' \in [Topic -> [Instance -> Nat]]
      /\ \A u \in Topic : \A j \in Instance :
           lim'[u][j] = IF u = t /\ j = i THEN pos[t][i] ELSE lim[u][j]
  <2>1. lim \in [Topic -> [Instance -> Nat]]
    BY DEF VarTypes
  <2> QED
    BY ONLY <1>2, <2>1, t \in Topic, i \in Instance, NestedUpdate
<1> QED
  BY <1>1, <1>3, GotoFacts DEF SeekBack

(* The read listener does one or the other.                                  *)
LEMMA LeaveReadFacts ==
  ASSUME TypeOK, SINGLE_TOPIC_READ \in Topic, NEW i \in Instance, LeaveRead(i),
         \/ pc[SINGLE_TOPIC_READ][i] # "idle"
         \/ pos[SINGLE_TOPIC_READ][i] < lim[SINGLE_TOPIC_READ][i]
  PROVE  /\ pc' \in [Topic -> [Instance -> SavePC \cup ReadPC]]
         /\ pos' \in [Topic -> [Instance -> Nat]]
         /\ lim' \in [Topic -> [Instance -> Nat]]
         /\ pc'[SINGLE_TOPIC_READ][i] = "idle"
         /\ pos'[SINGLE_TOPIC_READ][i] <= lim'[SINGLE_TOPIC_READ][i]
         /\ lim'[SINGLE_TOPIC_READ][i] <= lim[SINGLE_TOPIC_READ][i]
         /\ pos[SINGLE_TOPIC_READ][i] <= pos'[SINGLE_TOPIC_READ][i]
         /\ \A u \in Topic : \A j \in Instance :
              ~(u = SINGLE_TOPIC_READ /\ j = i) =>
                /\ pc'[u][j] = pc[u][j]
                /\ pos'[u][j] = pos[u][j]
                /\ lim'[u][j] = lim[u][j]
<1> VarTypes /\ pos \in [Topic -> [Instance -> Nat]] /\ lim \in [Topic -> [Instance -> Nat]]
  BY DEF TypeOK, VarTypes
<1>0. /\ pos[SINGLE_TOPIC_READ][i] + 1 <= lim[SINGLE_TOPIC_READ][i]
      /\ pos[SINGLE_TOPIC_READ][i] \in Nat /\ lim[SINGLE_TOPIC_READ][i] \in Nat
  <2>1. pos[SINGLE_TOPIC_READ][i] < lim[SINGLE_TOPIC_READ][i]
    BY InRecord
  <2> QED
    BY <2>1
<1>1. CASE nacked[i]
  <2>1. SeekBack(SINGLE_TOPIC_READ, i)
    BY <1>1 DEF LeaveRead
  <2> QED
    BY <1>0, <2>1, SeekBackFacts
<1>2. CASE ~nacked[i]
  <2>1. NextRecord(SINGLE_TOPIC_READ, i)
    BY <1>2 DEF LeaveRead
  <2> QED
    BY <1>0, <2>1, NextRecordFacts
<1> QED
  BY <1>1, <1>2

(* A commit of the owner, and of nobody else, moves the offset.              *)
LEMMA AcknowledgeFacts ==
  ASSUME VarTypes, NEW t \in Topic, NEW i \in Instance, Acknowledge(t, i)
  PROVE  /\ committed' \in [Topic -> Nat]
         /\ \A u \in Topic : committed'[u] = IF u = t /\ owner[t] = i
                                             THEN pos[t][i] + 1 ELSE committed[u]
<1>1. pos[t][i] + 1 \in Nat
  BY DEF VarTypes
<1> QED
  BY <1>1 DEF VarTypes, Acknowledge

(* A record inside a polled batch is a message.                              *)
LEMMA RecordInTopic ==
  ASSUME TypeOK, NEW t \in Topic, NEW i \in Instance, pos[t][i] < lim[t][i]
  PROVE  /\ pos[t][i] + 1 \in 1 .. Len(log[t])
         /\ Record(t, i) = log[t][pos[t][i] + 1]
         /\ Record(t, i) \in Mid
<1>1. log[t] \in Seq(Mid) /\ pos[t][i] \in Nat /\ lim[t][i] \in Nat
  BY DEF TypeOK, VarTypes
<1>2. lim[t][i] <= Len(log[t])
  BY DEF TypeOK, Window
<1>3. pos[t][i] + 1 \in 1 .. Len(log[t])
  BY <1>1, <1>2
<1> QED
  BY <1>1, <1>3 DEF Record

(* An assignment restarts the consumer at the committed offset.              *)
LEMMA AssignFacts ==
  ASSUME VarTypes, NEW t \in Topic, NEW i \in Instance, Assign(t, i)
  PROVE  /\ pos' \in [Topic -> [Instance -> Nat]]
         /\ lim' \in [Topic -> [Instance -> Nat]]
         /\ \A u \in Topic : \A j \in Instance :
              /\ pos'[u][j] = IF u = t /\ j = i THEN committed[t] ELSE pos[u][j]
              /\ lim'[u][j] = IF u = t /\ j = i THEN committed[t] ELSE lim[u][j]
<1>1. committed[t] \in Nat
  BY DEF VarTypes
<1>2. /\ pos' = [pos EXCEPT ![t][i] = committed[t]]
      /\ lim' = [lim EXCEPT ![t][i] = committed[t]]
  BY DEF Assign
<1>3. /\ pos' \in [Topic -> [Instance -> Nat]]
      /\ \A u \in Topic : \A j \in Instance :
           pos'[u][j] = IF u = t /\ j = i THEN committed[t] ELSE pos[u][j]
  <2>1. pos \in [Topic -> [Instance -> Nat]]
    BY DEF VarTypes
  <2> QED
    BY ONLY <1>1, <1>2, <2>1, t \in Topic, i \in Instance, NestedUpdate
<1>4. /\ lim' \in [Topic -> [Instance -> Nat]]
      /\ \A u \in Topic : \A j \in Instance :
           lim'[u][j] = IF u = t /\ j = i THEN committed[t] ELSE lim[u][j]
  <2>1. lim \in [Topic -> [Instance -> Nat]]
    BY DEF VarTypes
  <2> QED
    BY ONLY <1>1, <1>2, <2>1, t \in Topic, i \in Instance, NestedUpdate
<1> QED
  BY <1>3, <1>4

(* A poll extends the batch inside the topic.                                *)
LEMMA PollFacts ==
  ASSUME TypeOK, NEW t \in Topic, NEW i \in Instance, Poll(t, i)
  PROVE  /\ lim' \in [Topic -> [Instance -> Nat]]
         /\ lim[t][i] < lim'[t][i] /\ lim'[t][i] <= Len(log[t])
         /\ \A u \in Topic : \A j \in Instance :
              ~(u = t /\ j = i) => lim'[u][j] = lim[u][j]
<1>1. PICK n \in (lim[t][i] + 1) .. Len(log[t]) : lim' = [lim EXCEPT ![t][i] = n]
  BY DEF Poll
<1>2. lim \in [Topic -> [Instance -> Nat]] /\ lim[t][i] \in Nat
  BY DEF TypeOK, VarTypes
<1>3. n \in Nat /\ lim[t][i] < n /\ n <= Len(log[t])
  BY <1>1, <1>2
<1>4. /\ lim' \in [Topic -> [Instance -> Nat]]
      /\ \A u \in Topic : \A j \in Instance :
           lim'[u][j] = IF u = t /\ j = i THEN n ELSE lim[u][j]
  BY <1>1, <1>2, <1>3, NestedUpdate
<1> QED
  BY <1>3, <1>4

(* A crash resets the threads of one instance.                               *)
LEMMA CrashFacts ==
  ASSUME VarTypes, NEW i \in Instance, Crash(i)
  PROVE  /\ pc' \in [Topic -> [Instance -> SavePC \cup ReadPC]]
         /\ pos' \in [Topic -> [Instance -> Nat]]
         /\ lim' \in [Topic -> [Instance -> Nat]]
         /\ \A u \in Topic : \A j \in Instance :
              /\ pc'[u][j] = IF j = i THEN "idle" ELSE pc[u][j]
              /\ pos'[u][j] = IF j = i THEN 0 ELSE pos[u][j]
              /\ lim'[u][j] = IF j = i THEN 0 ELSE lim[u][j]
<1>1. "idle" \in SavePC \cup ReadPC
  BY DEF SavePC
<1>2. /\ pc' \in [Topic -> [Instance -> SavePC \cup ReadPC]]
      /\ \A u \in Topic : \A j \in Instance :
           pc'[u][j] = IF j = i THEN "idle" ELSE pc[u][j]
  BY <1>1 DEF Crash, VarTypes
<1>3. /\ pos' \in [Topic -> [Instance -> Nat]]
      /\ \A u \in Topic : \A j \in Instance :
           pos'[u][j] = IF j = i THEN 0 ELSE pos[u][j]
  BY DEF Crash, VarTypes
<1>4. /\ lim' \in [Topic -> [Instance -> Nat]]
      /\ \A u \in Topic : \A j \in Instance :
           lim'[u][j] = IF j = i THEN 0 ELSE lim[u][j]
  BY DEF Crash, VarTypes
<1> QED
  BY <1>2, <1>3, <1>4

(* A thread that does not move keeps its window; one that leaves its record  *)
(* needs only its new batch to be inside the topic.                          *)
LEMMA WindowKept ==
  ASSUME NEW u \in Topic, NEW j \in Instance, Window(u, j),
         pos[u][j] \in Nat, lim[u][j] \in Nat,
         Len(log[u]) \in Nat, Len(log'[u]) \in Nat, Len(log[u]) <= Len(log'[u]),
         pc'[u][j] = pc[u][j], pos'[u][j] = pos[u][j], lim'[u][j] = lim[u][j]
  PROVE  Window(u, j)'
BY DEF Window

LEMMA WindowIdle ==
  ASSUME NEW u \in Topic, NEW j \in Instance, pc'[u][j] = "idle",
         pos'[u][j] <= lim'[u][j], lim'[u][j] <= Len(log'[u])
  PROVE  Window(u, j)'
BY DEF Window, SavePC, ReadPC

(* Producing appends: earlier records keep their offsets.                    *)
LEMMA ProduceFacts ==
  ASSUME TypeOK, NEW t \in Topic, NEW m \in Mid, Produce(t, m)
  PROVE  /\ log' \in [Topic -> Seq(Mid)]
         /\ log'[t] = Append(log[t], m)
         /\ \A u \in Topic : /\ u # t => log'[u] = log[u]
                             /\ Len(log[u]) <= Len(log'[u])
                             /\ \A k \in 1 .. Len(log[u]) : log'[u][k] = log[u][k]
<1>1. log \in [Topic -> Seq(Mid)]
  BY DEF TypeOK, VarTypes
<1>2. /\ Append(log[t], m) \in Seq(Mid)
      /\ Len(Append(log[t], m)) = Len(log[t]) + 1
      /\ \A k \in 1 .. Len(log[t]) : Append(log[t], m)[k] = log[t][k]
  BY <1>1, AppendProperties
<1>3. log' = [log EXCEPT ![t] = Append(log[t], m)]
  BY DEF Produce
<1>4. \A u \in Topic : Len(log[u]) \in Nat
  BY <1>1, LenProperties
<1> QED
  BY <1>1, <1>2, <1>3, <1>4
----------------------------------------------------------------------------
(* The two topics are two.                                                   *)
LEMMA Topics == /\ SINGLE_TOPIC \in Topic /\ SINGLE_TOPIC_READ \in Topic
                /\ SINGLE_TOPIC # SINGLE_TOPIC_READ
BY DEF Topic, SINGLE_TOPIC, SINGLE_TOPIC_READ

(* Every step preserves the type invariant.                                  *)
LEMMA TypeStep == TypeOK /\ [Next]_vars => TypeOK'
<1> USE NoneAssumption, BoundsAssumption, Topics
<1> SUFFICES ASSUME TypeOK, [Next]_vars PROVE TypeOK'
  OBVIOUS
<1> USE DEF topics, group, cursors, database, budgets
<1> VarTypes /\ (\A u \in Topic : committed[u] <= Len(log[u]))
             /\ (\A u \in Topic : \A j \in Instance : Window(u, j))
  BY DEF TypeOK
<1> \A u \in Topic : /\ Len(log[u]) \in Nat /\ committed[u] \in Nat
                   /\ \A j \in Instance : pos[u][j] \in Nat /\ lim[u][j] \in Nat
  BY LenProperties DEF VarTypes
<1>1. ASSUME NEW m \in Mid, PostToServer(m) PROVE TypeOK'
  <2>1. VarTypes'
    BY <1>1 DEF VarTypes, PostToServer
  <2>2. ASSUME NEW u \in Topic PROVE (committed[u] <= Len(log[u]))'
    BY <1>1 DEF Window, PostToServer
  <2>3. ASSUME NEW u \in Topic, NEW j \in Instance PROVE Window(u, j)'
    BY <1>1 DEF Window, SavePC, ReadPC, PostToServer
  <2> QED
    BY <2>1, <2>2, <2>3 DEF TypeOK
<1>2. ASSUME NEW m \in Mid, Publish(m) PROVE TypeOK'
  <2>1. /\ log' \in [Topic -> Seq(Mid)]
       /\ \A u \in Topic : /\ Len(log[u]) \in Nat /\ Len(log'[u]) \in Nat
                           /\ Len(log[u]) <= Len(log'[u])
    BY <1>2, ProduceFacts, LenProperties DEF Publish, VarTypes
  <2>2. VarTypes'
    BY <1>2, <2>1 DEF VarTypes, Publish, Produce
  <2>3. ASSUME NEW u \in Topic PROVE (committed[u] <= Len(log[u]))'
    BY <1>2, <2>1 DEF Window, Publish, Produce
  <2>4. ASSUME NEW u \in Topic, NEW j \in Instance PROVE Window(u, j)'
    BY <1>2, <2>1 DEF Window, SavePC, ReadPC, Publish, Produce
  <2> QED
    BY <2>2, <2>3, <2>4 DEF TypeOK
<1>3. ASSUME NEW m \in Mid, updateMessageRead(m) PROVE TypeOK'
  <2>1. /\ log' \in [Topic -> Seq(Mid)]
       /\ \A u \in Topic : /\ Len(log[u]) \in Nat /\ Len(log'[u]) \in Nat
                           /\ Len(log[u]) <= Len(log'[u])
    BY <1>3, ProduceFacts, LenProperties DEF updateMessageRead, VarTypes
  <2>2. VarTypes'
    BY <1>3, <2>1 DEF VarTypes, updateMessageRead, Produce
  <2>3. ASSUME NEW u \in Topic PROVE (committed[u] <= Len(log[u]))'
    BY <1>3, <2>1 DEF Window, updateMessageRead, Produce
  <2>4. ASSUME NEW u \in Topic, NEW j \in Instance PROVE Window(u, j)'
    BY <1>3, <2>1 DEF Window, SavePC, ReadPC, updateMessageRead, Produce
  <2> QED
    BY <2>2, <2>3, <2>4 DEF TypeOK
<1>4. ASSUME NEW m \in Mid, Expire(m) PROVE TypeOK'
  <2>1. VarTypes'
    BY <1>4 DEF VarTypes, Expire
  <2>2. ASSUME NEW u \in Topic PROVE (committed[u] <= Len(log[u]))'
    BY <1>4 DEF Window, Expire
  <2>3. ASSUME NEW u \in Topic, NEW j \in Instance PROVE Window(u, j)'
    BY <1>4 DEF Window, SavePC, ReadPC, Expire
  <2> QED
    BY <2>1, <2>2, <2>3 DEF TypeOK
<1>5. ASSUME NEW t \in Topic, Revoke(t) PROVE TypeOK'
  <2>1. VarTypes'
    BY <1>5 DEF VarTypes, Revoke
  <2>2. ASSUME NEW u \in Topic PROVE (committed[u] <= Len(log[u]))'
    BY <1>5 DEF Window, Revoke
  <2>3. ASSUME NEW u \in Topic, NEW j \in Instance PROVE Window(u, j)'
    BY <1>5 DEF Window, SavePC, ReadPC, Revoke
  <2> QED
    BY <2>1, <2>2, <2>3 DEF TypeOK
<1>6. ASSUME NEW t \in Topic, NEW i \in Instance, Assign(t, i) PROVE TypeOK'
  <2>1. /\ pos' \in [Topic -> [Instance -> Nat]]
       /\ lim' \in [Topic -> [Instance -> Nat]]
       /\ \A u \in Topic : \A j \in Instance :
            /\ pos'[u][j] = IF u = t /\ j = i THEN committed[t] ELSE pos[u][j]
            /\ lim'[u][j] = IF u = t /\ j = i THEN committed[t] ELSE lim[u][j]
    BY <1>6, AssignFacts
  <2>2. pc' = pc /\ pc[t][i] = "idle" /\ log' = log /\ committed' = committed
    BY <1>6 DEF Assign
  <2>3. VarTypes'
    BY <1>6, <2>1, <2>2 DEF VarTypes, Assign
  <2>4. ASSUME NEW u \in Topic PROVE (committed[u] <= Len(log[u]))'
    BY <2>1, <2>2 DEF Window
  <2>5. ASSUME NEW u \in Topic, NEW j \in Instance PROVE Window(u, j)'
    <3>0. Len(log[u]) = Len(log'[u]) /\ lim[u][j] <= Len(log[u])
      BY <2>1, <2>2 DEF Window
    <3>1. CASE u = t /\ j = i
      BY <3>0, <3>1, <2>1, <2>2, WindowIdle
    <3>2. CASE ~(u = t /\ j = i)
      BY <3>0, <3>2, <2>1, <2>2, WindowKept
    <3> QED
      BY <3>1, <3>2
  <2> QED
    BY <2>3, <2>4, <2>5 DEF TypeOK
<1>7. ASSUME NEW t \in Topic, NEW i \in Instance, Poll(t, i) PROVE TypeOK'
  <2>1. /\ lim' \in [Topic -> [Instance -> Nat]]
       /\ lim[t][i] < lim'[t][i] /\ lim'[t][i] <= Len(log[t])
       /\ \A u \in Topic : \A j \in Instance :
            ~(u = t /\ j = i) => lim'[u][j] = lim[u][j]
    BY <1>7, PollFacts
  <2>2. /\ pc' = pc /\ pc[t][i] = "idle" /\ pos' = pos /\ pos[t][i] = lim[t][i]
       /\ log' = log /\ committed' = committed
    BY <1>7 DEF Poll
  <2>3. VarTypes'
    BY <1>7, <2>1, <2>2 DEF VarTypes, Poll
  <2>4. ASSUME NEW u \in Topic PROVE (committed[u] <= Len(log[u]))'
    BY <2>1, <2>2 DEF Window
  <2>5. ASSUME NEW u \in Topic, NEW j \in Instance PROVE Window(u, j)'
    <3>0. Len(log[u]) = Len(log'[u]) /\ lim[u][j] <= Len(log[u])
      BY <2>1, <2>2 DEF Window
    <3>1. CASE u = t /\ j = i
      BY <3>0, <3>1, <2>1, <2>2, WindowIdle
    <3>2. CASE ~(u = t /\ j = i)
      BY <3>0, <3>2, <2>1, <2>2, WindowKept
    <3> QED
      BY <3>1, <3>2
  <2> QED
    BY <2>3, <2>4, <2>5 DEF TypeOK
<1>8. ASSUME NEW i \in Instance, InsertContent(i) PROVE TypeOK'
  <2>1. /\ pc' \in [Topic -> [Instance -> SavePC \cup ReadPC]]
       /\ \A u \in Topic : \A j \in Instance :
            pc'[u][j] = IF u = SINGLE_TOPIC /\ j = i THEN "insertBoxes" ELSE pc[u][j]
    BY <1>8, GotoFacts DEF InsertContent, SavePC, ReadPC
  <2>2. VarTypes'
    BY <1>8, <2>1 DEF VarTypes, InsertContent
  <2>3. ASSUME NEW u \in Topic PROVE (committed[u] <= Len(log[u]))'
    BY <1>8, <2>1 DEF Window, InsertContent
  <2>4. ASSUME NEW u \in Topic, NEW j \in Instance PROVE Window(u, j)'
    BY <1>8, <2>1 DEF Window, SavePC, ReadPC, InsertContent
  <2> QED
    BY <2>2, <2>3, <2>4 DEF TypeOK
<1>9. ASSUME NEW i \in Instance, InsertBoxes(i) PROVE TypeOK'
  <2>1. /\ pc' \in [Topic -> [Instance -> SavePC \cup ReadPC]]
       /\ \A u \in Topic : \A j \in Instance :
            pc'[u][j] = IF u = SINGLE_TOPIC /\ j = i THEN "commit" ELSE pc[u][j]
    BY <1>9, GotoFacts DEF InsertBoxes, SavePC, ReadPC
  <2>2. VarTypes'
    BY <1>9, <2>1 DEF VarTypes, InsertBoxes
  <2>3. ASSUME NEW u \in Topic PROVE (committed[u] <= Len(log[u]))'
    BY <1>9, <2>1 DEF Window, InsertBoxes
  <2>4. ASSUME NEW u \in Topic, NEW j \in Instance PROVE Window(u, j)'
    BY <1>9, <2>1 DEF Window, SavePC, ReadPC, InsertBoxes
  <2> QED
    BY <2>2, <2>3, <2>4 DEF TypeOK
<1>10. ASSUME NEW i \in Instance, CommitSave(i) PROVE TypeOK'
  <2>1. /\ pc' \in [Topic -> [Instance -> SavePC \cup ReadPC]]
       /\ \A u \in Topic : \A j \in Instance :
            pc'[u][j] = IF u = SINGLE_TOPIC /\ j = i THEN "setExists" ELSE pc[u][j]
    BY <1>10, GotoFacts DEF CommitSave, SavePC, ReadPC
  <2>2. Record(SINGLE_TOPIC, i) \in Mid
    BY <1>10, RecordInTopic DEF CommitSave, Window
  <2>3. VarTypes'
    <3>1. boxes' \in [Mid -> [Box!BoxType -> Nat]]
      BY <1>10, <2>2 DEF VarTypes, CommitSave, Box!BoxType
    <3>2. status' \in [Mid -> {"absent", "unread", "received"}]
      BY <1>10, <2>2 DEF VarTypes, CommitSave
    <3> QED
      BY <1>10, <2>1, <3>1, <3>2 DEF VarTypes, CommitSave
  <2>4. ASSUME NEW u \in Topic PROVE (committed[u] <= Len(log[u]))'
    BY <1>10, <2>1, <2>2 DEF Window, CommitSave
  <2>5. ASSUME NEW u \in Topic, NEW j \in Instance PROVE Window(u, j)'
    BY <1>10, <2>1, <2>2 DEF Window, SavePC, ReadPC, CommitSave
  <2> QED
    BY <2>3, <2>4, <2>5 DEF TypeOK
<1>11. ASSUME NEW i \in Instance, SetExists(i) PROVE TypeOK'
  <2>1. /\ pc' \in [Topic -> [Instance -> SavePC \cup ReadPC]]
       /\ \A u \in Topic : \A j \in Instance :
            pc'[u][j] = IF u = SINGLE_TOPIC /\ j = i THEN "ack" ELSE pc[u][j]
    BY <1>11, GotoFacts DEF SetExists, SavePC, ReadPC
  <2>2. Record(SINGLE_TOPIC, i) \in Mid
    BY <1>11, RecordInTopic DEF SetExists, Window
  <2>3. VarTypes'
    BY <1>11, <2>1, <2>2 DEF VarTypes, SetExists
  <2>4. ASSUME NEW u \in Topic PROVE (committed[u] <= Len(log[u]))'
    BY <1>11, <2>1, <2>2 DEF Window, SetExists
  <2>5. ASSUME NEW u \in Topic, NEW j \in Instance PROVE Window(u, j)'
    BY <1>11, <2>1, <2>2 DEF Window, SavePC, ReadPC, SetExists
  <2> QED
    BY <2>3, <2>4, <2>5 DEF TypeOK
<1>12. ASSUME NEW i \in Instance, GetExists(i) PROVE TypeOK'
  <2>1. /\ pc' \in [Topic -> [Instance -> SavePC \cup ReadPC]]
       /\ \A u \in Topic : \A j \in Instance :
            pc'[u][j] = IF u = SINGLE_TOPIC_READ /\ j = i THEN "update" ELSE pc[u][j]
    BY <1>12, GotoFacts DEF GetExists, SavePC, ReadPC
  <2>2. VarTypes'
    BY <1>12, <2>1 DEF VarTypes, GetExists
  <2>3. ASSUME NEW u \in Topic PROVE (committed[u] <= Len(log[u]))'
    BY <1>12, <2>1 DEF Window, GetExists
  <2>4. ASSUME NEW u \in Topic, NEW j \in Instance PROVE Window(u, j)'
    BY <1>12, <2>1 DEF Window, SavePC, ReadPC, GetExists
  <2> QED
    BY <2>2, <2>3, <2>4 DEF TypeOK
<1>13. ASSUME NEW i \in Instance, UpdateReceived(i) PROVE TypeOK'
  <2>1. /\ pc' \in [Topic -> [Instance -> SavePC \cup ReadPC]]
       /\ \A u \in Topic : \A j \in Instance :
            pc'[u][j] = IF u = SINGLE_TOPIC_READ /\ j = i THEN "ack" ELSE pc[u][j]
    BY <1>13, GotoFacts DEF UpdateReceived, SavePC, ReadPC
  <2>2. VarTypes'
    BY <1>13, <2>1 DEF VarTypes, UpdateReceived
  <2>3. ASSUME NEW u \in Topic PROVE (committed[u] <= Len(log[u]))'
    BY <1>13, <2>1 DEF Window, UpdateReceived
  <2>4. ASSUME NEW u \in Topic, NEW j \in Instance PROVE Window(u, j)'
    BY <1>13, <2>1 DEF Window, SavePC, ReadPC, UpdateReceived
  <2> QED
    BY <2>2, <2>3, <2>4 DEF TypeOK
<1>14. ASSUME NEW i \in Instance, GetById(i) PROVE TypeOK'
  <2>1. PICK l \in {"insertContent", "setExists"} : Goto(SINGLE_TOPIC, i, l)
    BY <1>14 DEF GetById
  <2>2. /\ pc' \in [Topic -> [Instance -> SavePC \cup ReadPC]]
       /\ \A u \in Topic : \A j \in Instance :
            pc'[u][j] = IF u = SINGLE_TOPIC /\ j = i THEN l ELSE pc[u][j]
    BY <2>1, GotoFacts DEF SavePC
  <2>3. VarTypes'
    BY <1>14, <2>1, <2>2 DEF VarTypes, GetById
  <2>4. ASSUME NEW u \in Topic PROVE (committed[u] <= Len(log[u]))'
    BY <1>14, <2>1, <2>2 DEF Window, GetById
  <2>5. ASSUME NEW u \in Topic, NEW j \in Instance PROVE Window(u, j)'
    BY <1>14, <2>1, <2>2 DEF Window, SavePC, ReadPC, GetById
  <2> QED
    BY <2>3, <2>4, <2>5 DEF TypeOK
<1>15. ASSUME NEW i \in Instance, DuplicateKey(i) PROVE TypeOK'
  <2>1. /\ pos[SINGLE_TOPIC][i] + 1 <= lim[SINGLE_TOPIC][i]
       /\ pos[SINGLE_TOPIC][i] + 1 <= Len(log[SINGLE_TOPIC])
    BY <1>15, InRecord DEF DuplicateKey
  <2>2. /\ pc' \in [Topic -> [Instance -> SavePC \cup ReadPC]]
       /\ pos' \in [Topic -> [Instance -> Nat]] /\ lim' = lim /\ log' = log
       /\ \A u \in Topic : \A j \in Instance :
            /\ pc'[u][j] = IF u = SINGLE_TOPIC /\ j = i THEN "idle" ELSE pc[u][j]
            /\ pos'[u][j] = IF u = SINGLE_TOPIC /\ j = i THEN pos[u][j] + 1
                            ELSE pos[u][j]
    BY <1>15, NextRecordFacts DEF DuplicateKey
  <2>3. committed' = committed
    BY <1>15 DEF DuplicateKey
  <2>4. VarTypes'
    BY <1>15, <2>1, <2>2, <2>3 DEF VarTypes, DuplicateKey
  <2>5. ASSUME NEW u \in Topic PROVE (committed[u] <= Len(log[u]))'
    BY <2>1, <2>2, <2>3 DEF Window
  <2>6. ASSUME NEW u \in Topic, NEW j \in Instance PROVE Window(u, j)'
    <3>0. Len(log[u]) = Len(log'[u]) /\ lim[u][j] <= Len(log[u])
      BY <2>1, <2>2, <2>3 DEF Window
    <3>1. CASE u = SINGLE_TOPIC /\ j = i
      BY <3>0, <3>1, <2>1, <2>2, <2>3, WindowIdle
    <3>2. CASE ~(u = SINGLE_TOPIC /\ j = i)
      BY <3>0, <3>2, <2>1, <2>2, <2>3, WindowKept
    <3> QED
      BY <3>1, <3>2
  <2> QED
    BY <2>4, <2>5, <2>6 DEF TypeOK
<1>16. ASSUME NEW i \in Instance, SaveFails(i) PROVE TypeOK'
  <2>1. /\ pos[SINGLE_TOPIC][i] + 1 <= lim[SINGLE_TOPIC][i]
       /\ pos[SINGLE_TOPIC][i] + 1 <= Len(log[SINGLE_TOPIC])
    BY <1>16, InRecord DEF SaveFails
  <2>2. /\ pc' \in [Topic -> [Instance -> SavePC \cup ReadPC]]
       /\ pos' \in [Topic -> [Instance -> Nat]] /\ lim' = lim /\ log' = log
       /\ \A u \in Topic : \A j \in Instance :
            /\ pc'[u][j] = IF u = SINGLE_TOPIC /\ j = i THEN "idle" ELSE pc[u][j]
            /\ pos'[u][j] = IF u = SINGLE_TOPIC /\ j = i THEN pos[u][j] + 1
                            ELSE pos[u][j]
    BY <1>16, NextRecordFacts DEF SaveFails
  <2>3. committed' = committed
    BY <1>16 DEF SaveFails
  <2>4. VarTypes'
    <3>1. Record(SINGLE_TOPIC, i) \in Mid
      BY <2>1, RecordInTopic
    <3>2. skipped' \subseteq Mid /\ errors' \in Nat /\ revokes' \in Nat
      BY <1>16, <3>1 DEF VarTypes, SaveFails
    <3>3. UNCHANGED <<pushed, log, committed, owner, nacked, status, boxes, exists>>
      BY <1>16 DEF SaveFails
    <3> QED
      BY <2>2, <2>3, <3>2, <3>3 DEF VarTypes
  <2>5. ASSUME NEW u \in Topic PROVE (committed[u] <= Len(log[u]))'
    BY <2>1, <2>2, <2>3 DEF Window
  <2>6. ASSUME NEW u \in Topic, NEW j \in Instance PROVE Window(u, j)'
    <3>0. Len(log[u]) = Len(log'[u]) /\ lim[u][j] <= Len(log[u])
      BY <2>1, <2>2, <2>3 DEF Window
    <3>1. CASE u = SINGLE_TOPIC /\ j = i
      BY <3>0, <3>1, <2>1, <2>2, <2>3, WindowIdle
    <3>2. CASE ~(u = SINGLE_TOPIC /\ j = i)
      BY <3>0, <3>2, <2>1, <2>2, <2>3, WindowKept
    <3> QED
      BY <3>1, <3>2
  <2> QED
    BY <2>4, <2>5, <2>6 DEF TypeOK
<1>17. ASSUME NEW i \in Instance, AckSave(i) PROVE TypeOK'
  <2>1. /\ pos[SINGLE_TOPIC][i] + 1 <= lim[SINGLE_TOPIC][i]
       /\ pos[SINGLE_TOPIC][i] + 1 <= Len(log[SINGLE_TOPIC])
    BY <1>17, InRecord DEF AckSave
  <2>2. /\ pc' \in [Topic -> [Instance -> SavePC \cup ReadPC]]
       /\ pos' \in [Topic -> [Instance -> Nat]] /\ lim' = lim /\ log' = log
       /\ \A u \in Topic : \A j \in Instance :
            /\ pc'[u][j] = IF u = SINGLE_TOPIC /\ j = i THEN "idle" ELSE pc[u][j]
            /\ pos'[u][j] = IF u = SINGLE_TOPIC /\ j = i THEN pos[u][j] + 1
                            ELSE pos[u][j]
    BY <1>17, NextRecordFacts DEF AckSave
  <2>3. /\ committed' \in [Topic -> Nat]
       /\ \A u \in Topic : \/ committed'[u] = committed[u]
                           \/ u = SINGLE_TOPIC /\ committed'[u] = pos[SINGLE_TOPIC][i] + 1
    BY <1>17, AcknowledgeFacts DEF AckSave
  <2>4. VarTypes'
    BY <1>17, <2>1, <2>2, <2>3 DEF VarTypes, AckSave
  <2>5. ASSUME NEW u \in Topic PROVE (committed[u] <= Len(log[u]))'
    BY <2>1, <2>2, <2>3 DEF Window
  <2>6. ASSUME NEW u \in Topic, NEW j \in Instance PROVE Window(u, j)'
    <3>0. Len(log[u]) = Len(log'[u]) /\ lim[u][j] <= Len(log[u])
      BY <2>1, <2>2, <2>3 DEF Window
    <3>1. CASE u = SINGLE_TOPIC /\ j = i
      BY <3>0, <3>1, <2>1, <2>2, <2>3, WindowIdle
    <3>2. CASE ~(u = SINGLE_TOPIC /\ j = i)
      BY <3>0, <3>2, <2>1, <2>2, <2>3, WindowKept
    <3> QED
      BY <3>1, <3>2
  <2> QED
    BY <2>4, <2>5, <2>6 DEF TypeOK
<1>18. ASSUME NEW i \in Instance, AckRead(i) PROVE TypeOK'
  <2>1. log' = log
    BY <1>18 DEF AckRead
  <2>2. /\ pos[SINGLE_TOPIC_READ][i] + 1 <= lim[SINGLE_TOPIC_READ][i]
       /\ pos[SINGLE_TOPIC_READ][i] + 1 <= Len(log[SINGLE_TOPIC_READ])
    BY <1>18, InRecord DEF AckRead
  <2>3. /\ pc' \in [Topic -> [Instance -> SavePC \cup ReadPC]]
       /\ pos' \in [Topic -> [Instance -> Nat]]
       /\ lim' \in [Topic -> [Instance -> Nat]]
       /\ pc'[SINGLE_TOPIC_READ][i] = "idle"
       /\ pos'[SINGLE_TOPIC_READ][i] <= lim'[SINGLE_TOPIC_READ][i]
       /\ lim'[SINGLE_TOPIC_READ][i] <= lim[SINGLE_TOPIC_READ][i]
       /\ \A u \in Topic : \A j \in Instance :
            ~(u = SINGLE_TOPIC_READ /\ j = i) =>
              /\ pc'[u][j] = pc[u][j]
              /\ pos'[u][j] = pos[u][j]
              /\ lim'[u][j] = lim[u][j]
    BY <1>18, LeaveReadFacts DEF AckRead
  <2>4. /\ committed' \in [Topic -> Nat]
       /\ \A u \in Topic : \/ committed'[u] = committed[u]
                           \/ u = SINGLE_TOPIC_READ /\ committed'[u] = pos[SINGLE_TOPIC_READ][i] + 1
    BY <1>18, AcknowledgeFacts DEF AckRead
  <2>5. VarTypes'
    BY <1>18, <2>1, <2>2, <2>3, <2>4 DEF VarTypes, AckRead
  <2>6. ASSUME NEW u \in Topic PROVE (committed[u] <= Len(log[u]))'
    BY <2>1, <2>2, <2>3, <2>4 DEF Window
  <2>7. ASSUME NEW u \in Topic, NEW j \in Instance PROVE Window(u, j)'
    <3>0. Len(log[u]) = Len(log'[u]) /\ lim[u][j] <= Len(log[u])
      BY <2>1, <2>2, <2>3, <2>4 DEF Window
    <3>1. CASE u = SINGLE_TOPIC_READ /\ j = i
      BY <3>0, <3>1, <2>1, <2>2, <2>3, <2>4, WindowIdle
    <3>2. CASE ~(u = SINGLE_TOPIC_READ /\ j = i)
      <4>1. pc'[u][j] = pc[u][j] /\ pos'[u][j] = pos[u][j] /\ lim'[u][j] = lim[u][j]
        BY ONLY <2>3, <3>2, u \in Topic, j \in Instance
      <4>2. /\ Window(u, j) /\ pos[u][j] \in Nat /\ lim[u][j] \in Nat
            /\ Len(log[u]) \in Nat /\ log' = log
        BY <2>1
      <4> QED
        BY ONLY <4>1, <4>2, WindowKept, u \in Topic, j \in Instance
    <3> QED
      BY <3>1, <3>2
  <2> QED
    BY <2>5, <2>6, <2>7 DEF TypeOK
<1>19. ASSUME NEW i \in Instance, ReadFails(i) PROVE TypeOK'
  <2>1. log' = log
    BY <1>19 DEF ReadFails
  <2>2. \/ pc[SINGLE_TOPIC_READ][i] # "idle"
       \/ pos[SINGLE_TOPIC_READ][i] < lim[SINGLE_TOPIC_READ][i]
    BY <1>19 DEF ReadFails
  <2>3. /\ pc' \in [Topic -> [Instance -> SavePC \cup ReadPC]]
       /\ pos' \in [Topic -> [Instance -> Nat]]
       /\ lim' \in [Topic -> [Instance -> Nat]]
       /\ pc'[SINGLE_TOPIC_READ][i] = "idle"
       /\ pos'[SINGLE_TOPIC_READ][i] <= lim'[SINGLE_TOPIC_READ][i]
       /\ lim'[SINGLE_TOPIC_READ][i] <= lim[SINGLE_TOPIC_READ][i]
       /\ \A u \in Topic : \A j \in Instance :
            ~(u = SINGLE_TOPIC_READ /\ j = i) =>
              /\ pc'[u][j] = pc[u][j]
              /\ pos'[u][j] = pos[u][j]
              /\ lim'[u][j] = lim[u][j]
    BY <1>19, <2>2, LeaveReadFacts DEF ReadFails
  <2>4. committed' = committed
    BY <1>19 DEF ReadFails
  <2>5. VarTypes'
    BY <1>19, <2>1, <2>2, <2>3, <2>4 DEF VarTypes, ReadFails
  <2>6. ASSUME NEW u \in Topic PROVE (committed[u] <= Len(log[u]))'
    BY <2>1, <2>2, <2>3, <2>4 DEF Window
  <2>7. ASSUME NEW u \in Topic, NEW j \in Instance PROVE Window(u, j)'
    <3>0. Len(log[u]) = Len(log'[u]) /\ lim[u][j] <= Len(log[u])
      BY <2>1, <2>2, <2>3, <2>4 DEF Window
    <3>1. CASE u = SINGLE_TOPIC_READ /\ j = i
      BY <3>0, <3>1, <2>1, <2>2, <2>3, <2>4, WindowIdle
    <3>2. CASE ~(u = SINGLE_TOPIC_READ /\ j = i)
      <4>1. pc'[u][j] = pc[u][j] /\ pos'[u][j] = pos[u][j] /\ lim'[u][j] = lim[u][j]
        BY ONLY <2>3, <3>2, u \in Topic, j \in Instance
      <4>2. /\ Window(u, j) /\ pos[u][j] \in Nat /\ lim[u][j] \in Nat
            /\ Len(log[u]) \in Nat /\ log' = log
        BY <2>1
      <4> QED
        BY ONLY <4>1, <4>2, WindowKept, u \in Topic, j \in Instance
    <3> QED
      BY <3>1, <3>2
  <2> QED
    BY <2>5, <2>6, <2>7 DEF TypeOK
<1>20. ASSUME NEW i \in Instance, Crash(i) PROVE TypeOK'
  <2>1. /\ pc' \in [Topic -> [Instance -> SavePC \cup ReadPC]]
       /\ pos' \in [Topic -> [Instance -> Nat]]
       /\ lim' \in [Topic -> [Instance -> Nat]]
       /\ \A u \in Topic : \A j \in Instance :
            /\ pc'[u][j] = IF j = i THEN "idle" ELSE pc[u][j]
            /\ pos'[u][j] = IF j = i THEN 0 ELSE pos[u][j]
            /\ lim'[u][j] = IF j = i THEN 0 ELSE lim[u][j]
    BY <1>20, CrashFacts
  <2>2. log' = log /\ committed' = committed
    BY <1>20 DEF Crash
  <2>3. VarTypes'
    BY <1>20, <2>1, <2>2 DEF VarTypes, Crash
  <2>4. ASSUME NEW u \in Topic PROVE (committed[u] <= Len(log[u]))'
    BY <2>1, <2>2 DEF Window
  <2>5. ASSUME NEW u \in Topic, NEW j \in Instance PROVE Window(u, j)'
    <3>0. Len(log[u]) = Len(log'[u]) /\ lim[u][j] <= Len(log[u])
      BY <2>1, <2>2 DEF Window
    <3>1. CASE u = u /\ j = i
      BY <3>0, <3>1, <2>1, <2>2, WindowIdle
    <3>2. CASE ~(u = u /\ j = i)
      BY <3>0, <3>2, <2>1, <2>2, WindowKept
    <3> QED
      BY <3>1, <3>2
  <2> QED
    BY <2>3, <2>4, <2>5 DEF TypeOK
<1>21. CASE UNCHANGED vars
  BY <1>21 DEF TypeOK, VarTypes, Window, vars
<1> QED
  BY <1>1, <1>2, <1>3, <1>4, <1>5, <1>6, <1>7, <1>8, <1>9, <1>10, <1>11, <1>12, <1>13, <1>14, <1>15, <1>16, <1>17, <1>18, <1>19, <1>20, <1>21
  DEF Next, singleConsumer, singleConsumerRead

(* The state of the consumer is well typed, and every listener thread stays  *)
(* inside the batch it polled and every batch inside its topic.              *)
THEOREM TypeCorrect == Spec => []TypeOK
<1>1. Init => TypeOK
  BY BoundsAssumption, Topics
  DEF Init, TypeOK, VarTypes, Window, SavePC, ReadPC, Box!NoBoxes, Box!BoxType
<1> QED
  BY <1>1, TypeStep, PTL DEF Spec
----------------------------------------------------------------------------
(* The steps that are not the producers' leave both topics alone.            *)
LEMMA LogGrows ==
  ASSUME TypeOK, [Next]_vars
  PROVE  \A t \in Topic : \A k \in 1 .. Len(log[t]) : log'[t][k] = log[t][k]
<1> USE Topics
<1>1. ASSUME NEW m \in Mid, Publish(m) \/ updateMessageRead(m)
      PROVE  \A t \in Topic : \A k \in 1 .. Len(log[t]) : log'[t][k] = log[t][k]
  BY <1>1, ProduceFacts DEF Publish, updateMessageRead
<1>2. CASE UNCHANGED log
  BY <1>2
<1>3. (\E m \in Mid : Publish(m) \/ updateMessageRead(m)) \/ UNCHANGED log
  BY DEF Next, vars, topics, PostToServer, Expire, Revoke, Assign, Poll, singleConsumer,
         singleConsumerRead, GetById, InsertContent, DuplicateKey, InsertBoxes,
         CommitSave, SetExists, AckSave, SaveFails, GetExists, UpdateReceived,
         AckRead, ReadFails, Crash
<1> QED
  BY <1>1, <1>2, <1>3

(* A thread that stays inside its record stays at the same message.          *)
LEMMA RecordKept ==
  ASSUME TypeOK, [Next]_vars, NEW t \in Topic, NEW i \in Instance,
         pc[t][i] # "idle", pos'[t][i] = pos[t][i]
  PROVE  Record(t, i)' = Record(t, i) /\ Record(t, i) \in Mid
<1>1. pos[t][i] < lim[t][i]
  BY InRecord
<1> QED
  BY <1>1, RecordInTopic, LogGrows DEF Record

(* A transaction holds a row because it held it before, at the same record,  *)
(* or because it inserts it in this step.                                    *)
LEMMA HoldingStep ==
  ASSUME TypeOK, [Next]_vars, NEW j \in Instance, Holding(j)'
  PROVE  /\ pos'[SINGLE_TOPIC][j] = pos[SINGLE_TOPIC][j]
         /\ Holding(j) \/ InsertContent(j)
         /\ pc[SINGLE_TOPIC][j] # "idle"
<1> DEFINE G == /\ pos'[SINGLE_TOPIC][j] = pos[SINGLE_TOPIC][j]
                /\ Holding(j) \/ InsertContent(j)
                /\ pc[SINGLE_TOPIC][j] # "idle"
<1> USE Topics
<1> VarTypes
  BY DEF TypeOK
<1>1. CASE UNCHANGED <<pc, pos>>
  BY <1>1 DEF Holding
<1>2. ASSUME NEW t \in Topic, NEW i \in Instance, Assign(t, i) PROVE G
  BY <1>2, AssignFacts DEF Assign, Holding
<1>3. ASSUME NEW i \in Instance, GetById(i) PROVE G
  <2>1. PICK l \in {"insertContent", "setExists"} : Goto(SINGLE_TOPIC, i, l)
    BY <1>3 DEF GetById
  <2>2. pc'[SINGLE_TOPIC][j] = IF j = i THEN l ELSE pc[SINGLE_TOPIC][j]
    BY <2>1, GotoFacts DEF SavePC
  <2> QED
    BY <1>3, <2>2 DEF GetById, cursors, Holding
<1>4. ASSUME NEW i \in Instance, InsertContent(i) PROVE G
  <2>1. pc'[SINGLE_TOPIC][j] = IF j = i THEN "insertBoxes" ELSE pc[SINGLE_TOPIC][j]
    BY <1>4, GotoFacts DEF InsertContent, SavePC
  <2> QED
    BY <1>4, <2>1 DEF InsertContent, cursors, Holding
<1>5. ASSUME NEW i \in Instance, InsertBoxes(i) PROVE G
  <2>1. pc'[SINGLE_TOPIC][j] = IF j = i THEN "commit" ELSE pc[SINGLE_TOPIC][j]
    BY <1>5, GotoFacts DEF InsertBoxes, SavePC
  <2> QED
    BY <1>5, <2>1 DEF InsertBoxes, cursors, Holding
<1>6. ASSUME NEW i \in Instance, CommitSave(i) PROVE G
  <2>1. pc'[SINGLE_TOPIC][j] = IF j = i THEN "setExists" ELSE pc[SINGLE_TOPIC][j]
    BY <1>6, GotoFacts DEF CommitSave, SavePC
  <2> QED
    BY <1>6, <2>1 DEF CommitSave, cursors, Holding
<1>7. ASSUME NEW i \in Instance, SetExists(i) PROVE G
  <2>1. pc'[SINGLE_TOPIC][j] = IF j = i THEN "ack" ELSE pc[SINGLE_TOPIC][j]
    BY <1>7, GotoFacts DEF SetExists, SavePC
  <2> QED
    BY <1>7, <2>1 DEF SetExists, cursors, Holding
<1>8. ASSUME NEW i \in Instance, NextRecord(SINGLE_TOPIC, i) PROVE G
  BY <1>8, NextRecordFacts DEF Holding
<1>9. ASSUME NEW i \in Instance, GetExists(i) \/ UpdateReceived(i) PROVE G
  <2>1. PICK l \in {"update", "ack"} : Goto(SINGLE_TOPIC_READ, i, l)
    BY <1>9 DEF GetExists, UpdateReceived
  <2>2. pc'[SINGLE_TOPIC][j] = pc[SINGLE_TOPIC][j]
    BY <2>1, GotoFacts DEF ReadPC
  <2> QED
    BY <1>9, <2>2 DEF GetExists, UpdateReceived, cursors, Holding
<1>10. ASSUME NEW i \in Instance, AckRead(i) \/ ReadFails(i) PROVE G
  <2>1. /\ LeaveRead(i)
        /\ \/ pc[SINGLE_TOPIC_READ][i] # "idle"
           \/ pos[SINGLE_TOPIC_READ][i] < lim[SINGLE_TOPIC_READ][i]
    BY <1>10 DEF AckRead, ReadFails
  <2> QED
    BY <2>1, LeaveReadFacts DEF Holding
<1>11. ASSUME NEW i \in Instance, Crash(i) PROVE G
  BY <1>11, CrashFacts DEF Holding
<1>12. CASE UNCHANGED vars
  BY <1>1, <1>12 DEF vars
<1> QED
  BY <1>1, <1>2, <1>3, <1>4, <1>5, <1>6, <1>7, <1>8, <1>9, <1>10, <1>11, <1>12
  DEF Next, singleConsumer, singleConsumerRead, PostToServer, Publish,
      updateMessageRead, Produce, Expire, Revoke, Poll, DuplicateKey, AckSave,
      SaveFails, cursors

(* What can happen to the rows of a message in one step.                     *)
LEMMA RowStep ==
  ASSUME TypeOK, [Next]_vars, NEW m \in Mid
  PROVE  \/ status'[m] = status[m] /\ boxes'[m] = boxes[m]
         \/ /\ \E i \in Instance : UpdateReceived(i) /\ Record(SINGLE_TOPIC_READ, i) = m
            /\ status[m] # "absent" /\ status'[m] = "received" /\ boxes'[m] = boxes[m]
         \/ /\ \E i \in Instance : CommitSave(i) /\ Record(SINGLE_TOPIC, i) = m
            /\ status'[m] = "unread"
            /\ boxes'[m] = [b \in Box!BoxType |-> boxes[m][b] + 1]
<1> USE Topics
<1> VarTypes
  BY DEF TypeOK
<1>1. CASE UNCHANGED <<status, boxes>>
  BY <1>1
<1>2. CASE \E i \in Instance : UpdateReceived(i)
  BY <1>2 DEF UpdateReceived, VarTypes
<1>3. ASSUME NEW i \in Instance, CommitSave(i), Record(SINGLE_TOPIC, i) = m
      PROVE  /\ status'[m] = "unread"
             /\ boxes'[m] = [b \in Box!BoxType |-> boxes[m][b] + 1]
  BY <1>3 DEF CommitSave, VarTypes
<1>4. ASSUME NEW i \in Instance, CommitSave(i), Record(SINGLE_TOPIC, i) # m
      PROVE  status'[m] = status[m] /\ boxes'[m] = boxes[m]
  BY <1>4 DEF CommitSave, VarTypes
<1> QED
  BY <1>1, <1>2, <1>3, <1>4
  DEF Next, vars, database, singleConsumer, singleConsumerRead, PostToServer,
      Publish, updateMessageRead, Produce, Expire, Revoke, Assign, Poll,
      GetById, InsertContent, DuplicateKey, InsertBoxes, SetExists, AckSave,
      SaveFails, GetExists, AckRead, ReadFails, Crash
----------------------------------------------------------------------------
(* Row locks are exclusive and cover uncommitted rows only: the guard of     *)
(* InsertContent establishes it, and a committed row is released.            *)
LEMMA RowsLockedStep == TypeOK /\ RowsLocked /\ [Next]_vars => RowsLocked'
<1> USE Topics
<1> SUFFICES ASSUME TypeOK, RowsLocked, [Next]_vars, NEW i \in Instance, Holding(i)'
             PROVE  /\ (status[Record(SINGLE_TOPIC, i)] = "absent")'
                    /\ \A j \in Instance \ {i} :
                         ~HoldsRow(j, Record(SINGLE_TOPIC, i))'
  BY DEF RowsLocked
<1> DEFINE m == Record(SINGLE_TOPIC, i)
<1>1. /\ Holding(i) \/ InsertContent(i)
      /\ m' = m /\ m \in Mid
  BY HoldingStep, RecordKept
<1>2. status[m] = "absent" /\ \A j \in Instance \ {i} : ~HoldsRow(j, m)
  BY <1>1 DEF RowsLocked, InsertContent
<1>3. status'[m] = "absent"
  <2>1. ASSUME NEW j \in Instance, CommitSave(j), Record(SINGLE_TOPIC, j) = m
        PROVE  FALSE
    <3>1. HoldsRow(j, m)
      BY <2>1 DEF CommitSave, HoldsRow, Holding
    <3>2. j = i
      BY <3>1, <1>2
    <3>3. VarTypes
      BY DEF TypeOK
    <3>4. pc'[SINGLE_TOPIC][i] = "setExists"
      BY <2>1, <3>2, <3>3, GotoFacts DEF CommitSave, SavePC
    <3> QED
      BY <3>4 DEF Holding
  <2> QED
    BY <1>1, <1>2, <2>1, RowStep
<1>4. ASSUME NEW j \in Instance \ {i}, HoldsRow(j, m)' PROVE FALSE
  <2>1. Holding(j)' /\ Record(SINGLE_TOPIC, j)' = m
    BY <1>1, <1>4 DEF HoldsRow
  <2>2. /\ Holding(j) \/ InsertContent(j)
        /\ Record(SINGLE_TOPIC, j) = m
    BY <2>1, HoldingStep, RecordKept
  <2>3. InsertContent(j) /\ ~Holding(j)
    BY <2>2, <1>2 DEF HoldsRow
  <2>4. CASE Holding(i)
    BY <2>2, <2>3, <2>4 DEF InsertContent, HoldsRow
  <2>5. CASE InsertContent(i) /\ ~Holding(i)
    <3>1. VarTypes
      BY DEF TypeOK
    <3>2. pc'[SINGLE_TOPIC][i] = pc[SINGLE_TOPIC][i]
      BY <2>3, <3>1, GotoFacts DEF InsertContent, SavePC
    <3> QED
      BY <2>5, <3>2 DEF Holding
  <2> QED
    BY <1>1, <2>4, <2>5
<1> QED
  BY <1>1, <1>3, <1>4

(* One content row with one SEND and one RECEIVE row, or none at all: what a *)
(* commit adds, it adds to a message that has no row yet.                    *)
LEMMA StoredOnceStep ==
  TypeOK /\ RowsLocked /\ StoredOnce /\ [Next]_vars => StoredOnce'
<1> SUFFICES ASSUME TypeOK, RowsLocked, StoredOnce, [Next]_vars, NEW m \in Mid
             PROVE  boxes'[m] = IF status'[m] = "absent" THEN Box!NoBoxes
                                                         ELSE Box!OneEach
  BY DEF StoredOnce
<1>1. boxes[m] = IF status[m] = "absent" THEN Box!NoBoxes ELSE Box!OneEach
  BY DEF StoredOnce
<1>2. ASSUME NEW i \in Instance, CommitSave(i), Record(SINGLE_TOPIC, i) = m,
             boxes'[m] = [b \in Box!BoxType |-> boxes[m][b] + 1]
      PROVE  boxes'[m] = Box!OneEach
  <2>1. boxes[m] = Box!NoBoxes
    BY <1>1, <1>2 DEF RowsLocked, Holding, CommitSave
  <2> QED
    BY <1>2, <2>1 DEF Box!NoBoxes, Box!OneEach
<1> QED
  BY <1>1, <1>2, RowStep

(* However often a message is delivered and whoever handles it, it is stored *)
(* with exactly one mailbox row per side, or not at all (saveMessage).       *)
THEOREM StoresOnce == Spec => []StoredOnce
<1> DEFINE IInv == TypeOK /\ RowsLocked /\ StoredOnce
<1>1. Init => IInv
  <2>1. Init => TypeOK
    BY BoundsAssumption, Topics
    DEF Init, TypeOK, VarTypes, Window, SavePC, ReadPC, Box!NoBoxes, Box!BoxType
  <2> QED
    BY <2>1, Topics DEF Init, RowsLocked, Holding, StoredOnce
<1>2. IInv /\ [Next]_vars => IInv'
  BY TypeStep, RowsLockedStep, StoredOnceStep
<1>3. IInv => StoredOnce
  OBVIOUS
<1> QED
  BY <1>1, <1>2, <1>3, PTL DEF Spec
----------------------------------------------------------------------------
(* A stored record stays stored, and a skipped one skipped.                  *)
LEMMA SettledKept ==
  ASSUME TypeOK, [Next]_vars
  PROVE  \A k \in 1 .. Len(log[SINGLE_TOPIC]) :
           Settled(log[SINGLE_TOPIC][k]) => Settled(log[SINGLE_TOPIC][k])'
<1> TAKE k \in 1 .. Len(log[SINGLE_TOPIC])
<1>1. log[SINGLE_TOPIC][k] \in Mid
  BY Topics, ElementOfSeq DEF TypeOK, VarTypes
<1>2. log'[SINGLE_TOPIC][k] = log[SINGLE_TOPIC][k]
  BY Topics, LogGrows
<1>3. skipped \subseteq skipped'
  BY DEF Next, vars, singleConsumer, singleConsumerRead, PostToServer, Publish,
         updateMessageRead, Produce, Expire, Revoke, Assign, Poll, GetById,
         InsertContent, DuplicateKey, InsertBoxes, CommitSave, SetExists, AckSave,
         SaveFails, GetExists, UpdateReceived, AckRead, ReadFails, Crash, budgets
<1> QED
  BY <1>1, <1>2, <1>3, RowStep DEF Settled

(* A listener gets past a record only when it is stored or its call failed.  *)
LEMMA PassedStep ==
  ASSUME TypeOK, [Next]_vars, NEW j \in Instance
  PROVE  \/ Passed(j)' <= Passed(j)
         \/ Passed(j)' = committed[SINGLE_TOPIC]
         \/ /\ Passed(j)' = pos[SINGLE_TOPIC][j] + 1
            /\ Passed(j) = pos[SINGLE_TOPIC][j]
            /\ pos[SINGLE_TOPIC][j] + 1 <= Len(log[SINGLE_TOPIC])
            /\ \/ status'[Record(SINGLE_TOPIC, j)] # "absent"
               \/ Record(SINGLE_TOPIC, j) \in skipped'
<1> DEFINE G == \/ Passed(j)' <= Passed(j)
                \/ Passed(j)' = committed[SINGLE_TOPIC]
                \/ /\ Passed(j)' = pos[SINGLE_TOPIC][j] + 1
                   /\ Passed(j) = pos[SINGLE_TOPIC][j]
                   /\ pos[SINGLE_TOPIC][j] + 1 <= Len(log[SINGLE_TOPIC])
                   /\ \/ status'[Record(SINGLE_TOPIC, j)] # "absent"
                      \/ Record(SINGLE_TOPIC, j) \in skipped'
<1> USE Topics
<1> VarTypes /\ pos[SINGLE_TOPIC][j] \in Nat
  BY DEF TypeOK, VarTypes
<1>1. CASE /\ pc'[SINGLE_TOPIC][j] = pc[SINGLE_TOPIC][j]
           /\ pos'[SINGLE_TOPIC][j] = pos[SINGLE_TOPIC][j]
  BY <1>1 DEF Passed
<1>2. ASSUME NEW t \in Topic, NEW i \in Instance, Assign(t, i) PROVE G
  BY <1>1, <1>2, AssignFacts DEF Assign, Passed
<1>3. ASSUME NEW i \in Instance, GetById(i) PROVE G
  <2>1. PICK l \in {"insertContent", "setExists"} :
          /\ Goto(SINGLE_TOPIC, i, l)
          /\ l = "setExists" => status[Record(SINGLE_TOPIC, i)] # "absent"
    BY <1>3 DEF GetById
  <2>2. pc'[SINGLE_TOPIC][j] = IF j = i THEN l ELSE pc[SINGLE_TOPIC][j]
    BY <2>1, GotoFacts DEF SavePC
  <2>3. pos' = pos /\ status' = status /\ pc[SINGLE_TOPIC][i] = "idle"
    BY <1>3 DEF GetById, cursors, database
  <2>4. pos[SINGLE_TOPIC][i] < lim[SINGLE_TOPIC][i]
    BY <1>3 DEF GetById
  <2>5. pos[SINGLE_TOPIC][i] + 1 <= Len(log[SINGLE_TOPIC])
    BY <2>4, RecordInTopic
  <2> QED
    BY <1>1, <2>1, <2>2, <2>3, <2>5 DEF Passed
<1>4. ASSUME NEW i \in Instance, InsertContent(i) \/ InsertBoxes(i) PROVE G
  <2>1. PICK l \in {"insertBoxes", "commit"} : Goto(SINGLE_TOPIC, i, l)
    BY <1>4 DEF InsertContent, InsertBoxes
  <2>2. pc'[SINGLE_TOPIC][j] = IF j = i THEN l ELSE pc[SINGLE_TOPIC][j]
    BY <2>1, GotoFacts DEF SavePC
  <2> QED
    BY <1>4, <2>2 DEF InsertContent, InsertBoxes, cursors, Passed
<1>5. ASSUME NEW i \in Instance, CommitSave(i) PROVE G
  <2>1. pc'[SINGLE_TOPIC][j] = IF j = i THEN "setExists" ELSE pc[SINGLE_TOPIC][j]
    BY <1>5, GotoFacts DEF CommitSave, SavePC
  <2>2. pos' = pos /\ pc[SINGLE_TOPIC][i] = "commit"
    BY <1>5 DEF CommitSave, cursors
  <2>3. /\ pos[SINGLE_TOPIC][i] + 1 <= Len(log[SINGLE_TOPIC])
        /\ Record(SINGLE_TOPIC, i) \in Mid
    BY <2>2, InRecord, RecordInTopic
  <2>4. status'[Record(SINGLE_TOPIC, i)] # "absent"
    BY <1>5, <2>3 DEF CommitSave, VarTypes
  <2> QED
    BY <1>1, <2>1, <2>2, <2>3, <2>4 DEF Passed
<1>6. ASSUME NEW i \in Instance, SetExists(i) PROVE G
  <2>1. pc'[SINGLE_TOPIC][j] = IF j = i THEN "ack" ELSE pc[SINGLE_TOPIC][j]
    BY <1>6, GotoFacts DEF SetExists, SavePC
  <2> QED
    BY <1>6, <2>1 DEF SetExists, cursors, Passed
<1>7. ASSUME NEW i \in Instance, AckSave(i) PROVE G
  <2>1. NextRecord(SINGLE_TOPIC, i) /\ pc[SINGLE_TOPIC][i] = "ack"
    BY <1>7 DEF AckSave
  <2> QED
    BY <1>1, <2>1, NextRecordFacts DEF Passed
<1>8. ASSUME NEW i \in Instance, DuplicateKey(i) PROVE G
  <2>1. /\ NextRecord(SINGLE_TOPIC, i) /\ pc[SINGLE_TOPIC][i] = "insertContent"
        /\ status'[Record(SINGLE_TOPIC, i)] # "absent"
    BY <1>8 DEF DuplicateKey, database
  <2>2. pos[SINGLE_TOPIC][i] + 1 <= Len(log[SINGLE_TOPIC])
    BY <2>1, InRecord
  <2> QED
    BY <1>1, <2>1, <2>2, NextRecordFacts DEF Passed
<1>9. ASSUME NEW i \in Instance, SaveFails(i) PROVE G
  <2>1. /\ NextRecord(SINGLE_TOPIC, i) /\ pc[SINGLE_TOPIC][i] \notin {"idle", "ack"}
        /\ Record(SINGLE_TOPIC, i) \in skipped'
    BY <1>9 DEF SaveFails
  <2>2. pos[SINGLE_TOPIC][i] + 1 <= Len(log[SINGLE_TOPIC])
    BY <2>1, InRecord
  <2> QED
    BY <1>1, <2>1, <2>2, NextRecordFacts DEF Passed
<1>10. ASSUME NEW i \in Instance, GetExists(i) \/ UpdateReceived(i) PROVE G
  <2>1. PICK l \in {"update", "ack"} : Goto(SINGLE_TOPIC_READ, i, l)
    BY <1>10 DEF GetExists, UpdateReceived
  <2>2. pc'[SINGLE_TOPIC][j] = pc[SINGLE_TOPIC][j]
    BY <2>1, GotoFacts DEF ReadPC
  <2> QED
    BY <1>1, <1>10, <2>2 DEF GetExists, UpdateReceived, cursors
<1>11. ASSUME NEW i \in Instance, AckRead(i) \/ ReadFails(i) PROVE G
  <2>1. /\ LeaveRead(i)
        /\ \/ pc[SINGLE_TOPIC_READ][i] # "idle"
           \/ pos[SINGLE_TOPIC_READ][i] < lim[SINGLE_TOPIC_READ][i]
    BY <1>11 DEF AckRead, ReadFails
  <2> QED
    BY <1>1, <2>1, LeaveReadFacts
<1>12. ASSUME NEW i \in Instance, Crash(i) PROVE G
  BY <1>1, <1>12, CrashFacts DEF Passed
<1>13. CASE UNCHANGED <<pc, pos>>
  BY <1>1, <1>13
<1> QED
  BY <1>2, <1>3, <1>4, <1>5, <1>6, <1>7, <1>8, <1>9, <1>10, <1>11, <1>12, <1>13
  DEF Next, vars, singleConsumer, singleConsumerRead, PostToServer, Publish,
      updateMessageRead, Produce, Expire, Revoke, Poll, cursors

(* What a committed offset of single_topic can become.                       *)
LEMMA CommittedStep ==
  ASSUME TypeOK, [Next]_vars
  PROVE  \/ committed'[SINGLE_TOPIC] = committed[SINGLE_TOPIC]
         \/ \E i \in Instance : committed'[SINGLE_TOPIC] = Passed(i)
<1> USE Topics
<1> VarTypes
  BY DEF TypeOK
<1>1. ASSUME NEW i \in Instance, AckSave(i)
      PROVE  committed'[SINGLE_TOPIC] \in {committed[SINGLE_TOPIC], Passed(i)}
  BY <1>1, AcknowledgeFacts DEF AckSave, Passed
<1>2. ASSUME NEW i \in Instance, AckRead(i)
      PROVE  committed'[SINGLE_TOPIC] = committed[SINGLE_TOPIC]
  BY <1>2, AcknowledgeFacts DEF AckRead
<1> QED
  BY <1>1, <1>2
  DEF Next, vars, group, singleConsumer, singleConsumerRead, PostToServer,
      Publish, updateMessageRead, Produce, Expire, Revoke, Assign, Poll,
      GetById, InsertContent, DuplicateKey, InsertBoxes, CommitSave, SetExists,
      SaveFails, GetExists, UpdateReceived, ReadFails, Crash

(* What has been passed stays settled, and what is passed now is.            *)
LEMMA PassedIsSettledStep ==
  TypeOK /\ PassedIsSettled /\ [Next]_vars => PassedIsSettled'
<1> SUFFICES ASSUME TypeOK, PassedIsSettled, [Next]_vars
             PROVE  PassedIsSettled'
  OBVIOUS
<1> DEFINE L == Len(log[SINGLE_TOPIC])
           S(k) == Settled(log[SINGLE_TOPIC][k])
<1>1. /\ L \in Nat /\ committed[SINGLE_TOPIC] \in Nat
      /\ committed[SINGLE_TOPIC] <= L
  BY Topics, LenProperties DEF TypeOK, VarTypes
<1>2. ASSUME NEW i \in Instance PROVE Passed(i) \in Nat /\ Passed(i) <= L
  <2>1. /\ pos[SINGLE_TOPIC][i] \in Nat /\ lim[SINGLE_TOPIC][i] \in Nat
        /\ pos[SINGLE_TOPIC][i] <= lim[SINGLE_TOPIC][i]
        /\ lim[SINGLE_TOPIC][i] <= L
    BY Topics DEF TypeOK, VarTypes, Window
  <2>2. pc[SINGLE_TOPIC][i] # "idle" => pos[SINGLE_TOPIC][i] + 1 <= L
    BY Topics, InRecord
  <2> QED
    BY <1>1, <2>1, <2>2 DEF Passed
<1>3. \A k \in 1 .. L : S(k) => S(k)'
  BY SettledKept
<1>4. \A k \in 1 .. committed[SINGLE_TOPIC] : S(k)'
  BY <1>1, <1>3 DEF PassedIsSettled, SettledUpTo
<1>5. ASSUME NEW i \in Instance PROVE \A k \in 1 .. Passed(i) : S(k)'
  BY <1>1, <1>2, <1>3 DEF PassedIsSettled, SettledUpTo
<1>6. SettledUpTo(committed[SINGLE_TOPIC])'
  BY <1>4, <1>5, CommittedStep DEF SettledUpTo
<1>7. ASSUME NEW i \in Instance PROVE SettledUpTo(Passed(i))'
  <2>1. TypeOK'
    BY TypeStep
  <2>2. Passed(i)' \in Nat
    <3>1. pos'[SINGLE_TOPIC][i] \in Nat
      BY <2>1, Topics DEF TypeOK, VarTypes
    <3> QED
      BY ONLY <3>1 DEF Passed
  <2>3. CASE Passed(i)' <= Passed(i)
    BY <1>2, <1>5, <2>2, <2>3 DEF SettledUpTo
  <2>4. CASE Passed(i)' = committed[SINGLE_TOPIC]
    BY <1>4, <2>4 DEF SettledUpTo
  <2>5. CASE /\ Passed(i)' = pos[SINGLE_TOPIC][i] + 1
             /\ Passed(i) = pos[SINGLE_TOPIC][i]
             /\ pos[SINGLE_TOPIC][i] + 1 <= L
             /\ \/ status'[Record(SINGLE_TOPIC, i)] # "absent"
                \/ Record(SINGLE_TOPIC, i) \in skipped'
    <3> DEFINE M(k) == \/ status'[log'[SINGLE_TOPIC][k]] # "absent"
                       \/ log'[SINGLE_TOPIC][k] \in skipped'
    <3>1. M(pos[SINGLE_TOPIC][i] + 1)
      <4>1. pos[SINGLE_TOPIC][i] + 1 \in 1 .. L
        BY <1>2, <2>5
      <4>2. log'[SINGLE_TOPIC][pos[SINGLE_TOPIC][i] + 1] = Record(SINGLE_TOPIC, i)
        BY <4>1, LogGrows, Topics DEF Record
      <4> QED
        BY <2>5, <4>2
    <3>2. ASSUME NEW k \in 1 .. pos[SINGLE_TOPIC][i] + 1
          PROVE  M(k)
      <4>1. pos[SINGLE_TOPIC][i] \in Nat
        BY <1>2, <2>5
      <4>2. CASE k = pos[SINGLE_TOPIC][i] + 1
        BY <3>1, <4>2
      <4>3. CASE k \in 1 .. pos[SINGLE_TOPIC][i]
        BY <1>5, <2>5, <4>3 DEF Settled
      <4> QED
        BY <4>1, <4>2, <4>3
    <3> QED
      BY <2>5, <3>2 DEF SettledUpTo, Settled
  <2> QED
    BY <2>3, <2>4, <2>5, PassedStep
<1> QED
  BY <1>6, <1>7 DEF PassedIsSettled

(* Every committed offset is behind a stored message or one whose own call   *)
(* failed, whatever rebalances, crashes, zombies and duplicates do.          *)
THEOREM CommitsOnlySettled == Spec => []CommittedIsSettled
<1> DEFINE IInv == TypeOK /\ PassedIsSettled
<1>1. Init => IInv
  <2>1. Init => TypeOK
    BY BoundsAssumption, Topics
    DEF Init, TypeOK, VarTypes, Window, SavePC, ReadPC, Box!NoBoxes, Box!BoxType
  <2> QED
    BY <2>1, Topics DEF Init, PassedIsSettled, SettledUpTo, Passed
<1>2. IInv /\ [Next]_vars => IInv'
  BY TypeStep, PassedIsSettledStep
<1>3. IInv => CommittedIsSettled
  BY DEF PassedIsSettled, SettledUpTo, Settled, CommittedIsSettled
<1> QED
  BY <1>1, <1>2, <1>3, PTL DEF Spec
----------------------------------------------------------------------------
(* The owner of a partition never falls more than one record behind what is  *)
(* committed: nack() rewinds it by the record it has just acknowledged.      *)
LEMMA OwnerNotBehindStep ==
  TypeOK /\ OwnerNotBehind /\ [Next]_vars => OwnerNotBehind'
<1> USE Topics
<1> SUFFICES ASSUME TypeOK, OwnerNotBehind, [Next]_vars,
                    NEW u \in Topic, NEW j \in Instance, owner'[u] = j
             PROVE  committed'[u] <= pos'[u][j] + 1
  BY DEF OwnerNotBehind
<1> DEFINE G == committed'[u] <= pos'[u][j] + 1
<1> /\ VarTypes /\ pos[u][j] \in Nat /\ committed[u] \in Nat
    /\ owner[u] = j => committed[u] <= pos[u][j] + 1
  BY DEF TypeOK, VarTypes, OwnerNotBehind
<1>1. CASE UNCHANGED <<committed, owner, pos>>
  BY <1>1
<1>2. ASSUME NEW t \in Topic, NEW i \in Instance, Assign(t, i) PROVE G
  <2>1. CASE u = t /\ j = i
    <3>1. committed' = committed
      BY <1>2 DEF Assign
    <3>2. pos'[u][j] = committed[u]
      BY <1>2, <2>1, AssignFacts
    <3> QED
      BY <3>1, <3>2
  <2>2. CASE u # t
    BY <1>2, <2>2, AssignFacts DEF Assign, VarTypes
  <2>3. CASE u = t /\ j # i
    BY <1>2, <2>3 DEF Assign, VarTypes
  <2> QED
    BY <2>1, <2>2, <2>3
<1>3. ASSUME NEW t \in Topic, Revoke(t) PROVE G
  BY <1>3, NoneAssumption DEF Revoke, VarTypes, cursors
<1>4. ASSUME NEW i \in Instance, DuplicateKey(i) \/ SaveFails(i) PROVE G
  <2>1. NextRecord(SINGLE_TOPIC, i) /\ UNCHANGED <<committed, owner>>
    BY <1>4 DEF DuplicateKey, SaveFails, group
  <2> QED
    BY <2>1, NextRecordFacts
<1>5. ASSUME NEW i \in Instance, AckSave(i) PROVE G
  <2>1. /\ NextRecord(SINGLE_TOPIC, i) /\ Acknowledge(SINGLE_TOPIC, i)
        /\ owner' = owner
    BY <1>5 DEF AckSave
  <2>2. \A t \in Topic : committed'[t] = IF t = SINGLE_TOPIC /\ owner[t] = i
                                         THEN pos[SINGLE_TOPIC][i] + 1
                                         ELSE committed[t]
    BY <2>1, AcknowledgeFacts
  <2>3. pos'[u][j] = IF u = SINGLE_TOPIC /\ j = i THEN pos[u][j] + 1 ELSE pos[u][j]
    BY <2>1, NextRecordFacts
  <2> QED
    BY <2>1, <2>2, <2>3
<1>6. ASSUME NEW i \in Instance, AckRead(i) PROVE G
  <2>1. /\ LeaveRead(i) /\ Acknowledge(SINGLE_TOPIC_READ, i) /\ owner' = owner
        /\ pc[SINGLE_TOPIC_READ][i] # "idle"
    BY <1>6 DEF AckRead
  <2>2. \A t \in Topic : committed'[t] = IF t = SINGLE_TOPIC_READ /\ owner[t] = i
                                         THEN pos[SINGLE_TOPIC_READ][i] + 1
                                         ELSE committed[t]
    BY <2>1, AcknowledgeFacts
  <2>3. pos[u][j] <= pos'[u][j] /\ pos'[u][j] \in Nat
    <3>1. CASE u = SINGLE_TOPIC_READ /\ j = i
      BY <2>1, <3>1, LeaveReadFacts
    <3>2. CASE ~(u = SINGLE_TOPIC_READ /\ j = i)
      BY <2>1, <3>2, LeaveReadFacts
    <3> QED
      BY <3>1, <3>2
  <2> QED
    BY <2>1, <2>2, <2>3
<1>7. ASSUME NEW i \in Instance, ReadFails(i) PROVE G
  <2>1. /\ LeaveRead(i) /\ UNCHANGED <<committed, owner>>
        /\ \/ pc[SINGLE_TOPIC_READ][i] # "idle"
           \/ pos[SINGLE_TOPIC_READ][i] < lim[SINGLE_TOPIC_READ][i]
    BY <1>7 DEF ReadFails, group
  <2>2. pos[u][j] <= pos'[u][j] /\ pos'[u][j] \in Nat
    <3>1. CASE u = SINGLE_TOPIC_READ /\ j = i
      BY <2>1, <3>1, LeaveReadFacts
    <3>2. CASE ~(u = SINGLE_TOPIC_READ /\ j = i)
      BY <2>1, <3>2, LeaveReadFacts
    <3> QED
      BY <3>1, <3>2
  <2> QED
    BY <2>1, <2>2
<1>8. ASSUME NEW i \in Instance, Crash(i) PROVE G
  <2>1. j # i /\ owner[u] = j
    BY <1>8, NoneAssumption DEF Crash
  <2> QED
    BY <1>8, <2>1, CrashFacts DEF Crash
<1> QED
  BY <1>1, <1>2, <1>3, <1>4, <1>5, <1>6, <1>7, <1>8
  DEF Next, vars, group, cursors, singleConsumer, singleConsumerRead, PostToServer,
      Publish, updateMessageRead, Produce, Expire, Poll, GetById,
      InsertContent, InsertBoxes, CommitSave, SetExists, GetExists, UpdateReceived

(* No step moves a committed offset back.                                    *)
LEMMA CommitStep ==
  TypeOK /\ OwnerNotBehind /\ [Next]_vars =>
    \A t \in Topic : committed'[t] >= committed[t]
<1> USE Topics
<1> SUFFICES ASSUME TypeOK, OwnerNotBehind, [Next]_vars, NEW t \in Topic
             PROVE  committed'[t] >= committed[t]
  OBVIOUS
<1> VarTypes /\ committed[t] \in Nat
  BY DEF TypeOK, VarTypes
<1>1. ASSUME NEW i \in Instance, AckSave(i) \/ AckRead(i)
      PROVE  committed'[t] >= committed[t]
  <2>1. PICK s \in Topic : Acknowledge(s, i)
    BY <1>1 DEF AckSave, AckRead
  <2>2. committed'[t] = IF t = s /\ owner[t] = i THEN pos[s][i] + 1
                                                 ELSE committed[t]
    BY <2>1, AcknowledgeFacts
  <2>3. pos[s][i] \in Nat
    BY DEF VarTypes
  <2> QED
    BY <2>2, <2>3 DEF OwnerNotBehind
<1>2. CASE UNCHANGED committed
  BY <1>2
<1> QED
  BY <1>1, <1>2
  DEF Next, vars, group, singleConsumer, singleConsumerRead, PostToServer,
      Publish, updateMessageRead, Produce, Expire, Revoke, Assign, Poll,
      GetById, InsertContent, DuplicateKey, InsertBoxes, CommitSave, SetExists,
      SaveFails, GetExists, UpdateReceived, ReadFails, Crash

(* Committed offsets only advance: a zombie's acknowledgement is refused, and *)
(* the owner acknowledges at or after the record it last acknowledged.       *)
THEOREM OffsetsAdvance == Spec => CommitsAdvance
<1> DEFINE IInv == TypeOK /\ OwnerNotBehind
<1>1. Init => IInv
  <2>1. Init => TypeOK
    BY BoundsAssumption, Topics
    DEF Init, TypeOK, VarTypes, Window, SavePC, ReadPC, Box!NoBoxes, Box!BoxType
  <2> QED
    BY <2>1, NoneAssumption DEF Init, OwnerNotBehind
<1>2. IInv /\ [Next]_vars => IInv'
  BY TypeStep, OwnerNotBehindStep
<1>3. IInv /\ [Next]_vars =>
        [\A t \in Topic : committed'[t] >= committed[t]]_committed
  BY CommitStep
<1> QED
  BY <1>1, <1>2, <1>3, PTL DEF Spec, CommitsAdvance
----------------------------------------------------------------------------
(* Refinement: the consumer's steps are steps of the abstract message log.   *)
LEMMA RefinementStep ==
  TypeOK /\ RowsLocked /\ StoredOnce /\ [Next]_vars => [Box!Next]_(Box!vars)
<1> USE Topics
<1> SUFFICES ASSUME TypeOK, RowsLocked, StoredOnce, [Next]_vars
             PROVE  Box!Next \/ UNCHANGED Box!vars
  OBVIOUS
<1> VarTypes
  BY DEF TypeOK
<1> DEFINE Ids(t) == {log[t][k] : k \in DOMAIN log[t]}
<1>0. \A t \in Topic : DOMAIN log[t] = 1 .. Len(log[t])
  BY LenProperties DEF VarTypes
<1>1. ASSUME NEW t \in Topic, NEW m \in Mid, Produce(t, m)
      PROVE  /\ {log'[t][k] : k \in DOMAIN log'[t]} = Ids(t) \cup {m}
             /\ \A u \in Topic \ {t} : log'[u] = log[u]
             /\ status' = status /\ boxes' = boxes
  <2>1. /\ log[t] \in Seq(Mid) /\ log'[t] = Append(log[t], m)
        /\ \A u \in Topic \ {t} : log'[u] = log[u]
    BY <1>1, ProduceFacts DEF VarTypes
  <2>2. /\ Len(log'[t]) = Len(log[t]) + 1 /\ Len(log[t]) \in Nat
        /\ log'[t] \in Seq(Mid)
        /\ log'[t][Len(log[t]) + 1] = m
        /\ \A k \in 1 .. Len(log[t]) : log'[t][k] = log[t][k]
    BY <2>1, AppendProperties, LenProperties
  <2>3. DOMAIN log'[t] = 1 .. (Len(log[t]) + 1)
    BY <2>2, LenProperties
  <2>4. {log'[t][k] : k \in DOMAIN log'[t]} = Ids(t) \cup {m}
    <3>1. ASSUME NEW k \in 1 .. (Len(log[t]) + 1) PROVE log'[t][k] \in Ids(t) \cup {m}
      <4>1. CASE k = Len(log[t]) + 1
        BY <2>2, <4>1
      <4>2. CASE k \in 1 .. Len(log[t])
        BY <1>0, <2>2, <4>2
      <4> QED
        BY <2>2, <4>1, <4>2
    <3>2. ASSUME NEW k \in 1 .. Len(log[t])
          PROVE  log[t][k] \in {log'[t][n] : n \in DOMAIN log'[t]}
      <4>1. k \in DOMAIN log'[t]
        BY <2>2, <2>3
      <4>2. log[t][k] = log'[t][k]
        BY <2>2
      <4> QED
        BY <4>1, <4>2, Zenon
    <3>3. m \in {log'[t][n] : n \in DOMAIN log'[t]}
      BY <2>2, <2>3
    <3> QED
      BY <1>0, <2>3, <3>1, <3>2, <3>3
  <2> QED
    BY <1>1, <2>1, <2>4 DEF Produce, database
<1>2. ASSUME NEW m \in Mid, Publish(m) PROVE Box!Publish(m)
  <2>1. Produce(SINGLE_TOPIC, m)
    BY <1>2 DEF Publish
  <2>2. /\ {log'[SINGLE_TOPIC][k] : k \in DOMAIN log'[SINGLE_TOPIC]}
             = Ids(SINGLE_TOPIC) \cup {m}
        /\ log'[SINGLE_TOPIC_READ] = log[SINGLE_TOPIC_READ]
        /\ status' = status /\ boxes' = boxes
    BY <1>1, <2>1
  <2> QED
    BY <2>2 DEF Box!Publish
<1>3. ASSUME NEW m \in Mid, updateMessageRead(m) PROVE Box!Report(m)
  <2>1. Produce(SINGLE_TOPIC_READ, m)
    BY <1>3 DEF updateMessageRead
  <2>2. /\ {log'[SINGLE_TOPIC_READ][k] : k \in DOMAIN log'[SINGLE_TOPIC_READ]}
             = Ids(SINGLE_TOPIC_READ) \cup {m}
        /\ log'[SINGLE_TOPIC] = log[SINGLE_TOPIC]
        /\ status' = status /\ boxes' = boxes
    BY <1>1, <2>1
  <2> QED
    BY <2>2 DEF Box!Report
<1>4. ASSUME NEW i \in Instance, CommitSave(i) PROVE Box!Store(Record(SINGLE_TOPIC, i))
  <2> DEFINE m == Record(SINGLE_TOPIC, i)
  <2>1. /\ pos[SINGLE_TOPIC][i] + 1 \in 1 .. Len(log[SINGLE_TOPIC])
        /\ m = log[SINGLE_TOPIC][pos[SINGLE_TOPIC][i] + 1] /\ m \in Mid
    BY <1>4, InRecord, RecordInTopic DEF CommitSave
  <2>2. m \in Ids(SINGLE_TOPIC)
    BY <1>0, <2>1
  <2>3. status[m] = "absent"
    BY <1>4 DEF RowsLocked, Holding, CommitSave
  <2>4. boxes[m] = Box!NoBoxes
    BY <2>1, <2>3 DEF StoredOnce
  <2>5. [b \in Box!BoxType |-> boxes[m][b] + 1] = Box!OneEach
    BY <2>4 DEF Box!NoBoxes, Box!OneEach
  <2>6. /\ status' = [status EXCEPT ![m] = "unread"]
        /\ boxes' = [boxes EXCEPT ![m] = Box!OneEach]
        /\ log' = log
    BY <1>4, <2>5 DEF CommitSave, topics
  <2> QED
    BY <2>2, <2>3, <2>6 DEF Box!Store
<1>5. ASSUME NEW i \in Instance, UpdateReceived(i)
      PROVE  \/ Box!Receive(Record(SINGLE_TOPIC_READ, i))
             \/ UNCHANGED Box!vars
  <2> DEFINE m == Record(SINGLE_TOPIC_READ, i)
  <2>1. /\ pos[SINGLE_TOPIC_READ][i] + 1 \in 1 .. Len(log[SINGLE_TOPIC_READ])
        /\ m = log[SINGLE_TOPIC_READ][pos[SINGLE_TOPIC_READ][i] + 1] /\ m \in Mid
    BY <1>5, InRecord, RecordInTopic DEF UpdateReceived
  <2>2. m \in Ids(SINGLE_TOPIC_READ)
    BY <1>0, <2>1
  <2>3. /\ log' = log /\ boxes' = boxes
        /\ status' = [status EXCEPT ![m] = IF status[m] = "absent" THEN status[m]
                                                                   ELSE "received"]
    BY <1>5 DEF UpdateReceived, topics
  <2>4. CASE status[m] = "unread"
    BY <2>2, <2>3, <2>4 DEF Box!Receive
  <2>5. CASE status[m] \in {"absent", "received"}
    <3>1. status' = status
      BY <2>1, <2>3, <2>5 DEF VarTypes
    <3> QED
      BY <2>3, <3>1 DEF Box!vars
  <2> QED
    BY <2>1, <2>4, <2>5 DEF VarTypes
<1>6. CASE UNCHANGED <<log, status, boxes>>
  BY <1>6 DEF Box!vars
<1>7. \A i \in Instance : /\ CommitSave(i) => Record(SINGLE_TOPIC, i) \in Mid
                          /\ UpdateReceived(i) => Record(SINGLE_TOPIC_READ, i) \in Mid
  BY InRecord, RecordInTopic DEF CommitSave, UpdateReceived
<1> QED
  BY <1>2, <1>3, <1>4, <1>5, <1>6, <1>7
  DEF Box!Next, Next, vars, topics, database, singleConsumer, singleConsumerRead,
      PostToServer, Expire, Revoke, Assign, Poll, GetById, InsertContent, DuplicateKey,
      InsertBoxes, SetExists, AckSave, SaveFails, GetExists, AckRead, ReadFails, Crash

(* The consumer implements the abstract message log: at most one storage,    *)
(* received only after a report, and neither ever undone.                    *)
THEOREM ImplementsLog == Spec => Implements
<1> DEFINE IInv == TypeOK /\ RowsLocked /\ StoredOnce
<1>1. Init => IInv /\ Box!Init
  <2>1. Init => TypeOK
    BY BoundsAssumption, Topics
    DEF Init, TypeOK, VarTypes, Window, SavePC, ReadPC, Box!NoBoxes, Box!BoxType
  <2>2. Init => Box!Init
    BY Topics DEF Init, Box!Init
  <2> QED
    BY <2>1, <2>2, Topics DEF Init, RowsLocked, Holding, StoredOnce
<1>2. IInv /\ [Next]_vars => IInv'
  BY TypeStep, RowsLockedStep, StoredOnceStep
<1>3. IInv /\ [Next]_vars => [Box!Next]_(Box!vars)
  BY RefinementStep
<1> QED
  BY <1>1, <1>2, <1>3, PTL DEF Spec, Implements, Box!Spec
============================================================================
