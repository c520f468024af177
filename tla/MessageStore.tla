--------------------------- MODULE MessageStore ---------------------------
(* nettyConsumer: the two Kafka listeners of SingleConsumer, the saveMessage *)
(* transaction of UserServiceImpl, and the topics, consumer group, MySQL     *)
(* tables and Redis key they work on.                                        *)
(*                                                                           *)
(* Both topics are written to partition 0 only, so each is one sequence. One *)
(* listener thread per topic and instance; the group gives a partition to    *)
(* one instance at a time, but an instance that lost it keeps processing the *)
(* batch it has already polled (a "zombie"), with real effects on MySQL and  *)
(* Redis; only its offset commits are refused.                               *)
EXTENDS Integers, Sequences, FiniteSets

CONSTANTS Mid,         \* message ids
          Instance,    \* nettyConsumer processes
          None,        \* no instance owns the partition
          Expires,     \* BOOLEAN: may the 10 s TTL of is_exists:<mid> elapse
          MaxRecords,  \* bound: records of single_topic, retries included
          MaxReports,  \* bound: records of single_topic_read, retries included
          MaxErrors,   \* bound: listener calls ended by a MySQL or Redis error
          MaxRevokes   \* bound: partition revocations and process crashes

ASSUME NoneAssumption == None \notin Instance
ASSUME BoundsAssumption == /\ MaxRecords \in Nat /\ MaxReports \in Nat
                           /\ MaxErrors \in Nat /\ MaxRevokes \in Nat
                           /\ Expires \in BOOLEAN

SINGLE_TOPIC      == "single_topic"
SINGLE_TOPIC_READ == "single_topic_read"
Topic == {SINGLE_TOPIC, SINGLE_TOPIC_READ}

VARIABLES
  pushed,     \* ids handed to the netty server, hence shown to the recipient
  log,        \* log[t]: the records of partition 0 of topic t
  committed,  \* committed[t]: offset the group committed for t
  owner,      \* owner[t]: the instance the coordinator assigned t to
  pc,         \* pc[t][i]: where i's listener thread for t is
  pos,        \* pos[t][i]: offset of the record i handles, or takes next
  lim,        \* lim[t][i]: end of the batch i has polled
  nacked,     \* nacked[i]: singleConsumerRead called nack for this record
  status,     \* im_msg_content rows: absent, unread (0) or received (1)
  boxes,      \* im_user_msg_box rows per message and box type
  exists,     \* live is_exists:<mid> keys
  skipped,    \* history: messages whose singleConsumer call failed
  errors,     \* listener calls that failed so far
  revokes     \* revocations and crashes so far

topics   == <<pushed, log>>
group    == <<committed, owner>>
cursors  == <<pos, lim>>
database == <<status, boxes>>
budgets  == <<skipped, errors, revokes>>
vars == <<pushed, log, committed, owner, pc, pos, lim, nacked, status, boxes,
          exists, skipped, errors, revokes>>

Box == INSTANCE MessageLog WITH
         published <- {log[SINGLE_TOPIC][k] : k \in DOMAIN log[SINGLE_TOPIC]},
         reported  <- {log[SINGLE_TOPIC_READ][k] :
                         k \in DOMAIN log[SINGLE_TOPIC_READ]}

SavePC == {"idle", "insertContent", "insertBoxes", "commit", "setExists", "ack"}
ReadPC == {"idle", "update", "ack"}

\* The record i's listener for t is at.
Record(t, i) == log[t][pos[t][i] + 1]

\* i's transaction has inserted a content row and not committed it: the
\* primary key is locked against every other writer of that row.
Holding(i) == pc[SINGLE_TOPIC][i] \in {"insertBoxes", "commit"}
HoldsRow(i, m) == Holding(i) /\ Record(SINGLE_TOPIC, i) = m

Goto(t, i, l) == pc' = [pc EXCEPT ![t][i] = l]
----------------------------------------------------------------------------
(* The producers: RouteServiceImpl.sendSingleMessage posts to the netty      *)
(* server and then publishes; the recipient's page reports the read as soon  *)
(* as it shows the message, so a report can overtake the message itself.     *)
(* Producer retries without idempotence may append a record again.           *)

Init == /\ pushed = {}
        /\ log = [t \in Topic |-> <<>>]
        /\ committed = [t \in Topic |-> 0]
        /\ owner = [t \in Topic |-> None]
        /\ pc = [t \in Topic |-> [i \in Instance |-> "idle"]]
        /\ pos = [t \in Topic |-> [i \in Instance |-> 0]]
        /\ lim = [t \in Topic |-> [i \in Instance |-> 0]]
        /\ nacked = [i \in Instance |-> FALSE]
        /\ status = [m \in Mid |-> "absent"]
        /\ boxes = [m \in Mid |-> Box!NoBoxes]
        /\ exists = {}
        /\ skipped = {}
        /\ errors = 0
        /\ revokes = 0

PostToServer(m) ==
  /\ m \notin pushed
  /\ pushed' = pushed \cup {m}
  /\ UNCHANGED <<log, group, pc, cursors, nacked, database, exists, budgets>>

Produce(t, m) == /\ m \in pushed
                 /\ log' = [log EXCEPT ![t] = Append(@, m)]
                 /\ UNCHANGED <<pushed, group, pc, cursors, nacked, database,
                                exists, budgets>>

Publish(m) == Len(log[SINGLE_TOPIC]) < MaxRecords /\ Produce(SINGLE_TOPIC, m)

updateMessageRead(m) ==
  Len(log[SINGLE_TOPIC_READ]) < MaxReports /\ Produce(SINGLE_TOPIC_READ, m)
----------------------------------------------------------------------------
(* The consumer group and the listener container (ack-mode manual_immediate, *)
(* enable-auto-commit false).                                                *)

\* Mutant: a new owner keeps the batch end it had before.
Assign_KeepBatch(t, i) == /\ owner[t] = None
                          /\ pc[t][i] = "idle" /\ pos[t][i] = lim[t][i]
                          /\ owner' = [owner EXCEPT ![t] = i]
                          /\ pos' = [pos EXCEPT ![t][i] = committed[t]]
                          /\ UNCHANGED <<topics, committed, lim, pc, nacked, database,
                                         exists, budgets>>

\* Mutant: auto-offset-reset latest.
Assign_Latest(t, i) == /\ owner[t] = None
                       /\ pc[t][i] = "idle" /\ pos[t][i] = lim[t][i]
                       /\ owner' = [owner EXCEPT ![t] = i]
                       /\ pos' = [pos EXCEPT ![t][i] = Len(log[t])]
                       /\ lim' = [lim EXCEPT ![t][i] = Len(log[t])]
                       /\ UNCHANGED <<topics, committed, pc, nacked, database,
                                      exists, budgets>>

\* Mutant: a new owner reads from the beginning, ignoring committed offsets.
Assign_FromStart(t, i) == /\ owner[t] = None
                          /\ pc[t][i] = "idle" /\ pos[t][i] = lim[t][i]
                          /\ owner' = [owner EXCEPT ![t] = i]
                          /\ pos' = [pos EXCEPT ![t][i] = 0]
                          /\ lim' = [lim EXCEPT ![t][i] = 0]
                          /\ UNCHANGED <<topics, committed, pc, nacked, database,
                                         exists, budgets>>

\* An assignment is received inside poll(), between batches: the consumer
\* starts from the committed offset (auto-offset-reset: earliest).
Assign(t, i) == /\ owner[t] = None
                /\ pc[t][i] = "idle" /\ pos[t][i] = lim[t][i]
                /\ owner' = [owner EXCEPT ![t] = i]
                /\ pos' = [pos EXCEPT ![t][i] = committed[t]]
                /\ lim' = [lim EXCEPT ![t][i] = committed[t]]
                /\ UNCHANGED <<topics, committed, pc, nacked, database, exists, budgets>>

\* Mutant: enable-auto-commit, the batch is committed as it is polled.
Poll_AutoCommit(t, i) == /\ owner[t] = i
                         /\ pc[t][i] = "idle" /\ pos[t][i] = lim[t][i]
                         /\ \E n \in (lim[t][i] + 1) .. Len(log[t]) :
                              /\ lim' = [lim EXCEPT ![t][i] = n]
                              /\ committed' = [committed EXCEPT ![t] = n]
                         /\ UNCHANGED <<topics, owner, pc, pos, nacked, database,
                                        exists, budgets>>

Poll(t, i) == /\ owner[t] = i
              /\ pc[t][i] = "idle" /\ pos[t][i] = lim[t][i]
              /\ \E n \in (lim[t][i] + 1) .. Len(log[t]) :
                   lim' = [lim EXCEPT ![t][i] = n]
              /\ UNCHANGED <<topics, group, pc, pos, nacked, database, exists, budgets>>

\* A rebalance, at any point of the owner's work.
Revoke(t) == /\ revokes < MaxRevokes
             /\ owner[t] # None
             /\ owner' = [owner EXCEPT ![t] = None]
             /\ revokes' = revokes + 1
             /\ UNCHANGED <<topics, committed, pc, cursors, nacked, database,
                            exists, skipped, errors>>

\* The process dies: its open transaction is rolled back, its partitions are
\* revoked and every in-memory position is gone.
Crash(i) == /\ revokes < MaxRevokes
            /\ revokes' = revokes + 1
            /\ owner' = [t \in Topic |-> IF owner[t] = i THEN None ELSE owner[t]]
            /\ pc' = [t \in Topic |-> [pc[t] EXCEPT ![i] = "idle"]]
            /\ pos' = [t \in Topic |-> [pos[t] EXCEPT ![i] = 0]]
            /\ lim' = [t \in Topic |-> [lim[t] EXCEPT ![i] = 0]]
            /\ nacked' = [nacked EXCEPT ![i] = FALSE]
            /\ UNCHANGED <<topics, committed, database, exists, skipped, errors>>

\* The listener returned, or threw and LoggingErrorHandler logged it: the
\* container goes on with the next record, whatever was committed.
NextRecord(t, i) == /\ Goto(t, i, "idle")
                    /\ pos' = [pos EXCEPT ![t][i] = @ + 1]
                    /\ lim' = lim

\* After nack(): the rest of the batch is dropped and the consumer seeks back,
\* so this record is polled again.
SeekBack(t, i) == /\ Goto(t, i, "idle")
                  /\ pos' = pos
                  /\ lim' = [lim EXCEPT ![t][i] = pos[t][i]]

\* acknowledge(): commitSync of the next offset; refused (an exception in the
\* listener) when the partition was revoked meanwhile.
Acknowledge(t, i) == committed' = IF owner[t] = i
                                  THEN [committed EXCEPT ![t] = pos[t][i] + 1]
                                  ELSE committed
----------------------------------------------------------------------------
(* singleConsumer: saveMessage in one transaction, then the Redis key, then  *)
(* the acknowledgement.                                                      *)

\* getById reads the committed row: a duplicate returns from saveMessage.
GetById(i) ==
  LET t == SINGLE_TOPIC IN
  /\ pc[t][i] = "idle" /\ pos[t][i] < lim[t][i]
  /\ Goto(t, i, IF status[Record(t, i)] = "absent" THEN "insertContent"
                                                   ELSE "setExists")
  /\ UNCHANGED <<topics, group, cursors, nacked, database, exists, budgets>>

\* Mutant: im_msg_content without a primary key on mid.
InsertContent_NoKey(i) ==
  /\ pc[SINGLE_TOPIC][i] = "insertContent"
  /\ Goto(SINGLE_TOPIC, i, "insertBoxes")
  /\ UNCHANGED <<topics, group, cursors, nacked, database, exists, budgets>>

\* INSERT of the content row: waits for the row lock of another transaction.
InsertContent(i) ==
  LET t == SINGLE_TOPIC  m == Record(t, i) IN
  /\ pc[t][i] = "insertContent"
  /\ \A j \in Instance \ {i} : ~HoldsRow(j, m)
  /\ status[m] = "absent"
  /\ Goto(t, i, "insertBoxes")
  /\ UNCHANGED <<topics, group, cursors, nacked, database, exists, budgets>>

\* ... and fails on the primary key when that transaction committed.
DuplicateKey(i) ==
  LET t == SINGLE_TOPIC IN
  /\ pc[t][i] = "insertContent"
  /\ status[Record(t, i)] # "absent"
  /\ NextRecord(t, i)
  /\ UNCHANGED <<topics, group, nacked, database, exists, budgets>>

InsertBoxes(i) == /\ pc[SINGLE_TOPIC][i] = "insertBoxes"
                  /\ Goto(SINGLE_TOPIC, i, "commit")
                  /\ UNCHANGED <<topics, group, cursors, nacked, database, exists,
                                 budgets>>

\* The commit makes the content row and both mailbox rows visible at once.
CommitSave(i) ==
  LET t == SINGLE_TOPIC  m == Record(t, i) IN
  /\ pc[t][i] = "commit"
  /\ status' = [status EXCEPT ![m] = "unread"]
  /\ boxes' = [boxes EXCEPT ![m] = [b \in Box!BoxType |-> @[b] + 1]]
  /\ Goto(t, i, "setExists")
  /\ UNCHANGED <<topics, group, cursors, nacked, exists, budgets>>

SetExists(i) == /\ pc[SINGLE_TOPIC][i] = "setExists"
                /\ exists' = exists \cup {Record(SINGLE_TOPIC, i)}
                /\ Goto(SINGLE_TOPIC, i, "ack")
                /\ UNCHANGED <<topics, group, cursors, nacked, database, budgets>>

AckSave(i) == /\ pc[SINGLE_TOPIC][i] = "ack"
              /\ Acknowledge(SINGLE_TOPIC, i)
              /\ NextRecord(SINGLE_TOPIC, i)
              /\ UNCHANGED <<topics, owner, nacked, database, exists, budgets>>

\* MySQL (the transaction rolls back) or Redis fails: the exception leaves the
\* listener before acknowledge() and the record is skipped.
SaveFails(i) ==
  /\ errors < MaxErrors
  /\ pc[SINGLE_TOPIC][i] \notin {"idle", "ack"}
  /\ errors' = errors + 1
  /\ skipped' = skipped \cup {Record(SINGLE_TOPIC, i)}
  /\ NextRecord(SINGLE_TOPIC, i)
  /\ UNCHANGED <<topics, group, nacked, database, exists, revokes>>

\* The TTL of is_exists:<mid> elapses.
Expire(m) == /\ Expires
             /\ m \in exists
             /\ exists' = exists \ {m}
             /\ UNCHANGED <<topics, group, pc, cursors, nacked, database, budgets>>
----------------------------------------------------------------------------
(* singleConsumerRead: nack without return, then the update and acknowledge  *)
(* all the same; the container honours the nack after the listener returns.  *)

GetExists(i) ==
  LET t == SINGLE_TOPIC_READ IN
  /\ pc[t][i] = "idle" /\ pos[t][i] < lim[t][i]
  /\ nacked' = [nacked EXCEPT ![i] = Record(t, i) \notin exists]
  /\ Goto(t, i, "update")
  /\ UNCHANGED <<topics, group, cursors, database, exists, budgets>>

\* Mutant: a receipt that creates the row it does not find.
UpdateReceived_Upsert(i) ==
  LET t == SINGLE_TOPIC_READ  m == Record(t, i) IN
  /\ pc[t][i] = "update"
  /\ \A j \in Instance : ~HoldsRow(j, m)
  /\ status' = [status EXCEPT ![m] = "received"]
  /\ Goto(t, i, "ack")
  /\ UNCHANGED <<topics, group, cursors, nacked, boxes, exists, budgets>>

\* UPDATE ... SET is_received = 1 WHERE mid = cid: no row, no effect.
UpdateReceived(i) ==
  LET t == SINGLE_TOPIC_READ  m == Record(t, i) IN
  /\ pc[t][i] = "update"
  /\ \A j \in Instance : ~HoldsRow(j, m)
  /\ status' = [status EXCEPT ![m] = IF @ = "absent" THEN @ ELSE "received"]
  /\ Goto(t, i, "ack")
  /\ UNCHANGED <<topics, group, cursors, nacked, boxes, exists, budgets>>

\* Mutant: no nack for a receipt that came before its message.
LeaveRead_NoNack(i) == NextRecord(SINGLE_TOPIC_READ, i)

LeaveRead(i) == IF nacked[i] THEN SeekBack(SINGLE_TOPIC_READ, i)
                             ELSE NextRecord(SINGLE_TOPIC_READ, i)

AckRead(i) == /\ pc[SINGLE_TOPIC_READ][i] = "ack"
              /\ Acknowledge(SINGLE_TOPIC_READ, i)
              /\ LeaveRead(i)
              /\ nacked' = [nacked EXCEPT ![i] = FALSE]
              /\ UNCHANGED <<topics, owner, database, exists, budgets>>

\* Redis fails at the get, when nothing has been nacked yet, or MySQL at the
\* update: the record is skipped, or polled again after a nack.
ReadFails(i) ==
  LET t == SINGLE_TOPIC_READ IN
  /\ errors < MaxErrors
  /\ pc[t][i] = "update" \/ (pc[t][i] = "idle" /\ pos[t][i] < lim[t][i])
  /\ errors' = errors + 1
  /\ LeaveRead(i)
  /\ nacked' = [nacked EXCEPT ![i] = FALSE]
  /\ UNCHANGED <<topics, group, database, exists, skipped, revokes>>
----------------------------------------------------------------------------
singleConsumer(i) == \/ GetById(i) \/ InsertContent(i) \/ DuplicateKey(i)
                     \/ InsertBoxes(i) \/ CommitSave(i) \/ SetExists(i) \/ AckSave(i)

singleConsumerRead(i) == GetExists(i) \/ UpdateReceived(i) \/ AckRead(i)

Next == \/ \E m \in Mid : \/ PostToServer(m) \/ Publish(m)
                          \/ updateMessageRead(m) \/ Expire(m)
        \/ \E t \in Topic : \/ Revoke(t)
                            \/ \E i \in Instance : Assign(t, i) \/ Poll(t, i)
        \/ \E i \in Instance : \/ singleConsumer(i) \/ singleConsumerRead(i)
                               \/ SaveFails(i) \/ ReadFails(i) \/ Crash(i)

Spec == Init /\ [][Next]_vars

\* Each listener thread keeps running, and the coordinator hands out an
\* unowned partition. Producers, faults and the TTL promise nothing.
Fairness == /\ \A i \in Instance : /\ WF_vars(singleConsumer(i))
                                   /\ WF_vars(singleConsumerRead(i))
                                   /\ \A t \in Topic : WF_vars(Poll(t, i))
            /\ \A t \in Topic : WF_vars(\E i \in Instance : Assign(t, i))

FairSpec == Spec /\ Fairness
----------------------------------------------------------------------------
VarTypes ==
  /\ pushed \subseteq Mid
  /\ log \in [Topic -> Seq(Mid)]
  /\ committed \in [Topic -> Nat]
  /\ owner \in [Topic -> Instance \cup {None}]
  /\ pc \in [Topic -> [Instance -> SavePC \cup ReadPC]]
  /\ pos \in [Topic -> [Instance -> Nat]]
  /\ lim \in [Topic -> [Instance -> Nat]]
  /\ nacked \in [Instance -> BOOLEAN]
  /\ status \in [Mid -> {"absent", "unread", "received"}]
  /\ boxes \in [Mid -> [Box!BoxType -> Nat]]
  /\ exists \subseteq Mid /\ skipped \subseteq Mid
  /\ errors \in Nat /\ revokes \in Nat

Window(t, i) ==
  /\ pc[t][i] \in (IF t = SINGLE_TOPIC THEN SavePC ELSE ReadPC)
  /\ pos[t][i] <= lim[t][i]
  /\ lim[t][i] <= Len(log[t])
  /\ pc[t][i] # "idle" => pos[t][i] < lim[t][i]

(* Type correctness of the consumer's state, the batch window included:      *)
(* a listener inside a record is inside a batch that the topic contains.     *)
TypeOK == /\ VarTypes
          /\ \A t \in Topic : /\ committed[t] <= Len(log[t])
                              /\ \A i \in Instance : Window(t, i)

(* saveMessage (UserServiceImpl 178-229): however often a message is        *)
(* delivered - producer retries, redelivery after a crash, a zombie and the *)
(* new owner checking getById at the same time - it ends up with one content *)
(* row and exactly one SEND and one RECEIVE mailbox row, or with nothing.    *)
StoredOnce == \A m \in Mid : boxes[m] = IF status[m] = "absent" THEN Box!NoBoxes
                                                                ELSE Box!OneEach

(* singleConsumer acknowledges only after the save: an offset the group has *)
(* committed is behind a stored message, unless a call for that very message *)
(* failed - through retries, rebalances, zombies and crashes at any step.    *)
CommittedIsSettled == \A k \in 1 .. committed[SINGLE_TOPIC] :
  \/ status[log[SINGLE_TOPIC][k]] # "absent"
  \/ log[SINGLE_TOPIC][k] \in skipped

(* README 9: Kafka is there to store messages durably - no offset should be *)
(* committed past a message that is not stored.                             *)
CommittedIsStored == \A k \in 1 .. committed[SINGLE_TOPIC] :
                        status[log[SINGLE_TOPIC][k]] # "absent"

(* The same for read receipts: an offset of single_topic_read is committed  *)
(* only when the receipt has taken effect.                                  *)
CommittedIsReceived == \A k \in 1 .. committed[SINGLE_TOPIC_READ] :
                          status[log[SINGLE_TOPIC_READ][k]] = "received"

(* Committed offsets never move back, whoever acknowledges (a late zombie   *)
(* included) and although nack() rewinds the owner's position.              *)
CommitsAdvance == [][\A t \in Topic : committed'[t] >= committed[t]]_committed

InTopic(t, m) == \E k \in DOMAIN log[t] : log[t][k] = m

(* Every published message is stored in the end, through rebalances and      *)
(* crashes at any step of singleConsumer.                                    *)
PublishedIsStored ==
  [](\A m \in Mid : InTopic(SINGLE_TOPIC, m) => <>(status[m] # "absent"))

(* A read receipt is recorded in the end, whichever of message and receipt   *)
(* reaches the consumer first: as long as no consumer loses its partition,   *)
(* only a reported message that is never published can prevent it.           *)
Unpublished == \E m \in Mid : InTopic(SINGLE_TOPIC_READ, m) /\ ~InTopic(SINGLE_TOPIC, m)

ReportIsRecorded == [](\A m \in Mid :
  InTopic(SINGLE_TOPIC_READ, m) => <>(status[m] = "received" \/ Unpublished \/ revokes > 0))

(* The consumer implements the abstract message log.                        *)
Implements == Box!Spec
============================================================================
