------------------------------ MODULE SnowFlake ------------------------------
(* SnowFlakeUtil: ids made of a timestamp, the number of the node and a      *)
(* sequence number within the millisecond. nextId is synchronized, so one    *)
(* call is in progress at a time; the clock belongs to the machine and may   *)
(* be set back at any moment, also while a call waits for it to move on.     *)
(* Times are counted from INIT_EPOCH.                                        *)
EXTENDS Integers, Sequences

CONSTANTS Time,     \* what the clock can show; within 2^41 ms of INIT_EPOCH,
                    \* so that an id fits into a long
          Never,    \* lastTimeMillis before the first id
          SeqSize,  \* sequence numbers of a millisecond: 2^12
          NodeSize, \* numbers of a data centre and worker: 2^10
          Node,     \* the number of this one
          MaxIds    \* bound: ids issued

ASSUME TimesAreInt == Time \subseteq Int /\ Never \in Int /\ \A t \in Time : Never < t
ASSUME FieldsFit == /\ SeqSize \in Nat \ {0} /\ NodeSize \in Nat \ {0}
                    /\ Node \in 0 .. NodeSize - 1
                    /\ MaxIds \in Nat

VARIABLES clock,          \* System.currentTimeMillis()
          lastTimeMillis, \* the time in the last id
          sequence,
          spinning,       \* nextId is in getNextMillis
          issued          \* history: the ids, each with the time it was made for

snowVars == <<clock, lastTimeMillis, sequence, spinning, issued>>

SnowInit == /\ clock \in Time
            /\ lastTimeMillis = Never
            /\ sequence = 0
            /\ spinning = FALSE
            /\ issued = <<>>
----------------------------------------------------------------------------
Unit == NodeSize * SeqSize

\* The three fields, shifted and or-ed. None reaches into another.
Id(t, n) == t * Unit + Node * SeqSize + n

\* (TIME_BIT & id) >> 22 rounds down, as \div does.
getTimeBySnowFlakeId(i) == i \div Unit

SetClock(t) == /\ clock' = t
               /\ UNCHANGED <<lastTimeMillis, sequence, spinning, issued>>

Issue(t, n) == /\ lastTimeMillis' = t
               /\ issued' = Append(issued, [id |-> Id(t, n), time |-> t])

\* Mutant: the sequence is not masked.
nextId_NoMask ==
  /\ ~spinning /\ Len(issued) < MaxIds
  /\ clock >= lastTimeMillis
  /\ sequence' = IF clock = lastTimeMillis THEN sequence + 1 ELSE 0
  /\ Issue(clock, sequence')
  /\ UNCHANGED <<clock, spinning>>

\* Mutant: a clock that has been set back is not noticed.
nextId_AnyTime ==
  /\ ~spinning /\ Len(issued) < MaxIds
  /\ sequence' = IF clock = lastTimeMillis THEN (sequence + 1) % SeqSize ELSE 0
  /\ IF clock = lastTimeMillis /\ sequence' = 0
     THEN spinning' = TRUE /\ UNCHANGED <<lastTimeMillis, issued>>
     ELSE Issue(clock, sequence') /\ UNCHANGED spinning
  /\ UNCHANGED clock

\* With the clock behind the last id it throws and changes nothing. A sequence
\* that is used up waits for the next millisecond.
nextId ==
  /\ ~spinning /\ Len(issued) < MaxIds
  /\ clock >= lastTimeMillis
  /\ sequence' = IF clock = lastTimeMillis THEN (sequence + 1) % SeqSize ELSE 0
  /\ IF clock = lastTimeMillis /\ sequence' = 0
     THEN spinning' = TRUE /\ UNCHANGED <<lastTimeMillis, issued>>
     ELSE Issue(clock, sequence') /\ UNCHANGED spinning
  /\ UNCHANGED clock

\* The loop of getNextMillis sees a later time, and nextId goes on with it.
getNextMillis ==
  /\ spinning
  /\ clock > lastTimeMillis
  /\ spinning' = FALSE
  /\ Issue(clock, sequence)
  /\ UNCHANGED <<clock, sequence>>

SnowNext == (\E t \in Time : SetClock(t)) \/ nextId \/ getNextMillis

SnowSpec == SnowInit /\ [][SnowNext]_snowVars
----------------------------------------------------------------------------
(* Type correctness; the sequence stays within its bits, also when the wait  *)
(* for the next millisecond begins.                                          *)
SnowTypeOK ==
  /\ clock \in Time
  /\ lastTimeMillis \in Time \cup {Never}
  /\ sequence \in 0 .. SeqSize - 1
  /\ spinning \in BOOLEAN
  /\ spinning => sequence = 0
  /\ issued \in Seq([id : Int, time : Time])

(* Ids only grow, so no id is issued twice: neither when a millisecond runs  *)
(* out of sequence numbers nor when the clock is set back, be it between two *)
(* calls or while one is waiting.                                            *)
IdsIncrease == \A i, j \in DOMAIN issued : i < j => issued[i].id < issued[j].id

(* getTimeBySnowFlakeId gives back the time an id was made for, whatever the *)
(* other two fields are and on either side of INIT_EPOCH.                    *)
TimeDecodes == \A i \in DOMAIN issued : getTimeBySnowFlakeId(issued[i].id) = issued[i].time
============================================================================
