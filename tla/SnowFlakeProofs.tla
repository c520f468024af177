--------------------------- MODULE SnowFlakeProofs ---------------------------
(* Snowflake ids for every width of the fields, every clock and any number   *)
(* of ids.                                                                   *)
EXTENDS SnowFlake, SequenceTheorems, TLAPS
----------------------------------------------------------------------------
(* The fields of an id do not reach into each other.                         *)

(* A field that is one higher outweighs everything below it.                 *)
LEMMA Outweighs ==
  ASSUME NEW a \in Int, NEW b \in Int, a < b, NEW u \in Nat PROVE a * u + u <= b * u
<1>1. PICK d \in Nat : b = a + 1 + d
  <2>1. b - a - 1 \in Nat /\ b = a + 1 + (b - a - 1)
    OBVIOUS
  <2> QED
    BY <2>1
<1>2. b * u = a * u + u + d * u
  BY <1>1
<1>3. d * u \in Nat /\ a * u \in Int
  BY <1>1
<1> QED
  BY <1>2, <1>3

(* The quotient and the remainder that is left.                              *)
LEMMA Division ==
  ASSUME NEW x \in Int, NEW u \in Nat \ {0}
  PROVE  x \div u \in Int /\ (x \div u) * u <= x /\ x < (x \div u) * u + u
<1>1. x = u * (x \div u) + (x % u)
  OBVIOUS
<1>2. x % u \in 0 .. u - 1
  OBVIOUS
<1>3. x \div u \in Int
  OBVIOUS
<1> QED
  BY <1>1, <1>2, <1>3

(* What is below the time is smaller than the unit of the time.              *)
LEMMA LowPart ==
  ASSUME NEW n \in 0 .. SeqSize - 1
  PROVE  /\ Unit \in Nat \ {0} /\ Node * SeqSize \in Nat
         /\ Node * SeqSize + n \in 0 .. Unit - 1
<1> USE FieldsFit
<1>1. Node \in Int /\ NodeSize \in Int /\ Node < NodeSize /\ SeqSize \in Nat
  OBVIOUS
<1>2. Node * SeqSize + SeqSize <= NodeSize * SeqSize
  BY <1>1, Outweighs
<1>3. Node * SeqSize \in Nat /\ NodeSize * SeqSize \in Nat
  BY <1>1
<1> QED
  BY <1>2, <1>3 DEF Unit

(* A later time makes a higher id, whatever the sequence numbers.            *)
LEMMA LaterIsHigher ==
  ASSUME NEW t \in Int, NEW x \in Int, t < x,
         NEW n \in 0 .. SeqSize - 1, NEW m \in 0 .. SeqSize - 1
  PROVE  Id(t, n) \in Int /\ Id(x, m) \in Int /\ Id(t, n) < Id(x, m)
<1>1. Unit \in Nat /\ Node * SeqSize \in Nat /\ Node * SeqSize + n < Unit
  BY LowPart
<1>2. t * Unit + Unit <= x * Unit /\ t * Unit \in Int /\ x * Unit \in Int
  BY <1>1, Outweighs
<1> QED
  BY <1>1, <1>2 DEF Id

(* getTimeBySnowFlakeId is the inverse of Id in its first field.             *)
LEMMA TimeOfId ==
  ASSUME NEW t \in Int, NEW n \in 0 .. SeqSize - 1 PROVE getTimeBySnowFlakeId(Id(t, n)) = t
<1> DEFINE r == Node * SeqSize + n
           q == Id(t, n) \div Unit
<1>1. Unit \in Nat \ {0} /\ Node * SeqSize \in Nat /\ r \in 0 .. Unit - 1 /\ t * Unit \in Int
  BY LowPart
<1>2. Id(t, n) = t * Unit + r /\ Id(t, n) \in Int
  BY <1>1 DEF Id
<1>3. q \in Int /\ q * Unit <= Id(t, n) /\ Id(t, n) < q * Unit + Unit
  BY <1>1, <1>2, Division
<1> HIDE DEF r, q
<1>4. ~ q < t
  BY <1>1, <1>2, <1>3, Outweighs
<1>5. ~ t < q
  BY <1>1, <1>2, <1>3, Outweighs
<1> QED
  BY <1>3, <1>4, <1>5 DEF getTimeBySnowFlakeId, q
----------------------------------------------------------------------------
(* The highest sequence number used so far for lastTimeMillis.               *)
Used == IF spinning THEN SeqSize - 1 ELSE sequence

(* Every id issued is at most the one of the last time and sequence number.  *)
Bounded == \A i \in DOMAIN issued : issued[i].id <= Id(lastTimeMillis, Used)

SnowInv == SnowTypeOK /\ IdsIncrease /\ TimeDecodes /\ Bounded

(* Issuing an id that is higher than the bound keeps the invariant.          *)
LEMMA IssueKeeps ==
  ASSUME SnowInv, NEW n \in 0 .. SeqSize - 1,
         Issue(clock, n), clock' = clock, sequence' = n, spinning' = FALSE,
         clock > lastTimeMillis \/ (clock = lastTimeMillis /\ ~spinning /\ n = sequence + 1)
  PROVE  SnowInv'
<1> DEFINE rec == [id |-> Id(clock, n), time |-> clock]
<1> USE TimesAreInt, FieldsFit
<1>1. clock \in Time /\ clock \in Int /\ lastTimeMillis \in Int /\ sequence \in 0 .. SeqSize - 1
  BY DEF SnowInv, SnowTypeOK
<1>2. Id(clock, n) \in Int
  BY <1>1, LowPart DEF Id
<1>3. issued \in Seq([id : Int, time : Time]) /\ rec \in [id : Int, time : Time]
  BY <1>1, <1>2 DEF SnowInv, SnowTypeOK
<1>4. issued' = Append(issued, rec) /\ lastTimeMillis' = clock
  BY DEF Issue
<1>5. SnowTypeOK'
  <2>1. issued' \in Seq([id : Int, time : Time])
    <3> HIDE DEF rec
    <3> QED
      BY <1>3, <1>4
  <2> QED
    BY <1>1, <1>4, <2>1 DEF SnowTypeOK
<1>6. Id(lastTimeMillis, Used) < Id(clock, n) /\ Id(lastTimeMillis, Used) \in Int
  <2>1. Used \in 0 .. SeqSize - 1
    BY <1>1 DEF Used
  <2>2. CASE clock > lastTimeMillis
    BY <1>1, <2>1, <2>2, LaterIsHigher
  <2>3. CASE clock = lastTimeMillis /\ ~spinning /\ n = sequence + 1
    <3>1. lastTimeMillis * Unit \in Int /\ Node * SeqSize \in Int
      BY <1>1, LowPart
    <3> QED
      BY <1>1, <2>3, <3>1 DEF Used, Id
  <2> QED
    BY <2>2, <2>3
<1>7. DOMAIN issued' = 1 .. Len(issued) + 1 /\ DOMAIN issued = 1 .. Len(issued)
  BY <1>3, <1>4, AppendProperties
<1>8. \A i \in DOMAIN issued : issued[i].id \in Int /\ issued[i].id < Id(clock, n)
  <2> SUFFICES ASSUME NEW i \in DOMAIN issued
               PROVE  issued[i].id \in Int /\ issued[i].id < Id(clock, n)
    OBVIOUS
  <2>1. issued[i] \in [id : Int, time : Time]
    BY <1>3, <1>7, ElementOfSeq
  <2>2. issued[i].id <= Id(lastTimeMillis, Used)
    BY DEF SnowInv, Bounded
  <2> QED
    BY <1>2, <1>6, <2>1, <2>2
<1>9. /\ issued'[Len(issued) + 1] = rec
      /\ \A i \in DOMAIN issued : issued'[i] = issued[i]
  BY <1>3, <1>4, <1>7, AppendProperties
<1>10. IdsIncrease'
  <2> SUFFICES ASSUME NEW i \in DOMAIN issued', NEW j \in DOMAIN issued', i < j
               PROVE  issued'[i].id < issued'[j].id
    BY DEF IdsIncrease
  <2>1. i \in DOMAIN issued /\ issued'[i] = issued[i]
    BY <1>3, <1>7, <1>9
  <2>2. CASE j = Len(issued) + 1
    BY <1>8, <1>9, <2>1, <2>2
  <2>3. CASE j # Len(issued) + 1
    BY <1>3, <1>7, <1>9, <2>1, <2>3 DEF SnowInv, IdsIncrease
  <2> QED
    BY <2>2, <2>3
<1>11. TimeDecodes'
  <2> SUFFICES ASSUME NEW i \in DOMAIN issued'
               PROVE  getTimeBySnowFlakeId(issued'[i].id) = issued'[i].time
    BY DEF TimeDecodes, getTimeBySnowFlakeId
  <2>1. CASE i = Len(issued) + 1
    <3>1. issued'[i].id = Id(clock, n) /\ issued'[i].time = clock
      BY <1>9, <2>1
    <3> QED
      BY <1>1, <3>1, TimeOfId
  <2>2. CASE i # Len(issued) + 1
    BY <1>3, <1>7, <1>9, <2>2 DEF SnowInv, TimeDecodes
  <2> QED
    BY <2>1, <2>2
<1>12. Bounded'
  <2>1. Id(lastTimeMillis, Used)' = Id(clock, n)
    BY <1>4 DEF Used, Id, Unit
  <2> SUFFICES ASSUME NEW i \in DOMAIN issued'
               PROVE  issued'[i].id <= Id(clock, n)
    BY <2>1 DEF Bounded
  <2>2. CASE i = Len(issued) + 1
    BY <1>2, <1>9, <2>2
  <2>3. CASE i # Len(issued) + 1
    BY <1>2, <1>3, <1>8, <1>7, <1>9, <2>3
  <2> QED
    BY <2>2, <2>3
<1> QED
  BY <1>5, <1>10, <1>11, <1>12 DEF SnowInv

LEMMA SnowInductive == SnowInv /\ [SnowNext]_snowVars => SnowInv'
<1> SUFFICES ASSUME SnowInv, [SnowNext]_snowVars PROVE SnowInv'
  OBVIOUS
<1> USE TimesAreInt, FieldsFit
<1>0. clock \in Int /\ lastTimeMillis \in Int /\ sequence \in 0 .. SeqSize - 1 /\ SeqSize \in Nat \ {0}
  BY DEF SnowInv, SnowTypeOK
<1>1. CASE UNCHANGED snowVars
  BY <1>1 DEF snowVars, SnowInv, SnowTypeOK, IdsIncrease, TimeDecodes, Bounded, Used, Id,
              getTimeBySnowFlakeId
<1>2. ASSUME NEW t \in Time, SetClock(t) PROVE SnowInv'
  BY <1>2 DEF SetClock, SnowInv, SnowTypeOK, IdsIncrease, TimeDecodes, Bounded, Used, Id,
              getTimeBySnowFlakeId
<1>3. CASE nextId
  <2> DEFINE n == IF clock = lastTimeMillis THEN (sequence + 1) % SeqSize ELSE 0
  <2>1. /\ ~spinning /\ clock >= lastTimeMillis /\ sequence' = n /\ clock' = clock
        /\ IF clock = lastTimeMillis /\ n = 0
           THEN spinning' = TRUE /\ UNCHANGED <<lastTimeMillis, issued>>
           ELSE Issue(clock, n) /\ spinning' = FALSE
    BY <1>3 DEF nextId, SnowInv, SnowTypeOK
  <2>2. n \in 0 .. SeqSize - 1
    BY <1>0
  <2>3. clock = lastTimeMillis => IF sequence = SeqSize - 1 THEN n = 0 ELSE n = sequence + 1
    BY <1>0
  <2> HIDE DEF n
  <2>4. CASE clock = lastTimeMillis /\ n = 0
    <3>1. sequence = SeqSize - 1
      BY <1>0, <2>3, <2>4
    <3>2. Id(lastTimeMillis, Used)' = Id(lastTimeMillis, Used)
      BY <2>1, <2>4, <3>1 DEF Used, Id
    <3> QED
      BY <2>1, <2>2, <2>4, <3>2
         DEF SnowInv, SnowTypeOK, IdsIncrease, TimeDecodes, Bounded, getTimeBySnowFlakeId
  <2>5. CASE ~(clock = lastTimeMillis /\ n = 0)
    <3>1. clock > lastTimeMillis \/ (clock = lastTimeMillis /\ ~spinning /\ n = sequence + 1)
      BY <1>0, <2>1, <2>3, <2>5
    <3> QED
      BY <2>1, <2>2, <2>5, <3>1, IssueKeeps
  <2> QED
    BY <2>4, <2>5
<1>4. CASE getNextMillis
  BY <1>0, <1>4, IssueKeeps DEF getNextMillis
<1> QED
  BY <1>1, <1>2, <1>3, <1>4 DEF SnowNext

LEMMA SnowInitial == SnowInit => SnowInv
<1> SUFFICES ASSUME SnowInit PROVE SnowInv
  OBVIOUS
<1>1. issued = <<>> /\ DOMAIN issued = {}
  BY DEF SnowInit
<1>2. SnowTypeOK
  <2>1. spinning \in BOOLEAN
    BY Zenon DEF SnowInit
  <2> QED
    BY <2>1, FieldsFit DEF SnowInit, SnowTypeOK
<1> QED
  BY <1>1, <1>2 DEF SnowInv, IdsIncrease, TimeDecodes, Bounded

(* SnowFlakeUtil: the sequence stays within its bits, a wait for the next    *)
(* millisecond begins with sequence number 0.                                *)
THEOREM SnowTypes == SnowSpec => []SnowTypeOK
<1>1. SnowInv => SnowTypeOK
  BY DEF SnowInv
<1> QED
  BY <1>1, SnowInitial, SnowInductive, PTL DEF SnowSpec

(* nextId: ids only grow, however the clock is set and however many ids are  *)
(* taken within a millisecond; none is issued twice.                         *)
THEOREM IdsGrow == SnowSpec => []IdsIncrease
<1>1. SnowInv => IdsIncrease
  BY DEF SnowInv
<1> QED
  BY <1>1, SnowInitial, SnowInductive, PTL DEF SnowSpec

(* getTimeBySnowFlakeId gives back the time of every id.                     *)
THEOREM TimesDecode == SnowSpec => []TimeDecodes
<1>1. SnowInv => TimeDecodes
  BY DEF SnowInv
<1> QED
  BY <1>1, SnowInitial, SnowInductive, PTL DEF SnowSpec
==============================================================================
