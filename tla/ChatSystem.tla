----------------------------- MODULE ChatSystem -----------------------------
(* A single chat message from the call of its sender to its rows in MySQL:   *)
(* SingleChat, with any gateway and any servers that keep their contracts,   *)
(* and the store that MessageLog promises, which MessageStore implements. The *)
(* store knows messages by their ids only: it stores what sendSingleMessage  *)
(* has published, and marks as received what pages have shown and reported.  *)
EXTENDS SingleChat

VARIABLES status, \* im_msg_content: status[i] of the row with mid = i
          boxes   \* im_user_msg_box: rows of i per box type

rows == <<status, boxes>>
systemVars == <<vars, rows>>

Store == INSTANCE MessageLog WITH
           Mid <- 1 .. MaxId,
           published <- {id[m] : m \in published},
           reported <- {id[m] : m \in Shown}

SystemInit == /\ Init
              /\ status = [i \in 1 .. MaxId |-> "absent"]
              /\ boxes = [i \in 1 .. MaxId |-> Store!NoBoxes]

\* A consumer commits the transaction of saveMessage, or the update of a receipt.
Persist == /\ UNCHANGED vars
           /\ \E i \in 1 .. MaxId : Store!Store(i) \/ Store!Receive(i)

SystemNext == (OpenNext /\ UNCHANGED rows) \/ Persist

SystemSpec == SystemInit /\ [][SystemNext]_systemVars
----------------------------------------------------------------------------
(* What is stored is one message, the one that was sent under that id: its   *)
(* sender's call got as far as the publication, and sender and recipient     *)
(* have a row each. It is marked received only when a page of the recipient  *)
(* of that very message has shown it, whoever else's messages were lost,     *)
(* pushed twice or given ids in the meantime.                                *)
EndToEnd == \A i \in 1 .. MaxId : status[i] # "absent" =>
  \E m \in published :
    /\ id[m] = i
    /\ \A n \in Message : id[n] = i => n = m
    /\ boxes[i] = Store!OneEach
    /\ status[i] = "received" =>
         \E j \in DOMAIN shown : shown[j][2] = m /\ viewer[shown[j][1]] = to[m]

(* ChatSystem as a whole implements MessageLog.                              *)
ImplementsLog == Store!Spec
============================================================================
