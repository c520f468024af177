---------------------------- MODULE MessageLog ----------------------------
(* What the persistence side of single chat promises, whatever the         *)
(* consumers, the broker and the caches go through on the way:             *)
(*   - a published message is stored at most once, together with exactly   *)
(*     one mailbox row for its sender and one for its recipient;           *)
(*   - a stored message is marked received only after the recipient        *)
(*     reported that it was read, and the mark is never taken back.        *)
(* MessageStore implements this specification.                             *)
EXTENDS Integers

CONSTANT Mid          \* message ids (NettyMessage.cid = MsgContent.mid)

VARIABLES published,  \* ids published to single_topic
          reported,   \* ids reported read on single_topic_read
          status,     \* im_msg_content: status[m] of the row with mid = m
          boxes       \* im_user_msg_box: rows of m per box type

vars == <<published, reported, status, boxes>>

BoxType == {"SEND", "RECEIVE"}
NoBoxes == [b \in BoxType |-> 0]
OneEach == [b \in BoxType |-> 1]

Init == /\ published = {}
        /\ reported = {}
        /\ status = [m \in Mid |-> "absent"]
        /\ boxes = [m \in Mid |-> NoBoxes]

Publish(m) == /\ published' = published \cup {m}
              /\ UNCHANGED <<reported, status, boxes>>

Report(m) == /\ reported' = reported \cup {m}
             /\ UNCHANGED <<published, status, boxes>>

Store(m) == /\ m \in published
            /\ status[m] = "absent"
            /\ status' = [status EXCEPT ![m] = "unread"]
            /\ boxes' = [boxes EXCEPT ![m] = OneEach]
            /\ UNCHANGED <<published, reported>>

Receive(m) == /\ m \in reported
              /\ status[m] = "unread"
              /\ status' = [status EXCEPT ![m] = "received"]
              /\ UNCHANGED <<published, reported, boxes>>

Next == \E m \in Mid : Publish(m) \/ Report(m) \/ Store(m) \/ Receive(m)

Spec == Init /\ [][Next]_vars
============================================================================
