------------------------------ MODULE Delivery ------------------------------
(* What the sending side of single chat promises to the consumers of its two *)
(* topics (MessageStore takes it for granted): a message id is published, or *)
(* reported as read, only after the message was handed to a nettyServer. In  *)
(* which order the two happen is left open. SingleChat implements this       *)
(* specification.                                                            *)
CONSTANT Id          \* message ids: NettyMessage.cid, MsgContent.mid

VARIABLES pushed,    \* ids a nettyServer was asked to push
          published, \* ids written to single_topic
          reported   \* ids written to single_topic_read

vars == <<pushed, published, reported>>

Init == pushed = {} /\ published = {} /\ reported = {}

Push(i) == /\ pushed' = pushed \cup {i}
           /\ UNCHANGED <<published, reported>>

Publish(i) == /\ i \in pushed
              /\ published' = published \cup {i}
              /\ UNCHANGED <<pushed, reported>>

Report(i) == /\ i \in pushed
             /\ reported' = reported \cup {i}
             /\ UNCHANGED <<pushed, published>>

Next == \E i \in Id : Push(i) \/ Publish(i) \/ Report(i)

Spec == Init /\ [][Next]_vars
============================================================================
