------------------------------ MODULE FleetHead ------------------------------
(***************************************************************************)
(* What block publication promises to the clients of a fleet: one block,   *)
(* the same wherever a client reads, replaced only by a higher one and only*)
(* while nobody is offered the old one.                                    *)
(***************************************************************************)
EXTENDS Integers

CONSTANTS Heights, Hashes, NoBlock

Block == [height : Heights, hash : Hashes]

VARIABLES
  cur,      \* the published block
  offered   \* the blocks a read may return now, at any node

Init ==
  /\ cur \in Block \cup {NoBlock}
  /\ offered \in {{}, {cur} \ {NoBlock}}

\* The published block may be published again for another roster.
Publish(block) ==
  /\ offered = {}
  /\ cur = NoBlock \/ block.height > cur.height \/ block = cur
  /\ cur' = block
  /\ UNCHANGED offered
Offer    == cur # NoBlock /\ offered' = {cur} /\ UNCHANGED cur
Withdraw == offered' = {} /\ UNCHANGED cur

Next == Offer \/ Withdraw \/ \E block \in Block : Publish(block)

Spec == Init /\ [][Next]_<<cur, offered>>
=============================================================================
