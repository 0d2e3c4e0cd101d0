--------------------------- MODULE MessageQueues ----------------------------
(***************************************************************************)
(* What the queues of queue.c promise those that use them: each is a       *)
(* bounded sequence, to which an item is added at either end, or in place  *)
(* of the only one, and from which the first one is taken.                 *)
(***************************************************************************)
EXTENDS Naturals, Sequences

CONSTANTS Queues, Length, Items

VARIABLE content

Init == content = [q \in Queues |-> << >>]

SendToBack(q, i) ==
  /\ Len(content[q]) < Length[q]
  /\ content' = [content EXCEPT ![q] = Append(@, i)]

SendToFront(q, i) ==
  /\ Len(content[q]) < Length[q]
  /\ content' = [content EXCEPT ![q] = <<i>> \o @]

Overwrite(q, i) ==
  /\ Length[q] = 1
  /\ content' = [content EXCEPT ![q] = <<i>>]

Receive(q) ==
  /\ content[q] # << >>
  /\ content' = [content EXCEPT ![q] = Tail(@)]

Reset(q) == content' = [content EXCEPT ![q] = << >>]

Next ==
  \E q \in Queues :
    \/ \E i \in Items : SendToBack(q, i) \/ SendToFront(q, i) \/ Overwrite(q, i)
    \/ Receive(q) \/ Reset(q)

Spec == Init /\ [][Next]_content
=============================================================================
