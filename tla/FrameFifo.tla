----------------------------- MODULE FrameFifo -----------------------------
(***************************************************************************)
(* What each half of the Ethernet driver promises: a bounded queue that    *)
(* neither loses, repeats nor reorders what was put in it.  The items are  *)
(* numbered in the order in which they enter.                              *)
(*                                                                         *)
(* On the receive side the controller puts and eth_receive gets; on the    *)
(* transmit side eth_transmit puts and the controller gets.                *)
(***************************************************************************)
EXTENDS Naturals, Sequences

CONSTANT Capacity

VARIABLES
  queue,    \* the items inside, the oldest first
  put,      \* how many items entered
  got       \* the item that left last, 0 before the first

fifoVars == <<queue, put, got>>

Init ==
  /\ queue = << >>
  /\ put = 0
  /\ got = 0

Put ==
  /\ Len(queue) < Capacity
  /\ put' = put + 1
  /\ queue' = Append(queue, put + 1)
  /\ UNCHANGED got

Get ==
  /\ queue # << >>
  /\ got' = Head(queue)
  /\ queue' = Tail(queue)
  /\ UNCHANGED put

Next == Put \/ Get

Spec == Init /\ [][Next]_fifoVars
=============================================================================
