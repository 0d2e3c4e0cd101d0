------------------------------ MODULE MCQueues ------------------------------
(* Queues, with what the configurations give its constants.                *)
EXTENDS Queues

MCLists == Queues \X {"send", "receive"}
MCLength == [q \in Queues |-> IF q = "two" THEN 2 ELSE 1]

C(t, q, do, pos, ticks) ==
  [by |-> t, do |-> do, on |-> q, item |-> IF pos = "back" THEN 1 ELSE 2,
   pos |-> pos, ticks |-> ticks]

-----------------------------------------------------------------------------
(* A queue of one place or of two between two tasks and two handlers.      *)
(* Each use is chosen so that another list of waiting tasks is filled:     *)
(* receivers that take and that peek, senders, and both in turn.           *)
PairFirst == <<"a", "b">>
PairOwns == {[t \in Tasks |-> IF t = "a" THEN 1 ELSE 2]}

PairUses ==
  {{C("a", "two", "send", "back", 1), C("a", "two", "send", "front", 1),
    C("b", "two", "receive", "back", 1), C("b", "two", "peek", "back", MaxDelay)},
   {C("a", "one", "receive", "back", MaxDelay), C("b", "one", "peek", "back", 1),
    C("a", "one", "send", "overwrite", 0)},
   {C("a", "one", "send", "front", MaxDelay), C("b", "one", "send", "back", 2),
    C("b", "one", "reset", "back", 0)}}

PairHandlers ==
  {[do |-> do, on |-> q, item |-> 2, pos |-> "back"] : do \in {"send", "receive"}, q \in Queues}

-----------------------------------------------------------------------------
(* Two mutexes: the lowest task may hold both, the other two wait for one  *)
(* each.                                                                   *)
TrioFirst == <<"lo", "mid", "hi">>
TrioOwns == {[t \in Tasks |-> IF t = "hi" THEN 3 ELSE IF t = "mid" THEN 2 ELSE 1]}
TrioOwnsSame == {[t \in Tasks |-> IF t = "hi" THEN 3 ELSE 1]}

TrioUses ==
  {{C("lo", q, "receive", "back", MaxDelay) : q \in {"m", "n"}}
     \cup {C("lo", q, "send", "back", 0) : q \in {"m", "n"}}
     \cup {C("mid", "n", "receive", "back", MaxDelay), C("mid", "n", "send", "back", 0)}
     \cup {C("hi", "m", "receive", "back", 1), C("hi", "m", "send", "back", 0)}
     \cup {C(t, "m", "delay", "back", 1) : t \in {"mid", "hi"}}
     \cup {C("lo", "n", "again", "back", 0)}}
=============================================================================
