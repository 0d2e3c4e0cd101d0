------------------------------- MODULE EthIrq -------------------------------
(***************************************************************************)
(* ETH_IRQHandler of snippets/brieip: it goes through the event flags of   *)
(* the controller (DMASR), reports each one that is set and acknowledges   *)
(* it.  A flag is cleared by writing a one to it; the handler writes with  *)
(* |=, which reads the register and writes a one back to every flag found  *)
(* set.  eth_transmit, in the main program, clears TBUS by a plain write.  *)
(***************************************************************************)
EXTENDS Naturals, Sequences, FiniteSetsExt

CONSTANT MaxEvents    \* bound: how many events happen

VARIABLES
  dmasr,        \* the event flags that are set
  at,           \* the flag the handler has come to, 0 when it does not run
  pc,           \* what it does there: "test", "read", "write"
  was,          \* what the read of the |= found
  happened,     \* history, per flag: events so far
  reported,     \* history, per flag: reports so far
  seen,         \* history: what was set when the handler was entered
  news          \* history: what it has reported since then

vars == <<dmasr, at, pc, was, happened, reported, seen, news>>

(* The flags in the order in which the handler tests them.                 *)
Order == <<"pls", "tus", "tjts", "tbus", "tpss", "ts">>

Flags == {Order[i] : i \in 1 .. Len(Order)}

(* Behind them: DMASR |= ais | nis, the summary flags.                     *)
Last == Len(Order) + 1

-----------------------------------------------------------------------------
(* The controller raises a flag, at any time.                              *)
Event(f) ==
  /\ MapThenSumSet(LAMBDA g : happened[g], Flags) < MaxEvents
  /\ happened' = [happened EXCEPT ![f] = @ + 1]
  /\ dmasr' = dmasr \cup {f}
  /\ UNCHANGED <<at, pc, was, reported, seen, news>>

(* eth_transmit: DMASR = tbus.  It does not run while the handler does.    *)
TransmitAck ==
  /\ at = 0
  /\ dmasr' = dmasr \ {"tbus"}
  /\ UNCHANGED <<at, pc, was, happened, reported, seen, news>>

(* The interrupt: eth_irq_init enabled it for all these flags.             *)
Enter ==
  /\ at = 0 /\ dmasr # {}
  /\ at' = 1 /\ pc' = "test"
  /\ seen' = dmasr /\ news' = {}
  /\ UNCHANGED <<dmasr, was, happened, reported>>

(* if(DMASR & flag) usart_put_str(...).                                    *)
Report ==
  /\ pc = "test" /\ at \in 1 .. Last - 1
  /\ Order[at] \in dmasr
  /\ reported' = [reported EXCEPT ![Order[at]] = @ + 1]
  /\ news' = news \cup {Order[at]}
  /\ pc' = "read"
  /\ UNCHANGED <<dmasr, at, was, happened, seen>>

(* The flag is not set: on to the next one.                                *)
Skip ==
  /\ pc = "test" /\ at \in 1 .. Last - 1
  /\ Order[at] \notin dmasr
  /\ at' = at + 1
  /\ UNCHANGED <<dmasr, pc, was, happened, reported, seen, news>>

(* DMASR |= flag: the register is read, ...                                *)
AckRead ==
  /\ pc = "read" \/ (pc = "test" /\ at = Last)
  /\ was' = dmasr
  /\ pc' = "write"
  /\ UNCHANGED <<dmasr, at, happened, reported, seen, news>>

(* Mistake: nothing is written.                                            *)
AckWriteNot ==
  /\ pc = "write"
  /\ at' = IF at = Last THEN 0 ELSE at + 1
  /\ pc' = "test"
  /\ UNCHANGED <<dmasr, was, happened, reported, seen, news>>

(* ... and the ones it held are written back, which clears them.           *)
AckWrite ==
  /\ pc = "write"
  /\ dmasr' = dmasr \ was
  /\ at' = IF at = Last THEN 0 ELSE at + 1
  /\ pc' = "test"
  /\ UNCHANGED <<was, happened, reported, seen, news>>

Handler == Enter \/ Report \/ Skip \/ AckRead \/ AckWrite

Init ==
  /\ dmasr = {} /\ at = 0 /\ pc = "test" /\ was = {}
  /\ happened = [f \in Flags |-> 0] /\ reported = [f \in Flags |-> 0]
  /\ seen = {} /\ news = {}

Next == Handler \/ TransmitAck \/ \E f \in Flags : Event(f)

-----------------------------------------------------------------------------
(* Types.                                                                  *)
TypeOK ==
  /\ dmasr \subseteq Flags /\ was \subseteq Flags
  /\ seen \subseteq Flags /\ news \subseteq Flags
  /\ at \in 0 .. Last /\ pc \in {"test", "read", "write"}
  /\ happened \in [Flags -> 0 .. MaxEvents]
  /\ reported \in [Flags -> Nat]

(* No event is reported twice.                                             *)
ReportedOnce == \A f \in Flags : reported[f] <= happened[f]

(* An interrupt never passes in silence: when the handler is past a flag   *)
(* that was set when it was entered, it has reported that flag or one that *)
(* it tests before.  (Not always that flag itself: acknowledging another   *)
(* one clears it too, and it is lost.)                                     *)
NeverSilent ==
  \A i \in 1 .. Last - 1 :
    (at > i \/ at = 0) /\ Order[i] \in seen
      => \E j \in 1 .. i : Order[j] \in news

(* What every state satisfies.                                             *)
Inv == TypeOK /\ ReportedOnce /\ NeverSilent

(* A flag other than TBUS that comes alone is reported.                    *)
Alone(f) == \A g \in Flags \ {f} : happened[g] = 0

AloneReported ==
  \A f \in Flags \ {"tbus"} :
    happened[f] > 0 ~> reported[f] > 0 \/ ~Alone(f)

(* When no more events come the handler comes to rest.                     *)
Settles == <>[](at = 0 /\ dmasr = {})

-----------------------------------------------------------------------------
(* What holds for every number of events, as MCDrivers proves.             *)
Spec == Init /\ [][Next]_vars

(* What the two properties rest on: a flag that is set stands for an event *)
(* not reported, unless its report has just been made; and a flag that was *)
(* set on entry is still set until the handler comes to it, or went with   *)
(* one before it.                                                          *)
IrqInv ==
  /\ dmasr \subseteq Flags /\ seen \subseteq Flags
  /\ at \in 0 .. 7 /\ pc \in {"test", "read", "write"}
  /\ happened \in [Flags -> Nat] /\ reported \in [Flags -> Nat]
  /\ at = 0 => pc = "test"
  /\ pc = "read" => at \in 1 .. 6 /\ Order[at] \in dmasr
  /\ pc # "test" /\ at < 7 => Order[at] \in news
  /\ pc = "write" /\ at < 7 => Order[at] \in was
  /\ ReportedOnce
  /\ \A f \in dmasr :
       reported[f] < happened[f] \/ (pc # "test" /\ at < 7 /\ Order[at] = f)
  /\ \A i \in 1 .. 6 :
       at \in 1 .. i /\ Order[i] \in seen =>
         Order[i] \in dmasr \/ \E j \in 1 .. i : Order[j] \in news
  /\ NeverSilent
=============================================================================
