----------------------------- MODULE UsartPrint -----------------------------
(***************************************************************************)
(* usart_put_str and usart_put_char of perlib/usart.c, called by the main  *)
(* program and, on the same USART, by an interrupt handler that may come   *)
(* at any point of it (snippets/brieip).                                   *)
(*                                                                         *)
(* A character is named by its printer and its place in what that printer  *)
(* prints.                                                                 *)
(***************************************************************************)
EXTENDS Naturals, Sequences

CONSTANTS
  MainLen,      \* how many characters the main program prints
  HandlerLen,   \* how many a handler prints each time
  MaxHandlers   \* bound: how many times the handler comes

Printers == {"main", "handler"}

Chars == [by : Printers, num : Nat]

VARIABLES
  datar,        \* the transmit data register: << >> when TXE is set
  shift,        \* the shift register: << >> when it is empty
  line,         \* history: the characters that left it
  at,           \* per printer: "done", "wait" (for TXE), "write"
  printed,      \* per printer: characters written to DATAR so far
  handlers,     \* how many times the handler came
  lost          \* history: characters overwritten in DATAR

vars == <<datar, shift, line, at, printed, handlers, lost>>

-----------------------------------------------------------------------------
(* A handler that runs keeps the main program from going on.               *)
Running(p) == p = "main" => at["handler"] = "done"

(* while(!(STATR & TXE)).                                                  *)
PutTest(p) ==
  /\ at[p] = "wait" /\ Running(p)
  /\ datar = << >>
  /\ at' = [at EXCEPT ![p] = "write"]
  /\ UNCHANGED <<datar, shift, line, printed, handlers, lost>>

(* Mistake: the zero at the end of the string is printed too.              *)
AtEndLate(p, n) == IF p = "main" THEN n = MainLen + 1 ELSE n % HandlerLen = 0

(* The end of what a printer prints: the string's, or a multiple of it.    *)
AtEnd(p, n) == IF p = "main" THEN n = MainLen ELSE n % HandlerLen = 0

(* DATAR = c, and str++ until the string ends.  TXE was set when it was    *)
(* tested; if a handler printed in between it may not be any more.         *)
PutWrite(p) ==
  /\ at[p] = "write" /\ Running(p)
  /\ datar' = <<[by |-> p, num |-> printed[p] + 1]>>
  /\ lost' = lost \o datar
  /\ printed' = [printed EXCEPT ![p] = @ + 1]
  /\ at' = [at EXCEPT ![p] = IF AtEnd(p, printed'[p]) THEN "done" ELSE "wait"]
  /\ UNCHANGED <<shift, line, handlers>>

(* The interrupt, and usart_put_str in its handler.                        *)
Handler ==
  /\ handlers < MaxHandlers
  /\ at["handler"] = "done"
  /\ handlers' = handlers + 1
  /\ at' = [at EXCEPT !["handler"] = "wait"]
  /\ UNCHANGED <<datar, shift, line, printed, lost>>

(* The transmitter: a character moves on to the shift register, and out.   *)
Load ==
  /\ datar # << >> /\ shift = << >>
  /\ shift' = datar
  /\ datar' = << >>
  /\ UNCHANGED <<line, at, printed, handlers, lost>>

Send ==
  /\ shift # << >>
  /\ line' = line \o shift
  /\ shift' = << >>
  /\ UNCHANGED <<datar, at, printed, handlers, lost>>

Put == \E p \in Printers : PutTest(p) \/ PutWrite(p)

Init ==
  /\ datar = << >> /\ shift = << >> /\ line = << >> /\ lost = << >>
  /\ at = [p \in Printers |->
             IF p = "main" /\ MainLen > 0 THEN "wait" ELSE "done"]
  /\ printed = [p \in Printers |-> 0]
  /\ handlers = 0

Next == Put \/ Handler \/ Load \/ Send

-----------------------------------------------------------------------------
(* Types.                                                                  *)
TypeOK ==
  /\ datar \in Seq(Chars) /\ Len(datar) <= 1
  /\ shift \in Seq(Chars) /\ Len(shift) <= 1
  /\ line \in Seq(Chars) /\ lost \in Seq(Chars)
  /\ at \in [Printers -> {"done", "wait", "write"}]
  /\ printed \in [Printers -> Nat]
  /\ printed["main"] <= MainLen
  /\ printed["handler"] <= HandlerLen * MaxHandlers
  /\ handlers \in 0 .. MaxHandlers

(* What has been sent or will be, in order.                                *)
Sent == line \o shift \o datar

(* Every character of the main program is sent, once and in its order,     *)
(* however often the handler prints in between.                            *)
MainWhole ==
  /\ \A n \in 1 .. printed["main"] :
       \E i \in 1 .. Len(Sent) : Sent[i] = [by |-> "main", num |-> n]
  /\ \A i \in 1 .. Len(Sent) :
       Sent[i].by = "main" => Sent[i].num \in 1 .. printed["main"]
  /\ \A i, j \in 1 .. Len(Sent) :
       i < j /\ Sent[i].by = "main" /\ Sent[j].by = "main" => Sent[i].num < Sent[j].num

(* Of the handler's characters one is lost now and then, but only the last *)
(* of what it printed while the main program was between its test and its  *)
(* write, and at most one for each character of the main program.          *)
LossesBounded ==
  /\ \A i \in 1 .. Len(lost) : /\ lost[i].by = "handler"
                               /\ lost[i].num % HandlerLen = 0
  /\ Len(lost) <= printed["main"]
  /\ Len(lost) + Len(Sent) = printed["main"] + printed["handler"]

(* What every state satisfies.                                             *)
Inv == TypeOK /\ MainWhole /\ LossesBounded

(* Both printers come to an end, and what is not lost is sent.             *)
AllSent == <>[](/\ printed["main"] = MainLen
                /\ printed["handler"] = HandlerLen * handlers
                /\ datar = << >> /\ shift = << >>)

-----------------------------------------------------------------------------
(* What holds for strings of every length and every number of handlers, as *)
(* MCDrivers proves.                                                       *)

(* What the handlers that came had, or have, to print.                     *)
Due == HandlerLen * handlers

(* What the main program overwrites between its test and its write is the  *)
(* last character of a handler, which has tested TXE itself.               *)
PutInv ==
  /\ at["main"] = "done" <=> printed["main"] = MainLen
  /\ at["handler"] = "done" => printed["handler"] = Due
  /\ at["handler"] # "done" => printed["handler"] \in Due - HandlerLen .. Due - 1
  /\ at["handler"] = "write" => datar = << >>
  /\ at["main"] = "write" /\ datar # << >> =>
       datar[1] = [by |-> "handler", num |-> printed["handler"]]
=============================================================================
