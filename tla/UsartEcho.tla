----------------------------- MODULE UsartEcho ------------------------------
(***************************************************************************)
(* snippets/usart_irq: USART2_IRQHandler sends back every character that   *)
(* comes in, with usart_get_char, usart_put_char and usart_rx_flag_clear   *)
(* of perlib/usart.c.  Characters are numbered as they come in.            *)
(***************************************************************************)
EXTENDS Naturals, Sequences

CONSTANT MaxChars     \* bound: how many characters come in

VARIABLES
  received,     \* the receive data register: the character that came last
  rxne,         \* STATR: it has not been read
  datar,        \* the transmit data register: << >> when TXE is set
  shift,        \* the transmitter's shift register
  line,         \* history: what was sent back
  pc,           \* USART2_IRQHandler: "none", "put", "clear"
  c,            \* its local: the character read
  busy          \* history: the characters that came in while it ran

vars == <<received, rxne, datar, shift, line, pc, c, busy>>

(* A character comes in and may overwrite the last one.  The one before it *)
(* was read or its flag was cleared: the handler starts within the time    *)
(* that a character takes and waits for less than two.                     *)
Receive ==
  /\ received < MaxChars
  /\ ~rxne
  /\ received' = received + 1
  /\ rxne' = TRUE
  /\ busy' = IF pc = "none" THEN busy ELSE busy \cup {received'}
  /\ UNCHANGED <<datar, shift, line, pc, c>>

(* The interrupt; usart_get_char: the read of DATAR clears RXNE.           *)
GetChar ==
  /\ pc = "none" /\ rxne
  /\ c' = received
  /\ rxne' = FALSE
  /\ pc' = "put"
  /\ UNCHANGED <<received, datar, shift, line, busy>>

(* Mistake: no wait for TXE.                                               *)
PutCharBlind ==
  /\ pc = "put"
  /\ datar' = <<c>>
  /\ pc' = "clear"
  /\ UNCHANGED <<received, rxne, shift, line, c, busy>>

(* usart_put_char: as soon as TXE is set, DATAR = c.                       *)
PutChar ==
  /\ pc = "put" /\ datar = << >>
  /\ datar' = <<c>>
  /\ pc' = "clear"
  /\ UNCHANGED <<received, rxne, shift, line, c, busy>>

(* usart_rx_flag_clear: STATR &= ~RXNE, whatever came in meanwhile.        *)
ClearFlag ==
  /\ pc = "clear"
  /\ rxne' = FALSE
  /\ pc' = "none"
  /\ UNCHANGED <<received, datar, shift, line, c, busy>>

(* The transmitter.                                                        *)
Load ==
  /\ datar # << >> /\ shift = << >>
  /\ shift' = datar
  /\ datar' = << >>
  /\ UNCHANGED <<received, rxne, line, pc, c, busy>>

Send ==
  /\ shift # << >>
  /\ line' = line \o shift
  /\ shift' = << >>
  /\ UNCHANGED <<received, rxne, datar, pc, c, busy>>

Handler == GetChar \/ PutChar \/ ClearFlag

Init ==
  /\ received = 0 /\ rxne = FALSE
  /\ datar = << >> /\ shift = << >> /\ line = << >>
  /\ pc = "none" /\ c = 0 /\ busy = {}

Next == Receive \/ Handler \/ Load \/ Send

-----------------------------------------------------------------------------
(* Types.                                                                  *)
TypeOK ==
  /\ received \in 0 .. MaxChars /\ rxne \in BOOLEAN
  /\ datar \in Seq(1 .. MaxChars) /\ Len(datar) <= 1
  /\ shift \in Seq(1 .. MaxChars) /\ Len(shift) <= 1
  /\ line \in Seq(1 .. MaxChars) /\ Len(line) <= MaxChars
  /\ pc \in {"none", "put", "clear"} /\ c \in 0 .. MaxChars
  /\ busy \subseteq 1 .. MaxChars

(* What was sent back or will be, in order.                                *)
Echo ==
  line \o shift \o datar
    \o (IF pc = "put" THEN <<c>> ELSE << >>)
    \o (IF rxne /\ pc = "none" THEN <<received>> ELSE << >>)

(* Characters are sent back in order and once each.  One that is missing   *)
(* came in while the handler was busy with the one before, and the one     *)
(* after it is not missing.                                                *)
EchoGaps ==
  \A i \in 2 .. Len(Echo) :
    \/ Echo[i] = Echo[i - 1] + 1
    \/ Echo[i] = Echo[i - 1] + 2 /\ Echo[i] - 1 \in busy

(* What every state satisfies.                                             *)
Inv == TypeOK /\ EchoGaps

(* A character that came in while the handler was idle is sent back.       *)
EchoedIfIdle ==
  \A n \in 1 .. MaxChars :
    received = n /\ n \notin busy ~> \E i \in 1 .. Len(line) : line[i] = n

-----------------------------------------------------------------------------
(* What holds for every number of characters, as MCDrivers proves.         *)

(* The character that is sent back last.                                   *)
LastEcho == IF Len(Echo) = 0 THEN 0 ELSE Echo[Len(Echo)]

(* It is the one that came in last, or the one before when that came in    *)
(* while the handler was busy, and none is ahead of its place.             *)
EchoInv ==
  /\ \A i \in 1 .. Len(Echo) : Echo[i] \in i .. received
  /\ rxne => received >= 1
  /\ pc = "none" /\ rxne => LastEcho = received
  /\ pc = "none" /\ ~rxne =>
       LastEcho = received \/ (LastEcho = received - 1 /\ received \in busy)
  /\ pc # "none" => LastEcho = c /\ c \in 1 .. received
  /\ pc # "none" /\ ~rxne => c = received
  /\ pc # "none" /\ rxne => c = received - 1 /\ received \in busy
=============================================================================
