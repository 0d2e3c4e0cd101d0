------------------------------ MODULE Checksum -----------------------------
(***************************************************************************)
(* calculate_cs of perlib/brieip.c, and the two ways it is used: to fill   *)
(* in the checksum of a packet (prepare_icmp_packet, prepare_ip_packet)    *)
(* and to verify one (handle_icmp_packet, handle_ip_packet).               *)
(*                                                                         *)
(* A byte is a digit to the base Base and a word two of them, so that      *)
(* uint16_t arithmetic is arithmetic modulo Word: Base is 256 in the code  *)
(* and small here.  The loop counter is such a word too, which is why it   *)
(* wraps; the sum is a uint32_t, two words.                                *)
(***************************************************************************)
EXTENDS Naturals, FiniteSetsExt

CONSTANTS
  Base,       \* number of values of a byte
  Contents    \* what may lie in the buffer from the packet's start on

Word == Base * Base
Bytes == 0 .. Base - 1

VARIABLES
  data,     \* the buffer, from the packet's first byte on
  size,     \* the size argument, a uint16_t
  pass,     \* "prepare": fill the checksum in; "check": and verify it then;
            \* "verify": verify a checksum as it came
  pc,       \* where calculate_cs is
  i,        \* the loop counter, later the carry, a uint16_t
  cs,       \* the sum, a uint32_t
  result    \* what calculate_cs returned

vars == <<data, size, pass, pc, i, cs, result>>

(* The checksum is the second word of an ICMP header.                      *)
Field == {2, 3}
Header == 4

(* (data[i] << 8) | data[i + 1]                                            *)
WordAt(k) == Base * data[k] + data[k + 1]

(* Mistake: one round too many, i <= size.                                 *)
AddInclusive ==
  /\ pc = "add"
  /\ IF i <= size
       THEN /\ cs' = (cs + WordAt(i)) % (Word * Word)
            /\ i' = (i + 2) % Word
            /\ UNCHANGED pc
       ELSE /\ pc' = "fold"
            /\ UNCHANGED <<cs, i>>
  /\ UNCHANGED <<data, size, pass, result>>

(* for(i = 0; i < size; i += 2): over an odd size the last word takes in   *)
(* the byte behind the end.                                                *)
Add ==
  /\ pc = "add"
  /\ IF i < size
       THEN /\ cs' = (cs + WordAt(i)) % (Word * Word)
            /\ i' = (i + 2) % Word
            /\ UNCHANGED pc
       ELSE /\ pc' = "fold"
            /\ UNCHANGED <<cs, i>>
  /\ UNCHANGED <<data, size, pass, result>>

(* do i = cs >> 16, cs = i + (cs & 0xFFFF) while(i)                        *)
Fold ==
  /\ pc = "fold"
  /\ i' = (cs \div Word) % Word
  /\ cs' = i' + (cs % Word)
  /\ pc' = IF i' = 0 THEN "complement" ELSE "fold"
  /\ UNCHANGED <<data, size, pass, result>>

(* cs = ~cs, returned as a uint16_t.                                       *)
Complement ==
  /\ pc = "complement"
  /\ result' = (Word - 1) - (cs % Word)
  /\ pc' = "return"
  /\ UNCHANGED <<data, size, pass, i, cs>>

(* Mistake: the checksum is stored in host order.                          *)
StoreSwapped ==
  /\ pc = "return" /\ pass = "prepare"
  /\ data' = [data EXCEPT ![2] = result % Base, ![3] = result \div Base]
  /\ pass' = "check"
  /\ pc' = "add" /\ i' = 0 /\ cs' = 0
  /\ UNCHANGED <<size, result>>

(* cs = htons(result): stored high byte first; the receiver of the packet, *)
(* another host or this one, then calculates over it again.                *)
Store ==
  /\ pc = "return" /\ pass = "prepare"
  /\ data' = [data EXCEPT ![2] = result \div Base, ![3] = result % Base]
  /\ pass' = "check"
  /\ pc' = "add" /\ i' = 0 /\ cs' = 0
  /\ UNCHANGED <<size, result>>

(* A packet to fill in (its checksum field is set to zero first) or one to *)
(* check.                                                                  *)
Init ==
  /\ size \in 0 .. Word - 1
  /\ pass \in {"prepare", "verify"}
  /\ data \in {d \in Contents : pass = "prepare" => \A k \in Field : d[k] = 0}
  /\ pass = "prepare" => size >= Header
  /\ pc = "add" /\ i = 0 /\ cs = 0 /\ result = 0

Next == Add \/ Fold \/ Complement \/ Store

-----------------------------------------------------------------------------
(* Types.                                                                  *)
TypeOK ==
  /\ data \in [0 .. Word - 1 -> Bytes]
  /\ size \in 0 .. Word - 1
  /\ pass \in {"prepare", "check", "verify"}
  /\ pc \in {"add", "fold", "complement", "return"}
  /\ i \in 0 .. Word - 1 /\ cs \in 0 .. Word * Word - 1
  /\ result \in 0 .. Word - 1

(* The Internet checksum by its definition: the ones' complement of the    *)
(* ones' complement sum of the words, the last one padded with zero.       *)
Padded(k) == IF k < size THEN data[k] ELSE 0

OnesSum(total) == IF total = 0 THEN 0 ELSE ((total - 1) % (Word - 1)) + 1

Even(n) == {k \in 0 .. n - 1 : k % 2 = 0}

Total(words, n) == MapThenSumSet(LAMBDA k : words[k], Even(n))

PaddedWords == [k \in 0 .. Word - 2 |-> Base * Padded(k) + Padded(k + 1)]

Reference == (Word - 1) - OnesSum(Total(PaddedWords, size))

(* calculate_cs computes it for every even size, and for an odd one just   *)
(* when the byte behind the packet is zero: a packet with an odd number of *)
(* bytes is judged by what an earlier frame left in the buffer.            *)
ResultRight ==
  pc = "return" =>
    (result = Reference <=> (size % 2 = 0 \/ data[size] = 0))

(* A checksum that was filled in comes out as zero when it is checked, so  *)
(* what this host sends is accepted by one that calculates the same way    *)
(* over the same bytes.                                                    *)
PreparedVerifies == pass = "check" /\ pc = "return" => result = 0

(* The loop ends for every size but the largest, over which the counter    *)
(* wraps round to zero and the sum goes on for ever.                       *)
Done == pc = "return" /\ pass # "prepare"

NeverDone == size = Word - 1 => ~Done

LoopEnds == size # Word - 1 => <>Done

(* What every state satisfies.                                             *)
Inv == TypeOK /\ ResultRight /\ PreparedVerifies /\ NeverDone

-----------------------------------------------------------------------------
(* What holds for bytes of every even number of values, packets of every   *)
(* content and every size, as MCDrivers proves.                            *)

(* The words that the loop adds up.                                        *)
Words == [k \in 0 .. Word - 2 |-> WordAt(k)]

(* The sum so far; only over the largest size the loop does not end.       *)
LoopInv ==
  pc = "add" =>
    /\ i % 2 = 0
    /\ size # Word - 1 =>
         i <= size + 1 /\ cs = Total(Words, i) /\ cs <= i * (Word - 1)

(* Folding keeps what the sum leaves over Word - 1, and does not make zero *)
(* of it.                                                                  *)
SameRest(sum, total) ==
  /\ sum = 0 <=> total = 0
  /\ \E rounds \in Nat : total = sum + rounds * (Word - 1)

FoldInv ==
  pc \in {"fold", "complement"} =>
    /\ size # Word - 1
    /\ SameRest(cs, Total(Words, size))
    /\ pc = "complement" => cs < Word

ReturnInv ==
  pc = "return" =>
    size # Word - 1 /\ result = (Word - 1) - OnesSum(Total(Words, size))

(* With the checksum filled in, the sum is a multiple of Word - 1.         *)
PassInv ==
  /\ pass = "prepare" => size >= Header /\ data[2] = 0 /\ data[3] = 0
  /\ pass = "check" => size # Word - 1 /\ OnesSum(Total(Words, size)) = Word - 1

SumInv == LoopInv /\ FoldInv /\ ReturnInv /\ PassInv
=============================================================================
