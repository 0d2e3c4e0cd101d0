-------------------------------- MODULE Heaps --------------------------------
(***************************************************************************)
(* The two allocators, pvPortMalloc and vPortFree of heap_2.c and, with    *)
(* vPortGetHeapStats, of heap_4.c.  Lists of free blocks are only touched  *)
(* with the scheduler suspended.  Sizes are size_t: they wrap.             *)
(*                                                                         *)
(* heap_2.c splits free blocks and never joins them; each call is one step.*)
(* heap_4.c joins neighbours; a task may be preempted inside its vPortFree,*)
(* with the allocated bit cleared and the block not yet in the list, and   *)
(* between the two halves of vPortGetHeapStats.                            *)
(***************************************************************************)
EXTENDS Naturals, Sequences, SequencesExt, FiniteSetsExt

CONSTANTS
  Adjusted,        \* configADJUSTED_HEAP_SIZE of heap_2.c
  Start, Total,    \* heap_4.c: the address of ucHeap, configTOTAL_HEAP_SIZE
  Align,           \* portBYTE_ALIGNMENT
  Header,          \* heapSTRUCT_SIZE, xHeapStructSize
  Word,            \* a size_t is below Word (2^32)
  Sizes,           \* what may be asked of heap_4.c
  MaxAllocations   \* bound: successful calls of pvPortMalloc

VARIABLES
  free2,           \* heap_2.c: the free blocks from xStart to xEnd: [at, size]
  used2,           \* those of the application: [at, size, asked]
  bytes2           \* xFreeBytesRemaining

vars2 == <<free2, used2, bytes2>>

VARIABLES
  ready,           \* heap_4.c: pxEnd is set: prvHeapInit was called
  free,            \* the free blocks between xStart and pxEnd: [at, size]
  used,            \* blocks with their allocated bit set: [at, size, asked]
  leaving,         \* those whose bit vPortFree has cleared
  bytes, least,    \* xFreeBytesRemaining, xMinimumEverFreeBytesRemaining
  allocations, frees,  \* the counters of successful calls
  stats            \* what vPortGetHeapStats holds: the walk's half, the whole

heapVars == <<ready, free, used, leaving, bytes, least, allocations, frees>>
vars == <<heapVars, stats>>

MinimumBlock == Header * 2      \* heapMINIMUM_BLOCK_SIZE

-----------------------------------------------------------------------------
(* heap_2.c.                                                               *)

(* prvInsertBlockIntoFreeList: before the first that is not smaller.       *)
InsertBlock2(s, b) ==
  LET smaller == SelectInSeq(s, LAMBDA c : c.size >= b.size)
  IN  IF smaller = 0 THEN Append(s, b) ELSE InsertAt(s, smaller, b)

(* The size of the block that is looked for, 0 for none.                   *)
Wanted2(asked) ==
  LET more == Header + Align - (asked % Align)
  IN  IF asked = 0 \/ asked > Word - 1 - more \/ asked + more >= Word \div 2 THEN 0
      ELSE asked + more

(* pvPortMalloc, when it finds a block; otherwise it changes nothing.      *)
Malloc2(asked) ==
  LET want == Wanted2(asked)
      i == SelectInSeq(free2, LAMBDA b : b.size >= want)
      b == free2[i]
      split == b.size - want > MinimumBlock
      size == IF split THEN want ELSE b.size
      rest == RemoveAt(free2, i)
  IN  /\ want \in 1 .. bytes2 /\ i # 0
      /\ free2' = IF split
                  THEN InsertBlock2(rest, [at |-> b.at + want, size |-> b.size - want])
                  ELSE rest
      /\ used2' = used2 \cup {[at |-> b.at, size |-> size, asked |-> asked]}
      /\ bytes2' = bytes2 - size

(* Mistake: what was asked for comes back, not the block.                  *)
FreeAsked2(b) ==
  /\ free2' = InsertBlock2(free2, [at |-> b.at, size |-> b.asked])
  /\ used2' = used2 \ {b}
  /\ bytes2' = bytes2 + b.size

(* vPortFree.                                                              *)
Free2(b) ==
  /\ free2' = InsertBlock2(free2, [at |-> b.at, size |-> b.size])
  /\ used2' = used2 \ {b}
  /\ bytes2' = bytes2 + b.size

(* prvHeapInit.                                                            *)
Init2 ==
  /\ free2 = <<[at |-> 0, size |-> Adjusted]>>
  /\ used2 = {} /\ bytes2 = Adjusted

Next2 == \/ \E asked \in 0 .. Word - 1 : Malloc2(asked)
         \/ \E b \in used2 : Free2(b)

-----------------------------------------------------------------------------
(* heap_4.c.                                                               *)
AllocatedBit == Word \div 2     \* xBlockAllocatedBit
Down(address) == address - (address % Align)

(* prvHeapInit: the one free block from the first aligned address to pxEnd. *)
First == IF Start % Align # 0 THEN Down(Start + Align - 1) ELSE Start
End == Down(Start + Total - Header)
Whole == [at |-> First, size |-> End - First]

(* Mistake: a block is not joined with the one behind it.                  *)
InsertUnjoined(s, b) ==
  LET before == Cardinality({i \in DOMAIN s : s[i].at < b.at})
  IN  InsertAt(s, before + 1, b)

(* prvInsertBlockIntoFreeList: by address, joined with its neighbours.     *)
InsertBlock(s, b) ==
  LET before == {c \in ToSet(s) : c.at < b.at}
      behind == ToSet(s) \ before
      touch == {c \in before : c.at + c.size = b.at} \cup {c \in behind : b.at + b.size = c.at}
      joined == [at   |-> Min({b.at} \cup {c.at : c \in touch}),
                 size |-> b.size + MapThenSumSet(LAMBDA c : c.size, touch)]
      Apart(c) == c \notin touch
  IN  InsertAt(SelectSeq(s, Apart), Cardinality(before \ touch) + 1, joined)

(* The size of the block that is looked for, 0 for none: room for the      *)
(* header, rounded up, each sum tested for overflow.                       *)
Wanted(asked) ==
  LET more == (asked + Header) % Word
      even == (more + Align - (more % Align)) % Word
  IN  IF asked >= AllocatedBit \/ asked = 0 \/ more <= asked THEN 0
      ELSE IF more % Align = 0 THEN more
      ELSE IF even > more THEN even ELSE 0

(* The heap changes between the two halves of vPortGetHeapStats.           *)
Disturbed == IF stats.step = "walked" THEN [stats EXCEPT !.same = FALSE] ELSE stats

(* pvPortMalloc: the first block that is large enough, split when the rest *)
(* is worth it.  The first call sets the heap up, even when it fails.      *)
Malloc(asked) ==
  LET list == IF ready THEN free ELSE <<Whole>>
      have == IF ready THEN bytes ELSE Whole.size
      low == IF ready THEN least ELSE Whole.size
      want == Wanted(asked)
      i == IF want \in 1 .. have THEN SelectInSeq(list, LAMBDA c : c.size >= want) ELSE 0
      b == list[i]
      split == b.size - want > MinimumBlock
      size == IF split THEN want ELSE b.size
      rest == RemoveAt(list, i)
  IN  /\ ready' = TRUE
      /\ IF i = 0
         THEN /\ free' = list /\ bytes' = have /\ least' = low
              /\ UNCHANGED <<used, allocations>>
         ELSE /\ allocations < MaxAllocations
              /\ free' = IF split
                         THEN InsertBlock(rest, [at |-> b.at + want, size |-> b.size - want])
                         ELSE rest
              /\ bytes' = have - size
              /\ least' = Min({low, have - size})
              /\ used' = used \cup {[at |-> b.at, size |-> size, asked |-> asked]}
              /\ allocations' = allocations + 1
      /\ stats' = Disturbed
      /\ UNCHANGED <<leaving, frees>>

(* vPortFree: the allocated bit is cleared ...                             *)
ClearBit(b) ==
  /\ used' = used \ {b} /\ leaving' = leaving \cup {b}
  /\ UNCHANGED <<ready, free, bytes, least, allocations, frees, stats>>

(* ... and then the block returned, with the scheduler suspended.          *)
Return(b) ==
  /\ leaving' = leaving \ {b}
  /\ free' = InsertBlock(free, [at |-> b.at, size |-> b.size])
  /\ bytes' = bytes + b.size
  /\ frees' = frees + 1
  /\ stats' = Disturbed
  /\ UNCHANGED <<ready, used, least, allocations>>

NoStats == [step |-> "none"]

(* vPortGetHeapStats: the list, with the scheduler suspended.  The walk    *)
(* tests for pxEnd only behind a block: where no block is free it passes   *)
(* pxEnd and follows whatever memory holds.                                *)
Walk ==
  /\ stats.step # "walked"
  /\ stats' =
       IF ~ready THEN [step |-> "walked", largest |-> 0, same |-> TRUE]
       ELSE IF free = <<>> THEN [step |-> "astray"]
       ELSE [step |-> "walked", largest |-> Max({b.size : b \in ToSet(free)}),
             same |-> TRUE]
  /\ UNCHANGED heapVars

(* ... and the counters, in a critical section of their own.               *)
Count ==
  /\ stats.step = "walked"
  /\ stats' = [step |-> "counted", largest |-> stats.largest, available |-> bytes,
               same |-> stats.same]
  /\ UNCHANGED heapVars

Init ==
  /\ ready = FALSE /\ free = <<>> /\ used = {} /\ leaving = {}
  /\ bytes = 0 /\ least = 0 /\ allocations = 0 /\ frees = 0 /\ stats = NoStats

Next == \/ \E asked \in Sizes : Malloc(asked)
        \/ \E b \in used : ClearBit(b)
        \/ \E b \in leaving : Return(b)
        \/ Walk
        \/ Count

-----------------------------------------------------------------------------
Blocks2 == {[at |-> b.at, size |-> b.size] : b \in used2 \cup ToSet(free2)}

(* heap_2.c: every byte of the heap is in exactly one block, free or used; *)
(* a used block has room for what was asked for; the free ones are in the  *)
(* order of their sizes, and their sizes add up to the count.              *)
Heap2Right ==
  /\ Cardinality(Blocks2) = Len(free2) + Cardinality(used2)
  /\ \A n \in 0 .. Adjusted - 1 :
       Cardinality({b \in Blocks2 : b.at <= n /\ n < b.at + b.size}) = 1
  /\ \A b \in Blocks2 : b.at % Align = 0 /\ b.at + b.size <= Adjusted
  /\ \A b \in used2 : b.size >= b.asked + Header
  /\ \A i \in 2 .. Len(free2) : free2[i - 1].size <= free2[i].size
  /\ bytes2 = MapThenSumSet(LAMBDA b : b.size, ToSet(free2))

Owned == used \cup leaving
Blocks == {[at |-> b.at, size |-> b.size] : b \in Owned \cup ToSet(free)}

(* heap_4.c: every byte is in exactly one block; an application's block    *)
(* has room for what was asked for, wherever a task is inside vPortFree.   *)
Partition ==
  /\ Cardinality(Blocks) = Len(free) + Cardinality(Owned)
  /\ \A n \in First .. End - 1 :
       Cardinality({b \in Blocks : b.at <= n /\ n < b.at + b.size}) = 1
  /\ \A b \in Blocks : b.at % Align = 0 /\ b.at >= First /\ b.at + b.size <= End
  /\ \A b \in Owned : b.size >= b.asked + Header /\ b.size < AllocatedBit

(* The free blocks are in the order of their addresses and no two of them  *)
(* touch: what was freed comes together again.                             *)
Joined == \A i \in 2 .. Len(free) : free[i - 1].at + free[i - 1].size < free[i].at

(* The counters tell what is so, and no more was ever free than the least. *)
Counted ==
  /\ bytes = MapThenSumSet(LAMBDA b : b.size, ToSet(free))
  /\ least <= bytes
  /\ allocations - frees = Cardinality(Owned)

(* What vPortGetHeapStats reports fits together if no one came between its *)
(* halves; otherwise the largest block may be more than what is available. *)
HalvesAgree == stats.step = "counted" /\ stats.same => stats.largest <= stats.available

Heap4Right == (ready => Partition /\ Joined /\ Counted) /\ HalvesAgree
==============================================================================
