----------------------------- MODULE MCDrivers -----------------------------
(***************************************************************************)
(* The smaller drivers of perlib, which share no state: side by side, for  *)
(* behaviours each of which is one of a single driver.  What each of them  *)
(* assumes of its environment is in its own module.  What they keep is     *)
(* proved at the end, for all constants.                                   *)
(***************************************************************************)
EXTENDS Integers, Sequences, FiniteSetsExt, FiniteSetTheorems,
        SequenceTheorems, WellFoundedInduction, TLAPS

CONSTANTS
  Base, Contents,  \* of Checksum
  MaxEvents,    \* of EthIrq
  Ticks, Burst, \* of Systick
  TimTicks,     \* of TimDelay: Ticks
  MaxOther,     \* of TimDelay
  MainLen, HandlerLen, MaxHandlers,  \* of UsartPrint
  MaxChars,     \* of UsartEcho
  Pins,         \* of Gpio
  SystemClk,    \* of Serial
  Slow, Fast    \* of Serial: Bauds

VARIABLES
  part,                                        \* the driver that is looked at
  data, size, pass, csPc, i, cs, result,       \* calculate_cs
  dmasr, irqAt, irqPc, irqWas, happened, reported, seen, news,  \* ETH_IRQHandler
  uif, tim6_ticks, timMs, timPc, handler, polled, elapsed, pending, timLost,
  others,                                      \* tim_delay_ms
  ticks, start, end, ms, pc, unread, passed,   \* systick_delay_ms
  datar, shift, line, at, printed, handlers, lost,  \* usart_put_str
  received, rxne, echoDatar, echoShift, echoLine, echoPc, c, busy,  \* the echo
  crystal, on, ready, sw, sws, pllsrc, step,   \* rcc_init
  keeps, miiar, miidr, complete, doing,        \* eth_phy_init
  cfgr, asked,                                 \* gpio_init
  num, system_clk, settings, clocked, pins, enabled, ctlr1, brr, initialising,
  received1, speed, begun, garbled,            \* usart_init
  tim, timCtlr1, preload, shadow, uie, setupUif, timEnabled, setupTicks, setting,
  ended, changed, switched, odd,               \* tim_init
  ethClocked, resetting, maccr, macffr, macfcr, dmaomr, dmaier, address, lists, flushed,
  ethEnabled, starting, frames                 \* eth_init

(* The header is of extreme bytes; the data and what lies behind it are one *)
(* byte throughout, zero or not.                                           *)
MCContents ==
  {[n \in 0 .. Base * Base - 1 |-> IF n < 4 THEN head[n] ELSE rest] :
     head \in [0 .. 3 -> {0, Base - 1}], rest \in {0, Base \div 2}}

Checksum == INSTANCE Checksum WITH pc <- csPc
Irq == INSTANCE EthIrq WITH at <- irqAt, pc <- irqPc, was <- irqWas
Tim == INSTANCE TimDelay
         WITH Ticks <- TimTicks, ms <- timMs, pc <- timPc, lost <- timLost
Systick == INSTANCE Systick
Printing == INSTANCE UsartPrint
Echo == INSTANCE UsartEcho
          WITH datar <- echoDatar, shift <- echoShift,
               line <- echoLine, pc <- echoPc
Rcc == INSTANCE Rcc
Mii == INSTANCE Mii WITH Bmcr <- {}, Bmsr <- {0}
Gpio == INSTANCE Gpio

Serial == INSTANCE Serial
  WITH Bauds <- {Slow, Fast},
       Asked <- {[baud |-> Fast, tx |-> TRUE, rx |-> TRUE, txIrq |-> FALSE, rxIrq |-> FALSE],
                 [baud |-> Slow, tx |-> TRUE, rx |-> FALSE, txIrq |-> FALSE, rxIrq |-> TRUE]},
       interrupts <- enabled, doing <- initialising, rxne <- received1
TimSetup == INSTANCE TimSetup
  WITH Ticks <- 3, ctlr1 <- timCtlr1, uif <- setupUif, interrupts <- timEnabled,
       tim6_ticks <- setupTicks, doing <- setting
EthSetup == INSTANCE EthSetup
  WITH clocked <- ethClocked, interrupts <- ethEnabled, doing <- starting, received <- frames

ASSUME DriversAssumption == Serial!SerialAssumption

(* What baud_init writes, ...                                              *)
Divider(clk, baud) == (clk \div baud) % 65536

(* ... which is exact when the clock is a multiple of the speed, by what   *)
(* fits into BRR.                                                          *)
Divides(clk) == clk \in Nat \ {0} /\ \A baud \in {Slow, Fast} : Divider(clk, baud) * baud = clk

(* The code's values: bytes, so an even Base, sixteen pins, and clocks that *)
(* are multiples of the speeds.                                            *)
ASSUME SizesAssumption ==
  /\ Base \in Nat /\ Base >= 2 /\ Base % 2 = 0
  /\ Contents \subseteq [0 .. Base * Base - 1 -> 0 .. Base - 1]
  /\ MaxEvents \in Nat
  /\ TimTicks \in Nat \ {0} /\ MaxOther \in Nat
  /\ Ticks \in Nat \ {0} /\ Burst \in Nat
  /\ MainLen \in Nat /\ HandlerLen \in Nat \ {0} /\ MaxHandlers \in Nat
  /\ MaxChars \in Nat
  /\ Pins \subseteq 0 .. 15
  /\ Divides(SystemClk) /\ Divides(SystemClk \div 2)

checksumVars == <<data, size, pass, csPc, i, cs, result>>
irqVars == <<dmasr, irqAt, irqPc, irqWas, happened, reported, seen, news>>
timVars == <<uif, tim6_ticks, timMs, timPc, handler, polled, elapsed,
             pending, timLost, others>>
systickVars == <<ticks, start, end, ms, pc, unread, passed>>
printVars == <<datar, shift, line, at, printed, handlers, lost>>
echoVars == <<received, rxne, echoDatar, echoShift, echoLine, echoPc, c, busy>>
rccVars == <<crystal, on, ready, sw, sws, pllsrc, step>>
miiVars == <<keeps, miiar, miidr, complete, doing>>
gpioVars == <<cfgr, asked>>
serialVars == <<num, system_clk, settings, clocked, pins, enabled, ctlr1, brr,
                initialising, received1, speed, begun, garbled>>
timSetupVars == <<tim, timCtlr1, preload, shadow, uie, setupUif, timEnabled, setupTicks,
                  setting, ended, changed, switched, odd>>
ethSetupVars == <<ethClocked, resetting, maccr, macffr, macfcr, dmaomr, dmaier, address,
                  lists, flushed, ethEnabled, starting, frames>>

vars == <<part, checksumVars, irqVars, timVars, systickVars, printVars,
          echoVars, rccVars, miiVars, gpioVars, serialVars, timSetupVars, ethSetupVars>>

-----------------------------------------------------------------------------
Others ==
  /\ UNCHANGED part
  /\ IF part = "checksum" THEN TRUE ELSE UNCHANGED checksumVars
  /\ IF part = "irq" THEN TRUE ELSE UNCHANGED irqVars
  /\ IF part = "tim" THEN TRUE ELSE UNCHANGED timVars
  /\ IF part = "systick" THEN TRUE ELSE UNCHANGED systickVars
  /\ IF part = "print" THEN TRUE ELSE UNCHANGED printVars
  /\ IF part = "echo" THEN TRUE ELSE UNCHANGED echoVars
  /\ IF part = "rcc" THEN TRUE ELSE UNCHANGED rccVars
  /\ IF part = "mii" THEN TRUE ELSE UNCHANGED miiVars
  /\ IF part = "gpio" THEN TRUE ELSE UNCHANGED gpioVars
  /\ IF part = "serial" THEN TRUE ELSE UNCHANGED serialVars
  /\ IF part = "tim setup" THEN TRUE ELSE UNCHANGED timSetupVars
  /\ IF part = "eth setup" THEN TRUE ELSE UNCHANGED ethSetupVars

(* The drivers not looked at begin in some state and stay there.           *)
Init ==
  /\ part \in {"checksum", "irq", "tim", "systick", "print", "echo", "rcc", "mii", "gpio",
              "serial", "tim setup", "eth setup"}
  /\ Checksum!Init /\ (part # "checksum" => size = 0 /\ \A n \in DOMAIN data : data[n] = 0)
  /\ Irq!Init /\ Tim!Init /\ Systick!Init /\ Printing!Init /\ Echo!Init
  /\ Rcc!Init /\ (part # "rcc" => crystal /\ sws = "hsi")
  /\ Mii!Init /\ (part # "mii" => keeps)
  /\ Gpio!Init
  /\ Serial!Init /\ (part # "serial" => num = 1 /\ system_clk = 0)
  /\ TimSetup!Init
  /\ EthSetup!Init /\ (part # "eth setup" => address = "reset")

Next ==
  \/ part = "checksum" /\ Checksum!Next /\ Others
  \/ part = "irq" /\ Irq!Next /\ Others
  \/ part = "tim" /\ Tim!Next /\ Others
  \/ part = "systick" /\ Systick!Next /\ Others
  \/ part = "print" /\ Printing!Next /\ Others
  \/ part = "echo" /\ Echo!Next /\ Others
  \/ part = "rcc" /\ Rcc!Next /\ Others
  \/ part = "mii" /\ Mii!Next /\ Others
  \/ part = "gpio" /\ Gpio!Next /\ Others
  \/ part = "serial" /\ Serial!Next /\ Others
  \/ part = "tim setup" /\ TimSetup!Next /\ Others
  \/ part = "eth setup" /\ EthSetup!Next /\ Others

(* The code goes on, ...                                                   *)
Code ==
  \/ part = "checksum" /\ Checksum!Next /\ Others
  \/ part = "irq" /\ Irq!Handler /\ Others
  \/ part = "tim" /\ Tim!Handlers /\ Others
  \/ part = "systick" /\ Systick!Loops /\ Others
  \/ part = "print" /\ Printing!Put /\ Others
  \/ part = "echo" /\ Echo!Handler /\ Others
  \/ part = "rcc" /\ Rcc!Program /\ Others
  \/ part = "mii" /\ Mii!Program /\ Others

(* ... and so do SysTick, a transmitter, the clock controller and the      *)
(* Ethernet controller, ...                                                *)
Hardware ==
  \/ part = "systick" /\ Systick!Tick /\ Others
  \/ part = "print" /\ Printing!Load /\ Others
  \/ part = "echo" /\ Echo!Load /\ Others
  \/ part = "rcc" /\ Rcc!Controller /\ Others
  \/ part = "mii" /\ Mii!Access /\ Others

(* ... the line behind a transmitter, and the PHY.                         *)
Line ==
  \/ part = "print" /\ Printing!Send /\ Others
  \/ part = "echo" /\ Echo!Send /\ Others
  \/ part = "mii" /\ Mii!Negotiate /\ Others

(* The main program polls between the handlers, and timer 6 runs.          *)
Poll == part = "tim" /\ Tim!DelayPoll /\ Others
Update == part = "tim" /\ Tim!Update /\ Others

FairSpec ==
  /\ Init /\ [][Next]_vars
  /\ WF_vars(Code) /\ WF_vars(Hardware) /\ WF_vars(Line)
  /\ SF_vars(Poll) /\ SF_vars(Update)

-----------------------------------------------------------------------------
(* What every state satisfies, driver by driver.                           *)
Inv ==
  CASE part = "checksum" -> Checksum!Inv
    [] part = "irq" -> Irq!Inv
    [] part = "tim" -> Tim!Inv
    [] part = "systick" -> Systick!TypeOK
    [] part = "print" -> Printing!Inv
    [] part = "echo" -> Echo!Inv
    [] part = "rcc" -> Rcc!Inv
    [] part = "mii" -> Mii!LinkRight
    [] part = "gpio" -> Gpio!PinsRight
    [] part = "serial" -> Serial!Inv
    [] part = "tim setup" -> TimSetup!Inv
    [] part = "eth setup" -> EthSetup!Inv

(* The two delays take the time they are asked for, with the exceptions    *)
(* that their modules state, ...                                           *)
WaitsMs == Tim!WaitsMs /\ Systick!WaitsMs

(* ... and end.                                                            *)
DelayEnds == Tim!DelayEnds /\ Systick!DelayEnds

(* The initialisations and the checksum's loop come to their end when they *)
(* can: with an oscillator, a controller that forgets, a size that does    *)
(* not make the counter wrap.                                              *)
LoopsEnd ==
  /\ part = "rcc" => Rcc!InitEnds
  /\ part = "mii" => Mii!InitEnds
  /\ part = "checksum" => Checksum!LoopEnds

(* What is printed is sent, a character that comes in while its handler is *)
(* idle is sent back, an event that comes alone is reported, and the       *)
(* Ethernet handler comes to rest.                                         *)
Served ==
  /\ part = "print" => Printing!AllSent
  /\ Echo!EchoedIfIdle
  /\ Irq!AloneReported
  /\ part = "irq" => Irq!Settles

-----------------------------------------------------------------------------
(* The proofs.  Numbers and sums: what is left of a number, ...            *)

(* A quotient and what is left.                                            *)
LEMMA DivMod ==
  ASSUME NEW n \in Nat, NEW m \in Nat \ {0}
  PROVE  n % m \in 0 .. m - 1 /\ n \div m \in Nat /\ n = m * (n \div m) + (n % m)
OBVIOUS

(* What is left behind whole rounds is one value only.                     *)
LEMMA RestUnique ==
  ASSUME NEW k \in Nat \ {0}, NEW m \in Int, NEW n \in Int,
         NEW t \in 0 .. k - 1, NEW o \in 0 .. k - 1,
         t + m * k = o + n * k
  PROVE  t = o /\ m = n
<1>1. CASE m = n
  BY <1>1
<1>2. CASE m # n
  <2>1. PICK d \in Nat \ {0} : d = m - n \/ d = n - m
    <3>1. m - n \in Nat \ {0} \/ n - m \in Nat \ {0}
      BY <1>2
    <3>2. QED
      BY <3>1
  <2>2. d * k >= k
    <3>1. d * k = (d - 1) * k + k /\ (d - 1) * k >= 0
      OBVIOUS
    <3>2. QED
      BY <3>1
  <2>3. (m - n) * k = m * k - n * k /\ (n - m) * k = n * k - m * k
    OBVIOUS
  <2>4. m * k \in Int /\ n * k \in Int
    OBVIOUS
  <2>5. QED
    BY <2>1, <2>2, <2>3, <2>4
<1>3. QED
  BY <1>1, <1>2

-----------------------------------------------------------------------------
(* ... and what a sum over a finite set is: the community modules define it*)
(* by a recursive function over the subsets.                               *)

(* Every non-empty set of naturals has a least element, ...                *)
LEMMA Least ==
  ASSUME NEW T, T \subseteq Nat, T # {}
  PROVE  \E n \in T : \A m \in T : n <= m
<1> DEFINE R == OpToRel(<, Nat)
<1>1. IsWellFoundedOn(R, Nat)
  BY NatLessThanWellFounded
<1>2. \A x, y \in Nat : <<y, x>> \in R <=> y < x
  BY DEF OpToRel
<1> HIDE DEF R
<1>3. PICK x \in T : \A y \in T : ~ (<<y, x>> \in R)
  BY <1>1, WFMin
<1>4. \A y \in T : ~ (y < x)
  BY <1>2, <1>3
<1>5. QED
  BY <1>4

(* ... so that a set of sets which has {} and every finite set whose       *)
(* subsets with one element less it has, has all finite sets.              *)
LEMMA SetInduct ==
  ASSUME NEW S, IsFiniteSet(S), NEW P, {} \in P,
         \A T \in SUBSET S : T # {} /\ (\A x \in T : T \ {x} \in P) => T \in P
  PROVE  SUBSET S \subseteq P
<1> SUFFICES ASSUME (SUBSET S) \ P # {} PROVE FALSE
  OBVIOUS
<1> DEFINE Sizes == {Cardinality(T) : T \in (SUBSET S) \ P}
<1>1. \A T \in SUBSET S : IsFiniteSet(T) /\ Cardinality(T) \in Nat
  BY FS_Subset, FS_CardinalityType
<1>2. Sizes \subseteq Nat /\ Sizes # {}
  BY <1>1
<1>3. PICK n \in Sizes : \A m \in Sizes : n <= m
  <2> HIDE DEF Sizes
  <2>1. QED
    BY <1>2, Least
<1>4. PICK T \in (SUBSET S) \ P : Cardinality(T) = n
  OBVIOUS
<1>5. T # {}
  BY <1>4
<1>6. ASSUME NEW x \in T PROVE T \ {x} \in P
  <2>1. Cardinality(T \ {x}) = Cardinality(T) - 1
    BY <1>1, <1>4, FS_RemoveElement
  <2>2. T \ {x} \in SUBSET S
    BY <1>4
  <2>3. T \ {x} \notin P => Cardinality(T \ {x}) \in Sizes
    BY <2>2
  <2>4. T \ {x} \notin P => n <= n - 1 /\ n \in Nat
    BY <1>1, <1>3, <1>4, <2>1, <2>3
  <2>5. QED
    BY <2>4
<1>7. QED
  BY <1>4, <1>5, <1>6

-----------------------------------------------------------------------------
(* The sum that MapThenSumSet computes, of a function over a set.          *)
SumOf(f, S) == MapThenSumSet(LAMBDA x : f[x], S)

(* The element that CHOOSE takes first.                                    *)
One(s) == CHOOSE x \in s : TRUE

(* The function that it is defined with.                                   *)
Sums(g, f, S) ==
  g = [s \in SUBSET S |-> IF s = {} THEN 0 ELSE f[One(s)] + g[s \ {One(s)}]]

(* That function for S.                                                    *)
SumsOf(f, S) == CHOOSE g : Sums(g, f, S)

(* The definition of the sum, opened.                                      *)
LEMMA SumUnfold ==
  ASSUME NEW f, NEW S
  PROVE  SumOf(f, S) = SumsOf(f, S)[S]
  BY DEF SumOf, MapThenSumSet, MapThenFoldSet, SumsOf, Sums, One

(* The first is one of them.                                               *)
LEMMA OneIn == \A s : s # {} => One(s) \in s
  BY DEF One

(* Two such functions agree, ...                                           *)
LEMMA SumsUnique ==
  ASSUME NEW f, NEW S, NEW T, IsFiniteSet(S), T \subseteq S,
         NEW g, NEW h, Sums(g, f, S), Sums(h, f, T)
  PROVE  \A s \in SUBSET T : g[s] = h[s]
<1> DEFINE P == {s \in SUBSET T : g[s] = h[s]}
<1>1. \A s \in SUBSET T :
        /\ g[s] = IF s = {} THEN 0 ELSE f[One(s)] + g[s \ {One(s)}]
        /\ h[s] = IF s = {} THEN 0 ELSE f[One(s)] + h[s \ {One(s)}]
  BY DEF Sums
<1>2. {} \in P
  BY <1>1
<1>3. ASSUME NEW s \in SUBSET T, s # {}, \A x \in s : s \ {x} \in P PROVE s \in P
  BY <1>1, <1>3, OneIn
<1>4. IsFiniteSet(T)
  BY FS_Subset
<1> HIDE DEF P
<1>5. SUBSET T \subseteq P
  BY <1>2, <1>3, <1>4, SetInduct
<1>6. QED
  BY <1>5 DEF P

(* ... and there is one.                                                   *)
LEMMA SumsExist ==
  ASSUME NEW f, NEW S, IsFiniteSet(S)
  PROVE  \A T \in SUBSET S : Sums(SumsOf(f, T), f, T)
<1> DEFINE P == {T \in SUBSET S : \A U \in SUBSET T : Sums(SumsOf(f, U), f, U)}
<1>1. \A T \in SUBSET S : IsFiniteSet(T)
  BY FS_Subset
<1>2. ASSUME NEW T \in SUBSET S, \A U \in SUBSET T : U # T => Sums(SumsOf(f, U), f, U)
      PROVE  Sums(SumsOf(f, T), f, T)
  <2> DEFINE Rest(s) == s \ {One(s)}
             h == [s \in SUBSET T |->
                     IF s = {} THEN 0 ELSE f[One(s)] + SumsOf(f, Rest(s))[Rest(s)]]
  <2>1. ASSUME NEW u \in SUBSET T, u # T PROVE h[u] = SumsOf(f, u)[u]
    <3>1. Sums(SumsOf(f, u), f, u)
      BY <1>2, <2>1
    <3>2. SumsOf(f, u)[u] = IF u = {} THEN 0 ELSE f[One(u)] + SumsOf(f, u)[Rest(u)]
      BY <3>1 DEF Sums
    <3>3. CASE u = {}
      BY <3>2, <3>3
    <3>4. CASE u # {}
      <4>1. One(u) \in u /\ Rest(u) \in SUBSET u /\ Rest(u) # T
        BY <3>4, OneIn
      <4>2. Sums(SumsOf(f, Rest(u)), f, Rest(u))
        BY <1>2, <4>1
      <4>3. SumsOf(f, u)[Rest(u)] = SumsOf(f, Rest(u))[Rest(u)]
        <5> DEFINE r == Rest(u)
                   g1 == SumsOf(f, u)
                   g2 == SumsOf(f, r)
        <5>1. IsFiniteSet(u) /\ r \subseteq u /\ Sums(g1, f, u) /\ Sums(g2, f, r)
          BY <1>1, <3>1, <4>1, <4>2
        <5> HIDE DEF r, g1, g2
        <5>2. g1[r] = g2[r]
          BY <5>1, SumsUnique
        <5>3. QED
          BY <5>2 DEF r, g1, g2
      <4>4. QED
        BY <3>2, <3>4, <4>3
    <3>5. QED
      BY <3>3, <3>4
  <2>2. ASSUME NEW s \in SUBSET T, s # {} PROVE h[Rest(s)] = SumsOf(f, Rest(s))[Rest(s)]
    <3>1. One(s) \in s
      BY <2>2, OneIn
    <3>2. Rest(s) \in SUBSET T /\ Rest(s) # T
      BY <3>1
    <3>3. QED
      BY <2>1, <3>2
  <2>3. h = [s \in SUBSET T |-> IF s = {} THEN 0 ELSE f[One(s)] + h[Rest(s)]]
    BY <2>2
  <2>4. Sums(h, f, T)
    BY <2>3 DEF Sums
  <2>5. QED
    BY <2>4 DEF SumsOf
<1>3. {} \in P
  BY <1>2
<1>4. ASSUME NEW T \in SUBSET S, T # {}, \A x \in T : T \ {x} \in P PROVE T \in P
  <2>1. ASSUME NEW U \in SUBSET T, U # T PROVE Sums(SumsOf(f, U), f, U)
    <3>1. PICK x \in T : x \notin U
      BY <2>1
    <3>2. T \ {x} \in P /\ U \in SUBSET (T \ {x})
      BY <1>4, <3>1
    <3>3. QED
      BY <3>2
  <2>2. Sums(SumsOf(f, T), f, T)
    BY <1>2, <2>1
  <2>3. QED
    BY <2>1, <2>2
<1> HIDE DEF P
<1>5. SUBSET S \subseteq P
  BY <1>3, <1>4, SetInduct
<1>6. QED
  BY <1>5 DEF P

(* It takes one element at a time, and it does not matter which.           *)
LEMMA SumStep ==
  ASSUME NEW S, IsFiniteSet(S), NEW f \in [S -> Nat]
  PROVE  /\ SumOf(f, {}) = 0
         /\ \A T \in SUBSET S : SumOf(f, T) \in Nat
         /\ \A T \in SUBSET S : \A x \in T : SumOf(f, T) = f[x] + SumOf(f, T \ {x})
<1>1. \A T \in SUBSET S : Sums(SumsOf(f, T), f, T)
  BY SumsExist
<1>2. SumOf(f, {}) = 0
  BY <1>1, SumUnfold DEF Sums
<1>3. ASSUME NEW T \in SUBSET S, T # {}
      PROVE  SumOf(f, T) = f[One(T)] + SumOf(f, T \ {One(T)})
  <2>1. One(T) \in T /\ IsFiniteSet(T)
    BY <1>3, OneIn, FS_Subset
  <2>2. SumsOf(f, T)[T] = f[One(T)] + SumsOf(f, T)[T \ {One(T)}]
    BY <1>1, <1>3 DEF Sums
  <2>3. SumsOf(f, T)[T \ {One(T)}] = SumsOf(f, T \ {One(T)})[T \ {One(T)}]
    BY <1>1, <2>1, SumsUnique
  <2>4. QED
    BY <2>2, <2>3, SumUnfold
<1>4. \A T \in SUBSET S : SumOf(f, T) \in Nat
  <2> DEFINE P == {T \in SUBSET S : SumOf(f, T) \in Nat}
  <2>1. {} \in P
    BY <1>2
  <2>2. ASSUME NEW T \in SUBSET S, T # {}, \A x \in T : T \ {x} \in P PROVE T \in P
    <3>1. One(T) \in T
      BY <2>2, OneIn
    <3>2. SumOf(f, T \ {One(T)}) \in Nat /\ f[One(T)] \in Nat
      BY <2>2, <3>1
    <3>3. SumOf(f, T) = f[One(T)] + SumOf(f, T \ {One(T)})
      BY <1>3, <2>2
    <3>4. QED
      BY <3>2, <3>3
  <2> HIDE DEF P
  <2>3. SUBSET S \subseteq P
    BY <2>1, <2>2, SetInduct
  <2>4. QED
    BY <2>3 DEF P
<1> DEFINE P == {T \in SUBSET S : \A x \in T : SumOf(f, T) = f[x] + SumOf(f, T \ {x})}
<1>5. {} \in P
  OBVIOUS
<1>6. ASSUME NEW T \in SUBSET S, T # {}, \A x \in T : T \ {x} \in P PROVE T \in P
  <2> DEFINE o == One(T)
  <2>1. o \in T /\ f[o] \in Nat
    BY <1>6, OneIn
  <2>2. SumOf(f, T) = f[o] + SumOf(f, T \ {o})
    BY <1>3, <1>6
  <2> HIDE DEF o
  <2>3. ASSUME NEW x \in T PROVE SumOf(f, T) = f[x] + SumOf(f, T \ {x})
    <3>1. CASE x = o
      BY <2>2, <3>1
    <3>2. CASE x # o
      <4> DEFINE U == T \ {o, x}
      <4>1. T \ {o} \in P /\ T \ {x} \in P
        BY <1>6, <2>1
      <4>2. x \in T \ {o} /\ o \in T \ {x} /\ (T \ {o}) \ {x} = U /\ (T \ {x}) \ {o} = U
        BY <2>1, <3>2
      <4>3. SumOf(f, T \ {o}) = f[x] + SumOf(f, U)
        BY <4>1, <4>2
      <4>4. SumOf(f, T \ {x}) = f[o] + SumOf(f, U)
        BY <4>1, <4>2
      <4>5. SumOf(f, U) \in Nat /\ f[x] \in Nat
        BY <1>4
      <4>6. QED
        BY <2>1, <2>2, <4>3, <4>4, <4>5
    <3>3. QED
      BY <3>1, <3>2
  <2>4. QED
    BY <2>3
<1> HIDE DEF P
<1>7. SUBSET S \subseteq P
  BY <1>5, <1>6, SetInduct
<1>8. QED
  BY <1>2, <1>4, <1>7 DEF P

(* A sum is one of the values that are added up.                           *)
LEMMA SumSame ==
  ASSUME NEW S, IsFiniteSet(S), NEW f \in [S -> Nat], NEW g \in [S -> Nat],
         NEW T \in SUBSET S, \A x \in T : f[x] = g[x]
  PROVE  SumOf(f, T) = SumOf(g, T)
<1> DEFINE P == {U \in SUBSET T : SumOf(f, U) = SumOf(g, U)}
<1>1. {} \in P
  BY SumStep
<1>2. ASSUME NEW U \in SUBSET T, U # {}, \A x \in U : U \ {x} \in P PROVE U \in P
  <2>1. PICK x \in U : TRUE
    BY <1>2
  <2>2. SumOf(f, U) = f[x] + SumOf(f, U \ {x}) /\ SumOf(g, U) = g[x] + SumOf(g, U \ {x})
    <3>1. U \in SUBSET S
      OBVIOUS
    <3>2. QED
      BY <3>1, SumStep
  <2>3. SumOf(f, U \ {x}) = SumOf(g, U \ {x}) /\ f[x] = g[x]
    BY <1>2
  <2>4. QED
    BY <2>2, <2>3
<1>3. IsFiniteSet(T)
  BY FS_Subset
<1> HIDE DEF P
<1>4. SUBSET T \subseteq P
  BY <1>1, <1>2, <1>3, SetInduct
<1>5. QED
  BY <1>4 DEF P

-----------------------------------------------------------------------------
(* ETH_IRQHandler.                                                         *)

(* Six flags, all different.                                               *)
LEMMA OrderFacts ==
  /\ Irq!Last = 7 /\ Irq!Flags = {Irq!Order[n] : n \in 1 .. 6}
  /\ \A n, o \in 1 .. 6 : Irq!Order[n] = Irq!Order[o] => n = o
  BY DEF Irq!Last, Irq!Flags, Irq!Order

(* What the two properties rest on holds in every state.                   *)
LEMMA IrqInductive == Irq!Spec => []Irq!IrqInv
<1> USE OrderFacts
<1>1. Irq!Init => Irq!IrqInv
  BY DEF Irq!Init, Irq!IrqInv, Irq!ReportedOnce, Irq!NeverSilent
<1>2. Irq!IrqInv /\ [Irq!Next]_(Irq!vars) => Irq!IrqInv'
  <2> SUFFICES ASSUME Irq!IrqInv, [Irq!Next]_(Irq!vars) PROVE Irq!IrqInv'
    OBVIOUS
  <2> USE DEF Irq!IrqInv, Irq!ReportedOnce, Irq!NeverSilent
  <2>1. ASSUME NEW f \in Irq!Flags, Irq!Event(f) PROVE Irq!IrqInv'
    BY <2>1 DEF Irq!Event
  <2>2. CASE Irq!TransmitAck
    BY <2>2 DEF Irq!TransmitAck
  <2>3. CASE Irq!Enter
    BY <2>3 DEF Irq!Enter
  <2>4. CASE Irq!Report
    BY <2>4 DEF Irq!Report
  <2>5. CASE Irq!Skip
    BY <2>5 DEF Irq!Skip
  <2>6. CASE Irq!AckRead
    BY <2>6 DEF Irq!AckRead
  <2>7. CASE Irq!AckWrite
    BY <2>7 DEF Irq!AckWrite
  <2>8. CASE UNCHANGED Irq!vars
    BY <2>8 DEF Irq!vars
  <2>9. QED
    BY <2>1, <2>2, <2>3, <2>4, <2>5, <2>6, <2>7, <2>8 DEF Irq!Next, Irq!Handler
<1>3. QED
  BY <1>1, <1>2, PTL DEF Irq!Spec

(* However the events fall between the tests, reads and writes of          *)
(* ETH_IRQHandler (snippets/brieip/main.c), none is reported twice, and no *)
(* interrupt passes without a report.                                      *)
THEOREM IrqReports == Irq!Spec => [](Irq!ReportedOnce /\ Irq!NeverSilent)
<1>1. Irq!IrqInv => Irq!ReportedOnce /\ Irq!NeverSilent
  BY DEF Irq!IrqInv
<1>2. QED
  BY <1>1, IrqInductive, PTL

(* No event counts for less than itself.                                   *)
LEMMA EventBound ==
  ASSUME happened \in [Irq!Flags -> Nat], NEW f \in Irq!Flags, Irq!Event(f), MaxEvents \in Nat
  PROVE  happened[f] < MaxEvents
<1>1. IsFiniteSet(Irq!Flags)
  <2>1. Irq!Flags = {Irq!Order[n] : n \in 1 .. 6}
    BY OrderFacts
  <2>0. IsFiniteSet(1 .. 6)
    <3>1. \A m, n \in Int : IsFiniteSet(m .. n)
      BY FS_Interval
    <3>2. 1 \in Int /\ 6 \in Int
      BY SMT
    <3>3. QED
      BY <3>1, <3>2, Zenon
  <2> DEFINE g == [n \in 1 .. 6 |-> Irq!Order[n]]
  <2>2. g \in Surjection(1 .. 6, Irq!Flags)
    BY <2>1 DEF Surjection
  <2> HIDE DEF g
  <2>3. QED
    BY <2>0, <2>2, FS_Surjection
<1>2. SumOf(happened, Irq!Flags) < MaxEvents
  BY DEF Irq!Event, SumOf, MapThenSumSet, MapThenFoldSet, Irq!MapThenSumSet, Irq!MapThenFoldSet
<1>3. SumOf(happened, Irq!Flags) = happened[f] + SumOf(happened, Irq!Flags \ {f})
      /\ SumOf(happened, Irq!Flags \ {f}) \in Nat
  <2> DEFINE F == Irq!Flags
             h == happened
  <2>1. IsFiniteSet(F) /\ h \in [F -> Nat] /\ f \in F
    BY <1>1
  <2> HIDE DEF F, h
  <2>2. SumOf(h, F) = h[f] + SumOf(h, F \ {f}) /\ SumOf(h, F \ {f}) \in Nat
    BY <2>1, SumStep
  <2>3. QED
    BY <2>2 DEF F, h
<1>4. QED
  BY <1>2, <1>3

(* The handler keeps to its flags, and no more happens than the bound.     *)
LEMMA IrqInvariants ==
  ASSUME MaxEvents \in Nat
  PROVE  Irq!Spec => []Irq!Inv
<1> DEFINE Types == /\ irqWas \subseteq Irq!Flags /\ news \subseteq Irq!Flags
                    /\ \A f \in Irq!Flags : happened[f] <= MaxEvents
<1>1. Irq!Init => Types
  BY OrderFacts DEF Irq!Init
<1>2. Irq!IrqInv /\ Types /\ [Irq!Next]_(Irq!vars) => Types'
  <2> SUFFICES ASSUME Irq!IrqInv, Types, [Irq!Next]_(Irq!vars) PROVE Types'
    OBVIOUS
  <2>0. dmasr \subseteq Irq!Flags /\ happened \in [Irq!Flags -> Nat] /\ irqAt \in 0 .. 7
        /\ \A n \in 1 .. 6 : Irq!Order[n] \in Irq!Flags
    BY OrderFacts DEF Irq!IrqInv
  <2>1. ASSUME NEW f \in Irq!Flags, Irq!Event(f) PROVE Types'
    <3>1. happened[f] < MaxEvents
      BY <2>0, <2>1, EventBound
    <3>2. happened' = [happened EXCEPT ![f] = @ + 1] /\ UNCHANGED <<irqWas, news>>
      BY <2>1 DEF Irq!Event
    <3>3. ASSUME NEW g \in Irq!Flags PROVE happened'[g] <= MaxEvents
      <4>1. CASE g = f
        BY <2>0, <3>1, <3>2, <4>1
      <4>2. CASE g # f
        BY <2>0, <3>2, <4>2
      <4>3. QED
        BY <4>1, <4>2
    <3>4. irqWas' \subseteq Irq!Flags' /\ news' \subseteq Irq!Flags' /\ Irq!Flags' = Irq!Flags
      BY <3>2 DEF Irq!Flags
    <3>5. QED
      BY <3>3, <3>4
  <2>2. CASE Irq!TransmitAck
    BY <2>2 DEF Irq!TransmitAck, Irq!Flags
  <2>3. CASE Irq!Handler
    BY <2>0, <2>3, OrderFacts
       DEF Irq!Handler, Irq!Enter, Irq!Report, Irq!Skip, Irq!AckRead, Irq!AckWrite, Irq!Flags
  <2>4. CASE UNCHANGED Irq!vars
    BY <2>4 DEF Irq!vars, Irq!Flags
  <2>5. QED
    BY <2>1, <2>2, <2>3, <2>4 DEF Irq!Next
<1>3. Irq!IrqInv /\ Types => Irq!Inv
  BY OrderFacts DEF Irq!IrqInv, Irq!Inv, Irq!TypeOK
<1> HIDE DEF Types
<1>4. QED
  BY <1>1, <1>2, <1>3, IrqInductive, PTL DEF Irq!Spec

-----------------------------------------------------------------------------
(* tim_delay_ms.                                                           *)

(* Each period but those that were missed makes room for one round.        *)
LEMMA DelayBound ==
  ASSUME TimTicks \in Nat \ {0}, MaxOther \in Nat,
         NEW o \in 0 .. MaxOther, NEW l \in 0 .. o, NEW m \in 0 .. TimTicks - 1,
         NEW k \in Int, NEW e \in Nat, k < m + (o - l) * TimTicks, e <= k + l + 1
  PROVE  e < (MaxOther + 1) * TimTicks
<1>1. l * TimTicks >= l /\ l * TimTicks \in Nat
  OBVIOUS
<1>2. (MaxOther - o) * TimTicks \in Nat /\ (o - l) * TimTicks \in Nat
  <2>1. MaxOther - o \in Nat /\ o - l \in Nat
    OBVIOUS
  <2>2. QED
    BY <2>1
<1>3. (MaxOther + 1) * TimTicks
        = (MaxOther - o) * TimTicks + (o - l) * TimTicks + l * TimTicks + TimTicks
  OBVIOUS
<1>4. QED
  BY <1>1, <1>2, <1>3

(* Every state of a delay satisfies it.                                    *)
LEMMA TimInvariant ==
  ASSUME TimTicks \in Nat \ {0}, MaxOther \in Nat
  PROVE  Tim!Spec => []Tim!DelayInv
<1> USE DEF Tim!DelayInv
<1>0. \A n \in Nat : n * TimTicks \in Nat /\ (n + 1) * TimTicks = n * TimTicks + TimTicks
  OBVIOUS
<1>a. Tim!Longest \in Nat \ {0}
  BY <1>0 DEF Tim!Longest
<1>1. Tim!Init => Tim!DelayInv
  <2>1. Tim!Init => Tim!DelayTypes
    BY <1>a DEF Tim!Init, Tim!DelayTypes
  <2>2. Tim!Init => Tim!DelayCount
    BY DEF Tim!Init, Tim!DelayCount
  <2>3. Tim!Init => Tim!DelayFlags
    BY DEF Tim!Init, Tim!DelayFlags
  <2>4. QED
    BY <2>1, <2>2, <2>3
<1>2. Tim!DelayInv /\ [Tim!Next]_(Tim!vars) => Tim!DelayInv'
  <2> SUFFICES ASSUME Tim!DelayInv, [Tim!Next]_(Tim!vars) PROVE Tim!DelayInv'
    OBVIOUS
  <2>f. Tim!DelayFlags'
    BY DEF Tim!Next, Tim!Handlers, Tim!DelaySet, Tim!DelayPoll, Tim!TimEnter, Tim!TimCount,
           Tim!TimClear, Tim!OtherEnter, Tim!OtherLeave, Tim!Update, Tim!UpdateIdle, Tim!vars,
           Tim!DelayFlags
  <2>t. tim6_ticks \in 0 .. TimTicks - 1 /\ timMs \in 0 .. TimTicks - 1
    BY DEF Tim!DelayTypes
  <2>a. Tim!Counted \in Int /\ Tim!Slack \in Nat
    BY <1>0 DEF Tim!Counted, Tim!Slack, Tim!DelayTypes
  <2>b. UNCHANGED <<timLost, others>> => UNCHANGED Tim!Slack
    BY DEF Tim!Slack
  <2>d. UNCHANGED <<Tim!Counted, tim6_ticks>> => UNCHANGED Tim!InStep
    BY DEF Tim!InStep
  <2>e. UNCHANGED Tim!Longest
    BY DEF Tim!Longest
  <2>c. /\ UNCHANGED <<elapsed, timLost, pending>>
        /\ (uif' /\ handler' # "clear") <=> (uif /\ handler # "clear")
        => UNCHANGED Tim!Counted
    BY DEF Tim!Counted
  <2>1. CASE Tim!DelaySet
    <3>1. Tim!Counted' = 0 /\ Tim!Slack' = 0
      BY <2>1 DEF Tim!DelaySet, Tim!Counted, Tim!Slack
    <3>2. Tim!InStep'
      <4>1. Tim!Counted' = tim6_ticks' + 0 * TimTicks
        BY <2>1, <3>1 DEF Tim!DelaySet
      <4>2. QED
        BY <4>1 DEF Tim!InStep
    <3>3. Tim!DelayTypes'
      BY <1>a, <2>1, <2>e DEF Tim!DelaySet, Tim!DelayTypes
    <3>4. Tim!DelayCount'
      <4>1. timPc' = "poll" => timMs' \in Nat \ {0} /\ tim6_ticks' = 0
        BY <2>1 DEF Tim!DelaySet
      <4>2. QED
        BY <3>1, <3>2, <4>1 DEF Tim!DelayCount
    <3>5. QED
      BY <2>f, <3>3, <3>4
  <2>2. CASE Tim!DelayPoll
    <3>1. Tim!DelayTypes'
      BY <2>a, <2>b, <2>c, <2>d, <2>e, <2>2 DEF Tim!DelayPoll, Tim!DelayTypes
    <3>2. Tim!DelayCount'
      BY <2>a, <2>b, <2>c, <2>d, <2>e, <2>2 DEF Tim!DelayPoll, Tim!DelayTypes, Tim!DelayCount
    <3>3. QED
      BY <2>f, <3>1, <3>2
  <2>3. CASE Tim!TimEnter
    <3>1. Tim!DelayTypes'
      BY <2>a, <2>b, <2>c, <2>d, <2>e, <2>3 DEF Tim!TimEnter, Tim!DelayTypes
    <3>2. Tim!DelayCount'
      BY <2>a, <2>b, <2>c, <2>d, <2>e, <2>3 DEF Tim!TimEnter, Tim!DelayTypes, Tim!DelayCount
    <3>3. QED
      BY <2>f, <3>1, <3>2
  <2>4. CASE Tim!TimCount
    <3>1. uif /\ tim6_ticks' = IF tim6_ticks = TimTicks - 1 THEN 0 ELSE tim6_ticks + 1
      BY <2>4 DEF Tim!TimCount, Tim!DelayTypes, Tim!DelayCount
    <3>2. Tim!Counted' = Tim!Counted + 1
      BY <2>4, <3>1 DEF Tim!TimCount, Tim!Counted, Tim!DelayTypes, Tim!DelayCount
    <3>3. ASSUME timPc = "poll"
          PROVE  Tim!InStep'
      <4>1. PICK rounds \in Nat : Tim!Counted = tim6_ticks + rounds * TimTicks
        BY <3>3 DEF Tim!InStep, Tim!DelayCount
      <4>2. rounds + 1 \in Nat /\ rounds * TimTicks \in Nat
            /\ (rounds + 1) * TimTicks = rounds * TimTicks + TimTicks
        BY <1>0
      <4>3. CASE tim6_ticks = TimTicks - 1
        <5>1. Tim!Counted' = tim6_ticks' + (rounds + 1) * TimTicks
          BY <2>t, <3>1, <3>2, <4>1, <4>2, <4>3
        <5>2. QED
          BY <4>2, <5>1, Zenon DEF Tim!InStep
      <4>4. CASE tim6_ticks # TimTicks - 1
        <5>1. Tim!Counted' = tim6_ticks' + rounds * TimTicks
          BY <2>t, <3>1, <3>2, <4>1, <4>2, <4>4
        <5>2. QED
          BY <5>1, Zenon DEF Tim!InStep
      <4>5. QED
        BY <4>3, <4>4
    <3>4. tim6_ticks' \in 0 .. TimTicks - 1 /\ handler' = "clear"
          /\ UNCHANGED <<uif, timMs, timPc, polled, elapsed, pending, timLost, others>>
      BY <2>4, <3>1 DEF Tim!TimCount, Tim!DelayTypes, Tim!DelayCount
    <3>5. timPc = "poll" => Tim!Counted < timMs + Tim!Slack
      BY <2>4, <3>1 DEF Tim!TimCount, Tim!DelayTypes, Tim!DelayCount
    <3>6. timPc = "poll" => Tim!Counted' <= timMs + Tim!Slack'
      BY <2>a, <2>b, <2>t, <3>2, <3>4, <3>5
    <3>7. Tim!DelayTypes'
      BY <2>e, <3>1, <3>4 DEF Tim!DelayTypes
    <3>8. Tim!DelayCount'
      BY <3>3, <3>4, <3>6 DEF Tim!DelayCount
    <3>9. QED
      BY <2>f, <3>7, <3>8
  <2>5. CASE Tim!TimClear
    <3>1. Tim!DelayTypes'
      BY <2>a, <2>b, <2>c, <2>d, <2>e, <2>5 DEF Tim!TimClear, Tim!DelayTypes
    <3>2. Tim!DelayCount'
      BY <2>a, <2>b, <2>c, <2>d, <2>e, <2>5 DEF Tim!TimClear, Tim!DelayTypes, Tim!DelayCount
    <3>3. QED
      BY <2>f, <3>1, <3>2
  <2>6. CASE Tim!OtherEnter
    <3>1. Tim!DelayTypes'
      BY <2>a, <2>b, <2>c, <2>d, <2>e, <2>6 DEF Tim!OtherEnter, Tim!DelayTypes
    <3>2. Tim!DelayCount'
      BY <2>a, <2>b, <2>c, <2>d, <2>e, <2>6 DEF Tim!OtherEnter, Tim!DelayTypes, Tim!DelayCount
    <3>3. QED
      BY <2>f, <3>1, <3>2
  <2>7. CASE Tim!OtherLeave
    <3>1. Tim!DelayTypes'
      BY <2>a, <2>b, <2>c, <2>d, <2>e, <2>7 DEF Tim!OtherLeave, Tim!DelayTypes
    <3>2. Tim!DelayCount'
      BY <2>a, <2>b, <2>c, <2>d, <2>e, <2>7 DEF Tim!OtherLeave, Tim!DelayTypes, Tim!DelayCount
    <3>3. QED
      BY <2>f, <3>1, <3>2
  <2>8. CASE Tim!Update
    <3>1. Tim!Counted' = Tim!Counted
      BY <2>8 DEF Tim!Update, Tim!Counted, Tim!DelayTypes, Tim!DelayCount
    <3>2. PICK rounds \in Nat : Tim!Counted = tim6_ticks + rounds * TimTicks
      BY <2>8 DEF Tim!Update, Tim!InStep, Tim!DelayTypes, Tim!DelayCount
    <3>3. Tim!InStep'
      BY <2>8, <2>d, <3>1 DEF Tim!Update, Tim!DelayCount
    <3>4. Tim!Slack' \in Nat /\ Tim!Counted < timMs + Tim!Slack'
      <4>1. CASE handler = "none"
        <5>1. Tim!Counted <= timMs + Tim!Slack /\ tim6_ticks # timMs /\ UNCHANGED Tim!Slack
          BY <2>8, <2>b, <4>1 DEF Tim!Update, Tim!DelayTypes, Tim!DelayCount
        <5>2. Tim!Counted # timMs + (others - timLost) * TimTicks
          <6> DEFINE r == others - timLost
          <6>1. r \in Int /\ rounds \in Int /\ TimTicks \in Nat \ {0}
            BY DEF Tim!DelayTypes, Tim!DelayCount
          <6> HIDE DEF r
          <6>2. tim6_ticks + rounds * TimTicks # timMs + r * TimTicks
            BY <2>t, <5>1, <6>1, RestUnique, Zenon
          <6>3. QED
            BY <3>2, <6>2 DEF r
        <5>4. Tim!Counted # timMs + Tim!Slack
          BY <5>2 DEF Tim!Slack
        <5>5. QED
          BY <2>a, <2>t, <5>1, <5>4
      <4>2. CASE handler = "other" /\ uif
        <5>1. Tim!Counted < timMs + Tim!Slack
          BY <2>8, <4>2 DEF Tim!Update, Tim!DelayTypes, Tim!DelayCount
        <5>2. others' - timLost' = others - timLost
          BY <2>8, <4>2 DEF Tim!Update, Tim!DelayTypes, Tim!DelayCount
        <5>3. UNCHANGED Tim!Slack
          BY <5>2 DEF Tim!Slack
        <5>4. QED
          BY <2>a, <2>t, <5>1, <5>3
      <4>3. CASE handler = "other" /\ ~uif
        <5>1. Tim!Counted <= timMs + Tim!Slack
          BY <2>8 DEF Tim!Update, Tim!DelayTypes, Tim!DelayCount
        <5>2. others' - timLost' = (others - timLost) + 1 /\ others - timLost \in Nat
          BY <2>8, <4>3 DEF Tim!Update, Tim!DelayTypes, Tim!DelayCount
        <5>3. Tim!Slack' = Tim!Slack + TimTicks
          BY <1>0, <5>2 DEF Tim!Slack
        <5>4. QED
          BY <2>a, <2>t, <5>1, <5>3
      <4>4. QED
        BY <2>8, <4>1, <4>2, <4>3 DEF Tim!Update
    <3>5. /\ elapsed' \in Nat /\ timLost' \in Nat /\ others' \in 0 .. MaxOther
          /\ timLost' <= others'
      BY <2>8 DEF Tim!Update, Tim!DelayTypes, Tim!DelayCount
    <3>6. elapsed' < Tim!Longest
      <4>1. elapsed' <= Tim!Counted' + timLost' + 1
        BY <2>8, <3>5 DEF Tim!Counted, Tim!Update, Tim!DelayTypes
      <4>2. elapsed' <= Tim!Counted + timLost' + 1
        BY <3>1, <4>1
      <4>3. Tim!Counted < timMs + (others' - timLost') * TimTicks
        BY <3>4 DEF Tim!Slack
      <4>4. timLost' \in 0 .. others'
        BY <3>5
      <4>5. elapsed' < (MaxOther + 1) * TimTicks
        BY <2>a, <2>t, <3>5, <4>2, <4>3, <4>4, DelayBound, Zenon
      <4>6. QED
        BY <4>5 DEF Tim!Longest
    <3>7. /\ uif' = TRUE
          /\ UNCHANGED <<tim6_ticks, timMs, timPc, handler, polled, pending>>
          /\ handler \in {"none", "other"}
      BY <2>8 DEF Tim!Update, Tim!DelayTypes, Tim!DelayCount
    <3>8. Tim!DelayTypes'
      BY <2>e, <3>5, <3>6, <3>7 DEF Tim!DelayTypes
    <3>9. polled => tim6_ticks # timMs
      BY <2>8, <3>7 DEF Tim!Update, Tim!DelayCount
    <3>10. Tim!DelayCount'
      <4>1. Tim!Counted' < timMs' + Tim!Slack' /\ Tim!Counted' <= timMs' + Tim!Slack'
        <5>1. Tim!Counted <= timMs + Tim!Slack'
          <6>1. \A k \in Int, n, m \in Nat : k < m + n => k <= m + n
            OBVIOUS
          <6>2. Tim!Counted \in Int /\ timMs \in Nat
            BY <2>a, <2>t
          <6>3. QED
            BY <3>4, <6>1, <6>2, Zenon
        <5>2. timMs' = timMs
          BY <3>7
        <5>3. QED
          BY <3>1, <3>4, <5>1, <5>2
      <4>2. polled' => tim6_ticks' # timMs'
        BY <3>7, <3>9
      <4>3. QED
        BY <3>3, <4>1, <4>2 DEF Tim!DelayCount
    <3>11. QED
      BY <2>f, <3>8, <3>10
  <2>9. CASE Tim!UpdateIdle
    <3>1. Tim!DelayTypes'
      BY <2>9, <2>e DEF Tim!UpdateIdle, Tim!DelayTypes
    <3>2. Tim!DelayCount'
      BY <2>9, <2>e DEF Tim!UpdateIdle, Tim!DelayTypes, Tim!DelayCount
    <3>3. QED
      BY <2>f, <3>1, <3>2
  <2>10. CASE UNCHANGED Tim!vars
    <3>1. Tim!DelayTypes'
      BY <2>a, <2>b, <2>c, <2>d, <2>e, <2>10 DEF Tim!vars, Tim!DelayTypes
    <3>2. Tim!DelayCount'
      BY <2>a, <2>b, <2>c, <2>d, <2>e, <2>10 DEF Tim!vars, Tim!DelayTypes, Tim!DelayCount
    <3>3. QED
      BY <2>f, <3>1, <3>2
  <2>11. QED
    BY <2>1, <2>2, <2>3, <2>4, <2>5, <2>6, <2>7, <2>8, <2>9, <2>10 DEF Tim!Next, Tim!Handlers
<1>3. QED
  BY <1>1, <1>2, PTL DEF Tim!Spec

(* tim_delay_ms keeps the count of the periods, and comes to its end before *)
(* the bound on them.                                                      *)
LEMMA TimInvariants ==
  ASSUME TimTicks \in Nat \ {0}, MaxOther \in Nat
  PROVE  Tim!Spec => []Tim!Inv
<1>1. Tim!DelayInv => Tim!Inv
  <2> SUFFICES ASSUME Tim!DelayInv PROVE Tim!Inv
    OBVIOUS
  <2> USE DEF Tim!DelayInv
  <2>1. Tim!Longest \in Nat /\ Tim!MaxElapsed = Tim!Longest + MaxOther
    BY DEF Tim!Longest, Tim!MaxElapsed
  <2>2. Tim!TypeOK
    <3>1. elapsed \in 0 .. Tim!MaxElapsed - 1 /\ timLost \in 0 .. MaxOther
      BY <2>1 DEF Tim!DelayTypes
    <3>2. QED
      BY <3>1 DEF Tim!TypeOK, Tim!DelayTypes, Tim!DelayFlags
  <2>3. ASSUME timPc = "poll" PROVE tim6_ticks = Tim!Counted % TimTicks
    <3>1. PICK rounds \in Nat : Tim!Counted = tim6_ticks + rounds * TimTicks
      BY <2>3 DEF Tim!InStep, Tim!DelayCount
    <3>2. Tim!Counted \in Nat
      <4>1. rounds * TimTicks \in Nat
        OBVIOUS
      <4>2. QED
        BY <3>1, <4>1 DEF Tim!DelayTypes
    <3> HIDE DEF Tim!DelayInv
    <3>3. /\ Tim!Counted % TimTicks \in 0 .. TimTicks - 1 /\ Tim!Counted \div TimTicks \in Int
          /\ Tim!Counted = (Tim!Counted % TimTicks) + (Tim!Counted \div TimTicks) * TimTicks
      BY <3>2
    <3>4. QED
      <4> DEFINE m == Tim!Counted % TimTicks
                 d == Tim!Counted \div TimTicks
      <4>1. m \in 0 .. TimTicks - 1 /\ d \in Int /\ rounds \in Int
            /\ tim6_ticks + rounds * TimTicks = m + d * TimTicks
        BY <3>1, <3>3
      <4>2. tim6_ticks \in 0 .. TimTicks - 1
        BY DEF Tim!DelayInv, Tim!DelayTypes
      <4> HIDE DEF m, d
      <4>3. tim6_ticks = m
        BY <4>1, <4>2, RestUnique, Zenon
      <4>4. QED
        BY <4>3 DEF m
  <2>4. QED
    BY <2>2, <2>3 DEF Tim!Inv, Tim!CountRight, Tim!DelayTypes
<1>2. QED
  BY <1>1, TimInvariant, PTL

(* tim_delay_ms (tim.c) waits for ms periods, and for longer only if       *)
(* another handler kept it from the right count.                           *)
THEOREM TimWaits ==
  ASSUME TimTicks \in Nat \ {0}, MaxOther \in Nat
  PROVE  Tim!Spec => Tim!WaitsMs
<1>1. Tim!DelayInv /\ [Tim!Next]_(Tim!vars) =>
        [timPc = "poll" /\ timPc' = "idle" =>
           /\ elapsed + 1 >= timMs
           /\ others = 0 => elapsed <= timMs
           /\ elapsed > timMs + others => elapsed + 1 >= timMs + TimTicks]_(Tim!vars)
  <2> SUFFICES ASSUME Tim!DelayInv, Tim!Next, timPc = "poll", timPc' = "idle"
               PROVE  /\ elapsed + 1 >= timMs
                      /\ others = 0 => elapsed <= timMs
                      /\ elapsed > timMs + others => elapsed + 1 >= timMs + TimTicks
    BY DEF Tim!vars
  <2>1. tim6_ticks = timMs /\ handler = "none"
    BY DEF Tim!Next, Tim!Handlers, Tim!DelaySet, Tim!DelayPoll, Tim!TimEnter, Tim!TimCount,
           Tim!TimClear, Tim!OtherEnter, Tim!OtherLeave, Tim!Update, Tim!UpdateIdle
  <2>2. PICK rounds \in Nat : Tim!Counted = timMs + rounds * TimTicks
    BY <2>1 DEF Tim!DelayInv, Tim!DelayCount, Tim!InStep
  <2>3. rounds * TimTicks \in Nat /\ (rounds # 0 => rounds * TimTicks >= TimTicks)
    <3>1. CASE rounds = 0
      BY <3>1
    <3>2. CASE rounds # 0
      <4>1. PICK n \in Nat : rounds = n + 1
        BY <2>2, <3>2
      <4>2. n * TimTicks \in Nat /\ rounds * TimTicks = n * TimTicks + TimTicks
        BY <4>1
      <4>3. QED
        BY <3>2, <4>2
    <3>3. QED
      BY <3>1, <3>2
  <2>4. rounds = 0 => Tim!Counted = timMs
    BY <2>1, <2>2 DEF Tim!DelayInv, Tim!DelayTypes
  <2>5. others = timLost => Tim!Slack = 0
    BY DEF Tim!Slack, Tim!DelayInv, Tim!DelayTypes
  <2>6. QED
    BY <2>1, <2>2, <2>3, <2>4, <2>5 DEF Tim!DelayInv, Tim!DelayTypes, Tim!DelayCount, Tim!Counted
<1>2. QED
  BY <1>1, TimInvariant, PTL DEF Tim!Spec, Tim!WaitsMs

-----------------------------------------------------------------------------
(* systick_delay_ms.                                                       *)

(* A sum that is below two rounds is less at most one of them.             *)
LEMMA ModTicks ==
  ASSUME Ticks \in Nat \ {0}
  PROVE  \A n \in 0 .. 2 * Ticks - 1 : n % Ticks = Systick!Wrapped(n)
  BY DEF Systick!Wrapped

(* Every state of a delay satisfies it.                                    *)
LEMMA DelayInvariant ==
  ASSUME Ticks \in Nat \ {0}, Burst \in Nat
  PROVE  Systick!Spec => []Systick!DelayInv
<1> USE DEF Systick!DelayInv, Systick!TypeOK, Systick!MaxPassed, Systick!Wraps,
            Systick!MayMiss, Systick!Wrapped
<1>1. Systick!Init => Systick!DelayInv
  BY DEF Systick!Init
<1>2. Systick!DelayInv /\ [Systick!Next]_(Systick!vars) => Systick!DelayInv'
  <2> SUFFICES ASSUME Systick!DelayInv, [Systick!Next]_(Systick!vars) PROVE Systick!DelayInv'
    OBVIOUS
  <2>1. CASE Systick!DelayBegin
    <3>1. PICK m \in 0 .. Ticks - 1 : ms' = m
      BY <2>1 DEF Systick!DelayBegin
    <3>2. (ticks + m) % Ticks = Systick!Wrapped(ticks + m)
      BY ModTicks
    <3>3. /\ start' = ticks /\ ticks' = ticks /\ end' = Systick!Wrapped(ticks + m)
          /\ unread' = 0 /\ passed' = 0
          /\ pc' = IF Systick!Wrapped(ticks + m) < ticks THEN "wrap" ELSE "wait"
      BY <2>1, <3>1, <3>2 DEF Systick!DelayBegin
    <3>4. QED
      BY <3>1, <3>3
  <2>2. CASE Systick!DelayWrap
    BY <2>2 DEF Systick!DelayWrap
  <2>3. CASE Systick!DelayWait
    BY <2>3 DEF Systick!DelayWait
  <2>4. CASE Systick!Tick
    <3>1. (ticks + 1) % Ticks = Systick!Wrapped(ticks + 1)
      BY ModTicks
    <3>2. QED
      BY <2>4, <3>1 DEF Systick!Tick
  <2>5. CASE UNCHANGED Systick!vars
    BY <2>5 DEF Systick!vars
  <2>6. QED
    BY <2>1, <2>2, <2>3, <2>4, <2>5 DEF Systick!Next, Systick!Loops
<1>3. QED
  BY <1>1, <1>2, PTL DEF Systick!Spec

(* systick_delay_ms (systick.c) takes ms ticks when its deadline lies      *)
(* before the wrap of the count, and behind it either that or no time at   *)
(* all, whatever the width of the count and however long the loop is kept  *)
(* from reading it.                                                        *)
THEOREM SystickWaits ==
  ASSUME Ticks \in Nat \ {0}, Burst \in Nat
  PROVE  Systick!Spec => Systick!WaitsMs
<1>1. Systick!DelayInv /\ [Systick!Next]_(Systick!vars) =>
        [pc = "wait" /\ pc' = "idle" =>
           /\ ~Systick!Wraps => passed >= ms
           /\ ~Systick!Wraps /\ ~Systick!MayMiss => passed <= ms + Burst
           /\ Systick!Wraps => passed >= ms \/ passed <= Burst]_(Systick!vars)
  <2> SUFFICES ASSUME Systick!DelayInv, Systick!Next, pc = "wait", pc' = "idle"
               PROVE  /\ ~Systick!Wraps => passed >= ms
                      /\ ~Systick!Wraps /\ ~Systick!MayMiss => passed <= ms + Burst
                      /\ Systick!Wraps => passed >= ms \/ passed <= Burst
    BY DEF Systick!vars
  <2>1. ticks >= end
    BY DEF Systick!Next, Systick!Loops, Systick!DelayBegin, Systick!DelayWrap,
           Systick!DelayWait, Systick!Tick, Systick!DelayInv, Systick!TypeOK
  <2>2. QED
    BY <2>1 DEF Systick!DelayInv, Systick!TypeOK, Systick!MaxPassed, Systick!Wraps,
                Systick!MayMiss, Systick!Wrapped
<1>2. QED
  BY <1>1, DelayInvariant, PTL DEF Systick!Spec, Systick!WaitsMs

(* The counts of a delay keep to their types.                              *)
LEMMA SystickInvariants ==
  ASSUME Ticks \in Nat \ {0}, Burst \in Nat
  PROVE  Systick!Spec => []Systick!TypeOK
<1>1. Systick!DelayInv => Systick!TypeOK
  BY DEF Systick!DelayInv
<1>2. QED
  BY <1>1, DelayInvariant, PTL

-----------------------------------------------------------------------------
(* usart_put_str.                                                          *)

(* A number between two multiples is none.                                 *)
LEMMA Multiples ==
  ASSUME HandlerLen \in Nat \ {0}, NEW h \in Nat, NEW n \in Nat,
         n \in HandlerLen * h - HandlerLen + 1 .. HandlerLen * h
  PROVE  n % HandlerLen = 0 <=> n = HandlerLen * h
<1> DEFINE q == n \div HandlerLen
           m == n % HandlerLen
<1>1. m \in 0 .. HandlerLen - 1 /\ q \in Int /\ n = HandlerLen * q + m
  OBVIOUS
<1> HIDE DEF q, m
<1>2. q \in Int /\ m \in 0 .. HandlerLen - 1 /\ n = HandlerLen * q + m
  BY <1>1
<1>3. HandlerLen * (h - q) = HandlerLen * h - HandlerLen * q
      /\ HandlerLen * h \in Int /\ HandlerLen * q \in Int
  BY <1>2
<1>4. CASE h - q >= 1
  <2>1. HandlerLen * (h - q) >= HandlerLen
    <3>1. HandlerLen * (h - q) = HandlerLen * (h - q - 1) + HandlerLen
      BY <1>2
    <3>2. HandlerLen * (h - q - 1) >= 0
      BY <1>2, <1>4
    <3>3. QED
      BY <1>2, <3>1, <3>2
  <2>2. QED
    BY <1>2, <1>3, <2>1 DEF m
<1>5. CASE h - q <= -1
  <2>1. HandlerLen * (q - h) >= HandlerLen
    <3>1. HandlerLen * (q - h) = HandlerLen * (q - h - 1) + HandlerLen
      BY <1>2
    <3>2. HandlerLen * (q - h - 1) >= 0
      BY <1>2, <1>5
    <3>3. QED
      BY <1>2, <3>1, <3>2
  <2>2. HandlerLen * (q - h) = HandlerLen * q - HandlerLen * h
    BY <1>2
  <2>3. QED
    BY <1>2, <1>3, <2>1, <2>2
<1>6. CASE q = h
  BY <1>2, <1>3, <1>6 DEF m
<1>7. QED
  BY <1>2, <1>4, <1>5, <1>6

(* One character is a sequence of length one.                              *)
LEMMA Singleton ==
  ASSUME NEW C, NEW x \in C
  PROVE  <<x>> \in Seq(C) /\ Len(<<x>>) = 1
OBVIOUS

(* A register holds one character or none, and joined to a line the none   *)
(* adds nothing.                                                           *)
LEMMA Register ==
  ASSUME NEW C, NEW s \in Seq(C), Len(s) <= 1, NEW t \in Seq(C)
  PROVE  /\ s # << >> => s = <<s[1]>> /\ s[1] \in C /\ Len(s) = 1
         /\ s \o << >> = s /\ << >> \o s = s
         /\ t \o << >> = t
  <1>1. s # << >> => Len(s) = 1
    <2> DEFINE l == Len(s)
    <2>0. l \in Nat /\ l <= 1
      BY LenProperties
    <2> HIDE DEF l
    <2>1. l = 0 \/ l = 1
      BY <2>0
    <2>2. (s = << >>) <=> (Len(s) = 0)
      BY EmptySeq
    <2>3. QED
      BY <2>1, <2>2, Zenon DEF l
  <1>2. s # << >> => s = <<s[1]>> /\ s[1] \in C
    BY <1>1
  <1>3. QED
    BY <1>1, <1>2, ConcatEmptySeq

(* usart_put_str (usart.c) sends every character of the main program once and*)
(* in its order, and what is lost is the last that a handler printed, for  *)
(* strings of every length and any number of handlers.                     *)
THEOREM PrintWhole ==
  ASSUME MainLen \in Nat, HandlerLen \in Nat \ {0}, MaxHandlers \in Nat
  PROVE  Printing!Init /\ [][Printing!Next]_(Printing!vars) => []Printing!Inv
<1> DEFINE IInv == Printing!Inv /\ Printing!PutInv
<1>1. Printing!Init => IInv
  <2> SUFFICES ASSUME Printing!Init PROVE IInv
    OBVIOUS
  <2> USE DEF Printing!Init
  <2>1. Printing!TypeOK
    <3>1. << >> \in Seq(Printing!Chars)
      BY EmptySeq
    <3>2. HandlerLen * MaxHandlers \in Nat
      OBVIOUS
    <3>3. QED
      BY <3>1, <3>2 DEF Printing!TypeOK, Printing!Printers
  <2>2. Printing!PutInv
    BY DEF Printing!PutInv, Printing!Printers, Printing!Due
  <2>3. Printing!Sent = << >>
    <3>1. << >> \in Seq(Printing!Chars) /\ Len(<< >>) <= 1
      BY EmptySeq
    <3>2. << >> \o << >> = << >>
      BY <3>1, ConcatEmptySeq
    <3>3. QED
      BY <3>2 DEF Printing!Sent
  <2>4. Printing!MainWhole /\ Printing!LossesBounded
    BY <2>3 DEF Printing!MainWhole, Printing!LossesBounded, Printing!Printers
  <2>5. QED
    BY <2>1, <2>2, <2>4 DEF Printing!Inv
<1>2. IInv /\ [Printing!Next]_(Printing!vars) => IInv'
  <2> SUFFICES ASSUME IInv, [Printing!Next]_(Printing!vars) PROVE IInv'
    OBVIOUS
  <2> USE DEF Printing!Printers
  <2> DEFINE S == Printing!Sent
             B == line \o shift
             C == Printing!Chars
  <2>0. /\ datar \in Seq(C) /\ Len(datar) <= 1 /\ shift \in Seq(C) /\ Len(shift) <= 1
        /\ line \in Seq(C) /\ lost \in Seq(C)
        /\ at \in [Printing!Printers -> {"done", "wait", "write"}]
        /\ printed \in [Printing!Printers -> Nat]
        /\ printed["main"] <= MainLen /\ printed["handler"] <= HandlerLen * MaxHandlers
        /\ handlers \in 0 .. MaxHandlers
    BY DEF Printing!Inv, Printing!TypeOK
  <2>1. Printing!Due \in Nat /\ HandlerLen * MaxHandlers \in Nat
    BY <2>0 DEF Printing!Due
  <2>2. /\ B \in Seq(C) /\ S = B \o datar /\ S \in Seq(C) /\ Len(B) \in Nat
        /\ Len(datar) \in {0, 1} /\ Len(S) = Len(B) + Len(datar)
        /\ \A k \in 1 .. Len(B) : S[k] = B[k]
        /\ datar = << >> => S = B
        /\ datar # << >> => datar = <<datar[1]>> /\ S[Len(B) + 1] = datar[1] /\ Len(datar) = 1
    <3>1. B \in Seq(C) /\ S = B \o datar
      BY <2>0, ConcatProperties DEF Printing!Sent
    <3>2. Len(datar) \in Nat /\ Len(B) \in Nat
      BY <2>0, <3>1, LenProperties
    <3>3. /\ S \in Seq(C) /\ Len(S) = Len(B) + Len(datar)
          /\ \A k \in 1 .. Len(B) + Len(datar) :
               S[k] = IF k <= Len(B) THEN B[k] ELSE datar[k - Len(B)]
      <4> HIDE DEF S, B
      <4>1. QED
        BY <2>0, <3>1, ConcatProperties
    <3>4. datar = << >> => S = B
      <4> HIDE DEF S, B
      <4>1. QED
        BY <3>1, ConcatEmptySeq
    <3>5. datar # << >> => datar = <<datar[1]>> /\ Len(datar) = 1
      BY <2>0, Register
    <3>6. QED
      <4> HIDE DEF S, B, C
      <4>1. QED
        BY <2>0, <3>1, <3>2, <3>3, <3>4, <3>5
  <2>3. UNCHANGED S /\ UNCHANGED <<printed, lost>>
        => Printing!MainWhole' /\ Printing!LossesBounded'
    BY DEF Printing!Inv, Printing!MainWhole, Printing!LossesBounded
  <2>4. ASSUME NEW p \in Printing!Printers, Printing!PutTest(p) PROVE IInv'
    <3>1. UNCHANGED S
      BY <2>4 DEF Printing!PutTest, Printing!Sent
    <3>2. Printing!TypeOK'
      BY <2>0, <2>4 DEF Printing!PutTest, Printing!TypeOK
    <3>3. Printing!PutInv'
      BY <2>0, <2>4 DEF Printing!PutTest, Printing!PutInv, Printing!Due, Printing!Running
    <3>4. QED
      BY <2>3, <2>4, <3>1, <3>2, <3>3 DEF Printing!PutTest, Printing!Inv
  <2>5. ASSUME NEW p \in Printing!Printers, Printing!PutWrite(p) PROVE IInv'
    <3> DEFINE n == printed[p] + 1
               x == [by |-> p, num |-> n]
    <3>0. /\ n \in Nat \ {0} /\ x \in C /\ x.by = p /\ x.num = n
          /\ datar' = <<x>> /\ lost' = lost \o datar /\ UNCHANGED <<shift, line, handlers>>
          /\ printed' = [printed EXCEPT ![p] = n]
          /\ at' = [at EXCEPT ![p] = IF Printing!AtEnd(p, n) THEN "done" ELSE "wait"]
          /\ at[p] = "write"
      <4>1. n \in Nat \ {0}
        BY <2>0
      <4>2. /\ datar' = <<x>> /\ lost' = lost \o datar /\ UNCHANGED <<shift, line, handlers>>
            /\ printed' = [printed EXCEPT ![p] = n]
            /\ at[p] = "write"
        BY <2>5 DEF Printing!PutWrite
      <4>3. printed'[p] = n
        BY <2>0, <4>2
      <4>4. at' = [at EXCEPT ![p] = IF Printing!AtEnd(p, n) THEN "done" ELSE "wait"]
        BY <2>5, <4>3 DEF Printing!PutWrite
      <4>5. x \in C /\ x.by = p /\ x.num = n
        BY <4>1 DEF Printing!Chars
      <4>6. QED
        BY <4>1, <4>2, <4>4, <4>5
    <3> HIDE DEF n, x
    <3>1. /\ S' = B \o <<x>> /\ S' \in Seq(C) /\ Len(S') = Len(B) + 1
          /\ \A k \in 1 .. Len(B) : S'[k] = B[k]
          /\ S'[Len(B) + 1] = x
      <4>1. S' = B \o <<x>>
        BY <3>0 DEF Printing!Sent
      <4> HIDE DEF S, B, C
      <4>2. <<x>> \in Seq(C) /\ Len(<<x>>) = 1 /\ <<x>>[1] = x
        BY <3>0
      <4>3. QED
        BY <2>2, <4>1, <4>2, ConcatProperties
    <3> HIDE DEF S, B, C
    (* What is overwritten is the handler's last character.                *)
    <3>2. datar # << >> => /\ p = "main"
                           /\ datar[1] = [by |-> "handler", num |-> printed["handler"]]
                           /\ at["handler"] = "done" /\ printed["handler"] = Printing!Due
      BY <2>5, <3>0 DEF Printing!PutInv, Printing!PutWrite, Printing!Running
    <3>3. \A j \in 1 .. Len(S) :
            S[j].by = "main" => j \in 1 .. Len(B) /\ S'[j] = S[j]
      <4>1. ASSUME datar # << >>
            PROVE  S[Len(B) + 1].by = "handler" /\ Len(S) = Len(B) + 1
        <5>1. S[Len(B) + 1] = datar[1] /\ Len(datar) = 1 /\ Len(S) = Len(B) + Len(datar)
          BY <2>2, <4>1
        <5>2. datar[1].by = "handler"
          BY <3>2, <4>1
        <5>3. QED
          BY <5>1, <5>2
      <4>2. datar = << >> => Len(S) = Len(B)
        BY <2>2
      <4>3. QED
        BY <2>2, <3>1, <4>1, <4>2
    <3>4. Printing!MainWhole'
      <4>1. /\ \A m \in 1 .. printed["main"] :
                  \E j \in 1 .. Len(S) : S[j] = [by |-> "main", num |-> m]
            /\ \A j \in 1 .. Len(S) :
                  S[j].by = "main" => S[j].num \in 1 .. printed["main"]
            /\ \A j, k \in 1 .. Len(S) :
                  j < k /\ S[j].by = "main" /\ S[k].by = "main" => S[j].num < S[k].num
        BY DEF Printing!Inv, Printing!MainWhole, S
      <4>2. \A j \in 1 .. Len(B) : j \in 1 .. Len(S) /\ S'[j] = S[j]
        BY <2>2, <3>1
      <4>3. \A j \in 1 .. Len(S') : j \in 1 .. Len(B) \/ j = Len(B) + 1
        BY <2>2, <3>1
      <4>4. printed["main"] \in Nat /\ Len(B) \in Nat
        BY <2>0, <2>2
      <4>5. CASE p = "main"
        <5>1. printed'["main"] = printed["main"] + 1 /\ n = printed["main"] + 1
          BY <2>0, <3>0, <4>5 DEF n
        <5>2. ASSUME NEW m \in 1 .. printed'["main"]
              PROVE  \E j \in 1 .. Len(S') : S'[j] = [by |-> "main", num |-> m]
          <6>1. CASE m = printed["main"] + 1
            <7>1. x = [by |-> "main", num |-> m] /\ Len(B) + 1 \in 1 .. Len(S')
              BY <3>1, <4>4, <4>5, <5>1, <6>1 DEF x
            <7>2. QED
              BY <3>1, <7>1
          <6>2. CASE m \in 1 .. printed["main"]
            <7>1. PICK j \in 1 .. Len(S) : S[j] = [by |-> "main", num |-> m]
              BY <4>1, <6>2
            <7>2. S[j].by = "main"
              BY <7>1
            <7>3. j \in 1 .. Len(S') /\ S'[j] = S[j]
              BY <3>1, <3>3, <4>4, <7>2
            <7>4. QED
              BY <7>1, <7>3
          <6>3. QED
            BY <4>4, <5>1, <6>1, <6>2
        <5>3. ASSUME NEW j \in 1 .. Len(S'), S'[j].by = "main"
              PROVE  /\ j \in 1 .. Len(B) => S'[j].num \in 1 .. printed["main"]
                     /\ j = Len(B) + 1 => S'[j].num = printed["main"] + 1
          BY <3>0, <3>1, <4>1, <4>2, <5>1, <5>3
        <5>4. \A j \in 1 .. Len(S') :
                S'[j].by = "main" => S'[j].num \in 1 .. printed'["main"]
          BY <4>3, <4>4, <5>1, <5>3
        <5>5. ASSUME NEW j \in 1 .. Len(S'), NEW k \in 1 .. Len(S'), j < k,
                     S'[j].by = "main", S'[k].by = "main"
              PROVE  S'[j].num < S'[k].num
          <6>1. j \in 1 .. Len(B)
            BY <4>3, <4>4, <5>5
          <6>2. CASE k \in 1 .. Len(B)
            BY <4>1, <4>2, <5>5, <6>1, <6>2
          <6>3. CASE k = Len(B) + 1
            BY <4>4, <5>3, <5>5, <6>1, <6>3
          <6>4. QED
            BY <4>3, <6>2, <6>3
        <5>6. QED
          BY <5>2, <5>4, <5>5 DEF Printing!MainWhole, S
      <4>6. CASE p = "handler"
        <5>1. printed'["main"] = printed["main"] /\ x.by # "main"
          BY <2>0, <3>0, <4>6
        <5>2. ASSUME NEW m \in 1 .. printed["main"]
              PROVE  \E j \in 1 .. Len(S') : S'[j] = [by |-> "main", num |-> m]
          <6>1. PICK j \in 1 .. Len(S) : S[j] = [by |-> "main", num |-> m]
            BY <4>1
          <6>2. S[j].by = "main"
            BY <6>1
          <6>3. j \in 1 .. Len(S') /\ S'[j] = S[j]
            BY <3>1, <3>3, <4>4, <6>2
          <6>4. QED
            BY <6>1, <6>3
        <5>3. \A j \in 1 .. Len(S') : S'[j].by = "main" => j \in 1 .. Len(B)
          BY <3>1, <4>3, <5>1
        <5>5. /\ \A j \in 1 .. Len(S') :
                  S'[j].by = "main" => S'[j].num \in 1 .. printed'["main"]
              /\ \A j, k \in 1 .. Len(S') :
                  j < k /\ S'[j].by = "main" /\ S'[k].by = "main" => S'[j].num < S'[k].num
          BY <4>1, <4>2, <5>1, <5>3
        <5>6. \A m \in 1 .. printed'["main"] :
                \E j \in 1 .. Len(S') : S'[j] = [by |-> "main", num |-> m]
          BY <5>1, <5>2
        <5>7. QED
          BY <5>5, <5>6 DEF Printing!MainWhole, S
      <4>7. QED
        BY <4>5, <4>6
    <3>5. CASE p = "main"
      <4>1. /\ n = printed["main"] + 1 /\ n \in 1 .. MainLen /\ at["handler"] = "done"
            /\ printed'["main"] = n /\ printed'["handler"] = printed["handler"]
            /\ at'["handler"] = "done"
            /\ at'["main"] = IF n = MainLen THEN "done" ELSE "wait"
        BY <2>0, <2>5, <3>0, <3>5
           DEF n, Printing!AtEnd, Printing!PutInv, Printing!PutWrite, Printing!Running
      <4>2. Printing!PutInv'
        BY <2>0, <3>0, <4>1 DEF Printing!PutInv, Printing!Due
      <4>3. /\ lost' \in Seq(C) /\ Len(lost') = Len(lost) + Len(datar) /\ Len(lost) \in Nat
            /\ \A j \in 1 .. Len(lost') :
                 (j \in 1 .. Len(lost) /\ lost'[j] = lost[j])
                 \/ (datar # << >> /\ lost'[j] = datar[1])
        <5>1. lost' \in Seq(C) /\ Len(lost') = Len(lost) + Len(datar) /\ Len(lost) \in Nat
              /\ \A j \in 1 .. Len(lost) + Len(datar) :
                   lost'[j] = IF j <= Len(lost) THEN lost[j] ELSE datar[j - Len(lost)]
          BY <2>0, <3>0, ConcatProperties, LenProperties
        <5>2. \A j \in 1 .. Len(lost') : j > Len(lost) => datar # << >> /\ j - Len(lost) = 1
          BY <2>2, <5>1
        <5>3. ASSUME NEW j \in 1 .. Len(lost')
              PROVE  (j \in 1 .. Len(lost) /\ lost'[j] = lost[j])
                     \/ (datar # << >> /\ lost'[j] = datar[1])
          <6>1. j \in 1 .. Len(lost) + Len(datar)
            BY <5>1
          <6>2. CASE j <= Len(lost)
            BY <5>1, <6>1, <6>2
          <6>3. CASE j > Len(lost)
            <7>1. ~(j <= Len(lost)) /\ datar # << >> /\ j - Len(lost) = 1
              BY <5>1, <5>2, <6>3
            <7>2. lost'[j] = datar[j - Len(lost)]
              BY <5>1, <6>1, <7>1
            <7>3. QED
              BY <7>1, <7>2
          <6>4. QED
            BY <5>1, <6>2, <6>3
        <5>4. QED
          BY <5>1, <5>3
      <4>4. datar # << >> => datar[1].by = "handler" /\ datar[1].num % HandlerLen = 0
        <5>1. handlers \in Nat
          BY <2>0
        <5>2. (HandlerLen * handlers) % HandlerLen = 0
          <6>1. CASE handlers = 0
            BY <6>1
          <6>2. CASE handlers # 0
            <7>1. HandlerLen * handlers \in Nat /\ HandlerLen * handlers >= 0
              BY <5>1
            <7>2. HandlerLen * handlers
                    \in HandlerLen * handlers - HandlerLen + 1 .. HandlerLen * handlers
              BY <7>1
            <7>3. QED
              BY <5>1, <7>1, <7>2, Multiples
          <6>3. QED
            BY <6>1, <6>2
        <5>3. QED
          BY <3>2, <5>2 DEF Printing!Due
      <4>5. Printing!LossesBounded'
        <5>1. /\ \A j \in 1 .. Len(lost) : lost[j].by = "handler" /\ lost[j].num % HandlerLen = 0
              /\ Len(lost) <= printed["main"]
              /\ Len(lost) + Len(S) = printed["main"] + printed["handler"]
          BY DEF Printing!Inv, Printing!LossesBounded, S
        <5>2. \A j \in 1 .. Len(lost') : /\ lost'[j].by = "handler"
                                          /\ lost'[j].num % HandlerLen = 0
          BY <4>3, <4>4, <5>1
        <5>3. Len(datar) \in {0, 1} /\ Len(S) = Len(B) + Len(datar) /\ Len(S') = Len(B) + 1
              /\ Len(B) \in Nat /\ printed["main"] \in Nat /\ printed["handler"] \in Nat
          BY <2>0, <2>2, <3>1
        <5>4. Len(lost') <= printed'["main"]
              /\ Len(lost') + Len(S') = printed'["main"] + printed'["handler"]
          <6> DEFINE l == Len(lost)
                     b == Len(B)
                     d == Len(datar)
          <6>1. /\ l \in Nat /\ b \in Nat /\ d \in {0, 1}
                /\ l <= printed["main"]
                /\ l + (b + d) = printed["main"] + printed["handler"]
            BY <4>3, <5>1, <5>3, Zenon
          <6>2. Len(lost') = l + d /\ Len(S') = b + 1
            BY <4>3, <5>3, Zenon
          <6> HIDE DEF l, b, d
          <6>3. l + d <= printed["main"] + 1
                /\ (l + d) + (b + 1) = (printed["main"] + 1) + printed["handler"]
            BY <5>3, <6>1
          <6>4. QED
            BY <4>1, <6>2, <6>3, Zenon
        <5>5. QED
          BY <5>2, <5>4 DEF Printing!LossesBounded, S
      <4>6. Printing!TypeOK'
        <5>1. <<x>> \in Seq(C) /\ Len(<<x>>) <= 1
          BY <3>0, Singleton
        <5>2. /\ datar' \in Seq(C) /\ Len(datar') <= 1 /\ shift' \in Seq(C) /\ Len(shift') <= 1
              /\ line' \in Seq(C) /\ lost' \in Seq(C)
          BY <2>0, <3>0, <4>3, <5>1
        <5>3. /\ at' \in [Printing!Printers -> {"done", "wait", "write"}]
              /\ printed' \in [Printing!Printers -> Nat]
              /\ printed'["main"] <= MainLen /\ printed'["handler"] <= HandlerLen * MaxHandlers
              /\ handlers' \in 0 .. MaxHandlers
          BY <2>0, <3>0, <4>1
        <5>4. QED
          BY <5>2, <5>3 DEF Printing!TypeOK, C
      <4>7. QED
        BY <3>4, <4>2, <4>5, <4>6 DEF Printing!Inv
    <3>6. CASE p = "handler"
      <4>1. /\ datar = << >> /\ n = printed["handler"] + 1
            /\ n \in Printing!Due - HandlerLen + 1 .. Printing!Due
            /\ printed'["handler"] = n /\ printed'["main"] = printed["main"]
            /\ at'["main"] = at["main"]
        BY <2>0, <2>1, <3>0, <3>6 DEF n, Printing!PutInv
      <4>2. at'["handler"] = IF n = Printing!Due THEN "done" ELSE "wait"
        <5>1. n % HandlerLen = 0 <=> n = Printing!Due
          <6>1. handlers \in Nat /\ n \in Nat
            BY <2>0, <3>0
          <6>2. n \in HandlerLen * handlers - HandlerLen + 1 .. HandlerLen * handlers
            BY <4>1 DEF Printing!Due
          <6>3. QED
            BY <6>1, <6>2, Multiples DEF Printing!Due
        <5>2. QED
          BY <2>0, <3>0, <3>6, <5>1 DEF Printing!AtEnd
      <4>3. Printing!PutInv'
        <5>1. Printing!Due' = Printing!Due
          BY <3>0 DEF Printing!Due
        <5>2. datar'[1] = [by |-> "handler", num |-> n]
          BY <3>0, <3>6 DEF x
        <5>3. QED
          BY <2>1, <3>0, <4>1, <4>2, <5>1, <5>2 DEF Printing!PutInv
      <4>4. lost' = lost
        BY <2>0, <3>0, <4>1, ConcatEmptySeq
      <4>5. Printing!LossesBounded'
        <5>1. /\ \A j \in 1 .. Len(lost) : lost[j].by = "handler" /\ lost[j].num % HandlerLen = 0
              /\ Len(lost) <= printed["main"]
              /\ Len(lost) + Len(S) = printed["main"] + printed["handler"]
          BY DEF Printing!Inv, Printing!LossesBounded, S
        <5>2. Len(S) = Len(B) /\ Len(S') = Len(B) + 1 /\ Len(B) \in Nat /\ Len(lost) \in Nat
          BY <2>0, <2>2, <3>1, <4>1, LenProperties
        <5>3. printed["main"] \in Nat /\ printed["handler"] \in Nat
          BY <2>0
        <5>4. Len(lost) + Len(S') = printed'["main"] + printed'["handler"]
          <6> DEFINE l == Len(lost)
                     b == Len(B)
          <6>1. /\ l \in Nat /\ b \in Nat /\ Len(lost) = l /\ Len(S') = b + 1
                /\ l + b = printed["main"] + printed["handler"]
            BY <5>1, <5>2, Zenon
          <6> HIDE DEF l, b
          <6>2. l + (b + 1) = printed["main"] + (printed["handler"] + 1)
            BY <5>3, <6>1
          <6>3. QED
            BY <4>1, <6>1, <6>2, Zenon
        <5>5. QED
          BY <4>1, <4>4, <5>1, <5>4 DEF Printing!LossesBounded, S
      <4>6. Printing!TypeOK'
        <5>1. Printing!Due <= HandlerLen * MaxHandlers
          <6>1. HandlerLen * (MaxHandlers - handlers) \in Nat /\ handlers \in Nat
            BY <2>0
          <6>2. HandlerLen * (MaxHandlers - handlers)
                  = HandlerLen * MaxHandlers - HandlerLen * handlers
            BY <6>1
          <6>3. QED
            BY <2>1, <6>1, <6>2 DEF Printing!Due
        <5>2. n <= HandlerLen * MaxHandlers /\ n \in Nat
          BY <2>1, <3>0, <4>1, <5>1
        <5>3. QED
          <6>1. <<x>> \in Seq(C) /\ Len(<<x>>) <= 1
            BY <3>0, Singleton
          <6>2. /\ datar' \in Seq(C) /\ Len(datar') <= 1 /\ shift' \in Seq(C) /\ Len(shift') <= 1
                /\ line' \in Seq(C) /\ lost' \in Seq(C)
            BY <2>0, <3>0, <4>4, <6>1
          <6>3. /\ at' \in [Printing!Printers -> {"done", "wait", "write"}]
                /\ printed' \in [Printing!Printers -> Nat]
                /\ printed'["main"] <= MainLen
                /\ printed'["handler"] <= HandlerLen * MaxHandlers
                /\ handlers' \in 0 .. MaxHandlers
            BY <2>0, <3>0, <4>1, <5>2
          <6>4. QED
            BY <6>2, <6>3 DEF Printing!TypeOK, C
      <4>7. QED
        BY <3>4, <4>3, <4>5, <4>6 DEF Printing!Inv
    <3>7. QED
      BY <3>5, <3>6
  <2>6. CASE Printing!Handler
    <3>1. UNCHANGED S
      BY <2>6 DEF Printing!Handler, Printing!Sent
    <3>2. Printing!TypeOK'
      BY <2>0, <2>6 DEF Printing!Handler, Printing!TypeOK
    <3>3. Printing!Due' = Printing!Due + HandlerLen
      BY <2>0, <2>6 DEF Printing!Handler, Printing!Due
    <3>4. Printing!PutInv'
      BY <2>0, <2>1, <2>6, <3>3 DEF Printing!Handler, Printing!PutInv
    <3>5. QED
      BY <2>3, <2>6, <3>1, <3>2, <3>4 DEF Printing!Handler, Printing!Inv
  <2>7. CASE Printing!Load
    <3>1. UNCHANGED S
      <4>1. S = line \o datar
        BY <2>0, <2>7, Register DEF Printing!Load, Printing!Sent
      <4>2. S' = (line \o datar) \o << >>
        BY <2>7 DEF Printing!Load, Printing!Sent
      <4>3. line \o datar \in Seq(C)
        BY <2>0, ConcatProperties
      <4>4. QED
        BY <4>1, <4>2, <4>3, ConcatEmptySeq
    <3>2. Printing!TypeOK'
      BY <2>0, <2>7, EmptySeq DEF Printing!Load, Printing!TypeOK
    <3>3. Printing!PutInv'
      BY <2>7 DEF Printing!Load, Printing!PutInv, Printing!Due
    <3>4. QED
      BY <2>3, <2>7, <3>1, <3>2, <3>3 DEF Printing!Load, Printing!Inv
  <2>8. CASE Printing!Send
    <3>1. UNCHANGED S
      <4>1. S' = ((line \o shift) \o << >>) \o datar
        BY <2>8 DEF Printing!Send, Printing!Sent
      <4>2. QED
        BY <2>2, <4>1, ConcatEmptySeq
    <3>2. Printing!TypeOK'
      BY <2>0, <2>2, <2>8, EmptySeq DEF Printing!Send, Printing!TypeOK
    <3>3. Printing!PutInv'
      BY <2>8 DEF Printing!Send, Printing!PutInv, Printing!Due
    <3>4. QED
      BY <2>3, <2>8, <3>1, <3>2, <3>3 DEF Printing!Send, Printing!Inv
  <2>9. CASE UNCHANGED Printing!vars
    <3>1. UNCHANGED <<datar, shift, line, at, printed, handlers, lost>>
      BY <2>9 DEF Printing!vars
    <3>2. UNCHANGED S
      BY <3>1 DEF Printing!Sent
    <3>3. Printing!TypeOK'
      BY <2>0, <3>1 DEF Printing!TypeOK
    <3>4. Printing!PutInv'
      BY <3>1 DEF Printing!PutInv, Printing!Due
    <3>5. QED
      BY <2>3, <3>1, <3>2, <3>3, <3>4 DEF Printing!Inv
  <2>10. QED
    BY <2>4, <2>5, <2>6, <2>7, <2>8, <2>9 DEF Printing!Next, Printing!Put
<1>3. QED
  <2>1. IInv => Printing!Inv
    OBVIOUS
  <2> HIDE DEF IInv
  <2>2. QED
    BY <1>1, <1>2, <2>1, PTL

-----------------------------------------------------------------------------
(* The echo.                                                               *)

(* A sequence with one more at its end.                                    *)
LEMMA AppendedTo ==
  ASSUME NEW C, NEW s \in Seq(C), NEW x \in C
  PROVE  /\ s \o <<x>> \in Seq(C) /\ Len(s \o <<x>>) = Len(s) + 1 /\ Len(s) \in Nat
         /\ \A n \in 1 .. Len(s) : (s \o <<x>>)[n] = s[n]
         /\ (s \o <<x>>)[Len(s) + 1] = x
<1>1. <<x>> \in Seq(C) /\ Len(<<x>>) = 1 /\ <<x>>[1] = x
  OBVIOUS
<1>2. QED
  BY <1>1, ConcatProperties, LenProperties

(* The first of three joined is no longer than they are.                   *)
LEMMA LongerThan ==
  ASSUME NEW C, NEW s \in Seq(C), NEW t \in Seq(C), NEW u \in Seq(C)
  PROVE  /\ (s \o t) \o u \in Seq(C) /\ Len((s \o t) \o u) \in Nat /\ Len(s) \in Nat
         /\ Len(s) <= Len((s \o t) \o u)
<1> DEFINE k == Len(s)
           l == Len(t)
           m == Len(u)
<1>1. k \in Nat /\ l \in Nat /\ m \in Nat
  BY LenProperties
<1>2. s \o t \in Seq(C) /\ Len(s \o t) = k + l
  BY ConcatProperties
<1>3. (s \o t) \o u \in Seq(C) /\ Len((s \o t) \o u) = (k + l) + m
  BY <1>2, ConcatProperties
<1> HIDE DEF k, l, m
<1>4. k <= (k + l) + m /\ (k + l) + m \in Nat
  BY <1>1
<1>5. QED
  BY <1>1, <1>3, <1>4, Zenon DEF k

(* USART2_IRQHandler: the characters that are sent back are sent in the order*)
(* they came in, and a gap is a character that came while the handler was  *)
(* busy, however many there are.                                           *)
THEOREM EchoInOrder ==
  ASSUME MaxChars \in Nat
  PROVE  Echo!Init /\ [][Echo!Next]_(Echo!vars) => []Echo!Inv
<1> DEFINE C == 1 .. MaxChars
           A == echoLine \o echoShift
           E == Echo!Echo
           IInv == Echo!Inv /\ Echo!EchoInv
<1>0. /\ << >> \in Seq(C) /\ Len(<< >>) = 0 /\ << >> \o << >> = << >>
      /\ \A s \in Seq(C) : s \o << >> = s /\ << >> \o s = s
  BY EmptySeq, ConcatEmptySeq
<1>1. Echo!Init => IInv
  <2> SUFFICES ASSUME Echo!Init PROVE IInv
    OBVIOUS
  <2>1. E = << >>
    BY <1>0 DEF Echo!Init, Echo!Echo
  <2>2. Echo!TypeOK
    <3>1. /\ echoDatar \in Seq(C) /\ Len(echoDatar) = 0 /\ echoShift \in Seq(C)
          /\ Len(echoShift) = 0 /\ echoLine \in Seq(C) /\ Len(echoLine) = 0
      BY <1>0 DEF Echo!Init
    <3>2. received = 0 /\ rxne \in BOOLEAN /\ echoPc = "none" /\ c = 0 /\ busy = {}
      BY DEF Echo!Init
    <3>3. 0 \in 0 .. MaxChars /\ 0 <= 1 /\ 0 <= MaxChars
      OBVIOUS
    <3>4. QED
      BY <3>1, <3>2, <3>3, Zenon DEF Echo!TypeOK
  <2>3. Echo!EchoGaps
    BY <1>0, <2>1 DEF Echo!EchoGaps
  <2>4. Echo!EchoInv
    BY <1>0, <2>1 DEF Echo!Init, Echo!EchoInv, Echo!LastEcho
  <2>5. QED
    BY <2>2, <2>3, <2>4 DEF Echo!Inv
<1>2. IInv /\ [Echo!Next]_(Echo!vars) => IInv'
  <2> SUFFICES ASSUME IInv, [Echo!Next]_(Echo!vars) PROVE IInv'
    OBVIOUS
  <2>1. /\ received \in 0 .. MaxChars /\ rxne \in BOOLEAN
        /\ echoDatar \in Seq(C) /\ echoShift \in Seq(C) /\ echoLine \in Seq(C)
        /\ echoPc \in {"none", "put", "clear"} /\ c \in 0 .. MaxChars /\ busy \subseteq C
    BY DEF Echo!Inv, Echo!TypeOK
  <2>2. /\ Len(echoDatar) <= 1 /\ Len(echoShift) <= 1
    BY DEF Echo!Inv, Echo!TypeOK
  <2>3. A \in Seq(C) /\ A \o echoDatar \in Seq(C)
    BY <2>1, ConcatProperties
  <2> DEFINE P == A \o echoDatar
  (* By the state of the handler.                                          *)
  <2>4. /\ echoPc = "put" => E = P \o <<c>>
        /\ echoPc = "none" /\ rxne => E = P \o <<received>>
        /\ echoPc # "put" /\ ~(echoPc = "none" /\ rxne) => E = P
        /\ E \in Seq(C)
    <3>1. echoPc = "put" => c \in C
      BY <2>1 DEF Echo!EchoInv
    <3>2. rxne => received \in C
      BY <2>1 DEF Echo!EchoInv
    <3>3. /\ P \in Seq(C) /\ P \o << >> = P
          /\ \A n \in C : /\ <<n>> \in Seq(C) /\ P \o <<n>> \in Seq(C)
                          /\ (P \o <<n>>) \o << >> = P \o <<n>>
      <4> HIDE DEF P, C
      <4>1. P \in Seq(C)
        BY <2>3 DEF P
      <4>2. \A n \in C : P \o <<n>> \in Seq(C) /\ <<n>> \in Seq(C)
        BY <4>1, AppendedTo
      <4>3. QED
        BY <1>0, <4>1, <4>2
    <3>4. E = (P \o (IF echoPc = "put" THEN <<c>> ELSE << >>))
                 \o (IF rxne /\ echoPc = "none" THEN <<received>> ELSE << >>)
      BY DEF Echo!Echo
    <3> HIDE DEF P, C, E
    <3>5. CASE echoPc = "put"
      BY <3>1, <3>3, <3>4, <3>5
    <3>6. CASE echoPc # "put" /\ rxne /\ echoPc = "none"
      BY <3>2, <3>3, <3>4, <3>6
    <3>7. CASE echoPc # "put" /\ ~(rxne /\ echoPc = "none")
      BY <3>3, <3>4, <3>7
    <3>8. QED
      BY <3>5, <3>6, <3>7
  (* The same, of the state that comes next.                               *)
  <2>5. ASSUME P' \in Seq(C), received' \in 0 .. MaxChars, c' \in 0 .. MaxChars,
               echoPc' = "put" => c' \in C, rxne' => received' \in C
        PROVE  /\ echoPc' = "put" => E' = P' \o <<c'>>
               /\ echoPc' = "none" /\ rxne' => E' = P' \o <<received'>>
               /\ echoPc' # "put" /\ ~(echoPc' = "none" /\ rxne') => E' = P'
               /\ E' \in Seq(C)
    <3>1. /\ P' \o << >> = P'
          /\ \A n \in C : /\ <<n>> \in Seq(C) /\ P' \o <<n>> \in Seq(C)
                          /\ (P' \o <<n>>) \o << >> = P' \o <<n>>
      <4> HIDE DEF P, C
      <4>1. \A n \in C : P' \o <<n>> \in Seq(C) /\ <<n>> \in Seq(C)
        BY <2>5, AppendedTo
      <4>2. QED
        BY <1>0, <2>5, <4>1
    <3>2. E' = (P' \o (IF echoPc' = "put" THEN <<c'>> ELSE << >>))
                 \o (IF rxne' /\ echoPc' = "none" THEN <<received'>> ELSE << >>)
      BY DEF Echo!Echo
    <3> HIDE DEF P, C, E
    <3>3. CASE echoPc' = "put"
      BY <2>5, <3>1, <3>2, <3>3
    <3>4. CASE echoPc' # "put" /\ rxne' /\ echoPc' = "none"
      BY <2>5, <3>1, <3>2, <3>4
    <3>5. CASE echoPc' # "put" /\ ~(rxne' /\ echoPc' = "none")
      BY <2>5, <3>1, <3>2, <3>5
    <3>6. QED
      BY <3>3, <3>4, <3>5
  <2>6. /\ \A n \in 1 .. Len(E) : E[n] \in n .. received
        /\ \A n \in 2 .. Len(E) : E[n] = E[n - 1] + 1 \/ (E[n] = E[n - 1] + 2 /\ E[n] - 1 \in busy)
        /\ Echo!LastEcho = IF Len(E) = 0 THEN 0 ELSE E[Len(E)]
        /\ Len(E) \in Nat
    BY <2>4, LenProperties DEF Echo!Inv, Echo!EchoInv, Echo!EchoGaps, Echo!LastEcho
  <2> DEFINE Types == /\ received \in 0 .. MaxChars /\ rxne \in BOOLEAN
                      /\ echoDatar \in Seq(C) /\ Len(echoDatar) <= 1
                      /\ echoShift \in Seq(C) /\ Len(echoShift) <= 1
                      /\ echoLine \in Seq(C)
                      /\ echoPc \in {"none", "put", "clear"} /\ c \in 0 .. MaxChars
                      /\ busy \subseteq C
  <2>7. ASSUME Types', Echo!EchoInv', Echo!EchoGaps', E' \in Seq(C)
        PROVE  IInv'
    <3>1. Len(echoLine') <= Len(E')
      <4> DEFINE k == Len(echoLine')
                 l == Len(P')
      <4>1. P' \in Seq(C) /\ k \in Nat /\ l \in Nat /\ k <= l
        BY <2>7, LongerThan
      <4>2. \A n \in C : Len(P' \o <<n>>) = l + 1
        BY <4>1, AppendedTo
      <4>3. /\ echoPc' = "put" => E' = P' \o <<c'>> /\ c' \in C
            /\ echoPc' = "none" /\ rxne' => E' = P' \o <<received'>> /\ received' \in C
            /\ echoPc' # "put" /\ ~(echoPc' = "none" /\ rxne') => E' = P'
        <5>1. echoPc' = "put" => c' \in C
          BY <2>7 DEF Echo!EchoInv
        <5>2. rxne' => received' \in C
          BY <2>7 DEF Echo!EchoInv
        <5>3. received' \in 0 .. MaxChars /\ c' \in 0 .. MaxChars
          BY <2>7
        <5> HIDE DEF P, E, C
        <5>4. QED
          BY <2>5, <4>1, <5>1, <5>2, <5>3
      <4>4. Len(E') = l \/ Len(E') = l + 1
        <5> HIDE DEF P, E, C, l
        <5>1. Len(P') = l
          BY DEF l
        <5>2. QED
          BY <4>2, <4>3, <5>1, Zenon
      <4> HIDE DEF l, k
      <4>5. k <= l /\ k <= l + 1
        BY <4>1
      <4>6. QED
        BY <4>4, <4>5, Zenon DEF k
    <3>2. Len(echoLine') <= MaxChars
      <4> DEFINE k == Len(E')
                 l == Len(echoLine')
      <4>1. k \in Nat /\ l \in Nat /\ l <= k /\ received' \in 0 .. MaxChars
        BY <2>7, <3>1, LenProperties
      <4>2. \A n \in 1 .. k : n <= received'
        <5>1. \A n \in 1 .. k : E'[n] \in n .. received'
          BY <2>7 DEF Echo!EchoInv
        <5> HIDE DEF E, k
        <5>2. QED
          BY <4>1, <5>1
      <4> HIDE DEF k, l
      <4>3. l <= MaxChars
        BY <4>1, <4>2
      <4>4. QED
        BY <4>3 DEF l
    <3>3. QED
      BY <2>7, <3>2 DEF Echo!Inv, Echo!TypeOK
  (* What keeps the echo keeps it in order.                                *)
  <2>8. ASSUME UNCHANGED E, received' \in Nat, received' >= received, busy \subseteq busy'
        PROVE  /\ Echo!EchoGaps' /\ UNCHANGED Echo!LastEcho
               /\ \A n \in 1 .. Len(E') : E'[n] \in n .. received'
    <3>1. UNCHANGED Echo!LastEcho
      BY <2>8 DEF Echo!LastEcho
    <3>2. Echo!EchoGaps'
      BY <2>6, <2>8 DEF Echo!EchoGaps
    <3>3. \A n \in 1 .. Len(E') : E'[n] \in n .. received'
      <4>1. ASSUME NEW n \in 1 .. Len(E) PROVE E[n] \in n .. received'
        <5> DEFINE x == E[n]
        <5>1. n \in Int /\ x \in n .. received
          BY <2>6
        <5> HIDE DEF x
        <5>2. x \in n .. received'
          BY <2>1, <2>8, <5>1
        <5>3. QED
          BY <5>2 DEF x
      <4>2. QED
        BY <2>8, <4>1
    <3>4. QED
      BY <3>1, <3>2, <3>3
  <2>9. CASE Echo!Receive
    <3>1. Types' /\ UNCHANGED P
      BY <2>1, <2>2, <2>9 DEF Echo!Receive
    <3>2. CASE echoPc # "none"
      <4>1. UNCHANGED E
        BY <2>9, <3>2 DEF Echo!Receive, Echo!Echo
      <4>2. Echo!EchoInv'
        BY <2>1, <2>8, <2>9, <3>2, <4>1 DEF Echo!Receive, Echo!EchoInv
      <4>3. QED
        BY <2>1, <2>4, <2>7, <2>8, <2>9, <3>1, <4>1, <4>2 DEF Echo!Receive
    <3>3. CASE echoPc = "none"
      <4>1. E = P /\ received' = received + 1 /\ received' \in C /\ ~rxne /\ UNCHANGED busy
            /\ echoPc' = "none" /\ rxne'
        BY <2>1, <2>4, <2>9, <3>3 DEF Echo!Receive
      <4>2. E' = E \o <<received'>>
        BY <2>3, <2>5, <3>1, <4>1
      <4>3. /\ E' \in Seq(C) /\ Len(E') = Len(E) + 1
            /\ \A n \in 1 .. Len(E) : E'[n] = E[n]
            /\ E'[Len(E) + 1] = received'
        BY <2>4, <4>1, <4>2, AppendedTo
      <4>4. Echo!LastEcho = received \/ (Echo!LastEcho = received - 1 /\ received \in busy)
        BY <3>3, <4>1 DEF Echo!EchoInv
      <4> DEFINE k == Len(E)
      <4>5. k \in Nat /\ k <= received
        <5>1. CASE k = 0
          BY <2>1, <5>1
        <5>2. CASE k # 0
          <6>1. k \in 1 .. k /\ k \in Nat
            BY <2>6, <5>2
          <6>2. E[k] \in k .. received
            BY <2>6, <6>1
          <6> HIDE DEF k, E
          <6>3. QED
            BY <2>1, <6>1, <6>2
        <5>3. QED
          BY <5>1, <5>2
      <4>6. \A n \in 1 .. k + 1 : E'[n] \in n .. received'
        <5>1. ASSUME NEW n \in 1 .. k PROVE E'[n] \in n .. received'
          <6> DEFINE x == E[n]
          <6>1. E'[n] = x /\ x \in n .. received /\ n \in Int
            BY <2>6, <4>3
          <6> HIDE DEF E, k, x
          <6>2. x \in n .. received'
            BY <2>1, <4>1, <6>1
          <6>3. QED
            BY <6>1, <6>2
        <5>2. E'[k + 1] \in k + 1 .. received'
          <6>1. received' \in k + 1 .. received'
            <7> HIDE DEF k
            <7>1. QED
              BY <2>1, <4>1, <4>5
          <6>2. QED
            BY <4>3, <6>1
        <5> HIDE DEF E, k
        <5>3. QED
          BY <4>5, <5>1, <5>2
      <4>7. Echo!LastEcho' = received'
        <5>1. Len(E') = k + 1 /\ E'[k + 1] = received' /\ k + 1 # 0
          <6>1. Len(E') = k + 1 /\ E'[k + 1] = received'
            BY <4>3
          <6> HIDE DEF k
          <6>2. QED
            BY <4>5, <6>1
        <5>2. QED
          BY <5>1, Zenon DEF Echo!LastEcho
      <4>8. Echo!EchoGaps'
        <5>1. ASSUME NEW n \in 2 .. k + 1
              PROVE  \/ E'[n] = E'[n - 1] + 1
                     \/ E'[n] = E'[n - 1] + 2 /\ E'[n] - 1 \in busy
          <6>1. CASE n \in 2 .. k
            <7>1. n \in 1 .. k /\ n - 1 \in 1 .. k
              <8> HIDE DEF k
              <8>1. QED
                BY <4>5, <6>1
            <7>2. E'[n] = E[n] /\ E'[n - 1] = E[n - 1]
              BY <4>3, <7>1
            <7>3. QED
              BY <2>6, <6>1, <7>2
          <6>2. CASE n = k + 1
            <7>1. k \in 1 .. k /\ n - 1 = k
              <8> HIDE DEF k
              <8>1. QED
                BY <4>5, <6>2
            <7>2. E'[n] = received + 1 /\ E'[n - 1] = Echo!LastEcho
              <8>1. E'[n - 1] = E[k] /\ Len(E) # 0
                BY <4>3, <7>1
              <8>2. QED
                BY <2>6, <4>1, <4>3, <6>2, <8>1
            <7>3. received + 1 = received + 1 /\ (received + 1) - 1 = received
                  /\ received + 1 = (received - 1) + 2
              BY <2>1
            <7>4. QED
              BY <4>4, <7>2, <7>3
          <6>3. n \in 2 .. k \/ n = k + 1
            <7> HIDE DEF k
            <7>1. QED
              BY <4>5
          <6>4. QED
            BY <6>1, <6>2, <6>3
        <5>2. Len(E') = k + 1 /\ UNCHANGED busy
          BY <4>1, <4>3
        <5>3. QED
          BY <5>1, <5>2, Zenon DEF Echo!EchoGaps
      <4>9. Echo!EchoInv'
        <5>1. Len(E') = k + 1
          BY <4>3
        <5>2. received' >= 1
          BY <2>1, <4>1
        <5> HIDE DEF k, E
        <5>3. \A n \in 1 .. Len(E') : E'[n] \in n .. received'
          BY <4>6, <5>1
        <5>4. QED
          BY <4>1, <4>7, <5>2, <5>3, Zenon DEF Echo!EchoInv, E
      <4>10. QED
        BY <2>7, <3>1, <4>3, <4>8, <4>9
    <3>4. QED
      BY <3>2, <3>3
  <2>10. CASE Echo!GetChar
    <3>1. Types' /\ UNCHANGED P
      BY <2>1, <2>2, <2>10 DEF Echo!GetChar
    <3>2. UNCHANGED E
      <4>1. echoPc = "none" /\ rxne /\ c' = received /\ ~rxne' /\ echoPc' = "put"
            /\ UNCHANGED received /\ received \in C
        BY <2>1, <2>10 DEF Echo!GetChar, Echo!EchoInv
      <4> HIDE DEF P, E, C
      <4>2. E = P \o <<received>> /\ P' = P /\ P \in Seq(C)
        BY <2>3, <2>4, <3>1, <4>1 DEF P
      <4>3. E' = P' \o <<c'>>
        BY <2>1, <2>5, <4>1, <4>2
      <4>4. QED
        BY <4>1, <4>2, <4>3
    <3>3. Echo!EchoInv'
      BY <2>1, <2>8, <2>10, <3>2 DEF Echo!GetChar, Echo!EchoInv
    <3>4. QED
      BY <2>4, <2>7, <2>8, <2>10, <3>1, <3>2, <3>3 DEF Echo!GetChar
  <2>11. CASE Echo!PutChar
    <3>1. Types'
      BY <1>0, <2>1, <2>2, <2>3, <2>11 DEF Echo!PutChar, Echo!EchoInv
    <3>2. UNCHANGED E
      <4>1. E = P \o <<c>> /\ P = A /\ P' = A \o <<c>>
        BY <1>0, <2>3, <2>4, <2>11 DEF Echo!PutChar
      <4>2. P' \in Seq(C)
        BY <2>4, <2>11, <4>1 DEF Echo!PutChar
      <4>3. E' = P'
        BY <2>1, <2>5, <2>11, <3>1, <4>2 DEF Echo!PutChar, Echo!EchoInv
      <4>4. QED
        BY <4>1, <4>3
    <3>3. Echo!EchoInv'
      BY <2>1, <2>8, <2>11, <3>2 DEF Echo!PutChar, Echo!EchoInv
    <3>4. QED
      BY <2>1, <2>4, <2>7, <2>8, <2>11, <3>1, <3>2, <3>3 DEF Echo!PutChar
  <2>12. CASE Echo!ClearFlag
    <3>1. Types'
      BY <1>0, <2>1, <2>2, <2>3, <2>12 DEF Echo!ClearFlag, Echo!EchoInv
    <3>2. UNCHANGED E
      <4>1. E = P /\ UNCHANGED P
        BY <2>4, <2>12 DEF Echo!ClearFlag
      <4>2. E' = P'
        BY <2>3, <2>5, <2>12, <3>1, <4>1 DEF Echo!ClearFlag
      <4>3. QED
        BY <4>1, <4>2
    <3>3. Echo!EchoInv'
      BY <2>1, <2>8, <2>12, <3>2 DEF Echo!ClearFlag, Echo!EchoInv
    <3>4. QED
      BY <2>1, <2>4, <2>7, <2>8, <2>12, <3>1, <3>2, <3>3 DEF Echo!ClearFlag
  <2>13. CASE Echo!Load
    <3>1. Types'
      BY <1>0, <2>1, <2>2, <2>3, <2>13 DEF Echo!Load, Echo!EchoInv
    <3>2. UNCHANGED E
      <4>1. UNCHANGED P
        <5>1. P = echoLine \o echoDatar
          BY <1>0, <2>1, <2>13 DEF Echo!Load
        <5>2. P' = (echoLine \o echoDatar) \o << >>
          BY <2>13 DEF Echo!Load
        <5>3. echoLine \o echoDatar \in Seq(C)
          BY <2>1, ConcatProperties
        <5>4. QED
          BY <1>0, <5>1, <5>2, <5>3
      <4>2. QED
        BY <4>1, <2>13 DEF Echo!Load, Echo!Echo
    <3>3. Echo!EchoInv'
      BY <2>1, <2>8, <2>13, <3>2 DEF Echo!Load, Echo!EchoInv
    <3>4. QED
      BY <2>1, <2>4, <2>7, <2>8, <2>13, <3>1, <3>2, <3>3 DEF Echo!Load
  <2>14. CASE Echo!Send
    <3>1. Types'
      BY <1>0, <2>1, <2>2, <2>3, <2>14 DEF Echo!Send, Echo!EchoInv
    <3>2. UNCHANGED E
      <4>1. UNCHANGED P
        BY <1>0, <2>3, <2>14 DEF Echo!Send
      <4>2. QED
        BY <4>1, <2>14 DEF Echo!Send, Echo!Echo
    <3>3. Echo!EchoInv'
      BY <2>1, <2>8, <2>14, <3>2 DEF Echo!Send, Echo!EchoInv
    <3>4. QED
      BY <2>1, <2>4, <2>7, <2>8, <2>14, <3>1, <3>2, <3>3 DEF Echo!Send
  <2>15. CASE UNCHANGED Echo!vars
    <3>1. UNCHANGED <<received, rxne, echoDatar, echoShift, echoLine, echoPc, c, busy>>
      BY <2>15 DEF Echo!vars
    <3>2. UNCHANGED E
      BY <3>1 DEF Echo!Echo
    <3>3. Types'
      BY <2>1, <2>2, <3>1
    <3>4. Echo!EchoInv'
      BY <2>1, <2>8, <3>1, <3>2 DEF Echo!EchoInv
    <3>5. QED
      BY <2>1, <2>4, <2>7, <2>8, <3>1, <3>2, <3>3, <3>4
  <2>16. QED
    BY <2>9, <2>10, <2>11, <2>12, <2>13, <2>14, <2>15 DEF Echo!Next, Echo!Handler
<1>3. QED
  <2>1. IInv => Echo!Inv
    OBVIOUS
  <2> HIDE DEF IInv
  <2>2. QED
    BY <1>1, <1>2, <2>1, PTL

-----------------------------------------------------------------------------
(* rcc_init, eth_phy_init and gpio_init.                                   *)

(* rcc_init: which sources run and which are asked for at each step.       *)
RccInd ==
  /\ on \in [Rcc!Sources -> BOOLEAN] /\ ready \in [Rcc!Sources -> BOOLEAN]
  /\ on["hsi"] /\ ready["hsi"]
  /\ sw \in {"hsi", "pll"} /\ sws \in {"hsi", "pll"} /\ pllsrc \in {"hsi", "hse"}
  /\ \/ /\ step \in {"start", "hsi on"} /\ sw = sws
        /\ sws = "pll" => /\ pllsrc = "hse" /\ crystal /\ on["hse"] /\ ready["hse"]
                          /\ on["pll"] /\ ready["pll"]
     \/ step = "to hsi" /\ sw = "hsi" /\ pllsrc = "hsi"
        /\ (sws = "pll" => on["pll"] /\ ready["pll"])
     \/ step \in {"pll off", "hse off"} /\ sw = "hsi" /\ sws = "hsi"
     \/ step = "hse on" /\ sw = "hsi" /\ sws = "hsi" /\ on["hse"] /\ (ready["hse"] => crystal)
     \/ /\ step \in {"pll3 on", "pll on", "to pll", "done"}
        /\ crystal /\ on["hse"] /\ ready["hse"] /\ pllsrc = "hse"
        /\ step \in {"pll3 on", "pll on"} => sw = "hsi" /\ sws = "hsi"
        /\ step # "pll3 on" => on["pll"]
        /\ step \in {"to pll", "done"} => sw = "pll" /\ ready["pll"]
        /\ step = "done" => sws = "pll"

(* rcc_init never leaves the processor without a clock.                    *)
LEMMA RccInvariant == Rcc!Init /\ [][Rcc!Next]_(Rcc!vars) => []Rcc!Inv
<1> USE DEF Rcc!Sources
<1>1. Rcc!Init => RccInd
  <2> SUFFICES ASSUME Rcc!Init PROVE RccInd
    OBVIOUS
  <2>1. PICK fast \in {FALSE, crystal} :
          /\ on = [s \in Rcc!Sources |-> s = "hsi" \/ fast] /\ ready = on
          /\ sw = IF fast THEN "pll" ELSE "hsi"
          /\ pllsrc = IF fast THEN "hse" ELSE "hsi"
    BY DEF Rcc!Init
  <2>2. crystal \in BOOLEAN /\ sws = sw /\ step = "start"
    BY DEF Rcc!Init
  <2>3. CASE fast
    <3>1. on = [s \in Rcc!Sources |-> TRUE] /\ crystal
      BY <2>1, <2>3
    <3>2. QED
      BY <2>1, <2>2, <2>3, <3>1 DEF RccInd
  <2>4. CASE ~fast
    <3>1. on = [s \in Rcc!Sources |-> s = "hsi"]
      BY <2>1, <2>4
    <3>2. QED
      BY <2>1, <2>2, <2>4, <3>1 DEF RccInd
  <2>5. QED
    BY <2>3, <2>4
<1>2. RccInd /\ [Rcc!Next]_(Rcc!vars) => RccInd'
  <2> SUFFICES ASSUME RccInd, [Rcc!Next]_(Rcc!vars) PROVE RccInd'
    OBVIOUS
  <2> USE DEF RccInd
  <2>1. CASE Rcc!HsiOn
    BY <2>1 DEF Rcc!HsiOn
  <2>2. CASE Rcc!ToHsi
    BY <2>2 DEF Rcc!ToHsi
  <2>3. CASE Rcc!PllOff
    BY <2>3 DEF Rcc!PllOff
  <2>4. CASE Rcc!HseOff
    BY <2>4 DEF Rcc!HseOff
  <2>5. CASE Rcc!HseOn
    BY <2>5 DEF Rcc!HseOn
  <2>6. CASE Rcc!Pll3On
    BY <2>6 DEF Rcc!Pll3On
  <2>7. CASE Rcc!PllOn
    BY <2>7 DEF Rcc!PllOn
  <2>8. CASE Rcc!ToPll
    BY <2>8 DEF Rcc!ToPll
  <2>9. CASE Rcc!Finish
    BY <2>9 DEF Rcc!Finish
  <2>10. CASE Rcc!Select
    BY <2>10 DEF Rcc!Select
  <2>11. ASSUME NEW s \in Rcc!Sources, Rcc!Settle(s) PROVE RccInd'
    <3>1. ready' = [ready EXCEPT ![s] = ~@] /\ ready[s] # (on[s] /\ Rcc!Input(s))
          /\ UNCHANGED <<crystal, on, sw, sws, pllsrc, step>>
      BY <2>11 DEF Rcc!Settle
    <3>2. CASE s = "hsi"
      BY <3>1, <3>2 DEF Rcc!Input
    <3>3. CASE s = "hse"
      BY <3>1, <3>3 DEF Rcc!Input
    <3>4. CASE s = "pll"
      BY <3>1, <3>4 DEF Rcc!Input
    <3>5. CASE s = "pll3"
      BY <3>1, <3>5 DEF Rcc!Input
    <3>6. QED
      BY <3>2, <3>3, <3>4, <3>5
  <2>12. CASE UNCHANGED Rcc!vars
    BY <2>12 DEF Rcc!vars
  <2>13. QED
    BY <2>1, <2>2, <2>3, <2>4, <2>5, <2>6, <2>7, <2>8, <2>9, <2>10, <2>11, <2>12
       DEF Rcc!Next, Rcc!Program, Rcc!Controller
<1>3. RccInd => Rcc!Inv
  BY DEF RccInd, Rcc!Inv, Rcc!ClockRuns, Rcc!ClockRight
<1>4. QED
  BY <1>1, <1>2, <1>3, PTL

(* eth_phy_init: where the fields outlast an access, all are writes.       *)
MiiInd ==
  /\ miiar = [mr |-> miiar.mr, mw |-> miiar.mw, mb |-> miiar.mb]
  /\ miiar.mw \in BOOLEAN /\ miiar.mb \in BOOLEAN
  /\ keeps \in BOOLEAN /\ complete \in BOOLEAN
  /\ keeps /\ doing # "reset" => miiar.mw /\ miidr = "reset"
  /\ doing = "reset" => ~miiar.mb /\ miidr = "negotiating"
  /\ miidr = "complete" => complete
  /\ doing = "done" => complete /\ ~keeps

(* eth_phy_init says no sooner than the PHY that the link is there.        *)
LEMMA MiiInvariant == Mii!Init /\ [][Mii!Next]_(Mii!vars) => []Mii!LinkRight
<1>1. Mii!Init => MiiInd
  <2>1. ASSUME miiar = [mr |-> {}, mw |-> FALSE, mb |-> FALSE]
        PROVE  miiar.mr = {} /\ miiar.mw = FALSE /\ miiar.mb = FALSE
    BY <2>1
  <2>2. QED
    BY <2>1 DEF Mii!Init, MiiInd
<1>2. MiiInd /\ [Mii!Next]_(Mii!vars) => MiiInd'
  <2> SUFFICES ASSUME MiiInd, [Mii!Next]_(Mii!vars) PROVE MiiInd'
    OBVIOUS
  <2> USE DEF MiiInd
  <2>1. CASE Mii!WriteReset
    BY <2>1 DEF Mii!WriteReset, Mii!OrIn
  <2>2. CASE Mii!ReadStatus
    BY <2>2 DEF Mii!ReadStatus, Mii!OrIn
  <2>3. CASE Mii!TestStatus
    BY <2>3 DEF Mii!TestStatus
  <2>4. CASE Mii!Access
    BY <2>4 DEF Mii!Access
  <2>5. CASE Mii!Negotiate
    BY <2>5 DEF Mii!Negotiate
  <2>6. CASE UNCHANGED Mii!vars
    BY <2>6 DEF Mii!vars
  <2>7. QED
    BY <2>1, <2>2, <2>3, <2>4, <2>5, <2>6 DEF Mii!Next, Mii!Program, Mii!Controller
<1>3. MiiInd => Mii!LinkRight
  BY DEF MiiInd, Mii!LinkRight
<1>4. QED
  BY <1>1, <1>2, <1>3, PTL

(* gpio_init: PinsRight, and what the registers hold.                      *)
GpioInd ==
  /\ cfgr \in [{"CFGLR", "CFGHR"} -> [0 .. 7 -> [mode : Gpio!Modes, cnf : Gpio!Configs]]]
  /\ asked \in [Pins -> [mode : Gpio!Modes, cnf : Gpio!Configs, before : Gpio!Configs]]
  /\ Gpio!PinsRight

(* No two pins share a place in a register.                                *)
LEMMA GpioPlaces ==
  ASSUME NEW p \in 0 .. 15
  PROVE  /\ Gpio!Place(p) = p % 8 /\ p % 8 \in 0 .. 7
         /\ Gpio!Register(p) \in {"CFGLR", "CFGHR"}
         /\ \A r \in 0 .. 15 : Gpio!Register(r) = Gpio!Register(p) /\ r % 8 = p % 8 => r = p
  BY DEF Gpio!Place, Gpio!Register

(* Every pin is configured as was asked, whatever its number.              *)
LEMMA GpioInvariant ==
  ASSUME Pins \subseteq 0 .. 15
  PROVE  Gpio!Init /\ [][Gpio!Next]_(Gpio!vars) => []Gpio!PinsRight
<1>1. Gpio!Init => GpioInd
  BY GpioPlaces DEF Gpio!Init, GpioInd, Gpio!PinsRight, Gpio!Modes, Gpio!Configs
<1>2. GpioInd /\ [Gpio!Next]_(Gpio!vars) => GpioInd'
  <2> SUFFICES ASSUME GpioInd, [Gpio!Next]_(Gpio!vars) PROVE GpioInd'
    OBVIOUS
  <2>1. ASSUME NEW pin \in Pins, NEW mode \in Gpio!Modes, NEW config \in Gpio!Configs,
               Gpio!Configure(pin, mode, config)
        PROVE  GpioInd'
    <3> DEFINE r == Gpio!Register(pin)  place == pin % 8
               old == cfgr[r][place]
               new == [mode |-> mode, cnf |-> IF mode = "input" THEN old.cnf \cup config
                                              ELSE config]
               ask == [mode |-> mode, cnf |-> config,
                       before |-> IF mode = "input" THEN asked[pin].cnf \cup asked[pin].before
                                  ELSE {}]
    <3>1. r \in {"CFGLR", "CFGHR"} /\ place \in 0 .. 7 /\ Gpio!Place(pin) = place
      BY GpioPlaces
    <3>2. cfgr' = [cfgr EXCEPT ![r] = [cfgr[r] EXCEPT ![place] = new]]
          /\ asked' = [asked EXCEPT ![pin] = ask]
      BY <2>1, <3>1 DEF Gpio!Configure, GpioInd
    <3>3. cfgr[r] \in [0 .. 7 -> [mode : Gpio!Modes, cnf : Gpio!Configs]]
          /\ old \in [mode : Gpio!Modes, cnf : Gpio!Configs]
          /\ asked[pin] \in [mode : Gpio!Modes, cnf : Gpio!Configs, before : Gpio!Configs]
      BY <3>1 DEF GpioInd
    <3>4. new \in [mode : Gpio!Modes, cnf : Gpio!Configs]
          /\ ask \in [mode : Gpio!Modes, cnf : Gpio!Configs, before : Gpio!Configs]
      BY <3>3 DEF Gpio!Configs
    <3>5. old.cnf = asked[pin].cnf \cup asked[pin].before
      BY DEF GpioInd, Gpio!PinsRight
    <3> HIDE DEF r, place, old, new, ask
    <3>6. /\ cfgr' \in [{"CFGLR", "CFGHR"} -> [0 .. 7 -> [mode : Gpio!Modes, cnf : Gpio!Configs]]]
          /\ asked' \in [Pins -> [mode : Gpio!Modes, cnf : Gpio!Configs, before : Gpio!Configs]]
      BY <3>1, <3>2, <3>3, <3>4 DEF GpioInd
    <3>7. ASSUME NEW p \in Pins
          PROVE  LET has == cfgr'[Gpio!Register(p)][p % 8]
                 IN  has.mode = asked'[p].mode /\ has.cnf = asked'[p].cnf \cup asked'[p].before
      <4>1. CASE p = pin
        <5>1. cfgr'[Gpio!Register(p)][p % 8] = new /\ asked'[p] = ask
          BY <3>1, <3>2, <3>3, <4>1 DEF GpioInd, r, place
        <5>2. new.mode = ask.mode /\ new.cnf = ask.cnf \cup ask.before
          BY <3>5 DEF new, ask
        <5>3. QED
          BY <5>1, <5>2
      <4>2. CASE p # pin
        <5>1. Gpio!Register(p) # r \/ p % 8 # place
          BY <4>2, GpioPlaces DEF r, place
        <5>2. Gpio!Register(p) \in {"CFGLR", "CFGHR"} /\ p % 8 \in 0 .. 7
          BY GpioPlaces
        <5>3. cfgr'[Gpio!Register(p)][p % 8] = cfgr[Gpio!Register(p)][p % 8]
          BY <3>1, <3>2, <3>3, <5>1, <5>2 DEF GpioInd
        <5>4. asked'[p] = asked[p]
          BY <3>2, <4>2 DEF GpioInd
        <5>5. QED
          BY <5>3, <5>4 DEF GpioInd, Gpio!PinsRight
      <4>3. QED
        BY <4>1, <4>2
    <3>8. QED
      BY <3>6, <3>7 DEF GpioInd, Gpio!PinsRight
  <2>2. CASE UNCHANGED Gpio!vars
    BY <2>2 DEF Gpio!vars, GpioInd, Gpio!PinsRight
  <2>3. QED
    BY <2>1, <2>2 DEF Gpio!Next
<1>3. QED
  BY <1>1, <1>2, PTL DEF GpioInd

-----------------------------------------------------------------------------
(* usart_init, tim_init and eth_init.                                      *)

(* usart_init: how far it has come, and what is so of the registers then.  *)
SerialTypes ==
  /\ num \in 1 .. 3 /\ system_clk \in {0, SystemClk}
  /\ settings \in Serial!Settings
  /\ ctlr1 \subseteq {"UE", "TE", "RE", "TXEIE", "RXNEIE"} /\ brr \in Nat
  /\ initialising \in {"out", "rcc", "irq", "tx", "rx", "baud", "enable", "ready"}
  /\ begun \in {"no", "first", "again"} /\ speed \in {"right", "wrong"}
  /\ clocked \in BOOLEAN /\ enabled \in BOOLEAN /\ received1 \in BOOLEAN /\ garbled \in BOOLEAN

(* The divider gives the speed that was asked for exactly.                 *)
SpeedFits == brr * settings.baud = Serial!BusClk(SystemClk)

(* The registers are filled in the order of the calls, and stay filled.    *)
SerialInd ==
  /\ SerialTypes
  /\ initialising = "out" <=> begun = "no"
  /\ initialising \notin {"out", "rcc"} => clocked
  /\ initialising \notin {"out", "rcc", "irq"} => enabled
  /\ num # 3 =>
       /\ initialising \in {"tx", "rx", "baud", "enable", "ready"} =>
            ("TXEIE" \in ctlr1 <=> settings.txIrq) /\ ("RXNEIE" \in ctlr1 <=> settings.rxIrq)
       /\ initialising \in {"rx", "baud", "enable", "ready"} =>
            ("TE" \in ctlr1 <=> settings.tx)
       /\ initialising \in {"baud", "enable", "ready"} => ("RE" \in ctlr1 <=> settings.rx)
       /\ system_clk # 0 /\ initialising \in {"enable", "ready"} =>
            SpeedFits
  /\ begun # "again" /\ "UE" \in ctlr1 => initialising = "ready"
  /\ begun # "again" => speed = "right" /\ ~garbled
  /\ num = 3 \/ system_clk = 0 => brr = 0 /\ ~received1
  /\ num = 3 => ctlr1 = {}

(* The clock and both speeds are positive.                                 *)
LEMMA Speeds == SystemClk \in Nat \ {0} /\ Slow \in Nat \ {0} /\ Fast \in Nat \ {0}
  BY DriversAssumption DEF Serial!SerialAssumption

(* The divider is a number, ...                                            *)
LEMMA DividerType ==
  ASSUME NEW clk \in Nat, NEW baud \in {Slow, Fast}
  PROVE  Divider(clk, baud) \in Nat
  BY Speeds, SMT DEF Divider

(* ... and zero while system_clk is.                                       *)
LEMMA NoDivider ==
  ASSUME NEW baud \in {Slow, Fast}
  PROVE  Divider(0, baud) = 0 /\ Divider(0 \div 2, baud) = 0
  BY Speeds, SMT DEF Divider

(* Both settings asked for are such as usart_init takes.                   *)
LEMMA AskedSettings ==
  {[baud |-> Fast, tx |-> TRUE, rx |-> TRUE, txIrq |-> FALSE, rxIrq |-> FALSE],
   [baud |-> Slow, tx |-> TRUE, rx |-> FALSE, txIrq |-> FALSE, rxIrq |-> TRUE]}
    \subseteq Serial!Settings
  BY DriversAssumption, Zenon DEF Serial!SerialAssumption

(* A USART that is ready is what its settings say, at the speed asked for. *)
LEMMA SerialInvariant ==
  ASSUME Divides(SystemClk), Divides(SystemClk \div 2)
  PROVE  Serial!Init /\ [][Serial!Next]_(Serial!vars) => []Serial!Inv
<1>1. Serial!Init => SerialInd
  <2> SUFFICES ASSUME Serial!Init PROVE SerialInd
    OBVIOUS
  <2>1. SerialTypes
    <3>1. settings \in Serial!Settings
      <4>1. PICK baud \in {Slow, Fast} :
              settings = [baud |-> baud,
                          tx |-> FALSE, rx |-> FALSE, txIrq |-> FALSE, rxIrq |-> FALSE]
        <5>1. (CHOOSE baud \in {Slow, Fast} : TRUE) \in {Slow, Fast}
          OBVIOUS
        <5>2. QED
          BY <5>1, Zenon DEF Serial!Init
      <4>2. QED
        BY <4>1 DEF Serial!Settings
    <3>2. /\ num \in 1 .. 3 /\ system_clk \in {0, SystemClk}
          /\ ctlr1 = {} /\ brr = 0 /\ initialising = "out" /\ begun = "no" /\ speed = "right"
          /\ clocked = FALSE /\ enabled = FALSE /\ received1 = FALSE /\ garbled = FALSE
      BY DEF Serial!Init
    <3>3. QED
      BY <3>1, <3>2, Zenon DEF SerialTypes
  <2>2. /\ initialising = "out" /\ begun = "no" /\ ctlr1 = {} /\ brr = 0
        /\ received1 = FALSE /\ garbled = FALSE /\ speed = "right"
    BY DEF Serial!Init
  <2>3. QED
    BY <2>1, <2>2 DEF SerialInd
<1>2. SerialInd /\ [Serial!Next]_(Serial!vars) => SerialInd'
  <2> SUFFICES ASSUME SerialInd, [Serial!Next]_(Serial!vars) PROVE SerialInd'
    OBVIOUS
  <2>1. settings.baud \in {Slow, Fast}
    BY DEF SerialInd, SerialTypes, Serial!Settings
  <2>2. UNCHANGED <<num, brr>> /\ settings'.baud = settings.baud => SpeedFits' = SpeedFits
    BY DEF SpeedFits, Serial!BusClk
  <2> USE DEF SerialInd, SerialTypes
  <2>3. CASE Serial!GpioInit
    BY <2>3, AskedSettings DEF Serial!GpioInit
  <2>4. CASE Serial!RccInit
    BY <2>4, <2>2 DEF Serial!RccInit
  <2>5. CASE Serial!IrqInit
    BY <2>5, <2>2 DEF Serial!IrqInit, Serial!Control
  <2>6. CASE Serial!TxInit
    BY <2>6, <2>2 DEF Serial!TxInit, Serial!Control, Serial!Switched
  <2>7. CASE Serial!RxInit
    BY <2>7, <2>2 DEF Serial!RxInit, Serial!Control, Serial!Switched
  <2>8. CASE Serial!BaudInit
    <3>1. /\ num # 3 => brr' = Divider(Serial!BusClk(system_clk), settings.baud)
          /\ num = 3 => brr' = brr
          /\ initialising = "baud" /\ initialising' = "enable"
          /\ UNCHANGED <<num, system_clk, settings, clocked, enabled, ctlr1, received1, speed,
                         begun, garbled>>
      BY <2>8, SMT DEF Serial!BaudInit, Divider
    <3>2. num # 3 /\ system_clk = 0 => brr' = 0
      <4>1. system_clk = 0 => Serial!BusClk(system_clk) \in {0, 0 \div 2}
        BY DEF Serial!BusClk
      <4> HIDE DEF SerialInd
      <4>2. QED
        BY <2>1, <3>1, <4>1, NoDivider
    <3>3. num # 3 /\ system_clk # 0 => brr' \in Nat /\ SpeedFits'
      <4> SUFFICES ASSUME num # 3, system_clk # 0 PROVE brr' \in Nat /\ SpeedFits'
        OBVIOUS
      <4>1. Serial!BusClk(SystemClk) \in {SystemClk, SystemClk \div 2}
        BY DEF Serial!BusClk
      <4>2. Divides(Serial!BusClk(SystemClk))
        BY <4>1
      <4>3. brr' = Divider(Serial!BusClk(SystemClk), settings.baud)
        BY <3>1
      <4>4. brr' * settings.baud = Serial!BusClk(SystemClk)
        BY <2>1, <4>2, <4>3 DEF Divides
      <4>5. UNCHANGED <<num, settings>>
        BY <3>1
      <4>6. brr' \in Nat
        BY <2>1, <4>2, <4>3, DividerType DEF Divides
      <4>7. QED
        BY <4>4, <4>5, <4>6 DEF SpeedFits, Serial!BusClk
    <3>4. QED
      BY <3>1, <3>2, <3>3
  <2>9. CASE Serial!Enable
    BY <2>9, <2>2 DEF Serial!Enable, Serial!Control
  <2>10. ASSUME NEW set \in BOOLEAN,
                \/ Serial!Switch("TE", "tx", set) \/ Serial!Switch("RE", "rx", set)
                \/ Serial!Switch("TXEIE", "txIrq", set) \/ Serial!Switch("RXNEIE", "rxIrq", set)
         PROVE  SerialInd'
    <3>1. CASE Serial!Switch("TE", "tx", set)
      BY <2>2, <3>1 DEF Serial!Switch, Serial!Control, Serial!Switched, Serial!Settings
    <3>2. CASE Serial!Switch("RE", "rx", set)
      BY <2>2, <3>2 DEF Serial!Switch, Serial!Control, Serial!Switched, Serial!Settings
    <3>3. CASE Serial!Switch("TXEIE", "txIrq", set)
      BY <2>2, <3>3 DEF Serial!Switch, Serial!Control, Serial!Switched, Serial!Settings
    <3>4. CASE Serial!Switch("RXNEIE", "rxIrq", set)
      BY <2>2, <3>4 DEF Serial!Switch, Serial!Control, Serial!Switched, Serial!Settings
    <3>5. QED
      BY <2>10, <3>1, <3>2, <3>3, <3>4
  <2>11. ASSUME NEW set \in BOOLEAN, Serial!SwitchAll(set) PROVE SerialInd'
    BY <2>2, <2>11 DEF Serial!SwitchAll, Serial!Control, Serial!Switched
  <2>12. CASE Serial!Receive
    <3>1. speed' = IF SpeedFits THEN "right" ELSE "wrong"
      BY <2>12 DEF Serial!Receive, SpeedFits
    <3>2. "UE" \in ctlr1 /\ brr # 0 /\ num # 3 /\ system_clk # 0
      BY <2>12 DEF Serial!Receive
    <3>3. QED
      BY <2>2, <2>12, <3>1, <3>2 DEF Serial!Receive
  <2>13. CASE Serial!GetChar
    BY <2>2, <2>13 DEF Serial!GetChar
  <2>14. CASE UNCHANGED Serial!vars
    BY <2>2, <2>14 DEF Serial!vars
  <2>15. QED
    BY <2>3, <2>4, <2>5, <2>6, <2>7, <2>8, <2>9, <2>10, <2>11, <2>12, <2>13, <2>14
       DEF Serial!Next, Serial!Initialise, Serial!Switches
<1>3. SerialInd => Serial!Inv
  <2> SUFFICES ASSUME SerialInd PROVE Serial!Inv
    OBVIOUS
  <2> USE DEF SerialInd, SerialTypes
  <2>1. Serial!Agrees
    BY DEF Serial!Agrees
  <2>2. Serial!Readable /\ Serial!ThirdDead
    BY DEF Serial!Readable, Serial!ThirdDead
  <2>3. Serial!SpeedRight
    BY DEF Serial!SpeedRight, SpeedFits
  <2>4. QED
    BY <2>1, <2>2, <2>3 DEF Serial!Inv
<1>4. QED
  BY <1>1, <1>2, <1>3, PTL

(* tim_init: the rate that the timer counts with is the one that was asked *)
(* for, but while tim_set_freq has changed it.                             *)
TimSetupInd ==
  /\ tim \in [freq : {"slow", "fast"}, irq : BOOLEAN]
  /\ setting \in {"out", "irq", "freq", "enable", "update", "ready"}
  /\ setting \in {"enable", "update"} => preload = tim.freq
  /\ setting \in {"freq", "enable", "update"} => ~setupUif
  /\ setting \in {"irq", "freq", "enable", "update"} =>
       "URS" \in timCtlr1 /\ ~changed /\ ~switched
  /\ setting \in {"freq", "enable", "update"} => (uie <=> tim.irq)
  /\ setting = "ready" => (uie <=> tim.irq /\ ~switched)
  /\ setting = "ready" => preload = tim.freq /\ (~changed => shadow = tim.freq)
  /\ setting = "ready" /\ setupUif /\ ~changed => ended \in {tim.freq, "mixed"}
  /\ ~odd

(* A tick that is counted is a period of the rate that was asked for.      *)
LEMMA TimSetupInvariant == TimSetup!Init /\ [][TimSetup!Next]_(TimSetup!vars) => []TimSetup!Inv
<1>1. TimSetup!Init => TimSetupInd
  BY DEF TimSetup!Init, TimSetupInd
<1>2. TimSetupInd /\ [TimSetup!Next]_(TimSetup!vars) => TimSetupInd'
  <2> SUFFICES ASSUME TimSetupInd, [TimSetup!Next]_(TimSetup!vars) PROVE TimSetupInd'
    OBVIOUS
  <2> USE DEF TimSetupInd
  <2>1. CASE TimSetup!ControlInit
    BY <2>1 DEF TimSetup!ControlInit
  <2>2. CASE TimSetup!IrqInit
    BY <2>2 DEF TimSetup!IrqInit
  <2>3. CASE TimSetup!FreqInit
    BY <2>3 DEF TimSetup!FreqInit
  <2>4. CASE TimSetup!EnableInit
    BY <2>4 DEF TimSetup!EnableInit
  <2>5. CASE TimSetup!UpdateInit
    BY <2>5 DEF TimSetup!UpdateInit
  <2>6. CASE TimSetup!SetFreq
    BY <2>6 DEF TimSetup!SetFreq
  <2>7. CASE TimSetup!EnableTim
    BY <2>7 DEF TimSetup!EnableTim
  <2>8. CASE TimSetup!DisableTim
    BY <2>8 DEF TimSetup!DisableTim
  <2>9. CASE TimSetup!EnableIrq
    BY <2>9 DEF TimSetup!EnableIrq
  <2>10. CASE TimSetup!DisableIrq
    BY <2>10 DEF TimSetup!DisableIrq
  <2>11. CASE TimSetup!SetTicks
    BY <2>11 DEF TimSetup!SetTicks
  <2>12. CASE TimSetup!Overflow
    BY <2>12 DEF TimSetup!Overflow
  <2>13. CASE TimSetup!TimHandler
    BY <2>13 DEF TimSetup!TimHandler
  <2>14. CASE UNCHANGED TimSetup!vars
    BY <2>14 DEF TimSetup!vars
  <2>15. QED
    BY <2>1, <2>2, <2>3, <2>4, <2>5, <2>6, <2>7, <2>8, <2>9, <2>10, <2>11, <2>12, <2>13, <2>14
       DEF TimSetup!Next
<1>3. TimSetupInd => TimSetup!Inv
  BY DEF TimSetupInd, TimSetup!Inv, TimSetup!TicksRight, TimSetup!InterruptRight
<1>4. QED
  BY <1>1, <1>2, <1>3, PTL

(* eth_init: behind the wait for its reset the controller has nothing left *)
(* of what it was before, and its registers grow as they are written.      *)
EthSetupInd ==
  /\ EthSetup!TypeOK
  /\ starting \in {"out", "reset", "resetting", "filter", "dma", "irq", "mac", "start_te",
                   "start_ftf", "start_re", "start_st", "start_sr", "started"}
  /\ starting # "out" => ethClocked
  /\ starting \in {"out", "reset"} => ~resetting /\ frames = {}
  /\ starting \notin {"out", "reset", "resetting"} =>
       /\ ~resetting /\ macffr = {} /\ flushed
       /\ macfcr = {"pt", "zqpd"}
  /\ starting = "resetting" =>
       /\ frames = {}
       /\ ~resetting => /\ maccr = {} /\ macffr = {} /\ macfcr = {} /\ dmaomr = {}
                        /\ dmaier = {} /\ address = "reset" /\ flushed
  /\ starting \in {"filter", "dma", "irq", "mac", "start_te"} => maccr = {"pr", "dm", "ipco"}
  /\ starting \in {"start_ftf", "start_re"} => maccr = {"pr", "dm", "ipco", "te"}
  /\ starting \in {"start_st", "start_sr", "started"} => maccr = {"pr", "dm", "ipco", "te", "re"}
  /\ starting \in {"filter", "dma"} => dmaomr = {}
  /\ starting \in {"irq", "mac", "start_te", "start_ftf", "start_re", "start_st"} =>
       dmaomr = {"tsf", "fef", "fugf"}
  /\ starting = "start_sr" => dmaomr = {"tsf", "fef", "fugf", "st"}
  /\ starting = "started" => dmaomr = {"tsf", "fef", "fugf", "st", "sr"}
  /\ starting \notin {"out", "reset", "resetting", "filter", "dma"} => lists
  /\ starting \in {"filter", "dma", "irq"} => dmaier = {}
  /\ starting \notin {"out", "reset", "resetting", "filter", "dma", "irq"} =>
       dmaier = EthSetup!InterruptBits \ {"rie", "rbuie"} /\ ethEnabled
  /\ starting \in {"filter", "dma", "irq", "mac"} => address = "reset"
  /\ starting \notin {"out", "reset", "resetting", "filter", "dma", "irq", "mac"} =>
       address = "own"
  /\ EthSetup!FilterRight

(* The controller is what eth_init says, whatever it was before.           *)
LEMMA EthSetupInvariant == EthSetup!Init /\ [][EthSetup!Next]_(EthSetup!vars) => []EthSetup!Inv
<1> USE DEF EthSetup!TypeOK, EthSetup!ModeBits, EthSetup!FilterBits, EthSetup!FlowBits,
            EthSetup!OperationBits, EthSetup!InterruptBits
<1>1. EthSetup!Init => EthSetupInd
  <2>1. EthSetup!Init => EthSetup!TypeOK
    BY DEF EthSetup!Init
  <2>2. EthSetup!Init => starting = "out" /\ resetting = FALSE /\ frames = {}
    BY DEF EthSetup!Init
  <2>3. QED
    BY <2>1, <2>2 DEF EthSetupInd, EthSetup!FilterRight
<1>2. EthSetupInd /\ [EthSetup!Next]_(EthSetup!vars) => EthSetupInd'
  <2> SUFFICES ASSUME EthSetupInd, [EthSetup!Next]_(EthSetup!vars) PROVE EthSetupInd'
    OBVIOUS
  <2> USE DEF EthSetupInd
  <2>1. CASE EthSetup!RccInit
    BY <2>1 DEF EthSetup!RccInit, EthSetup!FilterRight
  <2>2. CASE EthSetup!Reset
    BY <2>2 DEF EthSetup!Reset, EthSetup!FilterRight
  <2>3. CASE EthSetup!ControlInit
    BY <2>3 DEF EthSetup!ControlInit, EthSetup!FilterRight
  <2>4. CASE EthSetup!FilterInit
    BY <2>4 DEF EthSetup!FilterInit, EthSetup!FilterRight
  <2>5. CASE EthSetup!DmaInit
    BY <2>5 DEF EthSetup!DmaInit, EthSetup!FilterRight
  <2>6. CASE EthSetup!IrqInit
    BY <2>6 DEF EthSetup!IrqInit, EthSetup!FilterRight
  <2>7. CASE EthSetup!SetMac
    BY <2>7 DEF EthSetup!SetMac, EthSetup!FilterRight
  <2>8. CASE EthSetup!StartTransmitter
    BY <2>8 DEF EthSetup!StartTransmitter, EthSetup!FilterRight
  <2>9. CASE EthSetup!StartFlush
    BY <2>9 DEF EthSetup!StartFlush, EthSetup!FilterRight
  <2>10. CASE EthSetup!StartReceiver
    BY <2>10 DEF EthSetup!StartReceiver, EthSetup!FilterRight
  <2>11. CASE EthSetup!StartEngines
    BY <2>11 DEF EthSetup!StartEngines, EthSetup!FilterRight
  <2>12. CASE EthSetup!ResetEnds
    BY <2>12 DEF EthSetup!ResetEnds, EthSetup!FilterRight
  <2>13. ASSUME NEW kind \in EthSetup!Kinds, EthSetup!Frame(kind) PROVE EthSetupInd'
    <3>1. starting \notin {"out", "reset", "resetting"} =>
            lists /\ address # "left" /\ macffr = {} /\ "sr" \in dmaomr
      BY <2>13 DEF EthSetup!Frame
    <3>2. starting \notin {"out", "reset", "resetting"} => kind \in {"own", "broadcast"}
      BY <2>13, <3>1 DEF EthSetup!Frame, EthSetup!Passes, EthSetup!Kinds
    <3>3. EthSetup!FilterRight'
      BY <2>13, <3>1, <3>2 DEF EthSetup!Frame, EthSetup!FilterRight
    <3>4. starting \in {"out", "reset", "resetting"} => frames' = frames
      BY <2>13 DEF EthSetup!Frame
    <3>5. UNCHANGED <<ethClocked, resetting, maccr, macffr, macfcr, dmaomr, dmaier, address,
                      lists, flushed, ethEnabled, starting>>
      BY <2>13 DEF EthSetup!Frame
    <3>6. QED
      BY <3>3, <3>4, <3>5
  <2>14. CASE UNCHANGED EthSetup!vars
    BY <2>14 DEF EthSetup!vars, EthSetup!FilterRight
  <2>15. QED
    BY <2>1, <2>2, <2>3, <2>4, <2>5, <2>6, <2>7, <2>8, <2>9, <2>10, <2>11, <2>12, <2>13, <2>14
       DEF EthSetup!Next, EthSetup!Initialise, EthSetup!Start
<1>3. EthSetupInd => EthSetup!Inv
  BY DEF EthSetupInd, EthSetup!Inv, EthSetup!StartedRight, EthSetup!NothingOld
<1>4. QED
  BY <1>1, <1>2, <1>3, PTL

-----------------------------------------------------------------------------
(* calculate_cs.                                                           *)

(* A byte and a word.                                                      *)
LEMMA WordIs ==
  ASSUME Base \in Nat, Base >= 2
  PROVE  /\ Checksum!Word \in Nat /\ Checksum!Word >= 4 /\ Base + Base <= Checksum!Word
         /\ \A a, b \in 0 .. Base - 1 : Base * a + b \in 0 .. Checksum!Word - 1
         /\ \A n \in 0 .. Checksum!Word - 1 :
              /\ n \div Base \in 0 .. Base - 1 /\ n % Base \in 0 .. Base - 1
              /\ Base * (n \div Base) + (n % Base) = n
<1> DEFINE W == Checksum!Word
<1>1. W = Base * Base
  BY DEF Checksum!Word
<1>2. Base * Base = (Base - 2) * Base + (Base + Base) /\ (Base - 2) * Base >= 0
  <2>1. Base - 2 \in Nat
    OBVIOUS
  <2>2. QED
    BY <2>1
<1>3. Base * Base \in Nat
  OBVIOUS
<1>4. W \in Nat /\ W >= 4 /\ Base + Base <= W
  BY <1>1, <1>2, <1>3
<1>5. ASSUME NEW a \in 0 .. Base - 1, NEW b \in 0 .. Base - 1
      PROVE  Base * a + b \in 0 .. W - 1
  <2>1. Base * a \in Nat
    OBVIOUS
  <2>2. Base * (Base - 1 - a) \in Nat
    <3>1. Base - 1 - a \in Nat
      OBVIOUS
    <3>2. QED
      BY <3>1
  <2>3. Base * (Base - 1 - a) = Base * Base - Base - Base * a
    OBVIOUS
  <2>4. QED
    BY <1>1, <1>3, <2>1, <2>2, <2>3
<1>6. ASSUME NEW n \in 0 .. W - 1
      PROVE  /\ n \div Base \in 0 .. Base - 1 /\ n % Base \in 0 .. Base - 1
             /\ Base * (n \div Base) + (n % Base) = n
  <2> DEFINE q == n \div Base
             r == n % Base
  <2>1. q \in Nat /\ r \in 0 .. Base - 1 /\ n = Base * q + r
    BY <1>4, DivMod
  <2> HIDE DEF q, r
  <2>2. q < Base
    <3>1. CASE q >= Base
      <4>1. Base * (q - Base) >= 0 /\ Base * (q - Base) = Base * q - Base * Base
        <5>1. q - Base \in Nat
          BY <2>1, <3>1
        <5>2. Base * (q - Base) \in Nat
          BY <5>1
        <5>3. Base * (q - Base) = Base * q - Base * Base
          BY <2>1
        <5>4. QED
          BY <5>2, <5>3
      <4>2. Base * q \in Nat
        BY <2>1
      <4>3. QED
        BY <1>1, <1>3, <2>1, <4>1, <4>2
    <3>2. QED
      BY <2>1, <3>1
  <2>3. q \in 0 .. Base - 1 /\ r \in 0 .. Base - 1 /\ Base * q + r = n
    BY <2>1, <2>2
  <2>4. QED
    BY <2>3 DEF q, r
<1>7. QED
  BY <1>4, <1>5, <1>6

(* The ones' complement sum is the one number from 0 to Word - 1 that is   *)
(* zero for a sum of zero only and leaves the same over Word - 1.          *)
LEMMA OnesSumIs ==
  ASSUME Checksum!Word \in Nat, Checksum!Word >= 4, NEW t \in Nat
  PROVE  /\ Checksum!OnesSum(t) \in 0 .. Checksum!Word - 1
         /\ Checksum!SameRest(Checksum!OnesSum(t), t)
         /\ \A n \in 0 .. Checksum!Word - 1 :
              Checksum!SameRest(n, t) => n = Checksum!OnesSum(t)
<1> DEFINE M == Checksum!Word - 1
           o == Checksum!OnesSum(t)
<1>1. M \in Nat \ {0} /\ 0 .. Checksum!Word - 1 = 0 .. M
  OBVIOUS
<1>2. \A s, u \in Nat : Checksum!SameRest(s, u) <=>
        (s = 0 <=> u = 0) /\ \E rounds \in Nat : u = s + rounds * M
  BY DEF Checksum!SameRest
<1>3. o = IF t = 0 THEN 0 ELSE ((t - 1) % M) + 1
  BY DEF Checksum!OnesSum
<1> HIDE DEF M, o
<1>4. CASE t = 0
  <2>1. o = 0 /\ 0 \in 0 .. M
    BY <1>1, <1>3, <1>4
  <2>2. Checksum!SameRest(0, t)
    <3>1. 0 = 0 + 0 * M /\ 0 \in Nat
      BY <1>1
    <3>2. QED
      BY <1>2, <1>4, <3>1
  <2>3. \A n \in 0 .. M : Checksum!SameRest(n, t) => n = 0
    BY <1>1, <1>2, <1>4
  <2>4. QED
    BY <1>1, <2>1, <2>2, <2>3 DEF o
<1>5. CASE t # 0
  <2> DEFINE r == (t - 1) % M
             q == (t - 1) \div M
  <2>1. r \in 0 .. M - 1 /\ q \in Nat /\ t - 1 = M * q + r /\ o = r + 1
    <3>1. t - 1 \in Nat
      BY <1>5
    <3>2. QED
      BY <1>1, <1>3, <1>5, <3>1, DivMod
  <2> HIDE DEF r, q
  <2>2. o \in 0 .. M /\ o # 0 /\ o \in Nat
    BY <1>1, <2>1
  <2>3. t = o + q * M
    <3>1. M * q = q * M /\ q * M \in Nat
      BY <1>1, <2>1
    <3>2. QED
      BY <1>1, <2>1, <3>1
  <2>4. Checksum!SameRest(o, t)
    BY <1>2, <1>5, <2>1, <2>2, <2>3
  <2>5. ASSUME NEW n \in 0 .. M, Checksum!SameRest(n, t) PROVE n = o
    <3>1. n # 0 /\ n \in Nat /\ \E rounds \in Nat : t = n + rounds * M
      BY <1>1, <1>2, <1>5, <2>5
    <3>2. PICK rounds \in Nat : t = n + rounds * M
      BY <3>1
    <3>3. rounds * M \in Nat /\ q * M \in Nat
      BY <1>1, <2>1
    <3>4. (n - 1) + rounds * M = r + q * M /\ n - 1 \in 0 .. M - 1
      BY <1>1, <2>1, <2>3, <3>1, <3>2, <3>3
    <3>5. n - 1 = r
      BY <1>1, <2>1, <3>4, RestUnique
    <3>6. QED
      BY <1>1, <2>1, <3>5
  <2>6. QED
    BY <1>1, <2>2, <2>4, <2>5 DEF o
<1>6. QED
  BY <1>4, <1>5

(* A byte more gives another sum, ...                                      *)
LEMMA OnesSumMore ==
  ASSUME Checksum!Word \in Nat, Checksum!Word >= 4, NEW t \in Nat,
         NEW d \in 1 .. Checksum!Word - 2
  PROVE  Checksum!OnesSum(t + d) # Checksum!OnesSum(t)
<1> SUFFICES ASSUME Checksum!OnesSum(t + d) = Checksum!OnesSum(t) PROVE FALSE
  OBVIOUS
<1> DEFINE M == Checksum!Word - 1
           o == Checksum!OnesSum(t)
<1>1. M \in Nat \ {0} /\ d \in 1 .. M - 1 /\ t + d \in Nat
  OBVIOUS
<1>2. o \in Nat /\ Checksum!SameRest(o, t) /\ Checksum!SameRest(o, t + d)
  BY <1>1, OnesSumIs
<1>3. PICK m \in Nat, n \in Nat : t = o + m * M /\ t + d = o + n * M
  BY <1>2 DEF Checksum!SameRest
<1> HIDE DEF M, o
<1>4. m * M \in Nat /\ n * M \in Nat
  BY <1>1
<1>5. d + m * M = 0 + n * M
  BY <1>1, <1>2, <1>3, <1>4
<1>6. d \in 0 .. M - 1 /\ 0 \in 0 .. M - 1 /\ m \in Int /\ n \in Int
  BY <1>1
<1>7. d = 0
  BY <1>1, <1>5, <1>6, RestUnique
<1>8. QED
  BY <1>1, <1>7

(* ... and with the complement of its sum a packet sums up to Word - 1.    *)
LEMMA OnesSumFull ==
  ASSUME Checksum!Word \in Nat, Checksum!Word >= 4, NEW t \in Nat
  PROVE  Checksum!OnesSum(((Checksum!Word - 1) - Checksum!OnesSum(t)) + t)
           = Checksum!Word - 1
<1> DEFINE M == Checksum!Word - 1
           o == Checksum!OnesSum(t)
           u == (M - o) + t
<1>1. M \in Nat \ {0} /\ M \in 0 .. Checksum!Word - 1
  OBVIOUS
<1>2. o \in 0 .. M /\ Checksum!SameRest(o, t)
  BY <1>1, OnesSumIs
<1>3. (o = 0 <=> t = 0) /\ \E rounds \in Nat : t = o + rounds * M
  BY <1>2 DEF Checksum!SameRest
<1> HIDE DEF M, o
<1>4. PICK m \in Nat : t = o + m * M
  BY <1>3
<1>5. m * M \in Nat
  BY <1>1
<1>6. u = M + m * M /\ u \in Nat /\ u # 0
  BY <1>1, <1>2, <1>4, <1>5
<1>7. Checksum!SameRest(M, u)
  <2>1. M = 0 <=> u = 0
    BY <1>1, <1>6
  <2>2. \E rounds \in Nat : u = M + rounds * M
    BY <1>6
  <2>3. QED
    BY <2>1, <2>2 DEF Checksum!SameRest, M
<1>8. M = Checksum!OnesSum(u)
  <2> HIDE DEF u
  <2>1. QED
    BY <1>1, <1>6, <1>7, OnesSumIs
<1>9. QED
  BY <1>8 DEF M, o

(* The words of a packet.                                                  *)
Places == 0 .. Checksum!Word - 2

(* There are finitely many of them.                                        *)
LEMMA PlacesFinite == ASSUME Checksum!Word \in Nat PROVE IsFiniteSet(Places)
<1>1. \A m, n \in Int : IsFiniteSet(m .. n)
  BY FS_Interval
<1>2. 0 \in Int /\ Checksum!Word - 2 \in Int
  OBVIOUS
<1>3. QED
  BY <1>1, <1>2, Zenon DEF Places

(* The total is a sum over the even places.                                *)
LEMMA TotalIs == \A words, n : Checksum!Total(words, n) = SumOf(words, Checksum!Even(n))
BY DEF Checksum!Total, SumOf, MapThenSumSet, MapThenFoldSet, Checksum!MapThenSumSet,
       Checksum!MapThenFoldSet

(* The places of the words.                                                *)
LEMMA Evens ==
  ASSUME Checksum!Word \in Nat, NEW n \in 0 .. Checksum!Word - 1
  PROVE  /\ Checksum!Even(n) \in SUBSET Places
         /\ Checksum!Even(0) = {}
         /\ n % 2 = 0 => /\ Checksum!Even(n + 2) = Checksum!Even(n) \cup {n}
                         /\ n \notin Checksum!Even(n)
         /\ n % 2 = 1 => Checksum!Even(n + 1) = Checksum!Even(n)
         /\ n % 2 = 1 => n - 1 \in Checksum!Even(n)
BY DEF Checksum!Even, Places

(* A word more, ...                                                        *)
LEMMA TotalNext ==
  ASSUME Checksum!Word \in Nat, NEW words \in [Places -> Nat]
  PROVE  /\ Checksum!Total(words, 0) = 0
         /\ \A n \in 0 .. Checksum!Word - 1 : Checksum!Total(words, n) \in Nat
         /\ \A n \in 0 .. Checksum!Word - 3 :
              n % 2 = 0 => Checksum!Total(words, n + 2) = Checksum!Total(words, n) + words[n]
<1>1. IsFiniteSet(Places)
  BY PlacesFinite
<1>2. /\ SumOf(words, {}) = 0
      /\ \A T \in SUBSET Places : SumOf(words, T) \in Nat
      /\ \A T \in SUBSET Places : \A x \in T : SumOf(words, T) = words[x] + SumOf(words, T \ {x})
  BY <1>1, SumStep
<1>3. Checksum!Total(words, 0) = 0
  <2>1. Checksum!Even(0) = {}
    BY DEF Checksum!Even
  <2>2. QED
    BY <1>2, <2>1, TotalIs
<1>4. \A n \in 0 .. Checksum!Word - 1 : Checksum!Total(words, n) \in Nat
  BY <1>2, TotalIs, Evens
<1>5. ASSUME NEW n \in 0 .. Checksum!Word - 3, n % 2 = 0
      PROVE  Checksum!Total(words, n + 2) = Checksum!Total(words, n) + words[n]
  <2>1. n \in 0 .. Checksum!Word - 1 /\ n + 2 \in 0 .. Checksum!Word - 1 /\ n \in Places
    BY DEF Places
  <2>2. /\ Checksum!Even(n + 2) \in SUBSET Places
        /\ Checksum!Even(n + 2) = Checksum!Even(n) \cup {n} /\ n \notin Checksum!Even(n)
    BY <1>5, <2>1, Evens
  <2>3. n \in Checksum!Even(n + 2) /\ Checksum!Even(n + 2) \ {n} = Checksum!Even(n)
    BY <2>2
  <2>4. SumOf(words, Checksum!Even(n + 2)) = words[n] + SumOf(words, Checksum!Even(n))
    BY <1>2, <2>2, <2>3
  <2>5. words[n] \in Nat /\ SumOf(words, Checksum!Even(n)) \in Nat
    BY <1>4, <2>1, TotalIs
  <2>6. QED
    BY <2>4, <2>5, TotalIs
<1>6. QED
  BY <1>3, <1>4, <1>5

(* ... and one word that is another.                                       *)
LEMMA TotalOther ==
  ASSUME Checksum!Word \in Nat, NEW f \in [Places -> Nat], NEW g \in [Places -> Nat],
         NEW n \in 0 .. Checksum!Word - 1, NEW k \in Checksum!Even(n),
         \A x \in Checksum!Even(n) : x # k => f[x] = g[x]
  PROVE  /\ k \in Places
         /\ \E rest \in Nat : /\ Checksum!Total(f, n) = f[k] + rest
                              /\ Checksum!Total(g, n) = g[k] + rest
<1> DEFINE T == Checksum!Even(n)
           R == T \ {k}
<1>1. IsFiniteSet(Places) /\ T \in SUBSET Places
  BY PlacesFinite, Evens
<1>2. k \in Places /\ R \in SUBSET Places
  BY <1>1
<1>3. \A x \in R : f[x] = g[x]
  OBVIOUS
<1>4. k \in T
  OBVIOUS
<1>5. Checksum!Total(f, n) = SumOf(f, T) /\ Checksum!Total(g, n) = SumOf(g, T)
  BY TotalIs
<1> HIDE DEF T
<1>6. SumOf(f, R) = SumOf(g, R)
  <2> HIDE DEF R
  <2>1. QED
    BY <1>1, <1>2, <1>3, SumSame
<1>7. /\ SumOf(f, T) = f[k] + SumOf(f, R) /\ SumOf(g, T) = g[k] + SumOf(g, R)
      /\ SumOf(f, R) \in Nat
  BY <1>1, <1>2, <1>4, SumStep
<1>8. QED
  BY <1>2, <1>5, <1>6, <1>7

(* Words that are the same in front of a place add up to the same.         *)
LEMMA TotalSame ==
  ASSUME Checksum!Word \in Nat, NEW f \in [Places -> Nat], NEW g \in [Places -> Nat],
         NEW n \in 0 .. Checksum!Word - 1, \A x \in Checksum!Even(n) : f[x] = g[x]
  PROVE  Checksum!Total(f, n) = Checksum!Total(g, n)
<1>1. IsFiniteSet(Places) /\ Checksum!Even(n) \in SUBSET Places
  BY PlacesFinite, Evens
<1>2. QED
  BY <1>1, SumSame, TotalIs

(* What the checksum is calculated of.                                     *)
Buffers == [0 .. Checksum!Word - 1 -> 0 .. Base - 1]

(* A fold changes neither what is left nor whether all is zero, and without*)
(* a carry it has come to a word.                                          *)
LEMMA FoldStep ==
  ASSUME Checksum!Word \in Nat, Checksum!Word >= 4,
         NEW s \in 0 .. Checksum!Word * Checksum!Word - 1, NEW t \in Nat,
         Checksum!SameRest(s, t)
  PROVE  LET carry == (s \div Checksum!Word) % Checksum!Word
             sum == carry + (s % Checksum!Word)
         IN  /\ carry \in 0 .. Checksum!Word - 1
             /\ sum \in 0 .. Checksum!Word * Checksum!Word - 1
             /\ Checksum!SameRest(sum, t)
             /\ carry = 0 => sum < Checksum!Word
<1> DEFINE W == Checksum!Word
           M == W - 1
           q == s \div W
           r == s % W
           sum == q + r
<1>1. W \in Nat \ {0} /\ W >= 4 /\ W * W \in Nat
  OBVIOUS
<1>2. q \in Nat /\ r \in 0 .. W - 1 /\ s = W * q + r
  <2>1. s \in Nat
    OBVIOUS
  <2> HIDE DEF W
  <2>2. QED
    BY <1>1, <2>1, DivMod
<1>3. s < W * W /\ s \in Nat
  BY <1>1
<1>4. (s = 0 <=> t = 0) /\ \E rounds \in Nat : t = s + rounds * M
  BY DEF Checksum!SameRest
<1> HIDE DEF W, q, r
<1>5. q < W
  <2>1. CASE q >= W
    <3>1. q - W \in Nat
      BY <1>1, <1>2, <2>1
    <3>2. W * (q - W) \in Nat /\ W * (q - W) = W * q - W * W /\ W * q \in Nat
      BY <1>1, <1>2, <3>1
    <3>3. QED
      BY <1>1, <1>2, <1>3, <3>2
  <2>2. QED
    BY <1>1, <1>2, <2>1
<1>6. q % W = q
  <2>1. q \in 0 .. W - 1
    BY <1>1, <1>2, <1>5
  <2>2. QED
    BY <1>1, <2>1
<1>7. sum \in 0 .. W * W - 1 /\ sum \in Nat
  <2>1. W * W = W * (W - 4) + (W + W + W + W) /\ W * (W - 4) \in Nat
    <3>1. W - 4 \in Nat
      BY <1>1
    <3>2. QED
      BY <1>1, <3>1
  <2>2. QED
    BY <1>1, <1>2, <1>5, <2>1
<1>8. s = sum + q * M /\ q * M \in Nat
  <2>1. W * q = q * W /\ q * M = q * W - q /\ q * W \in Nat
    BY <1>1, <1>2
  <2>2. q * M \in Nat
    BY <1>1, <1>2
  <2>3. QED
    BY <1>2, <2>1, <2>2
<1>9. sum = 0 <=> s = 0
  <2>1. CASE q = 0
    <3>1. q * M = 0
      BY <1>1, <2>1
    <3>2. QED
      BY <1>7, <1>8, <3>1
  <2>2. CASE q # 0
    <3>1. sum > 0
      BY <1>1, <1>2, <2>2
    <3>2. QED
      BY <1>7, <1>8, <3>1
  <2>3. QED
    BY <2>1, <2>2
<1>10. Checksum!SameRest(sum, t)
  <2>1. PICK m \in Nat : t = s + m * M
    BY <1>4
  <2>2. m * M \in Nat /\ (q + m) * M = q * M + m * M /\ q + m \in Nat
    BY <1>1, <1>2
  <2>3. t = sum + (q + m) * M
    BY <1>7, <1>8, <2>1, <2>2
  <2>4. (sum = 0 <=> t = 0) /\ \E rounds \in Nat : t = sum + rounds * M
    BY <1>4, <1>9, <2>2, <2>3
  <2>5. QED
    BY <2>4 DEF Checksum!SameRest, W
<1>11. q = 0 => sum < W
  BY <1>1, <1>2
<1>12. QED
  BY <1>1, <1>2, <1>5, <1>6, <1>7, <1>10, <1>11 DEF W, q, r

(* Two bytes make a word, the first the high one.                          *)
LEMMA WordsAre ==
  ASSUME Base \in Nat, Base >= 2, data \in Buffers, size \in 0 .. Checksum!Word - 1
  PROVE  /\ Checksum!Words \in [Places -> 0 .. Checksum!Word - 1]
         /\ Checksum!PaddedWords \in [Places -> 0 .. Checksum!Word - 1]
         /\ \A k \in Places : /\ Checksum!Words[k] = Base * data[k] + data[k + 1]
                              /\ Checksum!PaddedWords[k]
                                   = Base * Checksum!Padded(k) + Checksum!Padded(k + 1)
<1>1. \A k \in Places : k \in 0 .. Checksum!Word - 1 /\ k + 1 \in 0 .. Checksum!Word - 1
  BY WordIs DEF Places
<1>2. \A k \in 0 .. Checksum!Word - 1 : data[k] \in 0 .. Base - 1
  BY DEF Buffers
<1>3. \A k \in 0 .. Checksum!Word - 1 : Checksum!Padded(k) \in 0 .. Base - 1
  BY <1>2 DEF Checksum!Padded
<1>4. \A k \in Places : /\ Base * data[k] + data[k + 1] \in 0 .. Checksum!Word - 1
                        /\ Base * Checksum!Padded(k) + Checksum!Padded(k + 1)
                             \in 0 .. Checksum!Word - 1
  BY <1>1, <1>2, <1>3, WordIs, Zenon
<1>5. Checksum!Words = [k \in Places |-> Base * data[k] + data[k + 1]]
  BY DEF Checksum!Words, Checksum!WordAt, Places
<1>6. Checksum!PaddedWords
        = [k \in Places |-> Base * Checksum!Padded(k) + Checksum!Padded(k + 1)]
  BY DEF Checksum!PaddedWords, Places
<1>7. QED
  BY <1>4, <1>5, <1>6, Zenon

(* Over an even size the padding changes nothing, over an odd one it takes *)
(* the place of the byte behind the end.                                   *)
LEMMA PaddedTotal ==
  ASSUME Base \in Nat, Base >= 2, data \in Buffers, size \in 0 .. Checksum!Word - 2
  PROVE  LET total == Checksum!Total(Checksum!Words, size)
             padded == Checksum!Total(Checksum!PaddedWords, size)
         IN  /\ padded \in Nat /\ data[size] \in 0 .. Base - 1
             /\ total = padded + (IF size % 2 = 0 THEN 0 ELSE data[size])
<1>1. /\ Checksum!Word \in Nat /\ Checksum!Word >= 4 /\ size \in 0 .. Checksum!Word - 1
  BY WordIs
<1>2. /\ \A k \in 0 .. Checksum!Word - 1 : data[k] \in 0 .. Base - 1
      /\ size \in Nat
  BY <1>1 DEF Buffers
<1> DEFINE f == Checksum!Words
           g == Checksum!PaddedWords
<1>3. /\ f \in [Places -> Nat] /\ g \in [Places -> Nat]
      /\ \A k \in Places : /\ f[k] = Base * data[k] + data[k + 1]
                           /\ g[k] = Base * Checksum!Padded(k) + Checksum!Padded(k + 1)
  <2>1. 0 .. Checksum!Word - 1 \subseteq Nat
    BY <1>1
  <2>2. QED
    BY <1>1, <2>1, WordsAre
<1>4. Checksum!Even(size) \in SUBSET Places
  BY <1>1, Evens
<1>5. ASSUME NEW k \in Checksum!Even(size), k + 1 < size PROVE f[k] = g[k]
  <2>1. Checksum!Padded(k) = data[k] /\ Checksum!Padded(k + 1) = data[k + 1]
    BY <1>2, <1>5 DEF Checksum!Padded, Checksum!Even
  <2>2. k \in Places
    BY <1>4
  <2>3. QED
    BY <1>3, <2>1, <2>2, Zenon
<1>6. Checksum!Total(g, size) \in Nat
  BY <1>1, <1>3, TotalNext
<1>7. CASE size % 2 = 0
  <2>1. \A k \in Checksum!Even(size) : k + 1 < size
    BY <1>2, <1>7 DEF Checksum!Even
  <2>2. \A k \in Checksum!Even(size) : f[k] = g[k]
    BY <1>5, <2>1
  <2>3. Checksum!Total(f, size) = Checksum!Total(g, size)
    <3> HIDE DEF f, g
    <3>1. QED
      BY <1>1, <1>3, <2>2, TotalSame
  <2>4. QED
    BY <1>1, <1>2, <1>6, <1>7, <2>3
<1>8. CASE size % 2 = 1
  <2> DEFINE l == size - 1
  <2>1. l \in Checksum!Even(size) /\ l + 1 = size /\ l < size /\ ~(size < size)
    BY <1>1, <1>2, <1>8, Evens
  <2>2. \A k \in Checksum!Even(size) : k # l => k + 1 < size
    BY <1>2 DEF Checksum!Even
  <2>3. \A k \in Checksum!Even(size) : k # l => f[k] = g[k]
    BY <1>5, <2>2
  <2> HIDE DEF l
  <2>4. PICK rest \in Nat : /\ Checksum!Total(f, size) = f[l] + rest
                            /\ Checksum!Total(g, size) = g[l] + rest
    <3> HIDE DEF f, g
    <3>1. QED
      BY <1>1, <1>3, <2>1, <2>3, TotalOther
  <2>5. l \in Places /\ Checksum!Padded(l) = data[l] /\ Checksum!Padded(l + 1) = 0
    BY <1>4, <2>1 DEF Checksum!Padded
  <2> DEFINE b == Base * data[l]
  <2>6. f[l] = b + data[size] /\ g[l] = b + 0 /\ b \in Nat /\ data[size] \in 0 .. Base - 1
    <3>1. f[l] = b + data[size] /\ g[l] = b + 0
      BY <1>3, <2>1, <2>5, Zenon
    <3>2. l \in 0 .. Checksum!Word - 1
      BY <1>1, <2>5 DEF Places
    <3>3. data[l] \in Nat /\ data[size] \in 0 .. Base - 1
      BY <1>1, <1>2, <3>2
    <3>4. b \in Nat
      BY <3>3
    <3>5. QED
      BY <3>1, <3>3, <3>4
  <2> HIDE DEF b
  <2>7. Checksum!Total(f, size) = Checksum!Total(g, size) + data[size]
    BY <2>4, <2>6
  <2>8. QED
    BY <1>6, <1>8, <2>6, <2>7
<1>9. QED
  BY <1>2, <1>7, <1>8

(* calculate_cs computes the reference, or does not.                       *)
LEMMA ReturnRight ==
  ASSUME Base \in Nat, Base >= 2, data \in Buffers, size \in 0 .. Checksum!Word - 2,
         result = (Checksum!Word - 1) - Checksum!OnesSum(Checksum!Total(Checksum!Words, size))
  PROVE  result = Checksum!Reference <=> (size % 2 = 0 \/ data[size] = 0)
<1> DEFINE p == Checksum!Total(Checksum!PaddedWords, size)
           d == IF size % 2 = 0 THEN 0 ELSE data[size]
           W == Checksum!Word
<1>1. W \in Nat /\ W >= 4 /\ Base + Base <= W
  BY WordIs
<1>2. p \in Nat /\ d \in 0 .. Base - 1 /\ Checksum!Total(Checksum!Words, size) = p + d
      /\ data[size] \in 0 .. Base - 1
  BY PaddedTotal
<1>3. Checksum!Reference = (W - 1) - Checksum!OnesSum(p)
  BY DEF Checksum!Reference
<1>4. d = 0 <=> (size % 2 = 0 \/ data[size] = 0)
  OBVIOUS
<1> HIDE DEF p, d, W
<1>5. result = (W - 1) - Checksum!OnesSum(p + d)
  BY <1>2 DEF W
<1>6. /\ p + d \in Nat /\ Checksum!OnesSum(p) \in 0 .. W - 1
      /\ Checksum!OnesSum(p + d) \in 0 .. W - 1
  <2>1. p + d \in Nat
    BY <1>2
  <2>2. QED
    BY <1>1, <1>2, <2>1, OnesSumIs DEF W
<1>7. result = Checksum!Reference <=> Checksum!OnesSum(p + d) = Checksum!OnesSum(p)
  BY <1>1, <1>3, <1>5, <1>6
<1>8. CASE d = 0
  BY <1>2, <1>4, <1>7, <1>8
<1>9. CASE d # 0
  <2>1. d \in 1 .. W - 2
    BY <1>1, <1>2, <1>9
  <2>2. Checksum!OnesSum(p + d) # Checksum!OnesSum(p)
    BY <1>1, <1>2, <2>1, OnesSumMore DEF W
  <2>3. QED
    BY <1>4, <1>7, <1>9, <2>2
<1>10. QED
  BY <1>8, <1>9

(* No words add up to nothing.                                             *)
LEMMA TotalOfNone == \A words : Checksum!Total(words, 0) = 0
<1> SUFFICES ASSUME NEW words PROVE Checksum!Total(words, 0) = 0
  OBVIOUS
<1>1. Checksum!Even(0) = {}
  BY DEF Checksum!Even
<1>2. IsFiniteSet({})
  BY FS_EmptySet
<1>3. Sums(SumsOf(words, {}), words, {})
  BY <1>2, SumsExist
<1>4. SumsOf(words, {})[{}] = 0
  BY <1>3 DEF Sums
<1>5. QED
  BY <1>1, <1>4, SumUnfold, TotalIs

(* The words of a buffer are words.                                        *)
LEMMA WordsIn ==
  ASSUME Base \in Nat, Base >= 2, NEW d \in Buffers
  PROVE  [k \in Places |-> Base * d[k] + d[k + 1]] \in [Places -> 0 .. Checksum!Word - 1]
<1>1. \A k \in Places : k \in 0 .. Checksum!Word - 1 /\ k + 1 \in 0 .. Checksum!Word - 1
  BY WordIs DEF Places
<1>2. \A k \in 0 .. Checksum!Word - 1 : d[k] \in 0 .. Base - 1
  BY DEF Buffers
<1>3. \A k \in Places : Base * d[k] + d[k + 1] \in 0 .. Checksum!Word - 1
  BY <1>1, <1>2, WordIs, Zenon
<1>4. QED
  BY <1>3, Zenon

(* calculate_cs (net_lib.c) computes the internet checksum of every even size,*)
(* of an odd one just when the byte behind the packet is zero, and what it *)
(* filled in comes out as zero, whatever the bytes are.                    *)
THEOREM ChecksumRight ==
  ASSUME Base \in Nat, Base >= 2, Base % 2 = 0, Contents \subseteq Buffers
  PROVE  Checksum!Init /\ [][Checksum!Next]_(Checksum!vars) => []Checksum!Inv
<1> DEFINE W == Checksum!Word
           M == W - 1
           F == Checksum!Words
           IInv == Checksum!TypeOK /\ Checksum!SumInv
           Passes == {"prepare", "check", "verify"}
           Pcs == {"add", "fold", "complement", "return"}
           Types == /\ data \in Buffers /\ size \in 0 .. M /\ pass \in Passes /\ csPc \in Pcs
                    /\ i \in 0 .. M /\ cs \in 0 .. W * W - 1 /\ result \in 0 .. M
<1>0. W \in Nat /\ W >= 4 /\ W * W \in Nat /\ M \in Nat /\ W = M + 1 /\ W * W = M * M + M + M + 1
  <2>1. W \in Nat /\ W >= 4
    BY WordIs
  <2>2. W * W = (W - 1) * (W - 1) + (W - 1) + (W - 1) + 1 /\ W * W \in Nat
    <3> HIDE DEF W
    <3>1. QED
      BY <2>1
  <2>3. QED
    BY <2>1, <2>2
<1>e. W % 2 = 0
  <2>1. PICK h \in Nat : Base = 2 * h
    OBVIOUS
  <2>2. W = 2 * (h * Base) /\ h * Base \in Nat
    BY <2>1 DEF Checksum!Word
  <2> DEFINE n == h * Base
  <2> HIDE DEF n, W
  <2>3. W = 2 * n /\ n \in Nat
    BY <2>2 DEF n
  <2>4. QED
    BY <2>3
<1>m. W % W = 0 /\ \A n \in 0 .. M : n % W = n
  <2> HIDE DEF W
  <2> DEFINE q == W \div W
             r == W % W
  <2>1. r \in 0 .. W - 1 /\ q \in Nat /\ W = W * q + r
    BY <1>0, DivMod
  <2> HIDE DEF q, r
  <2>2. r + q * W = 0 + 1 * W /\ 0 \in 0 .. W - 1 /\ q \in Int /\ 1 \in Int
    BY <1>0, <2>1
  <2>3. r = 0
    BY <1>0, <2>1, <2>2, RestUnique
  <2>4. \A n \in 0 .. M : n % W = n
    BY <1>0
  <2>5. QED
    BY <2>3, <2>4 DEF r
<1>v. \A n \in 0 .. W * W - 1 : n % (W * W) = n
  <2> DEFINE V == W * W
  <2>1. V \in Nat \ {0}
    <3>1. W * W = M * M + M + M + 1 /\ M * M \in Nat
      BY <1>0
    <3>2. QED
      BY <1>0, <3>1
  <2> HIDE DEF V
  <2>2. \A n \in 0 .. V - 1 : n % V = n
    BY <2>1
  <2>3. QED
    BY <2>2 DEF V
<1>t. Checksum!TypeOK <=> Types
  BY DEF Checksum!TypeOK, Checksum!Bytes, Buffers
<1>w. ASSUME Types
      PROVE  /\ F \in [Places -> Nat] /\ Checksum!Total(F, size) \in Nat
             /\ \A k \in Places : F[k] \in 0 .. M /\ F[k] = Checksum!WordAt(k)
             /\ M \notin Places /\ \A k \in 0 .. M - 1 : k \in Places
  <2>1. F \in [Places -> 0 .. M]
    BY <1>w, WordsAre
  <2>2. F \in [Places -> Nat]
    BY <1>0, <2>1
  <2>3. Checksum!Total(F, size) \in Nat
    <3> HIDE DEF F
    <3>1. QED
      BY <1>0, <1>w, <2>2, TotalNext
  <2>4. \A k \in Places : F[k] = Checksum!WordAt(k)
    BY DEF Checksum!Words, Places
  <2>5. M \notin Places /\ \A k \in 0 .. M - 1 : k \in Places
    BY <1>0 DEF Places
  <2>6. QED
    BY <2>1, <2>2, <2>3, <2>4, <2>5
<1>1. Checksum!Init => IInv
  <2> SUFFICES ASSUME Checksum!Init PROVE IInv
    OBVIOUS
  <2>1. Types
    <3>1. data \in Buffers /\ size \in 0 .. M /\ pass \in Passes /\ csPc = "add"
          /\ i = 0 /\ cs = 0 /\ result = 0
      BY DEF Checksum!Init
    <3>2. 0 \in 0 .. M /\ 0 \in 0 .. W * W - 1
      BY <1>0
    <3>3. QED
      BY <3>1, <3>2
  <2>2. Checksum!LoopInv
    <3>1. csPc = "add" /\ i = 0 /\ cs = 0 /\ size \in 0 .. M
      BY DEF Checksum!Init
    <3>2. 0 % 2 = 0 /\ 0 <= size + 1 /\ 0 <= 0 * M
      BY <1>0, <3>1
    <3>3. cs = Checksum!Total(F, i)
      BY <3>1, TotalOfNone
    <3>4. QED
      BY <3>1, <3>2, <3>3 DEF Checksum!LoopInv
  <2>3. Checksum!FoldInv /\ Checksum!ReturnInv
    BY DEF Checksum!Init, Checksum!FoldInv, Checksum!ReturnInv
  <2>4. Checksum!PassInv
    BY DEF Checksum!Init, Checksum!PassInv, Checksum!Field
  <2>5. QED
    BY <1>t, <2>1, <2>2, <2>3, <2>4 DEF Checksum!SumInv
<1>2. IInv /\ [Checksum!Next]_(Checksum!vars) => IInv'
  <2> SUFFICES ASSUME IInv, [Checksum!Next]_(Checksum!vars) PROVE IInv'
    OBVIOUS
  <2>0. Types
    BY <1>t
  <2>w. /\ F \in [Places -> Nat] /\ Checksum!Total(F, size) \in Nat
        /\ \A k \in Places : F[k] \in 0 .. M /\ F[k] = Checksum!WordAt(k)
        /\ M \notin Places /\ \A k \in 0 .. M - 1 : k \in Places
    BY <1>w, <2>0
  <2>t. Types' => Checksum!TypeOK'
    BY DEF Checksum!TypeOK, Checksum!Bytes, Buffers
  <2>d. UNCHANGED data => UNCHANGED F
    BY DEF Checksum!Words, Checksum!WordAt
  <2>p. UNCHANGED <<data, size, pass>> => Checksum!PassInv'
    <3> SUFFICES ASSUME UNCHANGED <<data, size, pass>> PROVE Checksum!PassInv'
      OBVIOUS
    <3>1. UNCHANGED F
      BY <2>d
    <3>2. QED
      BY <3>1 DEF Checksum!SumInv, Checksum!PassInv
  <2>1. CASE Checksum!Add /\ i < size
    <3>1. /\ csPc = "add" /\ csPc' = "add" /\ i < size
          /\ i' = (i + 2) % W /\ cs' = (cs + Checksum!WordAt(i)) % (W * W)
          /\ UNCHANGED <<data, size, pass, result>>
      BY <2>1 DEF Checksum!Add
    <3>2. i % 2 = 0 /\ (size # M => i <= size + 1 /\ cs = Checksum!Total(F, i) /\ cs <= i * M)
      BY <3>1 DEF Checksum!SumInv, Checksum!LoopInv
    <3>3. /\ i \in Nat /\ i + 2 <= W /\ (size # M => i + 2 <= size + 1 /\ i + 2 <= M)
          /\ (i + 2) % 2 = 0
      <4> HIDE DEF W
      <4>1. W \in Nat /\ i \in 0 .. W - 1 /\ size \in 0 .. W - 1
        BY <1>0, <2>0
      <4>2. QED
        BY <1>e, <3>1, <3>2, <4>1
    <3>4. i' \in 0 .. M /\ i' % 2 = 0 /\ (size # M => i' = i + 2)
      <4> HIDE DEF W
      <4>1. CASE i + 2 = W
        <5>1. i' = 0 /\ size = M
          BY <1>0, <1>m, <3>1, <3>3, <4>1
        <5>2. QED
          BY <1>0, <5>1
      <4>2. CASE i + 2 # W
        <5>1. i + 2 \in 0 .. M
          BY <1>0, <3>3, <4>2
        <5>2. i' = i + 2
          BY <1>m, <3>1, <5>1
        <5>3. QED
          BY <3>3, <5>1, <5>2
      <4>3. QED
        BY <4>1, <4>2
    <3>5. i \in Places /\ F[i] = Checksum!WordAt(i) /\ F[i] \in 0 .. M
      <4>1. i \in 0 .. M - 1
        BY <1>0, <2>0, <3>1
      <4>2. QED
        BY <2>w, <4>1
    <3>6. cs' \in 0 .. W * W - 1
      <4> DEFINE V == W * W
                 x == Checksum!WordAt(i)
      <4>1. V \in Nat \ {0} /\ cs + x \in Nat /\ cs' = (cs + x) % V
        <5>1. W * W = M * M + M + M + 1 /\ M * M \in Nat
          BY <1>0
        <5>2. x \in Nat
          BY <3>5
        <5>3. QED
          BY <1>0, <2>0, <3>1, <5>1, <5>2
      <4> HIDE DEF V, x
      <4>2. cs' \in 0 .. V - 1
        BY <4>1
      <4>3. QED
        BY <4>2 DEF V
    <3>7. ASSUME size # M
          PROVE  cs' = cs + F[i] /\ cs' <= i' * M /\ cs' = Checksum!Total(F, i')
      <4> DEFINE x == F[i]
                 y == i * M
      <4>1. /\ x \in 0 .. M /\ cs \in Nat /\ cs <= y /\ y \in Nat /\ (i + 2) * M = y + M + M
            /\ y <= M * M /\ M * M \in Nat
        <5>1. (M - i) * M \in Nat /\ (M - i) * M = M * M - i * M
          <6>1. M - i \in Nat
            BY <1>0, <2>0
          <6>2. QED
            BY <1>0, <3>3, <6>1
        <5>2. y \in Nat /\ (i + 2) * M = y + M + M /\ M * M \in Nat
          BY <1>0, <3>3
        <5>3. QED
          BY <2>0, <3>2, <3>5, <3>7, <5>1, <5>2
      <4>2. cs + x \in 0 .. W * W - 1 /\ cs + x <= y + M + M
        <5> HIDE DEF x, y
        <5>1. cs + x <= M * M + M
          BY <1>0, <4>1
        <5>2. W * W - 1 = M * M + M + M
          BY <1>0
        <5>3. QED
          BY <1>0, <4>1, <5>1, <5>2
      <4>3. cs' = cs + x
        BY <1>v, <3>1, <3>5, <4>2
      <4>4. Checksum!Total(F, i + 2) = Checksum!Total(F, i) + x
        <5>1. i \in 0 .. W - 3 /\ i % 2 = 0
          BY <1>0, <3>2, <3>3, <3>7
        <5> HIDE DEF F, W
        <5>2. QED
          BY <1>0, <2>w, <5>1, TotalNext DEF W
      <4>5. QED
        BY <3>2, <3>4, <3>7, <4>1, <4>2, <4>3, <4>4
    <3>8. UNCHANGED F
      BY <2>d, <3>1
    <3>9. Checksum!LoopInv'
      BY <3>1, <3>3, <3>4, <3>7, <3>8 DEF Checksum!LoopInv
    <3>10. Types'
      BY <2>0, <3>1, <3>4, <3>6
    <3>11. Checksum!FoldInv' /\ Checksum!ReturnInv'
      BY <3>1 DEF Checksum!FoldInv, Checksum!ReturnInv
    <3>12. QED
      BY <2>t, <2>p, <3>1, <3>9, <3>10, <3>11 DEF Checksum!SumInv
  <2>2. CASE Checksum!Add /\ ~(i < size)
    <3>1. /\ csPc = "add" /\ csPc' = "fold" /\ ~(i < size)
          /\ UNCHANGED <<data, size, pass, i, cs, result>>
      BY <2>2 DEF Checksum!Add
    <3>2. i % 2 = 0 /\ (size # M => i <= size + 1 /\ cs = Checksum!Total(F, i))
      BY <3>1 DEF Checksum!SumInv, Checksum!LoopInv
    <3>3. size # M /\ (i = size \/ (i = size + 1 /\ size % 2 = 1))
      <4> HIDE DEF W
      <4>1. W \in Nat /\ i \in 0 .. W - 1 /\ size \in 0 .. W - 1
        BY <1>0, <2>0
      <4>2. size # M
        BY <1>e, <1>0, <3>1, <3>2, <4>1
      <4>3. QED
        BY <3>1, <3>2, <4>1, <4>2
    <3>4. cs = Checksum!Total(F, size)
      <4>1. CASE i = size
        BY <3>2, <3>3, <4>1
      <4>2. CASE i = size + 1 /\ size % 2 = 1
        <5>1. size \in 0 .. W - 1
          BY <1>0, <2>0
        <5>2. Checksum!Even(size + 1) = Checksum!Even(size)
          BY <1>0, <4>2, <5>1, Evens
        <5>3. QED
          BY <3>2, <3>3, <4>2, <5>2 DEF Checksum!Total
      <4>3. QED
        BY <3>3, <4>1, <4>2
    <3>5. Checksum!SameRest(cs, cs)
      <4>1. cs = cs + 0 * M /\ 0 \in Nat
        BY <1>0, <2>0
      <4>2. QED
        BY <4>1 DEF Checksum!SameRest
    <3>6. UNCHANGED F
      BY <2>d, <3>1
    <3>7. Checksum!FoldInv'
      BY <3>1, <3>3, <3>4, <3>5, <3>6 DEF Checksum!FoldInv, Checksum!SameRest
    <3>8. Checksum!LoopInv' /\ Checksum!ReturnInv'
      BY <3>1 DEF Checksum!LoopInv, Checksum!ReturnInv
    <3>9. Types'
      BY <2>0, <3>1
    <3>10. QED
      BY <2>t, <2>p, <3>1, <3>7, <3>8, <3>9 DEF Checksum!SumInv
  <2>3. CASE Checksum!Fold
    <3>1. /\ csPc = "fold" /\ i' = (cs \div W) % W /\ cs' = i' + (cs % W)
          /\ csPc' = IF i' = 0 THEN "complement" ELSE "fold"
          /\ UNCHANGED <<data, size, pass, result>>
      BY <2>3 DEF Checksum!Fold
    <3>2. size # M /\ Checksum!SameRest(cs, Checksum!Total(F, size))
      BY <3>1 DEF Checksum!SumInv, Checksum!FoldInv
    <3>3. /\ i' \in 0 .. W - 1 /\ cs' \in 0 .. W * W - 1
          /\ Checksum!SameRest(cs', Checksum!Total(F, size))
          /\ i' = 0 => cs' < W
      <4> DEFINE t == Checksum!Total(F, size)
      <4>1. t \in Nat /\ cs \in 0 .. W * W - 1 /\ Checksum!SameRest(cs, t)
        BY <2>0, <2>w, <3>2
      <4> HIDE DEF t
      <4>2. QED
        BY <1>0, <3>1, <4>1, FoldStep DEF t
    <3>4. UNCHANGED F
      BY <2>d, <3>1
    <3>5. Checksum!FoldInv'
      BY <3>1, <3>2, <3>3, <3>4 DEF Checksum!FoldInv, Checksum!SameRest
    <3>6. Checksum!LoopInv' /\ Checksum!ReturnInv'
      BY <3>1 DEF Checksum!LoopInv, Checksum!ReturnInv
    <3>7. Types'
      BY <2>0, <3>1, <3>3
    <3>8. QED
      BY <2>t, <2>p, <3>1, <3>5, <3>6, <3>7 DEF Checksum!SumInv
  <2>4. CASE Checksum!Complement
    <3>1. /\ csPc = "complement" /\ result' = (W - 1) - (cs % W) /\ csPc' = "return"
          /\ UNCHANGED <<data, size, pass, i, cs>>
      BY <2>4 DEF Checksum!Complement
    <3>2. size # M /\ Checksum!SameRest(cs, Checksum!Total(F, size)) /\ cs < W
      BY <3>1 DEF Checksum!SumInv, Checksum!FoldInv
    <3>3. cs \in 0 .. M /\ cs % W = cs
      BY <1>0, <1>m, <2>0, <3>2
    <3>4. cs = Checksum!OnesSum(Checksum!Total(F, size))
      <4> DEFINE t == Checksum!Total(F, size)
      <4>1. t \in Nat /\ Checksum!SameRest(cs, t)
        BY <2>w, <3>2
      <4> HIDE DEF t
      <4>2. QED
        BY <1>0, <3>3, <4>1, OnesSumIs DEF t
    <3>5. UNCHANGED F /\ result' = (W - 1) - cs /\ result' \in 0 .. M
      <4> HIDE DEF W, F
      <4>1. result' = (W - 1) - cs
        BY <3>1, <3>3
      <4>2. result' \in 0 .. M
        BY <1>0, <3>3, <4>1
      <4>3. UNCHANGED F
        BY <2>d, <3>1
      <4>4. QED
        BY <4>1, <4>2, <4>3
    <3>6. Checksum!ReturnInv'
      BY <3>1, <3>2, <3>4, <3>5 DEF Checksum!ReturnInv, Checksum!OnesSum
    <3>7. Checksum!LoopInv' /\ Checksum!FoldInv'
      BY <3>1 DEF Checksum!LoopInv, Checksum!FoldInv
    <3>8. Types'
      BY <2>0, <3>1, <3>5
    <3>9. QED
      BY <2>t, <2>p, <3>1, <3>6, <3>7, <3>8 DEF Checksum!SumInv
  <2>5. CASE Checksum!Store
    <3>1. /\ csPc = "return" /\ pass = "prepare" /\ pass' = "check" /\ csPc' = "add"
          /\ i' = 0 /\ cs' = 0 /\ UNCHANGED <<size, result>>
          /\ data' = [data EXCEPT ![2] = result \div Base, ![3] = result % Base]
      BY <2>5 DEF Checksum!Store
    <3>2. /\ size # M /\ result = (W - 1) - Checksum!OnesSum(Checksum!Total(F, size))
          /\ size >= 4 /\ data[2] = 0 /\ data[3] = 0
      BY <3>1 DEF Checksum!SumInv, Checksum!ReturnInv, Checksum!PassInv, Checksum!Header
    <3>3. /\ result \div Base \in 0 .. Base - 1 /\ result % Base \in 0 .. Base - 1
          /\ Base * (result \div Base) + (result % Base) = result
      <4>1. result \in 0 .. W - 1
        BY <1>0, <2>0
      <4>2. QED
        BY <4>1, WordIs
    <3>4. /\ data' \in Buffers
          /\ \A k \in 0 .. M : k # 2 /\ k # 3 => data'[k] = data[k]
          /\ data'[2] = result \div Base /\ data'[3] = result % Base
      <4>1. 2 \in 0 .. W - 1 /\ 3 \in 0 .. W - 1
        BY <1>0
      <4>2. data \in [0 .. W - 1 -> 0 .. Base - 1]
        BY <2>0 DEF Buffers
      <4> DEFINE a == result \div Base
                 b == result % Base
                 D == 0 .. W - 1
                 B == 0 .. Base - 1
      <4>3. /\ data' = [data EXCEPT ![2] = a, ![3] = b] /\ data \in [D -> B]
            /\ a \in B /\ b \in B /\ 2 \in D /\ 3 \in D
        BY <3>1, <3>3, <4>1, <4>2
      <4>4. D = 0 .. M /\ Buffers = [D -> B]
        BY <1>0 DEF Buffers
      <4> HIDE DEF a, b, D, B
      <4>5. /\ data' \in [D -> B] /\ data'[2] = a /\ data'[3] = b
            /\ \A k \in D : k # 2 /\ k # 3 => data'[k] = data[k]
        BY <4>3
      <4>6. QED
        BY <4>4, <4>5 DEF a, b
    <3>5. Types'
      <4>1. 0 \in 0 .. M /\ 0 \in 0 .. W * W - 1
        BY <1>0
      <4>2. QED
        BY <2>0, <3>1, <3>4, <4>1
    <3> DEFINE g == [k \in Places |-> Base * data'[k] + data'[k + 1]]
               t == Checksum!Total(F, size)
    <3>6. F' = g
      BY DEF Checksum!Words, Checksum!WordAt, Places
    <3>7. g \in [Places -> Nat] /\ \A k \in Places : g[k] = Base * data'[k] + data'[k + 1]
      <4>1. g \in [Places -> 0 .. W - 1]
        BY <3>4, WordsIn
      <4>2. QED
        BY <1>0, <4>1
    <3>8. 2 \in Places /\ 2 \in Checksum!Even(size)
      <4>1. 2 \in Checksum!Even(size)
        BY <2>0, <3>2 DEF Checksum!Even
      <4>2. QED
        BY <1>0, <2>0, <4>1, Evens
    <3>9. F[2] = 0 /\ g[2] = result
      <4>1. 2 + 1 = 3
        OBVIOUS
      <4>2. F[2] = Base * data[2] + data[2 + 1] /\ g[2] = Base * data'[2] + data'[2 + 1]
        BY <2>w, <3>7, <3>8, Zenon DEF Checksum!WordAt
      <4>3. F[2] = Base * 0 + 0
        BY <3>2, <4>1, <4>2
      <4>4. g[2] = Base * (result \div Base) + (result % Base)
        BY <3>4, <4>1, <4>2
      <4>5. QED
        BY <3>3, <4>3, <4>4
    <3>10. ASSUME NEW k \in Checksum!Even(size), k # 2 PROVE F[k] = g[k]
      <4>1. k \in Places
        BY <1>0, <2>0, Evens
      <4>2. k \in 0 .. M /\ k + 1 \in 0 .. M /\ k # 3 /\ k + 1 # 2 /\ k + 1 # 3
        BY <1>0, <3>10, <4>1 DEF Checksum!Even, Places
      <4>3. data'[k] = data[k] /\ data'[k + 1] = data[k + 1]
        BY <3>4, <3>10, <4>2
      <4>4. F[k] = Base * data[k] + data[k + 1] /\ g[k] = Base * data'[k] + data'[k + 1]
        BY <2>w, <3>7, <4>1, Zenon DEF Checksum!WordAt
      <4>5. QED
        BY <4>3, <4>4
    <3>11. Checksum!Total(g, size) = result + t
      <4> HIDE DEF F, g
      <4>1. PICK rest \in Nat : t = F[2] + rest /\ Checksum!Total(g, size) = g[2] + rest
        BY <1>0, <2>0, <2>w, <3>7, <3>8, <3>10, TotalOther
      <4>2. QED
        BY <2>0, <3>9, <4>1
    <3>12. Checksum!OnesSum(Checksum!Total(g, size)) = M
      <4>1. t \in Nat /\ result = M - Checksum!OnesSum(t)
        BY <2>w, <3>2
      <4> HIDE DEF t, g
      <4>2. QED
        BY <1>0, <3>11, <4>1, OnesSumFull
    <3>13. Checksum!PassInv'
      BY <3>1, <3>2, <3>6, <3>12 DEF Checksum!PassInv, Checksum!OnesSum
    <3>14. Checksum!LoopInv'
      <4>1. Checksum!Total(F', 0) = 0
        BY TotalOfNone
      <4>2. 0 % 2 = 0 /\ 0 <= size + 1 /\ 0 <= 0 * M
        BY <1>0, <2>0
      <4>3. QED
        BY <3>1, <4>1, <4>2 DEF Checksum!LoopInv
    <3>15. Checksum!FoldInv' /\ Checksum!ReturnInv'
      BY <3>1 DEF Checksum!FoldInv, Checksum!ReturnInv
    <3>16. QED
      BY <2>t, <3>5, <3>13, <3>14, <3>15 DEF Checksum!SumInv
  <2>6. CASE UNCHANGED Checksum!vars
    <3>1. UNCHANGED <<data, size, pass, csPc, i, cs, result>>
      BY <2>6 DEF Checksum!vars
    <3>2. UNCHANGED F
      BY <2>d, <3>1
    <3>3. Types'
      BY <2>0, <3>1
    <3>4. Checksum!LoopInv'
      BY <3>1, <3>2 DEF Checksum!SumInv, Checksum!LoopInv
    <3>5. Checksum!FoldInv'
      BY <3>1, <3>2 DEF Checksum!SumInv, Checksum!FoldInv
    <3>6. Checksum!ReturnInv'
      BY <3>1, <3>2 DEF Checksum!SumInv, Checksum!ReturnInv
    <3>7. QED
      BY <2>t, <2>p, <3>1, <3>3, <3>4, <3>5, <3>6 DEF Checksum!SumInv
  <2>7. QED
    BY <2>1, <2>2, <2>3, <2>4, <2>5, <2>6 DEF Checksum!Next
<1>3. IInv => Checksum!Inv
  <2> SUFFICES ASSUME IInv PROVE Checksum!Inv
    OBVIOUS
  <2>1. Types
    BY <1>t
  <2>2. ASSUME csPc = "return"
        PROVE  size \in 0 .. W - 2 /\ result = (W - 1) - Checksum!OnesSum(Checksum!Total(F, size))
    BY <1>0, <2>1, <2>2 DEF Checksum!SumInv, Checksum!ReturnInv
  <2>3. Checksum!ResultRight
    BY <2>1, <2>2, ReturnRight DEF Checksum!ResultRight
  <2>4. Checksum!PreparedVerifies
    BY <1>0, <2>2 DEF Checksum!SumInv, Checksum!PassInv, Checksum!PreparedVerifies
  <2>5. Checksum!NeverDone
    BY <1>0, <2>2 DEF Checksum!NeverDone, Checksum!Done
  <2>6. QED
    BY <2>3, <2>4, <2>5 DEF Checksum!Inv
<1>4. QED
  <2> HIDE DEF IInv
  <2>1. QED
    BY <1>1, <1>2, <1>3, PTL

-----------------------------------------------------------------------------
(* All of them, side by side.                                              *)

(* Side by side, each of them does what it does alone.                     *)
LEMMA DriversFollow ==
  FairSpec =>
    /\ Checksum!Init /\ [][Checksum!Next]_(Checksum!vars)
    /\ Irq!Spec
    /\ Tim!Spec
    /\ Systick!Spec
    /\ Printing!Init /\ [][Printing!Next]_(Printing!vars)
    /\ Echo!Init /\ [][Echo!Next]_(Echo!vars)
    /\ Rcc!Init /\ [][Rcc!Next]_(Rcc!vars)
    /\ Mii!Init /\ [][Mii!Next]_(Mii!vars)
    /\ Gpio!Init /\ [][Gpio!Next]_(Gpio!vars)
    /\ Serial!Init /\ [][Serial!Next]_(Serial!vars)
    /\ TimSetup!Init /\ [][TimSetup!Next]_(TimSetup!vars)
    /\ EthSetup!Init /\ [][EthSetup!Next]_(EthSetup!vars)
<1>1. Init =>
        /\ Checksum!Init /\ Irq!Init /\ Tim!Init /\ Systick!Init /\ Printing!Init
        /\ Echo!Init /\ Rcc!Init /\ Mii!Init /\ Gpio!Init
        /\ Serial!Init /\ TimSetup!Init /\ EthSetup!Init
  BY DEF Init
<1>2. [Next]_vars => [Checksum!Next]_(Checksum!vars)
  BY DEF Next, Others, vars, checksumVars, Checksum!vars
<1>3. [Next]_vars => [Irq!Next]_(Irq!vars)
  BY DEF Next, Others, vars, irqVars, Irq!vars
<1>4. [Next]_vars => [Tim!Next]_(Tim!vars)
  BY DEF Next, Others, vars, timVars, Tim!vars
<1>5. [Next]_vars => [Systick!Next]_(Systick!vars)
  BY DEF Next, Others, vars, systickVars, Systick!vars
<1>6. [Next]_vars => [Printing!Next]_(Printing!vars)
  BY DEF Next, Others, vars, printVars, Printing!vars
<1>7. [Next]_vars => [Echo!Next]_(Echo!vars)
  BY DEF Next, Others, vars, echoVars, Echo!vars
<1>8. [Next]_vars => [Rcc!Next]_(Rcc!vars)
  BY DEF Next, Others, vars, rccVars, Rcc!vars
<1>9. [Next]_vars => [Mii!Next]_(Mii!vars)
  BY DEF Next, Others, vars, miiVars, Mii!vars
<1>10. [Next]_vars => [Gpio!Next]_(Gpio!vars)
  BY DEF Next, Others, vars, gpioVars, Gpio!vars
<1>11. [Next]_vars => [Serial!Next]_(Serial!vars)
  BY DEF Next, Others, vars, serialVars, Serial!vars
<1>12. [Next]_vars => [TimSetup!Next]_(TimSetup!vars)
  BY DEF Next, Others, vars, timSetupVars, TimSetup!vars
<1>13. [Next]_vars => [EthSetup!Next]_(EthSetup!vars)
  BY DEF Next, Others, vars, ethSetupVars, EthSetup!vars
<1>14. QED
  BY <1>1, <1>2, <1>3, <1>4, <1>5, <1>6, <1>7, <1>8, <1>9, <1>10, <1>11, <1>12, <1>13,
     PTL DEF FairSpec, Tim!Spec, Systick!Spec, Irq!Spec

(* The part that is looked at stays the same.                              *)
Parts == {"checksum", "irq", "tim", "systick", "print", "echo", "rcc", "mii", "gpio",
          "serial", "tim setup", "eth setup"}

LEMMA PartStays == FairSpec => [](part \in Parts)
<1>1. Init => part \in Parts
  BY DEF Init, Parts
<1>2. part \in Parts /\ [Next]_vars => (part \in Parts)'
  BY DEF Next, Others, vars
<1>3. QED
  BY <1>1, <1>2, PTL DEF FairSpec

(* So every driver of perlib keeps what it promises, in the specification that*)
(* is checked, for all sizes, lengths, bounds, pins, contents and speeds that*)
(* the constants may have.                                                 *)
THEOREM DriversInv == FairSpec => []Inv
<1>1. Checksum!Init /\ [][Checksum!Next]_(Checksum!vars) => []Checksum!Inv
  BY SizesAssumption, ChecksumRight DEF Checksum!Word, Buffers
<1>2. Irq!Spec => []Irq!Inv
  BY SizesAssumption, IrqInvariants
<1>3. Tim!Spec => []Tim!Inv
  BY SizesAssumption, TimInvariants
<1>4. Systick!Spec => []Systick!TypeOK
  BY SizesAssumption, SystickInvariants
<1>5. Printing!Init /\ [][Printing!Next]_(Printing!vars) => []Printing!Inv
  BY SizesAssumption, PrintWhole
<1>6. Echo!Init /\ [][Echo!Next]_(Echo!vars) => []Echo!Inv
  BY SizesAssumption, EchoInOrder
<1>7. Rcc!Init /\ [][Rcc!Next]_(Rcc!vars) => []Rcc!Inv
  BY RccInvariant
<1>8. Mii!Init /\ [][Mii!Next]_(Mii!vars) => []Mii!LinkRight
  BY MiiInvariant
<1>9. Gpio!Init /\ [][Gpio!Next]_(Gpio!vars) => []Gpio!PinsRight
  BY SizesAssumption, GpioInvariant
<1>10. Serial!Init /\ [][Serial!Next]_(Serial!vars) => []Serial!Inv
  BY SizesAssumption, SerialInvariant
<1>11. TimSetup!Init /\ [][TimSetup!Next]_(TimSetup!vars) => []TimSetup!Inv
  BY TimSetupInvariant
<1>12. EthSetup!Init /\ [][EthSetup!Next]_(EthSetup!vars) => []EthSetup!Inv
  BY EthSetupInvariant
<1>13. /\ part \in Parts
       /\ Checksum!Inv
       /\ Irq!Inv
       /\ Tim!Inv
       /\ Systick!TypeOK
       /\ Printing!Inv
       /\ Echo!Inv
       /\ Rcc!Inv
       /\ Mii!LinkRight
       /\ Gpio!PinsRight
       /\ Serial!Inv
       /\ TimSetup!Inv
       /\ EthSetup!Inv
       => Inv
  BY DEF Inv, Parts
<1>14. QED
  BY <1>1, <1>2, <1>3, <1>4, <1>5, <1>6, <1>7, <1>8, <1>9, <1>10, <1>11, <1>12, <1>13,
     DriversFollow, PartStays, PTL

(* Both delays (tim.c, systick.c) take the time that they are asked for, for*)
(* every width of the counts.                                              *)
THEOREM DriversWaitMs == FairSpec => WaitsMs
<1>1. Tim!Spec => Tim!WaitsMs
  BY SizesAssumption, TimWaits
<1>2. Systick!Spec => Systick!WaitsMs
  BY SizesAssumption, SystickWaits
<1>3. QED
  BY <1>1, <1>2, DriversFollow, PTL DEF WaitsMs
=============================================================================
