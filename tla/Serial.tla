------------------------------- MODULE Serial -------------------------------
(***************************************************************************)
(* usart_init of perlib/usart.c and the calls that switch a part of a      *)
(* USART on or off, with what they need of perlib/rcc.c, gpio.c and        *)
(* nvic.c, for one of the three USARTs; and a peer on the line that sends  *)
(* at the speed that was asked for last.  A register of a USART keeps      *)
(* nothing that is written while the USART has no clock; usart_num_3 has   *)
(* no registers at all here (switch_usart gives address zero).             *)
(***************************************************************************)
EXTENDS Naturals

CONSTANTS
  SystemClk,    \* what rcc_init sets system_clk to
  Bauds,        \* usart_baud_t: the speeds
  Asked         \* the settings that usart_init is called with

VARIABLES
  num,          \* which USART
  system_clk,   \* what rcc.c knows of the clock: nothing before rcc_init
  settings,     \* *usart_set: [baud, tx, rx, txIrq, rxIrq]
  clocked,      \* its clock is on
  pins,         \* what its two pins are
  interrupts,   \* its interrupt is enabled in the controller
  ctlr1, brr,   \* its registers
  doing,        \* where usart_init is
  rxne, speed,  \* a character has come in, at a speed that was ("right", "wrong")
  begun,        \* "no", "first" or "again": usart_init has been called
  garbled       \* history: a handler has read a character that came at the wrong speed

vars == <<num, system_clk, settings, clocked, pins, interrupts, ctlr1, brr,
          doing, rxne, speed, begun, garbled>>

(* usart_t.                                                                *)
Settings ==
  [baud : Bauds, tx : BOOLEAN, rx : BOOLEAN, txIrq : BOOLEAN, rxIrq : BOOLEAN]

SerialAssumption ==
  /\ SystemClk \in Nat \ {0}
  /\ Bauds \subseteq Nat \ {0} /\ Bauds # {}
  /\ Asked \subseteq Settings

-----------------------------------------------------------------------------
(* rcc_get_apb1_clk and rcc_get_apb2_clk, as rcc_init divides the bus      *)
(* clocks: the second bus has half the speed.                              *)
BusClk(clk) == IF num = 1 THEN clk \div 2 ELSE clk

(* A write to CTLR1.                                                       *)
Control(bits) == ctlr1' = IF clocked /\ num # 3 THEN bits ELSE ctlr1

(* A bit as a setting has it.                                              *)
Switched(bit, set) == IF set THEN ctlr1 \cup {bit} ELSE ctlr1 \ {bit}

(* usart_init is called: the pins first.  Bound: it is called twice.       *)
GpioInit ==
  /\ doing \in {"out", "ready"} /\ begun # "again"
  /\ settings' \in Asked
  /\ pins' = [tx |-> "alternate_output", rx |-> "floating_input"]
  /\ begun' = IF begun = "no" THEN "first" ELSE "again"
  /\ doing' = "rcc"
  /\ UNCHANGED <<num, system_clk, clocked, interrupts, ctlr1, brr, rxne, speed, garbled>>

(* usart_rcc_init.                                                         *)
RccInit ==
  /\ doing = "rcc"
  /\ clocked' = TRUE
  /\ doing' = "irq"
  /\ UNCHANGED <<num, system_clk, settings, pins, interrupts, ctlr1, brr,
                 rxne, speed, begun, garbled>>

(* irq_init.                                                               *)
IrqInit ==
  /\ doing = "irq"
  /\ interrupts' = TRUE
  /\ Control((ctlr1 \ {"TXEIE", "RXNEIE"})
               \cup (IF settings.txIrq THEN {"TXEIE"} ELSE {})
               \cup (IF settings.rxIrq THEN {"RXNEIE"} ELSE {}))
  /\ doing' = "tx"
  /\ UNCHANGED <<num, system_clk, settings, clocked, pins, brr, rxne, speed, begun, garbled>>

(* tx_init.                                                                *)
TxInit ==
  /\ doing = "tx"
  /\ Control(Switched("TE", settings.tx))
  /\ doing' = "rx"
  /\ UNCHANGED <<num, system_clk, settings, clocked, pins, interrupts, brr,
                 rxne, speed, begun, garbled>>

(* rx_init.                                                                *)
RxInit ==
  /\ doing = "rx"
  /\ Control(Switched("RE", settings.rx))
  /\ doing' = "baud"
  /\ UNCHANGED <<num, system_clk, settings, clocked, pins, interrupts, brr,
                 rxne, speed, begun, garbled>>

(* Mistake: as if every USART were on the second bus.                      *)
BaudOneBus ==
  /\ doing = "baud"
  /\ brr' = ((system_clk \div 2) \div settings.baud) % 65536
  /\ doing' = "enable"
  /\ UNCHANGED <<num, system_clk, settings, clocked, pins, interrupts, ctlr1,
                 rxne, speed, begun, garbled>>

(* baud_init; the dividers of the two buses are one.                       *)
BaudInit ==
  /\ doing = "baud"
  /\ brr' = IF num = 3 THEN brr
            ELSE (BusClk(system_clk) \div settings.baud) % 65536
  /\ doing' = "enable"
  /\ UNCHANGED <<num, system_clk, settings, clocked, pins, interrupts, ctlr1,
                 rxne, speed, begun, garbled>>

(* usart_enable, and usart_init returns.                                   *)
Enable ==
  /\ doing = "enable"
  /\ Control(ctlr1 \cup {"UE"})
  /\ doing' = "ready"
  /\ UNCHANGED <<num, system_clk, settings, clocked, pins, interrupts, brr,
                 rxne, speed, begun, garbled>>

-----------------------------------------------------------------------------
(* usart_tx_enable and its like; usart_enable and usart_disable keep no    *)
(* account of it in the settings.                                          *)
Switch(bit, field, set) ==
  /\ doing = "ready"
  /\ settings' = [settings EXCEPT ![field] = set]
  /\ Control(Switched(bit, set))
  /\ UNCHANGED <<num, system_clk, clocked, pins, interrupts, brr, doing,
                 rxne, speed, begun, garbled>>

SwitchAll(set) ==
  /\ doing = "ready"
  /\ Control(Switched("UE", set))
  /\ UNCHANGED <<num, system_clk, settings, clocked, pins, interrupts, brr, doing,
                 rxne, speed, begun, garbled>>

Switches ==
  \/ \E set \in BOOLEAN :
       \/ Switch("TE", "tx", set)
       \/ Switch("RE", "rx", set)
       \/ Switch("TXEIE", "txIrq", set)
       \/ Switch("RXNEIE", "rxIrq", set)
       \/ SwitchAll(set)

-----------------------------------------------------------------------------
(* The peer sends a character; a USART with a divider of zero takes none.  *)
Receive ==
  /\ {"UE", "RE"} \subseteq ctlr1 /\ brr # 0
  /\ pins.rx = "floating_input"
  /\ rxne' = TRUE
  /\ speed' = IF brr * settings.baud = BusClk(SystemClk) THEN "right" ELSE "wrong"
  /\ UNCHANGED <<num, system_clk, settings, clocked, pins, interrupts, ctlr1, brr,
                 doing, begun, garbled>>

(* The handler of the usart_irq program, or usart_get_char in a loop over  *)
(* usart_get_rx_status.                                                    *)
GetChar ==
  /\ rxne
  /\ \/ interrupts /\ "RXNEIE" \in ctlr1
     \/ doing = "ready"
  /\ rxne' = FALSE
  /\ garbled' = (garbled \/ speed = "wrong")
  /\ speed' = "right"
  /\ UNCHANGED <<num, system_clk, settings, clocked, pins, interrupts, ctlr1, brr,
                 doing, begun>>

(* Behind a reset; the programs call rcc_init first.                       *)
Init ==
  /\ num \in 1 .. 3
  /\ system_clk \in {0, SystemClk}
  /\ settings = [baud |-> CHOOSE baud \in Bauds : TRUE,
                 tx |-> FALSE, rx |-> FALSE, txIrq |-> FALSE, rxIrq |-> FALSE]
  /\ clocked = FALSE /\ interrupts = FALSE
  /\ pins = [tx |-> "floating_input", rx |-> "floating_input"]
  /\ ctlr1 = {} /\ brr = 0
  /\ doing = "out"
  /\ rxne = FALSE /\ speed = "right"
  /\ begun = "no" /\ garbled = FALSE

Initialise ==
  GpioInit \/ RccInit \/ IrqInit \/ TxInit \/ RxInit \/ BaudInit \/ Enable

Next == Initialise \/ Switches \/ Receive \/ GetChar

-----------------------------------------------------------------------------
(* What the settings say of a USART that is ready is so in its registers.  *)
Agrees ==
  doing = "ready" /\ num # 3 =>
    /\ clocked /\ interrupts
    /\ ctlr1 \ {"UE"} =
         {b \in {"TE", "RE", "TXEIE", "RXNEIE"} :
            \/ b = "TE" /\ settings.tx
            \/ b = "RE" /\ settings.rx
            \/ b = "TXEIE" /\ settings.txIrq
            \/ b = "RXNEIE" /\ settings.rxIrq}

(* A character is read at the wrong speed only when usart_init has been    *)
(* called for a USART that was in use; that call does not disable it.      *)
Readable == garbled => begun = "again"

(* The divider gives the speed asked for exactly, unless rcc_init has not  *)
(* been called: then it is zero, and nothing is ever received.  Nor does   *)
(* the third USART ever come to work.                                      *)
SpeedRight ==
  doing = "ready" /\ num # 3 =>
    IF system_clk = 0 THEN brr = 0 /\ ~rxne
    ELSE brr * settings.baud = BusClk(SystemClk)

ThirdDead == num = 3 => ctlr1 = {} /\ brr = 0 /\ ~rxne

Inv == Agrees /\ Readable /\ SpeedRight /\ ThirdDead
=============================================================================
