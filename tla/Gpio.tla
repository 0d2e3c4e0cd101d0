-------------------------------- MODULE Gpio --------------------------------
(***************************************************************************)
(* gpio_init of perlib/gpio.c, one pin after the other.  The four bits of  *)
(* a pin are at 4 * pin in CFGLR or CFGHR: for pins from 8 on the shift    *)
(* counts go beyond the 32 bits of a register, of which the processor      *)
(* takes the remainder.                                                    *)
(***************************************************************************)
EXTENDS Naturals

CONSTANT Pins           \* some of 0 .. 15

VARIABLES
  cfgr,         \* per register and place in it: [mode, cnf], cnf a set of bits
  asked         \* history, per pin: how gpio_init was called last, or before

vars == <<cfgr, asked>>

Modes == {"input", "out"}
Configs == SUBSET {0, 1}      \* analog {}, floating {0}, pulled {1}; pp {}, od {0}, ...

Register(pin) == IF pin <= 7 THEN "CFGLR" ELSE "CFGHR"

(* Mistake: the place of a pin does not start anew in CFGHR.               *)
PlaceOn(pin) == IF pin <= 7 THEN pin ELSE pin - 7

(* offset = pin * 4, of which a shift takes five bits.                     *)
Place(pin) == ((pin * 4) % 32) \div 4

(* The mode replaces the old one, and so does the configuration of an      *)
(* output.  That of an input is or-ed in.                                  *)
Configure(pin, mode, config) ==
  /\ cfgr' = [cfgr EXCEPT ![Register(pin)][Place(pin)] =
       [mode |-> mode, cnf |-> IF mode = "input" THEN @.cnf \cup config ELSE config]]
  /\ asked' = [asked EXCEPT ![pin] =
       [mode |-> mode, cnf |-> config,
        before |-> IF mode = "input" THEN @.cnf \cup @.before ELSE {}]]

(* After a reset every pin is a floating input.                            *)
Init ==
  /\ cfgr = [r \in {"CFGLR", "CFGHR"} |-> [i \in 0 .. 7 |-> [mode |-> "input", cnf |-> {0}]]]
  /\ asked = [pin \in Pins |-> [mode |-> "input", cnf |-> {0}, before |-> {}]]

Next == \E pin \in Pins, mode \in Modes, config \in Configs : Configure(pin, mode, config)

-----------------------------------------------------------------------------
(* Every pin is configured as was asked for it, whatever was done to the   *)
(* others.  (For an input, on top of all it was configured as before: one  *)
(* that was floating, as after a reset, stays so.)                         *)
PinsRight ==
  \A pin \in Pins :
    LET has == cfgr[Register(pin)][pin % 8]
    IN  /\ has.mode = asked[pin].mode
        /\ has.cnf = asked[pin].cnf \cup asked[pin].before
=============================================================================
