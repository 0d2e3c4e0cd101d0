-------------------------------- MODULE Mii ---------------------------------
(***************************************************************************)
(* eth_phy_init of perlib/eth.c with eth_write_phy_reg and                 *)
(* eth_read_phy_reg: it resets the PHY and reads its status until the      *)
(* negotiation is complete.  MACMIIAR holds the number of a PHY register   *)
(* and whether it is to be written; it is only ever or-ed into.  Whether   *)
(* its fields outlast an access is the controller's affair (the vendor's   *)
(* ETH_ReadPHYRegister clears them first).                                 *)
(***************************************************************************)
EXTENDS Naturals

CONSTANTS
  Bmcr, Bmsr    \* the control and the status register: the bits of their numbers

VARIABLES
  keeps,        \* the fields outlast an access
  miiar,        \* MACMIIAR: [mr, mw, mb]
  miidr,        \* MACMIIDR: "reset", "negotiating", "complete"
  complete,     \* the PHY has negotiated
  doing         \* where eth_phy_init is

vars == <<keeps, miiar, miidr, complete, doing>>

(* MACMIIAR |= reg | mw | mb.                                              *)
OrIn(reg, write) ==
  miiar' = [mr |-> (IF keeps THEN miiar.mr ELSE {}) \cup reg,
            mw |-> write \/ (keeps /\ miiar.mw), mb |-> TRUE]

(* eth_write_phy_reg(phy_bmcr_addr, phy_reset).                            *)
WriteReset ==
  /\ doing = "reset"
  /\ miidr' = "reset"
  /\ OrIn(Bmcr, TRUE)
  /\ doing' = "resetting"
  /\ UNCHANGED <<keeps, complete>>

(* tim_delay_ms, and eth_read_phy_reg(phy_bmsr_addr).                      *)
ReadStatus ==
  /\ \/ doing = "resetting" /\ ~miiar.mb
     \/ doing = "read"
  /\ OrIn(Bmsr, FALSE)
  /\ doing' = "reading"
  /\ UNCHANGED <<keeps, miidr, complete>>

(* Mistake: the loop ends with the first answer.                           *)
TestStatusNot ==
  /\ doing = "reading" /\ ~miiar.mb
  /\ doing' = "done"
  /\ UNCHANGED <<keeps, miiar, miidr, complete>>

(* while(!(val & phy_autonegcmpl)).                                        *)
TestStatus ==
  /\ doing = "reading" /\ ~miiar.mb
  /\ doing' = IF miidr = "complete" THEN "done" ELSE "read"
  /\ UNCHANGED <<keeps, miiar, miidr, complete>>

(* The controller: only a read changes MACMIIDR.                           *)
Access ==
  /\ miiar.mb
  /\ miiar' = [miiar EXCEPT !.mb = FALSE]
  /\ miidr' = IF miiar.mw THEN miidr
              ELSE IF miiar.mr = Bmsr /\ complete THEN "complete" ELSE "negotiating"
  /\ UNCHANGED <<keeps, complete, doing>>

(* The PHY, some time after its reset.                                     *)
Negotiate ==
  /\ doing # "reset" /\ ~complete
  /\ complete' = TRUE
  /\ UNCHANGED <<keeps, miiar, miidr, doing>>

Program == WriteReset \/ ReadStatus \/ TestStatus
Controller == Access \/ Negotiate

Init ==
  /\ keeps \in BOOLEAN
  /\ miiar = [mr |-> {}, mw |-> FALSE, mb |-> FALSE] /\ miidr = "negotiating"
  /\ complete = FALSE /\ doing = "reset"

Next == Program \/ Controller

-----------------------------------------------------------------------------
(* The negotiation is complete when eth_phy_init says so, and it says so   *)
(* only if the fields do not outlast an access: if they do, every read     *)
(* behind the write of the reset is a write.                               *)
LinkRight == doing = "done" => complete /\ ~keeps

(* If they do not it comes to its end.                                     *)
InitEnds == ~keeps => <>(doing = "done")
=============================================================================
