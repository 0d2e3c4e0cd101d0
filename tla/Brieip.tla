------------------------------- MODULE Brieip -------------------------------
(***************************************************************************)
(* perlib/brieip.c: the small IP stack that the main loop of               *)
(* snippets/brieip polls.  brieip_process receives a frame into buff_set,  *)
(* turns it into its own answer in place, and transmits it.                *)
(*                                                                         *)
(* The two halves of the driver below are the bounded queues that EthRx    *)
(* and EthTx implement (FrameFifo).  A host stands for its MAC and its IP  *)
(* address alike.  A checksum field is abstracted to whether it is right;  *)
(* module Checksum has the arithmetic.                                     *)
(***************************************************************************)
EXTENDS Naturals, Sequences

CONSTANTS
  Me,           \* this host: brieip_mac and brieip_ip
  Peers,        \* the others
  Nobody,       \* an address of no host: zero, broadcast
  Arrivals,     \* the frames the wire may bring, a subset of Frame
  RxNum,        \* eth_rxbuff_num
  TxNum,        \* eth_txbuff_num
  MaxFrames     \* bound: how many frames the wire brings

Addr == Peers \cup {Me, Nobody}

Ops == {"request", "reply", "other"}

(* ok: hardware and protocol type and both lengths are those of Ethernet   *)
(* and IPv4.                                                               *)
ArpFrame == [ether : {"arp"}, dst : Addr, src : Addr, ok : BOOLEAN, op : Ops,
             sha : Addr, spa : Addr, tha : Addr, tpa : Addr]

(* ok: version 4 and not a fragment; hcs, cs: the IP and the ICMP checksum *)
(* is right; odd: the ICMP part has an odd number of bytes.                *)
IpFrame == [ether : {"ip"}, dst : Addr, src : Addr, ok : BOOLEAN,
            hcs : BOOLEAN, from : Addr, to : Addr, proto : {"icmp", "other"},
            op : Ops, cs : BOOLEAN, odd : BOOLEAN]

OtherFrame == [ether : {"other"}]

Frame == ArpFrame \cup IpFrame \cup OtherFrame

(* buff_set.buff before the first frame: zeros, no known ethertype.        *)
Blank == [ether |-> "other"]

BrieipAssumption ==
  /\ Me \notin Peers /\ Nobody \notin Peers \cup {Me}
  /\ Arrivals \subseteq Frame
  /\ RxNum \in Nat \ {0} /\ TxNum \in Nat \ {0} /\ MaxFrames \in Nat

VARIABLES
  rxq, txq,     \* frames waiting in the driver's two rings
  buff,         \* buff_set.buff: the frame it holds
  residue,      \* the byte behind that frame in buff is not zero
  sum,          \* calculate_cs over the ICMP part comes out as zero
  cnt,          \* buff_set.cnt: the headers (and data) counted so far
  pc,           \* where brieip_process is
  heard,        \* history: the frame received last, as it came
  asked,        \* history: per peer, echo requests whose sums came out right
  answered,     \* history: per peer, echo replies handed to eth_transmit
  arrived       \* frames the wire brought so far

mainVars == <<buff, residue, sum, cnt, pc, heard, asked, answered>>
vars == <<rxq, txq, buff, residue, sum, cnt, pc, heard, asked, answered, arrived>>

(* An echo request of a peer to this host, its ICMP checksum aside.        *)
Ping(f) ==
  /\ f.ether = "ip" /\ f.ok /\ f.hcs /\ f.to = Me /\ f.from \in Peers
  /\ f.proto = "icmp" /\ f.op = "request"

-----------------------------------------------------------------------------
(* The wire.                                                               *)

(* A frame passes the MAC's filter (own address or broadcast) and is       *)
(* stored, or lost when all receive buffers are taken.                     *)
Arrive(f) ==
  /\ arrived < MaxFrames
  /\ arrived' = arrived + 1
  /\ rxq' = IF Len(rxq) < RxNum THEN Append(rxq, f) ELSE rxq
  /\ UNCHANGED <<txq, mainVars>>

(* The controller sends the oldest frame of the transmit ring.             *)
WireSend ==
  /\ txq # << >>
  /\ txq' = Tail(txq)
  /\ UNCHANGED <<rxq, arrived, mainVars>>

-----------------------------------------------------------------------------
(* brieip_process.                                                         *)

(* Mistake: the descriptor is not handed back, the frame is met again.     *)
ReceiveFrameAgain ==
  /\ pc = "receive"
  /\ rxq # << >>
  /\ LET f == Head(rxq)
     IN  /\ buff' = f
         /\ heard' = f
         /\ residue' = FALSE
         /\ sum' = (f.ether = "ip" /\ f.cs)
         /\ asked' = asked
  /\ cnt' = {}
  /\ pc' = "handle"
  /\ UNCHANGED <<rxq, txq, answered, arrived>>

(* eth_receive copies the oldest frame over the buffer; what lies behind   *)
(* its end stays from a longer frame before.  calculate_cs adds bytes in   *)
(* pairs, so over an odd number it takes in the byte behind the end: if    *)
(* that is not zero a right checksum does not come out as zero, and a      *)
(* wrong one may.  The count eth_receive returned is then overwritten.     *)
ReceiveFrame ==
  /\ pc = "receive"
  /\ rxq # << >>
  /\ LET f == Head(rxq)
     IN  /\ rxq' = Tail(rxq)
         /\ buff' = f
         /\ heard' = f
         /\ residue' \in IF f.ether = "ip" /\ f.odd THEN BOOLEAN ELSE {FALSE}
         /\ sum' \in IF f.ether # "ip" THEN {FALSE}
                     ELSE IF ~residue' THEN {f.cs}
                     ELSE IF f.cs THEN {FALSE} ELSE BOOLEAN
         /\ asked' = IF Ping(f) /\ sum'
                       THEN [asked EXCEPT ![f.from] = @ + 1] ELSE asked
  /\ cnt' = {}
  /\ pc' = "handle"
  /\ UNCHANGED <<txq, answered, arrived>>

(* Nothing was received: the count is zero, and what the buffer holds is   *)
(* handled all the same.                                                   *)
ReceiveNothing ==
  /\ pc = "receive"
  /\ rxq = << >>
  /\ cnt' = {}
  /\ pc' = "handle"
  /\ UNCHANGED <<rxq, txq, buff, residue, sum, heard, asked, answered, arrived>>

(* prepare_mac_packet.                                                     *)
PrepareMac(f) == [f EXCEPT !.dst = f.src, !.src = Me]

(* Mistake: the sender's protocol address is left as it was.               *)
PrepareArpHalf(f) ==
  [f EXCEPT !.tha = f.sha, !.sha = Me, !.tpa = f.spa,
            !.op = IF f.op = "request" THEN "reply"
                   ELSE IF f.op = "reply" THEN "request" ELSE f.op]

(* prepare_arp_packet: the opcode is turned round either way.              *)
PrepareArp(f) ==
  [f EXCEPT !.tha = f.sha, !.sha = Me, !.tpa = f.spa, !.spa = Me,
            !.op = IF f.op = "request" THEN "reply"
                   ELSE IF f.op = "reply" THEN "request" ELSE f.op]

(* prepare_ip_packet: back to the sender, with a new header checksum.      *)
PrepareIp(f) == [f EXCEPT !.to = f.from, !.from = Me, !.hcs = TRUE]

(* prepare_icmp_packet, called on an echo request only.  The new checksum  *)
(* is calculated over the same bytes, the one behind the end included.     *)
PrepareIcmp(f) == [f EXCEPT !.op = "reply", !.cs = ~residue]

(* Mistake: only requests are answered.                                    *)
ArpAcceptedRequest(f) == f.ether = "arp" /\ f.ok /\ f.op = "request"

(* What handle_arp_packet accepts; whom the request is for is not asked.   *)
ArpAccepted(f) == f.ether = "arp" /\ f.ok

(* Mistake: every ping is taken for one that came damaged.                 *)
IpAcceptedNot(f) == f.ether = "ip" /\ f.ok /\ f.hcs /\ f.to = Me /\ ~sum

(* What handle_ip_packet and handle_icmp_packet accept: an ICMP packet for *)
(* this host whose two checksums come out as zero and that is not an echo  *)
(* reply.                                                                  *)
IpAccepted(f) ==
  /\ f.ether = "ip" /\ f.ok /\ f.hcs /\ f.to = Me
  /\ f.proto = "icmp" /\ sum /\ f.op # "reply"

HandleArp ==
  /\ pc = "handle"
  /\ ArpAccepted(buff)
  /\ buff' = PrepareMac(PrepareArp(buff))
  /\ cnt' = {"mac", "arp"}
  /\ pc' = "transmit"
  /\ UNCHANGED <<rxq, txq, residue, sum, heard, asked, answered, arrived>>

(* An ICMP packet that is neither request nor reply goes back as it came,  *)
(* cut off behind the IP header.                                           *)
HandleIp ==
  /\ pc = "handle"
  /\ IpAccepted(buff)
  /\ IF buff.op = "request"
       THEN /\ buff' = PrepareMac(PrepareIp(PrepareIcmp(buff)))
            /\ cnt' = {"mac", "ip", "icmp"}
       ELSE /\ buff' = PrepareMac(PrepareIp(buff))
            /\ cnt' = {"mac", "ip"}
  /\ pc' = "transmit"
  /\ UNCHANGED <<rxq, txq, residue, sum, heard, asked, answered, arrived>>

HandleNone ==
  /\ pc = "handle"
  /\ ~ArpAccepted(buff) /\ ~IpAccepted(buff)
  /\ pc' = "transmit"
  /\ UNCHANGED <<rxq, txq, buff, residue, sum, cnt, heard, asked, answered,
                 arrived>>

(* if(cnt) eth_transmit, which drops the frame when the ring is full.      *)
Transmit ==
  /\ pc = "transmit"
  /\ txq' = IF cnt # {} /\ Len(txq) < TxNum
              THEN Append(txq, [frame |-> buff, cnt |-> cnt]) ELSE txq
  /\ answered' = IF "icmp" \in cnt /\ buff.to \in Peers
                   THEN [answered EXCEPT ![buff.to] = @ + 1] ELSE answered
  /\ pc' = "receive"
  /\ UNCHANGED <<rxq, buff, residue, sum, cnt, heard, asked, arrived>>

Process == \/ ReceiveFrame \/ ReceiveNothing \/ HandleArp \/ HandleIp
           \/ HandleNone \/ Transmit

-----------------------------------------------------------------------------
Init ==
  /\ rxq = << >> /\ txq = << >>
  /\ buff = Blank /\ residue = FALSE /\ sum = FALSE /\ cnt = {}
  /\ pc = "receive"
  /\ heard = Blank
  /\ asked = [p \in Peers |-> 0] /\ answered = [p \in Peers |-> 0]
  /\ arrived = 0

Next == Process \/ WireSend \/ \E f \in Arrivals : Arrive(f)

Spec == Init /\ [][Next]_vars

(* The main loop does nothing but brieip_process, and the controller sends *)
(* what it was given.                                                      *)
Fairness == WF_vars(Process) /\ WF_vars(WireSend)

FairSpec == Spec /\ Fairness

-----------------------------------------------------------------------------
Parts == {"mac", "arp", "ip", "icmp"}

(* Types.                                                                  *)
TypeOK ==
  /\ rxq \in Seq(Frame) /\ Len(rxq) <= RxNum
  /\ txq \in Seq([frame : Frame, cnt : SUBSET Parts]) /\ Len(txq) <= TxNum
  /\ buff \in Frame /\ heard \in Frame
  /\ residue \in BOOLEAN /\ sum \in BOOLEAN
  /\ cnt \subseteq Parts
  /\ pc \in {"receive", "handle", "transmit"}
  /\ asked \in [Peers -> Nat] /\ answered \in [Peers -> Nat]
  /\ arrived \in 0 .. MaxFrames

(* Whatever was in the buffer before, a frame on its way out names this    *)
(* host, and no other, as its sender, at every layer.                      *)
OwnName ==
  \A i \in 1 .. Len(txq) :
     LET f == txq[i].frame
     IN  /\ f.src = Me
         /\ f.ether = "arp" => f.sha = Me /\ f.spa = Me
         /\ f.ether = "ip" => f.from = Me

(* An IP packet about to be sent goes back to where the last packet came   *)
(* from, was asked of this host, answers no reply, and is intact if what   *)
(* it answers was.                                                         *)
AnswerFits ==
  pc = "transmit" /\ "ip" \in cnt =>
    /\ heard.ether = "ip" /\ heard.op # "reply" /\ heard.hcs
    /\ buff.dst = heard.src /\ buff.to = heard.from /\ buff.hcs
    /\ heard.cs => buff.cs

(* The type invariant with the two above: what is built in place over an   *)
(* older frame is well formed, names its sender and fits what it answers.  *)
Inv == TypeOK /\ OwnName /\ AnswerFits

(* A ping is answered at most once, although its frame stays in the buffer *)
(* and is handled again at every poll.                                     *)
EchoAtMostOnce == \A p \in Peers : answered[p] <= asked[p]

(* Every ping whose sums come out right is answered (if only into a full   *)
(* transmit ring), whatever arrives meanwhile, and comes back to this.     *)
NoneOutstanding == \A p \in Peers : answered[p] >= asked[p]
(* Not so an ARP frame: while it is the last one received it is answered   *)
(* again at every poll, turned from request to reply and back, so the      *)
(* transmitter never comes to rest.                                        *)
ArpHeld == ArpAccepted(heard)

ArpNeverSettles == <>[]ArpHeld => []<>(pc = "transmit" /\ "arp" \in cnt)

-----------------------------------------------------------------------------
(* What holds for all peers, all frames that the wire may bring and all    *)
(* ring sizes, as MCPrograms proves.                                       *)

(* f names this host as its sender.                                        *)
Named(f) ==
  /\ f.src = Me
  /\ f.ether = "arp" => f.sha = Me /\ f.spa = Me
  /\ f.ether = "ip" => f.from = Me

(* What handle_icmp_packet is going to answer as an echo request.          *)
Pending(f) == IpAccepted(f) /\ f.op = "request" /\ f.from \in Peers

(* A ping is outstanding until it is answered, and what has been answered  *)
(* is never again taken for a ping, though it stays in the buffer.         *)
BrieipInv ==
  /\ TypeOK /\ OwnName /\ EchoAtMostOnce
  /\ pc = "handle" => cnt = {}
  /\ pc = "handle" /\ Pending(buff) => answered[buff.from] < asked[buff.from]
  /\ pc # "handle" => ~Pending(buff)
  /\ pc = "transmit" /\ cnt # {} => Named(buff)
  /\ pc = "transmit" /\ "icmp" \in cnt /\ buff.to \in Peers =>
       answered[buff.to] < asked[buff.to]
=============================================================================
