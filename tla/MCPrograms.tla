---------------------------- MODULE MCPrograms -----------------------------
(***************************************************************************)
(* The two programs that use the Ethernet controller and their parts that  *)
(* share no state, side by side, for behaviours each of which is one of a  *)
(* single part: brieip, and of the web example the settings in flash, the  *)
(* server, the driver's set-up, its reception and its search for a link.    *)
(***************************************************************************)
EXTENDS Naturals, Sequences, SequencesExt, FiniteSetTheorems, WellFoundedInduction, TLAPS

CONSTANTS
  Me, Peers, Nobody, Arrivals, RxNum, TxNum, MaxFrames,       \* of Brieip
  RxDescs, IdleDescs,                                         \* of WchRx: N, Idle
  TxDescs, TxNames,                                           \* of WchSetup: N, Frames
  Words, Default, Forms, UserLen, PassLen, Wide, MaxFaults,   \* of WebConfig
  MaxSockets, Template, Value, TypeOf, Received, MaxTries, MaxReceived, MaxTimeouts,  \* of WebServer
  ResetWait, ReInitWait, TRTries, SucTries, WaitTries, PTries, LongTries, Byte  \* of WchLink

VARIABLES
  part,                                        \* what is looked at
  rxq, txq, buff, residue, sum, cnt, pc, heard, asked, answered, arrived,    \* brieip
  flash, ram, doing, todo, faults, entered, hurt, saved, cause,              \* the settings
  mode, sockets, ids, ints, incoming, serving, cur, stat, buffer, reqnum, pagelen, html,
  sending, head, method, answers, gaveUp, received, timeouts,                \* the server
  own, dma, pDMARxSet, halted, maccr, flags, taken, RBUFlag, RecStopFlag, DuplexMode,
  rxPc, copy, overlapped,                                                    \* reception
  clock, linked, pending, reading, missed, phyLinkReset, phyStatus, phyLinkStatus, phyPN,
  phyLinkCnt, phySucCnt, TRDetectStep, TRDetectCnt, LinkTaskPeriod, since, sinceUp,
  ReInitMACFlag, PhyPolarityDetect, ranOut, linkPc,                          \* the link
  starting, regs, resetting, phy, linkFlag, running, suspended, enabled, txOwn, frame,
  DMATxDescToSet, txDma, sendPc, count, accepted, sent, late                 \* its set-up

brieipVars == <<rxq, txq, buff, residue, sum, cnt, pc, heard, asked, answered, arrived>>
configVars == <<flash, ram, doing, todo, faults, entered, hurt, saved, cause>>
serverVars == <<mode, sockets, ids, ints, incoming, serving, cur, stat, buffer, reqnum,
                pagelen, html, sending, head, method, answers, gaveUp, received, timeouts>>
rxVars == <<own, dma, pDMARxSet, halted, maccr, flags, taken, RBUFlag, RecStopFlag,
            DuplexMode, rxPc, copy, overlapped>>
linkVars == <<clock, linked, pending, reading, missed, phyLinkReset, phyStatus,
              phyLinkStatus, phyPN, phyLinkCnt, phySucCnt, TRDetectStep, TRDetectCnt,
              LinkTaskPeriod, since, sinceUp, ReInitMACFlag, PhyPolarityDetect, ranOut, linkPc>>
setupVars == <<starting, regs, resetting, phy, linkFlag, running, suspended, enabled, txOwn,
               frame, DMATxDescToSet, txDma, sendPc, count, accepted, sent, late>>
vars == <<part, brieipVars, configVars, serverVars, rxVars, linkVars, setupVars>>

-----------------------------------------------------------------------------
Arp(p, op, target) ==
  [ether |-> "arp", dst |-> Nobody, src |-> p, ok |-> TRUE, op |-> op,
   sha |-> p, spa |-> p, tha |-> Nobody, tpa |-> target]

Icmp(p, op, target, hcs, cs, odd) ==
  [ether |-> "ip", dst |-> Me, src |-> p, ok |-> TRUE, hcs |-> hcs, from |-> p,
   to |-> target, proto |-> "icmp", op |-> op, cs |-> cs, odd |-> odd]

(* Who has this address, and who has that of a peer; an unasked-for reply. *)
ArpFrames == {Arp(p, "request", t) : p \in Peers, t \in Peers \cup {Me}}
               \cup {Arp(p, "reply", p) : p \in Peers}

(* Pings with a right and a wrong checksum, of an even and an odd number   *)
(* of bytes, to this host; one to another; a reply; another ICMP type.     *)
IcmpFrames ==
       {Icmp(p, "request", Me, TRUE, cs, odd) :
          p \in Peers, cs \in BOOLEAN, odd \in BOOLEAN}
  \cup {Icmp(p, "request", p, TRUE, TRUE, FALSE) : p \in Peers}
  \cup {Icmp(p, "request", Me, FALSE, TRUE, FALSE) : p \in Peers}
  \cup {Icmp(p, op, Me, TRUE, TRUE, FALSE) : p \in Peers, op \in {"reply", "other"}}

(* A frame of another protocol, an ARP frame of another hardware type, an  *)
(* IP packet that is not ICMP.                                             *)
OtherFrames ==
  {[ether |-> "other"]}
    \cup {[Arp(p, "request", Me) EXCEPT !.ok = FALSE] : p \in Peers}
    \cup {[Icmp(p, "other", Me, TRUE, FALSE, FALSE) EXCEPT !.proto = "other"] :
            p \in Peers}

MCArrivals == ArpFrames \cup IcmpFrames \cup OtherFrames

B == INSTANCE Brieip

(* Forms with all the keys, of two pages, with a swapped and with a        *)
(* missing key, with characters that are encoded, and too long ones.       *)
Keys == [basic |-> <<"__PMAC", "__PSIP", "__PMSK", "__PGAT">>,
         port |-> <<"__PMOD", "__PSPT", "__PDIP", "__PDPT">>,
         login |-> <<"__PUSE", "__PPAS">>]
Form(keys, s, user, pass) == [keys |-> keys, setting |-> <<s>>, user |-> user, pass |-> pass]

MCForms ==
  {Form(Keys.basic, 2, <<>>, <<>>), Form(Keys.port \o Keys.basic, 3, <<>>, <<>>),
   Form(<<"__PSIP", "__PMAC", "__PMSK", "__PGAT">>, 2, <<>>, <<>>),
   Form(Front(Keys.port), 2, <<>>, <<>>),
   Form(Keys.login, 2, <<98>>, <<38, 37>>), Form(Keys.login, 2, <<98>>, <<>>),
   Form(Keys.login, 2, <<98>>, <<98, 48, 98>>),
   Form(Keys.login, 2, [n \in 1 .. 9 |-> 99], <<32, 191>>)}

MCWords == [basic |-> 3, port |-> 2, login |-> 2]
MCDefault == [basic |-> <<1>>, port |-> <<1>>, login |-> <<97, 0, 49>>]

Config == INSTANCE WebConfig

(* Requests for a page with a parameter, for one that is posted to, for    *)
(* none; two at once, of one and of two methods; one with another's word.  *)
Request(m, n) == [method |-> m, name |-> n, also |-> {}]

MCReceived ==
  {<<Request("GET", "HTTP")>>, <<Request("POST", "success")>>, <<Request("GET", "strange")>>,
   <<Request("GET", "main"), Request("GET", "basic")>>,
   <<Request("GET", "basic"), Request("POST", "main")>>,
   <<[method |-> "POST", name |-> "main", also |-> {"GET"}]>>}

MCTemplate == [HTTP |-> <<"text", "__AUSE">>, main |-> <<"text">>, success |-> <<"done">>,
               basic |-> <<"__AMAC", "__AMSK">>]
MCValue == [__AUSE |-> <<"admin">>, __AMAC |-> <<"1">>, __AMSK |-> <<"2">>]
MCTypeOf == [HTTP |-> "HTML", main |-> "HTML", success |-> "HTML", basic |-> "HTML",
             strange |-> "ERR"]

Server == INSTANCE WebServer WITH doing <- serving

Rx == INSTANCE WchRx WITH N <- RxDescs, Idle <- IdleDescs, pc <- rxPc

Link == INSTANCE WchLink WITH RBUFlag <- ranOut, pc <- linkPc

Setup == INSTANCE WchSetup
  WITH N <- TxDescs, Frames <- TxNames, doing <- starting, own <- txOwn, dma <- txDma, sending <- sendPc

ASSUME ProgramsAssumption ==
  /\ B!BrieipAssumption /\ Config!WebConfigAssumption /\ Server!WebServerAssumption
  /\ Rx!WchRxAssumption /\ Link!WchLinkAssumption /\ Setup!WchSetupAssumption

(* Nobody else sends with this host's address.                             *)
OwnAddress == \A f \in Arrivals : f.ether = "ip" => f.from # Me

(* Of the frames that come from the wire it is assumed.                    *)
ASSUME OwnAddressAssumption == OwnAddress

-----------------------------------------------------------------------------
Others ==
  /\ UNCHANGED part
  /\ IF part = "brieip" THEN TRUE ELSE UNCHANGED brieipVars
  /\ IF part = "config" THEN TRUE ELSE UNCHANGED configVars
  /\ IF part = "server" THEN TRUE ELSE UNCHANGED serverVars
  /\ IF part = "rx" THEN TRUE ELSE UNCHANGED rxVars
  /\ IF part = "link" THEN TRUE ELSE UNCHANGED linkVars
  /\ IF part = "setup" THEN TRUE ELSE UNCHANGED setupVars

Init ==
  /\ part \in {"brieip", "config", "server", "rx", "link", "setup"}
  /\ B!Init /\ Config!Init /\ Link!Init
  /\ Server!Init /\ (part # "server" => mode = "server")
  /\ Rx!Init /\ (part # "rx" => DuplexMode)
  /\ Setup!Init /\ (part # "setup" => regs["MACCR"] = "reset")

Next ==
  \/ part = "brieip" /\ B!Next /\ Others
  \/ part = "config" /\ Config!Next /\ Others
  \/ part = "server" /\ Server!Next /\ Others
  \/ part = "rx" /\ Rx!Next /\ Others
  \/ part = "link" /\ Link!Next /\ Others
  \/ part = "setup" /\ Setup!Next /\ Others

(* The programs go on, and an Ethernet handler that is asked for runs, ... *)
Code ==
  \/ part = "brieip" /\ B!Process /\ Others
  \/ part = "config" /\ Config!Program /\ Others
  \/ part = "server" /\ Server!Program /\ Others
  \/ part = "rx" /\ Rx!Handler /\ Others
  \/ part = "link" /\ Link!Handler /\ Others
  \/ part = "setup" /\ (Setup!Main \/ Setup!SendOwn \/ Setup!SendPoll) /\ Others

(* ... the controller sends, and nobody holds the button for ever; ...     *)
Around ==
  \/ part = "brieip" /\ B!WireSend /\ Others
  \/ part = "config" /\ Config!Release /\ Others

(* ... the driver's two tasks in the main loop get on in spite of the      *)
(* handler, and time passes.                                               *)
Loop ==
  \/ part = "rx" /\ Rx!NetInput /\ Others
  \/ part = "link" /\ Link!Loop /\ Others
Task ==
  \/ part = "rx" /\ Rx!RecProcess /\ Others
  \/ part = "link" /\ Link!EndReset /\ Others
Time == part = "link" /\ Link!TimeIsr /\ Others

FairSpec ==
  /\ Init /\ [][Next]_vars
  /\ WF_vars(Code) /\ WF_vars(Around) /\ SF_vars(Loop) /\ SF_vars(Task) /\ SF_vars(Time)

-----------------------------------------------------------------------------
(* What brieip sends names its sender and fits what it answers, no ping is *)
(* answered twice; the settings survive what cuts their writing short;     *)
(* every request is answered with its page; reception and the PHY's clock  *)
(* are not lost between the handler and the main loop; the driver's set-up *)
(* misses no link.                                                         *)
Inv ==
  CASE part = "brieip" -> B!Inv
    [] part = "config" -> Config!ConfigInv
    [] part = "server" -> Server!ServerInv
    [] part = "rx" -> Rx!RxInv
    [] part = "link" -> Link!LinkInv
    [] part = "setup" -> Setup!SetupInv

(* No ping is answered twice.                                              *)
EchoAtMostOnce == part = "brieip" => B!EchoAtMostOnce

(* What has to end: pings that wait for their answer, the web program's    *)
(* start and its driver's, a frame that is being handed to the controller, *)
(* what the program does for one socket, reception or the PHY's clock      *)
(* being turned off.                                                       *)
Done ==
  CASE part = "brieip" -> B!NoneOutstanding
    [] part = "config" -> doing \in {"run", "held"}
    [] part = "server" -> serving = "loop"
    [] part = "rx" -> maccr.re
    [] part = "link" -> clock
    [] part = "setup" -> starting = "loop" /\ sendPc = "no"

GoesOn == []<>Done

(* While an ARP frame is held it is answered for ever.                     *)
ArpNeverSettles == part = "brieip" => B!ArpNeverSettles

-----------------------------------------------------------------------------
(* The proofs, part by part: brieip ...                                    *)

(* An ARP frame turned round is one, and names this host.                  *)
LEMMA ArpAnswer ==
  ASSUME NEW f \in B!ArpFrame
  PROVE  LET g == B!PrepareMac(B!PrepareArp(f))
         IN  g \in B!ArpFrame /\ B!Named(g)
  BY DEF B!ArpFrame, B!PrepareMac, B!PrepareArp, B!Named, B!Ops, B!Addr

(* An IP packet sent back is one, from this host to who sent it.           *)
LEMMA IpAnswer ==
  ASSUME NEW f \in B!IpFrame
  PROVE  LET g == B!PrepareMac(B!PrepareIp(f))
         IN  /\ g \in B!IpFrame /\ B!Named(g)
             /\ g.to = f.from /\ g.op = f.op
  BY DEF B!IpFrame, B!PrepareMac, B!PrepareIp, B!Named, B!Ops, B!Addr

(* An echo request turned into a reply has the addresses it had.           *)
LEMMA IcmpAnswer ==
  ASSUME NEW f \in B!IpFrame, residue \in BOOLEAN
  PROVE  LET g == B!PrepareIcmp(f)
         IN  g \in B!IpFrame /\ g.from = f.from /\ g.op = "reply"
  BY DEF B!IpFrame, B!PrepareIcmp, B!Ops

(* Every state of the stack satisfies it.                                  *)
LEMMA BrieipInvariant ==
  ASSUME B!BrieipAssumption
  PROVE  B!Spec => []B!BrieipInv
<1> USE DEF B!BrieipAssumption
<1>1. ASSUME B!Init PROVE B!BrieipInv
  <2>1. B!Blank \in B!Frame /\ ~B!Pending(B!Blank) /\ B!Blank.ether = "other"
    BY DEF B!Blank, B!Frame, B!OtherFrame, B!Pending, B!IpAccepted
  <2>2. B!TypeOK
    <3>1. /\ << >> \in Seq(B!Frame) /\ << >> \in Seq([frame : B!Frame, cnt : SUBSET B!Parts])
          /\ Len(<< >>) = 0
      OBVIOUS
    <3>2. rxq = << >> /\ txq = << >> /\ buff = B!Blank /\ heard = B!Blank
      BY <1>1 DEF B!Init
    <3>3. asked \in [Peers -> Nat] /\ answered \in [Peers -> Nat]
      BY <1>1 DEF B!Init
    <3>4. /\ residue \in BOOLEAN /\ sum \in BOOLEAN /\ cnt \subseteq B!Parts
          /\ pc \in {"receive", "handle", "transmit"}
      BY <1>1 DEF B!Init
    <3>5. Len(rxq) <= RxNum /\ Len(txq) <= TxNum /\ arrived \in 0 .. MaxFrames
      BY <1>1, <3>1, <3>2 DEF B!Init
    <3>6. QED
      BY <2>1, <3>1, <3>2, <3>3, <3>4, <3>5 DEF B!TypeOK
  <2>3. B!OwnName /\ B!EchoAtMostOnce
    BY <1>1 DEF B!Init, B!OwnName, B!EchoAtMostOnce
  <2>4. ~B!Pending(buff)
    BY <1>1, <2>1 DEF B!Init
  <2>5. QED
    BY <1>1, <2>2, <2>3, <2>4 DEF B!Init, B!BrieipInv
<1>2. B!BrieipInv /\ [B!Next]_(B!vars) => B!BrieipInv'
  <2> SUFFICES ASSUME B!BrieipInv, [B!Next]_(B!vars) PROVE B!BrieipInv'
    OBVIOUS
  <2> USE DEF B!BrieipInv
  <2>1. CASE B!ReceiveFrame
    <3> DEFINE f == Head(rxq)
    <3>1. f \in B!Frame /\ rxq' \in Seq(B!Frame) /\ Len(rxq') <= RxNum
      BY <2>1 DEF B!ReceiveFrame, B!TypeOK
    <3>2. residue' \in BOOLEAN /\ sum' \in BOOLEAN
      BY <2>1, <3>1 DEF B!ReceiveFrame, B!Frame, B!IpFrame, B!ArpFrame, B!OtherFrame
    <3>3. /\ buff' = f /\ heard' = f /\ cnt' = {} /\ pc' = "handle"
          /\ txq' = txq /\ answered' = answered /\ arrived' = arrived
          /\ asked' = IF B!Ping(f) /\ sum' THEN [asked EXCEPT ![f.from] = @ + 1] ELSE asked
      BY <2>1 DEF B!ReceiveFrame
    <3>4. /\ asked' \in [Peers -> Nat]
          /\ \A p \in Peers : asked[p] <= asked'[p]
          /\ B!Ping(f) /\ sum' => asked'[f.from] = asked[f.from] + 1
      BY <3>3 DEF B!TypeOK, B!Ping
    <3>5. B!TypeOK'
      BY <3>1, <3>2, <3>3, <3>4 DEF B!TypeOK
    <3>6. B!OwnName'
      BY <3>3 DEF B!OwnName
    <3>7. B!EchoAtMostOnce'
      BY <3>3, <3>4 DEF B!EchoAtMostOnce, B!TypeOK
    <3>8. B!Pending(buff)' => B!Ping(f) /\ sum'
      BY <3>3 DEF B!Pending, B!IpAccepted, B!Ping
    <3>9. B!Pending(buff)' => answered'[buff'.from] < asked'[buff'.from]
      BY <3>3, <3>4, <3>8 DEF B!EchoAtMostOnce, B!TypeOK, B!Ping
    <3>10. QED
      BY <3>3, <3>5, <3>6, <3>7, <3>9
  <2>2. CASE B!ReceiveNothing
    BY <2>2 DEF B!ReceiveNothing, B!TypeOK, B!OwnName, B!EchoAtMostOnce, B!Pending, B!IpAccepted
  <2>3. CASE B!HandleArp
    <3>1. buff \in B!ArpFrame
      BY <2>3 DEF B!HandleArp, B!ArpAccepted, B!TypeOK, B!Frame, B!ArpFrame, B!IpFrame, B!OtherFrame
    <3>2. buff' \in B!ArpFrame /\ B!Named(buff')
      BY <2>3, <3>1, ArpAnswer DEF B!HandleArp
    <3>3. ~B!Pending(buff)'
      BY <3>2 DEF B!Pending, B!IpAccepted, B!ArpFrame
    <3>4. QED
      BY <2>3, <3>2, <3>3 DEF B!HandleArp, B!TypeOK, B!OwnName, B!EchoAtMostOnce, B!Named, B!Frame, B!Parts
  <2>4. CASE B!HandleIp
    <3>1. buff \in B!IpFrame
      BY <2>4 DEF B!HandleIp, B!IpAccepted, B!TypeOK, B!Frame, B!ArpFrame, B!IpFrame, B!OtherFrame
    <3>2. CASE buff.op = "request"
      <4>1. B!PrepareIcmp(buff) \in B!IpFrame /\ B!PrepareIcmp(buff).from = buff.from
            /\ B!PrepareIcmp(buff).op = "reply"
        BY <3>1, IcmpAnswer DEF B!TypeOK
      <4>2. buff' \in B!IpFrame /\ B!Named(buff') /\ buff'.to = buff.from /\ buff'.op = "reply"
        BY <2>4, <3>2, <4>1, IpAnswer DEF B!HandleIp
      <4>3. ~B!Pending(buff)'
        BY <4>2 DEF B!Pending, B!IpAccepted
      <4>4. buff'.to \in Peers => answered[buff'.to] < asked[buff'.to]
        BY <2>4, <3>2, <4>2 DEF B!HandleIp, B!Pending
      <4>5. QED
        BY <2>4, <3>2, <4>2, <4>3, <4>4
        DEF B!HandleIp, B!TypeOK, B!OwnName, B!EchoAtMostOnce, B!Named, B!Frame, B!Parts
    <3>3. CASE buff.op # "request"
      <4>1. buff' \in B!IpFrame /\ B!Named(buff') /\ buff'.op = buff.op
        BY <2>4, <3>1, <3>3, IpAnswer DEF B!HandleIp
      <4>2. ~B!Pending(buff)'
        BY <3>3, <4>1 DEF B!Pending
      <4>3. QED
        BY <2>4, <3>3, <4>1, <4>2
        DEF B!HandleIp, B!TypeOK, B!OwnName, B!EchoAtMostOnce, B!Named, B!Frame, B!Parts
    <3>4. QED
      BY <3>2, <3>3
  <2>5. CASE B!HandleNone
    BY <2>5 DEF B!HandleNone, B!TypeOK, B!OwnName, B!EchoAtMostOnce, B!Pending, B!IpAccepted
  <2>6. CASE B!Transmit
    <3> DEFINE full == ~(cnt # {} /\ Len(txq) < TxNum)
               t == [frame |-> buff, cnt |-> cnt]
               S == [frame : B!Frame, cnt : SUBSET B!Parts]
    <3>1. /\ txq' = IF full THEN txq ELSE Append(txq, t)
          /\ pc = "transmit" /\ pc' = "receive"
          /\ UNCHANGED <<rxq, buff, residue, sum, cnt, heard, asked, arrived>>
      BY <2>6 DEF B!Transmit
    <3>2. txq \in Seq(S) /\ Len(txq) <= TxNum /\ t \in S
      BY DEF B!TypeOK
    <3> HIDE DEF t, S
    <3>3. txq' \in Seq(S) /\ Len(txq') <= TxNum
      BY <3>1, <3>2
    <3>4. /\ answered' \in [Peers -> Nat] /\ B!EchoAtMostOnce'
      BY <2>6 DEF B!Transmit, B!TypeOK, B!EchoAtMostOnce
    <3>5. B!TypeOK'
      BY <3>1, <3>3, <3>4 DEF B!TypeOK, S
    <3>6. \A i \in 1 .. Len(txq') : \/ i \in 1 .. Len(txq) /\ txq'[i] = txq[i]
                                    \/ ~full /\ txq'[i] = t
      BY <3>1, <3>2
    <3>7. ~full => B!Named(t.frame)
      BY <3>1 DEF t
    <3>8. B!OwnName'
      BY <3>6, <3>7 DEF B!OwnName, B!Named
    <3>9. ~B!Pending(buff)'
      BY <3>1 DEF B!Pending, B!IpAccepted
    <3>10. QED
      BY <3>1, <3>4, <3>5, <3>8, <3>9
  <2>7. CASE B!WireSend
    <3>1. /\ txq # << >> /\ txq' = Tail(txq)
          /\ UNCHANGED <<rxq, arrived, B!mainVars>>
      BY <2>7 DEF B!WireSend
    <3>2. /\ txq' \in Seq([frame : B!Frame, cnt : SUBSET B!Parts])
          /\ Len(txq') = Len(txq) - 1
          /\ \A i \in 1 .. Len(txq') : i + 1 \in 1 .. Len(txq) /\ txq'[i] = txq[i + 1]
      BY <3>1 DEF B!TypeOK
    <3>3. B!TypeOK'
      BY <3>1, <3>2 DEF B!TypeOK, B!mainVars
    <3>4. B!OwnName'
      BY <3>2 DEF B!OwnName
    <3>5. QED
      BY <3>1, <3>3, <3>4 DEF B!mainVars, B!EchoAtMostOnce, B!Pending, B!IpAccepted
  <2>8. ASSUME NEW f \in Arrivals, B!Arrive(f) PROVE B!BrieipInv'
    <3>1. f \in B!Frame
      OBVIOUS
    <3>2. rxq' \in Seq(B!Frame) /\ Len(rxq') <= RxNum
      BY <2>8, <3>1 DEF B!Arrive, B!TypeOK
    <3>3. QED
      BY <2>8, <3>2 DEF B!Arrive, B!mainVars, B!TypeOK, B!OwnName, B!EchoAtMostOnce, B!Pending, B!IpAccepted
  <2>9. CASE UNCHANGED B!vars
    BY <2>9 DEF B!vars, B!mainVars, B!TypeOK, B!OwnName, B!EchoAtMostOnce, B!Pending, B!IpAccepted
  <2>10. QED
    BY <2>1, <2>2, <2>3, <2>4, <2>5, <2>6, <2>7, <2>8, <2>9 DEF B!Next, B!Process
<1>3. QED
  BY <1>1, <1>2, PTL DEF B!Spec

(* Whatever comes from the wire, every frame that leaves names this host   *)
(* as its sender, at every layer (prepare_mac_packet, prepare_arp_packet   *)
(* and prepare_ip_packet of brieip.c).                                     *)
THEOREM BrieipOwnName ==
  ASSUME B!BrieipAssumption
  PROVE  B!Spec => [](B!TypeOK /\ B!OwnName)
<1>1. B!BrieipInv => B!TypeOK /\ B!OwnName
  BY DEF B!BrieipInv
<1>2. QED
  BY <1>1, BrieipInvariant, PTL

(* brieip_process handles what the buffer holds at every poll, and yet     *)
(* never answers a ping twice.                                             *)
THEOREM BrieipEchoAtMostOnce ==
  ASSUME B!BrieipAssumption
  PROVE  B!Spec => []B!EchoAtMostOnce
<1>1. B!BrieipInv => B!EchoAtMostOnce
  BY DEF B!BrieipInv
<1>2. QED
  BY <1>1, BrieipInvariant, PTL

(* ... and the web example's driver.                                       *)

(* The handler and the main loop, which share the flags without a lock     *)
(* (eth_driver.c, WCHNET_ETHIsr and WCHNET_RecProcess), never forget that  *)
(* reception is off or that the controller waits, and MACCR keeps the mode *)
(* but for the overlap that the code allows.                               *)
THEOREM WchRxFlags == Rx!Spec => [](Rx!NeverDeaf /\ Rx!NeverHalted /\ Rx!ModeRight)
<1>1. Rx!Init => Rx!FlagsInv
  BY DEF Rx!Init, Rx!FlagsInv, Rx!Mode, Rx!NeverDeaf, Rx!NeverHalted, Rx!ModeRight
<1>2. Rx!FlagsInv /\ [Rx!Next]_(Rx!vars) => Rx!FlagsInv'
  <2> SUFFICES ASSUME Rx!FlagsInv, [Rx!Next]_(Rx!vars) PROVE Rx!FlagsInv'
    OBVIOUS
  <2> USE DEF Rx!FlagsInv, Rx!Mode, Rx!NeverDeaf, Rx!NeverHalted, Rx!ModeRight
  <2>1. CASE Rx!Frame
    BY <2>1 DEF Rx!Frame
  <2>2. CASE Rx!LinkUp
    BY <2>2 DEF Rx!LinkUp
  <2>3. CASE Rx!NetInput
    BY <2>3 DEF Rx!NetInput
  <2>4. CASE Rx!Isr
    BY <2>4 DEF Rx!Isr
  <2>5. CASE Rx!IsrClear
    BY <2>5 DEF Rx!IsrClear
  <2>6. CASE Rx!TestRBU
    BY <2>6 DEF Rx!TestRBU, Rx!Main
  <2>7. CASE Rx!SoftwareReset
    BY <2>7 DEF Rx!SoftwareReset, Rx!Main
  <2>8. CASE Rx!RxDescChainInit
    BY <2>8 DEF Rx!RxDescChainInit, Rx!Main
  <2>9. CASE Rx!ReadMode
    BY <2>9 DEF Rx!ReadMode, Rx!Main
  <2>10. CASE Rx!Start
    BY <2>10 DEF Rx!Start, Rx!Main
  <2>11. CASE Rx!TestStop
    BY <2>11 DEF Rx!TestStop, Rx!Main
  <2>12. CASE Rx!EnableRead
    BY <2>12 DEF Rx!EnableRead, Rx!Main
  <2>13. CASE Rx!EnableWrite
    BY <2>13 DEF Rx!EnableWrite, Rx!Main
  <2>14. CASE UNCHANGED Rx!vars
    BY <2>14 DEF Rx!vars
  <2>15. QED
    BY <2>1, <2>2, <2>3, <2>4, <2>5, <2>6, <2>7, <2>8, <2>9, <2>10, <2>11, <2>12,
       <2>13, <2>14 DEF Rx!Next, Rx!Handler, Rx!RecProcess
<1>3. Rx!FlagsInv => Rx!NeverDeaf /\ Rx!NeverHalted /\ Rx!ModeRight
  BY DEF Rx!FlagsInv
<1>4. QED
  BY <1>1, <1>2, <1>3, PTL DEF Rx!Spec

(* The handler (ETH_PHYLink) and the main loop share phyLinkReset and      *)
(* phyStatus without a lock (eth_driver.c); a clock that is off is never   *)
(* forgotten, and neither is a link that went down, but for the change the *)
(* clearing of the flag loses.                                             *)
THEOREM WchLinkHeld == Link!Spec => [](Link!ClockHeld /\ Link!LinkSeen)
<1>1. Link!Init => Link!PhyInv
  BY DEF Link!Init, Link!PhyInv, Link!ClockHeld, Link!LinkSeen
<1>2. Link!PhyInv /\ [Link!Next]_(Link!vars) => Link!PhyInv'
  <2> SUFFICES ASSUME Link!PhyInv, [Link!Next]_(Link!vars) PROVE Link!PhyInv'
    OBVIOUS
  <2> USE DEF Link!PhyInv, Link!ClockHeld, Link!LinkSeen, Link!phyVars, Link!searchVars, Link!upVars
  <2>1. CASE Link!TimeIsr
    BY <2>1 DEF Link!TimeIsr
  <2>2. CASE Link!LinkChange
    BY <2>2 DEF Link!LinkChange
  <2>3. CASE Link!RingEmpty
    BY <2>3 DEF Link!RingEmpty
  <2>4. CASE Link!PHYLink
    BY <2>4 DEF Link!PHYLink, Link!TakeLink, Link!ClockOff
  <2>5. CASE Link!ClearFlag
    BY <2>5 DEF Link!ClearFlag
  <2>6. CASE Link!EndReset
    BY <2>6 DEF Link!EndReset, Link!Main
  <2>7. CASE Link!ClockOn
    BY <2>7 DEF Link!ClockOn, Link!Main
  <2>8. CASE Link!PhyReset
    BY <2>8 DEF Link!PhyReset, Link!Main
  <2>9. CASE Link!ParamInit
    BY <2>9 DEF Link!ParamInit, Link!Main
  <2>10. CASE Link!LinkTask
    BY <2>10 DEF Link!LinkTask, Link!Main
  <2>11. CASE Link!CheckLink
    BY <2>11 DEF Link!CheckLink, Link!Main
  <2>12. CASE Link!PNProcess
    BY <2>12 DEF Link!PNProcess, Link!Main
  <2>13. CASE Link!ReInitMACReg
    BY <2>13 DEF Link!ReInitMACReg, Link!Main
  <2>14. CASE Link!Process
    BY <2>14 DEF Link!Process, Link!Main
  <2>15. CASE Link!GiveUp
    BY <2>15 DEF Link!GiveUp, Link!Main
  <2>16. CASE UNCHANGED Link!vars
    BY <2>16 DEF Link!vars
  <2>17. Link!LinkProcess => Link!Process \/ Link!GiveUp
    BY DEF Link!LinkProcess, Link!CrossOnce, Link!SetPolarity, Link!AwaitSuccess, Link!Crossed, Link!CrossAgain,
           Link!CountSilence, Link!ReversePolarity, Link!SearchAnew
  <2>18. QED
    BY <2>1, <2>2, <2>3, <2>4, <2>5, <2>6, <2>7, <2>8, <2>9, <2>10, <2>11, <2>12,
       <2>13, <2>14, <2>15, <2>16, <2>17 DEF Link!Next, Link!Handler, Link!Loop
<1>3. Link!PhyInv => Link!ClockHeld /\ Link!LinkSeen
  BY DEF Link!PhyInv
<1>4. QED
  BY <1>1, <1>2, <1>3, PTL DEF Link!Spec

-----------------------------------------------------------------------------
(* What is used of sequences and numbers.                                  *)

(* Of numbers there is a least one.                                        *)
LEMMA LeastOf ==
  ASSUME NEW T, T \subseteq Nat, T # {}
  PROVE  \E n \in T : \A m \in T : n <= m
<1> DEFINE R == OpToRel(<, Nat)
<1>1. IsWellFoundedOn(R, Nat)
  BY NatLessThanWellFounded
<1>2. \A x, y \in Nat : <<y, x>> \in R <=> y < x
  BY DEF OpToRel
<1> HIDE DEF R
<1>3. PICK x \in T : \A y \in T : ~ (<<y, x>> \in R)
  BY <1>1, WFMin
<1>4. \A y \in T : ~ (y < x)
  BY <1>2, <1>3
<1>5. QED
  BY <1>4

(* Sequences one behind the other.                                         *)
LEMMA Joined ==
  ASSUME NEW S, NEW s \in Seq(S), NEW t \in Seq(S)
  PROVE  /\ s \o t \in Seq(S) /\ Len(s \o t) = Len(s) + Len(t) /\ Len(s) \in Nat /\ Len(t) \in Nat
         /\ \A i \in 1 .. Len(s) : (s \o t)[i] = s[i]
         /\ \A i \in 1 .. Len(t) : (s \o t)[Len(s) + i] = t[i]
  OBVIOUS

(* A sequence of some is one of more.                                      *)
LEMMA SeqOfMore ==
  ASSUME NEW S, NEW T, S \subseteq T, NEW s \in Seq(S)
  PROVE  s \in Seq(T)
  OBVIOUS

(* A sequence as long as it is.                                            *)
LEMMA AllOf ==
  ASSUME NEW S, NEW s \in Seq(S)
  PROVE  SubSeq(s, 1, Len(s)) = s
  OBVIOUS

(* What is left of less than what it is divided by.                        *)
LEMMA SmallRest ==
  ASSUME NEW w \in Nat, NEW n \in Nat, n < w
  PROVE  n % w = n
  OBVIOUS

(* What is behind a place begins with what is next.                        *)
LEMMA RestOf ==
  ASSUME NEW S, NEW p \in Seq(S), NEW m \in 1 .. Len(p)
  PROVE  p[m] \in S /\ SubSeq(p, m, Len(p)) = <<p[m]>> \o SubSeq(p, m + 1, Len(p))
<1> DEFINE l == Len(p)
           a == SubSeq(p, m, l)
           b == SubSeq(p, m + 1, l)
           o == <<p[m]>>
<1>1. l \in Nat /\ m \in 1 .. l /\ \A n \in 1 .. l : p[n] \in S
  OBVIOUS
<1>2. /\ a \in Seq(S) /\ Len(a) = l - m + 1 /\ \A j \in 1 .. l - m + 1 : a[j] = p[(m - 1) + j]
      /\ b \in Seq(S) /\ Len(b) = l - m /\ \A j \in 1 .. l - m : b[j] = p[m + j]
  <2>1. a \in Seq(S)
    OBVIOUS
  <2>2. Len(a) = l - m + 1
    OBVIOUS
  <2>3. ASSUME NEW j \in 1 .. l - m + 1 PROVE a[j] = p[(m - 1) + j]
    OBVIOUS
  <2>4. b \in Seq(S) 
    OBVIOUS
  <2>5. Len(b) = l - m
    OBVIOUS
  <2>6. ASSUME NEW j \in 1 .. l - m PROVE b[j] = p[m + j]
    OBVIOUS
  <2> HIDE DEF a, b
  <2>7. QED
    BY <2>1, <2>2, <2>3, <2>4, <2>5, <2>6
<1>3. o \in Seq(S) /\ Len(o) = 1 /\ o[1] = p[m]
  BY <1>1
<1> HIDE DEF a, b, o, l
<1>4. /\ o \o b \in Seq(S) /\ Len(o \o b) = Len(o) + Len(b)
      /\ \A j \in 1 .. Len(o) : (o \o b)[j] = o[j]
      /\ \A j \in 1 .. Len(b) : (o \o b)[Len(o) + j] = b[j]
  <2>1. o \in Seq(S) /\ b \in Seq(S)
    BY <1>2, <1>3
  <2>2. QED
    BY ONLY <2>1, Joined
<1>5. ASSUME NEW j \in 1 .. l - m + 1 PROVE a[j] = (o \o b)[j]
  <2>1. CASE j = 1
    <3>1. (m - 1) + 1 = m /\ 1 \in 1 .. Len(o) /\ 1 \in 1 .. l - m + 1
      BY <1>1, <1>3
    <3>2. QED
      BY <1>2, <1>3, <1>4, <2>1, <3>1
  <2>2. CASE j # 1
    <3>1. j - 1 \in 1 .. l - m /\ 1 + (j - 1) = j /\ m + (j - 1) = (m - 1) + j
      BY <1>1, <2>2
    <3>2. (o \o b)[j] = b[j - 1]
      BY <1>2, <1>3, <1>4, <3>1
    <3>3. b[j - 1] = p[(m - 1) + j] /\ a[j] = p[(m - 1) + j]
      BY <1>2, <3>1
    <3>4. QED
      BY <3>2, <3>3
  <2>3. QED
    BY <2>1, <2>2
<1>6. Len(o \o b) = Len(a) /\ Len(a) = l - m + 1
  BY <1>1, <1>2, <1>3, <1>4
<1>7. a = o \o b
  <2> DEFINE c == o \o b
  <2>1. c \in Seq(S) /\ Len(c) = Len(a) /\ \A j \in 1 .. Len(a) : a[j] = c[j]
    BY <1>4, <1>5, <1>6
  <2> HIDE DEF c
  <2>2. a = c
    BY <1>2, <2>1
  <2>3. QED
    BY <2>2 DEF c
<1>8. QED
  BY <1>1, <1>7 DEF a, b, o, l

(* What was taken and what is left are what was to be sent.                *)
LEMMA SentWhole ==
  ASSUME NEW S, NEW s \in Seq(S), NEW d \in Seq(S), NEW n \in 0 .. Len(d)
  PROVE  /\ SubSeq(d, 1, n) \in Seq(S) /\ SubSeq(d, n + 1, Len(d)) \in Seq(S)
         /\ s \o SubSeq(d, 1, n) \in Seq(S)
         /\ (s \o SubSeq(d, 1, n)) \o SubSeq(d, n + 1, Len(d)) = s \o d
<1> DEFINE a == SubSeq(d, 1, n)
           b == SubSeq(d, n + 1, Len(d))
           c == s \o a
           l == c \o b
           r == s \o d
           k == Len(s)
           m == Len(d)
<1>1. /\ a \in Seq(S) /\ Len(a) = n /\ \A i \in 1 .. n : a[i] = d[i]
      /\ b \in Seq(S) /\ Len(b) = m - n /\ \A i \in 1 .. m - n : b[i] = d[n + i]
  OBVIOUS
<1>2. k \in Nat /\ m \in Nat /\ n \in Nat /\ n <= m
  OBVIOUS
<1> HIDE DEF a, b
<1>3. /\ c \in Seq(S) /\ Len(c) = k + n
      /\ \A i \in 1 .. k : c[i] = s[i]
      /\ \A i \in 1 .. n : c[k + i] = a[i]
  <2>1. Len(c) = Len(s) + Len(a)
    BY <1>1, Joined
  <2>2. c \in Seq(S) /\ \A i \in 1 .. Len(s) : c[i] = s[i]
    BY <1>1, Joined
  <2>3. \A i \in 1 .. Len(a) : c[Len(s) + i] = a[i]
    BY <1>1, Joined
  <2> HIDE DEF c
  <2>4. QED
    BY <1>1, <2>1, <2>2, <2>3
<1> HIDE DEF c
<1>4. /\ l \in Seq(S) /\ Len(l) = (k + n) + (m - n)
      /\ \A i \in 1 .. k + n : l[i] = c[i]
      /\ \A i \in 1 .. m - n : l[(k + n) + i] = b[i]
  <2>1. Len(l) = Len(c) + Len(b)
    BY <1>1, <1>3, Joined
  <2>2. l \in Seq(S) /\ \A i \in 1 .. Len(c) : l[i] = c[i]
    BY <1>1, <1>3, Joined
  <2>3. \A i \in 1 .. Len(b) : l[Len(c) + i] = b[i]
    BY <1>1, <1>3, Joined
  <2> HIDE DEF l
  <2>4. QED
    BY <1>1, <1>3, <2>1, <2>2, <2>3
<1>5. /\ r \in Seq(S) /\ Len(r) = k + m
      /\ \A i \in 1 .. k : r[i] = s[i]
      /\ \A i \in 1 .. m : r[k + i] = d[i]
  BY Joined
<1> HIDE DEF l, r, k, m
<1>6. ASSUME NEW i \in 1 .. k + m PROVE l[i] = r[i]
  <2>1. CASE i <= k
    <3>1. i \in 1 .. k /\ i \in 1 .. k + n
      BY <1>2, <2>1
    <3>2. QED
      BY <1>3, <1>4, <1>5, <3>1
  <2>2. CASE ~(i <= k) /\ i <= k + n
    <3>1. i - k \in 1 .. n /\ i - k \in 1 .. m /\ k + (i - k) = i /\ i \in 1 .. k + n
      BY <1>2, <2>2
    <3>2. l[i] = c[k + (i - k)] /\ c[k + (i - k)] = a[i - k] /\ a[i - k] = d[i - k]
      BY <1>1, <1>3, <1>4, <3>1
    <3>3. r[k + (i - k)] = d[i - k]
      BY <1>5, <3>1
    <3>4. QED
      BY <3>1, <3>2, <3>3
  <2>3. CASE ~(i <= k + n)
    <3> DEFINE j == i - (k + n)
    <3>1. j \in 1 .. m - n /\ n + j \in 1 .. m /\ (k + n) + j = i /\ k + (n + j) = i
      BY <1>2, <2>3
    <3> HIDE DEF j
    <3>2. l[(k + n) + j] = b[j] /\ b[j] = d[n + j] /\ r[k + (n + j)] = d[n + j]
      BY <1>1, <1>4, <1>5, <3>1
    <3>3. QED
      BY <3>1, <3>2
  <2>4. QED
    BY <2>1, <2>2, <2>3
<1>7. l = r
  <2>1. Len(l) = k + m
    BY <1>2, <1>4
  <2>2. l \in Seq(S) /\ r \in Seq(S) /\ Len(l) = Len(r)
    BY <1>4, <1>5, <2>1
  <2>3. QED
    BY <1>5, <1>6, <2>2
<1>8. QED
  BY <1>1, <1>3, <1>7 DEF a, b, c, l, r, m

-----------------------------------------------------------------------------
(* brieip: its answers fit.                                                *)

(* What would be answered as it is in the buffer is what was heard, and    *)
(* comes from another host; its checksum cannot both be right and come out *)
(* right with a byte too many.                                             *)
FitInd ==
  /\ \A i \in 1 .. Len(rxq) : rxq[i].ether = "ip" => rxq[i].from # Me
  /\ heard.ether = "ip" => heard.from # Me
  /\ heard.ether = "ip" /\ heard.cs /\ residue => ~sum
  /\ B!IpAccepted(buff) => buff = heard
  /\ B!AnswerFits

(* It holds of every state of brieip.                                      *)
LEMMA BrieipFits ==
  ASSUME B!BrieipAssumption, OwnAddress
  PROVE  B!Spec => []B!AnswerFits
<1> USE DEF B!BrieipAssumption, OwnAddress
<1>1. B!Init => FitInd
  BY DEF B!Init, FitInd, B!Blank, B!IpAccepted, B!AnswerFits
<1>2. FitInd /\ B!BrieipInv /\ [B!Next]_(B!vars) => FitInd'
  <2> SUFFICES ASSUME FitInd, B!BrieipInv, [B!Next]_(B!vars) PROVE FitInd'
    OBVIOUS
  <2>1. CASE B!ReceiveFrame
    <3> DEFINE f == Head(rxq)
    <3>1. /\ rxq \in Seq(B!Frame) /\ rxq # << >> /\ rxq' = Tail(rxq)
          /\ buff' = f /\ heard' = f /\ pc' = "handle"
          /\ residue' \in IF f.ether = "ip" /\ f.odd THEN BOOLEAN ELSE {FALSE}
          /\ sum' \in IF f.ether # "ip" THEN {FALSE}
                      ELSE IF ~residue' THEN {f.cs}
                      ELSE IF f.cs THEN {FALSE} ELSE BOOLEAN
      BY <2>1 DEF B!ReceiveFrame, B!BrieipInv, B!TypeOK
    <3>2. /\ f = rxq[1] /\ 1 \in 1 .. Len(rxq)
          /\ \A i \in 1 .. Len(rxq') : i + 1 \in 1 .. Len(rxq) /\ rxq'[i] = rxq[i + 1]
      BY <3>1
    <3>3. \A i \in 1 .. Len(rxq') : rxq'[i].ether = "ip" => rxq'[i].from # Me
      BY <3>2 DEF FitInd
    <3>4. f.ether = "ip" => f.from # Me
      BY <3>2 DEF FitInd
    <3>5. f.ether = "ip" /\ f.cs /\ residue' => ~sum'
      BY <3>1
    <3>6. QED
      BY <3>1, <3>3, <3>4, <3>5 DEF FitInd, B!AnswerFits
  <2>2. CASE B!ReceiveNothing
    BY <2>2 DEF B!ReceiveNothing, FitInd, B!IpAccepted, B!AnswerFits
  <2>3. CASE B!HandleArp
    <3>1. buff \in B!ArpFrame
      BY <2>3 DEF B!HandleArp, B!ArpAccepted, B!BrieipInv, B!TypeOK, B!Frame, B!ArpFrame, B!IpFrame, B!OtherFrame
    <3>2. buff' \in B!ArpFrame
      BY <2>3, <3>1, ArpAnswer DEF B!HandleArp
    <3>3. ~B!IpAccepted(buff)'
      BY <3>2 DEF B!IpAccepted, B!ArpFrame
    <3>4. QED
      BY <2>3, <3>3 DEF B!HandleArp, FitInd, B!AnswerFits
  <2>4. CASE B!HandleIp
    <3>1. /\ buff \in B!IpFrame /\ buff = heard /\ heard.from # Me /\ buff.ether = "ip"
          /\ B!IpAccepted(buff)
      BY <2>4
         DEF B!HandleIp, B!IpAccepted, FitInd, B!BrieipInv, B!TypeOK, B!Frame, B!ArpFrame, B!IpFrame, B!OtherFrame
    <3>2. residue \in BOOLEAN /\ sum \in BOOLEAN
      BY DEF B!BrieipInv, B!TypeOK
    <3>3. /\ buff' \in B!IpFrame /\ buff'.dst = buff.src /\ buff'.to = buff.from /\ buff'.hcs
          /\ buff.op = "request" => buff'.cs = ~residue
          /\ buff.op # "request" => buff'.cs = buff.cs
      <4>1. ASSUME NEW f \in B!IpFrame
            PROVE  LET g == B!PrepareMac(B!PrepareIp(f))
                   IN  g \in B!IpFrame /\ g.dst = f.src /\ g.to = f.from /\ g.hcs = TRUE /\ g.cs = f.cs
        BY DEF B!PrepareMac, B!PrepareIp, B!IpFrame, B!Addr
      <4> DEFINE r == B!PrepareIcmp(buff)
      <4>2. r \in B!IpFrame /\ r.src = buff.src /\ r.from = buff.from /\ r.cs = ~residue
        BY <3>1, <3>2 DEF B!PrepareIcmp, B!IpFrame, B!Ops
      <4>3. buff' = IF buff.op = "request" THEN B!PrepareMac(B!PrepareIp(r)) ELSE B!PrepareMac(B!PrepareIp(buff))
        BY <2>4 DEF B!HandleIp
      <4> HIDE DEF r
      <4>4. QED
        BY <3>1, <4>1, <4>2, <4>3
    <3>4. heard.cs => buff'.cs
      BY <3>1, <3>2, <3>3 DEF FitInd, B!IpAccepted
    <3>5. ~B!IpAccepted(buff)'
      BY <3>1, <3>3 DEF B!IpAccepted
    <3>6. heard.ether = "ip" /\ heard.op # "reply" /\ heard.hcs
      BY <3>1 DEF B!IpAccepted
    <3>7. UNCHANGED <<rxq, residue, sum, heard>>
      BY <2>4 DEF B!HandleIp
    <3>8. B!AnswerFits'
      BY <3>1, <3>3, <3>4, <3>6, <3>7 DEF B!AnswerFits
    <3>9. QED
      BY <3>5, <3>7, <3>8 DEF FitInd
  <2>5. CASE B!HandleNone
    BY <2>5 DEF B!HandleNone, FitInd, B!IpAccepted, B!AnswerFits, B!BrieipInv
  <2>6. CASE B!Transmit
    BY <2>6 DEF B!Transmit, FitInd, B!IpAccepted, B!AnswerFits
  <2>7. CASE B!WireSend
    BY <2>7 DEF B!WireSend, B!mainVars, FitInd, B!IpAccepted, B!AnswerFits
  <2>8. ASSUME NEW f \in Arrivals, B!Arrive(f) PROVE FitInd'
    <3>1. rxq \in Seq(B!Frame) /\ f \in B!Frame
      BY DEF B!BrieipInv, B!TypeOK
    <3>2. \A i \in 1 .. Len(rxq') : rxq'[i].ether = "ip" => rxq'[i].from # Me
      <4>1. rxq' = rxq \/ rxq' = Append(rxq, f)
        BY <2>8 DEF B!Arrive
      <4>2. f.ether = "ip" => f.from # Me
        OBVIOUS
      <4>3. CASE rxq' = rxq
        BY <4>3 DEF FitInd
      <4>4. CASE rxq' = Append(rxq, f)
        <5>1. \A i \in 1 .. Len(rxq') : (i \in 1 .. Len(rxq) /\ rxq'[i] = rxq[i]) \/ rxq'[i] = f
          BY <3>1, <4>4
        <5>2. QED
          BY <4>2, <5>1 DEF FitInd
      <4>5. QED
        BY <4>1, <4>3, <4>4
    <3>3. UNCHANGED B!mainVars
      BY <2>8 DEF B!Arrive
    <3>4. QED
      BY <3>2, <3>3 DEF B!mainVars, FitInd, B!IpAccepted, B!AnswerFits
  <2>9. CASE UNCHANGED B!vars
    BY <2>9 DEF B!vars, B!mainVars, FitInd, B!IpAccepted, B!AnswerFits
  <2>10. QED
    BY <2>1, <2>2, <2>3, <2>4, <2>5, <2>6, <2>7, <2>8, <2>9 DEF B!Next, B!Process
<1>3. FitInd => B!AnswerFits
  BY DEF FitInd
<1>4. QED
  BY <1>1, <1>2, <1>3, BrieipInvariant, PTL DEF B!Spec

(* Every frame that brieip sends names its sender and fits what it         *)
(* answers, if nobody else sends with this host's address.                 *)
THEOREM BrieipRight == B!Spec => []B!Inv
<1>1. B!BrieipAssumption /\ OwnAddress
  BY ProgramsAssumption, OwnAddressAssumption
<1>2. B!Spec => []B!AnswerFits
  BY <1>1, BrieipFits
<1>3. B!Spec => [](B!TypeOK /\ B!OwnName)
  BY <1>1, BrieipOwnName
<1>4. B!Spec => []B!EchoAtMostOnce
  BY <1>1, BrieipEchoAtMostOnce
<1>5. B!TypeOK /\ B!OwnName /\ B!AnswerFits /\ B!EchoAtMostOnce => B!Inv
  BY DEF B!Inv
<1>6. QED
  BY <1>2, <1>3, <1>4, <1>5, PTL

-----------------------------------------------------------------------------
(* The ring of reception.                                                  *)

(* y places behind x in a ring of n.                                       *)
Place(n, x, y) == IF x + y < n THEN x + y ELSE (x + y) - n

(* How far it is round, without a remainder.                               *)
LEMMA PlaceIs ==
  ASSUME NEW n \in Nat \ {0}, NEW x \in 0 .. n - 1, NEW y \in 0 .. n
  PROVE  (x + y) % n = Place(n, x, y)
  BY DEF Place

(* The descriptors that are not the controller's are those from the        *)
(* library's to its own.                                                   *)
RingInd ==
  /\ own \subseteq 0 .. RxDescs - 1
  /\ dma \in 0 .. RxDescs - 1 /\ pDMARxSet \in 0 .. RxDescs - 1
  /\ \E k \in 0 .. RxDescs :
       /\ Place(RxDescs, pDMARxSet, k) = dma
       /\ \A n \in 0 .. RxDescs - 1 : Place(RxDescs, pDMARxSet, n) \notin own <=> n < k

(* So what the library has not taken lies in order.                        *)
LEMMA RingSays == RingInd => Rx!RingRight
<1> SUFFICES ASSUME RingInd PROVE Rx!RingRight
  OBVIOUS
<1> DEFINE p == pDMARxSet
<1>1. RxDescs \in Nat \ {0}
  BY ProgramsAssumption DEF Rx!WchRxAssumption
<1>2. PICK k \in 0 .. RxDescs :
        /\ Place(RxDescs, p, k) = dma
        /\ \A n \in 0 .. RxDescs - 1 : Place(RxDescs, p, n) \notin own <=> n < k
  BY DEF RingInd
<1>3. p \in 0 .. RxDescs - 1
  BY DEF RingInd
<1> DEFINE g == [n \in 0 .. k - 1 |-> Place(RxDescs, p, n)]
           S == Rx!Ring \ own
<1> HIDE DEF p
<1>4. g \in [0 .. k - 1 -> S]
  BY <1>1, <1>2, <1>3 DEF Place, Rx!Ring
<1>5. ASSUME NEW m \in 0 .. k - 1, NEW n \in 0 .. k - 1, g[m] = g[n] PROVE m = n
  BY <1>1, <1>3, <1>5 DEF Place
<1>6. ASSUME NEW s \in S PROVE \E n \in 0 .. k - 1 : g[n] = s
  <2> DEFINE n == IF s >= p THEN s - p ELSE (s + RxDescs) - p
  <2>1. n \in 0 .. RxDescs - 1 /\ Place(RxDescs, p, n) = s
    BY <1>1, <1>3 DEF Place, Rx!Ring
  <2>2. n < k
    BY <1>2, <2>1
  <2>3. n \in 0 .. k - 1
    BY <2>1, <2>2
  <2>4. QED
    BY <2>1, <2>3
<1>7. IsFiniteSet(0 .. k - 1) /\ Cardinality(0 .. k - 1) = k
  <2>1. \A a, b \in Int : IsFiniteSet(a .. b) /\ Cardinality(a .. b) = IF a > b THEN 0 ELSE (b - a) + 1
    BY FS_Interval
  <2>2. k - 1 \in Int /\ 0 \in Int
    OBVIOUS
  <2>3. Cardinality(0 .. k - 1) = IF 0 > k - 1 THEN 0 ELSE ((k - 1) - 0) + 1
    BY <2>1, <2>2, Zenon
  <2>4. Cardinality(0 .. k - 1) = k
    BY <2>3
  <2>5. QED
    BY <2>1, <2>2, <2>4, Zenon
<1>8. g \in Bijection(0 .. k - 1, S)
  <2>1. g \in Injection(0 .. k - 1, S)
    BY <1>4, <1>5 DEF Injection, IsInjective
  <2>2. g \in Surjection(0 .. k - 1, S)
    BY <1>4, <1>6 DEF Surjection
  <2>3. QED
    BY <2>1, <2>2 DEF Bijection
<1>9. Cardinality(S) = k
  <2> DEFINE I == 0 .. k - 1
  <2>1. IsFiniteSet(I) /\ g \in Bijection(I, S) /\ Cardinality(I) = k
    BY <1>7, <1>8
  <2> HIDE DEF I, g, S
  <2>2. QED
    BY <2>1, FS_Bijection DEF ExistsBijection
<1>10. \A n \in 0 .. k - 1 : (p + n) % RxDescs \notin own
  <2> SUFFICES ASSUME NEW n \in 0 .. k - 1 PROVE (p + n) % RxDescs \notin own
    OBVIOUS
  <2>1. n \in 0 .. RxDescs - 1 /\ n \in 0 .. RxDescs /\ n < k
    BY <1>1
  <2>2. (p + n) % RxDescs = Place(RxDescs, p, n)
    BY <1>1, <1>3, <2>1, PlaceIs
  <2>3. QED
    BY <1>2, <2>1, <2>2
<1>11. (p + k) % RxDescs = dma
  BY <1>1, <1>2, <1>3, PlaceIs
<1>12. QED
  <2>1. Cardinality(Rx!Ring \ own) = k
    BY <1>9
  <2>2. /\ \A n \in 0 .. k - 1 : (pDMARxSet + n) % RxDescs \notin own
        /\ (pDMARxSet + k) % RxDescs = dma
    BY <1>10, <1>11 DEF p
  <2>3. \A T : Rx!Cardinality(T) = Cardinality(T)
    BY DEF Cardinality, Rx!Cardinality
  <2>4. QED
    BY <2>1, <2>2, <2>3, Zenon DEF Rx!RingRight

(* The ring of WCHNET_RecProcess and WCHNET_NetInput (eth_driver.c) keeps  *)
(* its order, for every number of descriptors.                             *)
LEMMA WchRxRing == Rx!Spec => []RingInd
<1>1. RxDescs \in Nat \ {0}
  BY ProgramsAssumption DEF Rx!WchRxAssumption
<1>2. Rx!Init => RingInd
  <2> SUFFICES ASSUME Rx!Init PROVE RingInd
    OBVIOUS
  <2>1. own = 0 .. RxDescs - 1 /\ dma = 0 /\ pDMARxSet = 0
    BY DEF Rx!Init, Rx!Ring
  <2>2. Place(RxDescs, 0, 0) = 0 /\ \A n \in 0 .. RxDescs - 1 : Place(RxDescs, 0, n) \in 0 .. RxDescs - 1
    BY <1>1 DEF Place
  <2>3. QED
    BY <1>1, <2>1, <2>2 DEF RingInd
<1>3. RingInd /\ [Rx!Next]_(Rx!vars) => RingInd'
  <2> SUFFICES ASSUME RingInd, [Rx!Next]_(Rx!vars) PROVE RingInd'
    OBVIOUS
  <2>1. PICK k \in 0 .. RxDescs :
          /\ Place(RxDescs, pDMARxSet, k) = dma
          /\ \A n \in 0 .. RxDescs - 1 : Place(RxDescs, pDMARxSet, n) \notin own <=> n < k
    BY DEF RingInd
  <2>2. /\ own \subseteq 0 .. RxDescs - 1
        /\ dma \in 0 .. RxDescs - 1 /\ pDMARxSet \in 0 .. RxDescs - 1
    BY DEF RingInd
  <2>3. ASSUME NEW x \in 0 .. RxDescs - 1
        PROVE  Rx!Next1(x) = Place(RxDescs, x, 1) /\ Place(RxDescs, x, 1) \in 0 .. RxDescs - 1
    <3>1. (x + 1) % RxDescs = Place(RxDescs, x, 1)
      BY <1>1, PlaceIs
    <3>2. Place(RxDescs, x, 1) \in 0 .. RxDescs - 1
      BY <1>1 DEF Place
    <3>3. QED
      BY <3>1, <3>2 DEF Rx!Next1
  <2>4. CASE UNCHANGED <<own, dma, pDMARxSet>>
    BY <2>4 DEF RingInd, Place
  <2>5. CASE Rx!Frame
    <3>1. CASE dma \in own
      <4>1. own' = own \ {dma} /\ dma' = Place(RxDescs, dma, 1) /\ pDMARxSet' = pDMARxSet
        BY <2>5, <2>3, <2>2, <3>1 DEF Rx!Frame
      <4>2. k # RxDescs
        <5>1. k = RxDescs => dma = Place(RxDescs, pDMARxSet, 0) /\ 0 < k
          BY <1>1, <2>1, <2>2 DEF Place
        <5>2. QED
          BY <1>1, <2>1, <3>1, <5>1
      <4>3. k + 1 \in 0 .. RxDescs /\ Place(RxDescs, pDMARxSet, k + 1) = Place(RxDescs, dma, 1)
        BY <1>1, <2>1, <2>2, <4>2 DEF Place
      <4>4. \A n \in 0 .. RxDescs - 1 : Place(RxDescs, pDMARxSet, n) = dma <=> n = k
        BY <1>1, <2>1, <2>2, <4>2 DEF Place
      <4>5. \A n \in 0 .. RxDescs - 1 : Place(RxDescs, pDMARxSet, n) \notin own \ {dma} <=> n < k + 1
        BY <2>1, <4>4
      <4>6. QED
        BY <2>3, <2>2, <4>1, <4>3, <4>5 DEF RingInd
    <3>2. CASE dma \notin own
      BY <2>4, <2>5, <3>2 DEF Rx!Frame
    <3>3. QED
      BY <3>1, <3>2
  <2>6. CASE Rx!NetInput
    <3>1. own' = own \cup {pDMARxSet} /\ dma' = dma /\ pDMARxSet' = Place(RxDescs, pDMARxSet, 1)
          /\ pDMARxSet \notin own
      BY <2>6, <2>3, <2>2 DEF Rx!NetInput
    <3>2. k # 0
      <4>1. pDMARxSet = Place(RxDescs, pDMARxSet, 0)
        BY <1>1, <2>2 DEF Place
      <4>2. QED
        BY <1>1, <2>1, <3>1, <4>1
    <3> DEFINE q == Place(RxDescs, pDMARxSet, 1)
    <3>3. k - 1 \in 0 .. RxDescs /\ Place(RxDescs, q, k - 1) = dma
      BY <1>1, <2>1, <2>2, <3>2 DEF Place
    <3>4. ASSUME NEW n \in 0 .. RxDescs - 1
          PROVE  Place(RxDescs, q, n) \notin own \cup {pDMARxSet} <=> n < k - 1
      <4>1. CASE n = RxDescs - 1
        <5>1. Place(RxDescs, q, n) = pDMARxSet
          BY <1>1, <2>2, <4>1 DEF Place
        <5>2. QED
          BY <1>1, <4>1, <5>1
      <4>2. CASE n # RxDescs - 1
        <5>1. /\ n + 1 \in 0 .. RxDescs - 1 /\ Place(RxDescs, q, n) = Place(RxDescs, pDMARxSet, n + 1)
              /\ Place(RxDescs, q, n) # pDMARxSet
          BY <1>1, <2>2, <4>2 DEF Place
        <5>2. QED
          BY <2>1, <5>1
      <4>3. QED
        BY <4>1, <4>2
    <3>5. QED
      BY <2>3, <2>2, <3>1, <3>3, <3>4 DEF RingInd
  <2>7. CASE Rx!RxDescChainInit
    <3>1. own' = 0 .. RxDescs - 1 /\ dma' = 0 /\ pDMARxSet' = 0
      BY <2>7 DEF Rx!RxDescChainInit, Rx!Ring
    <3>2. Place(RxDescs, 0, 0) = 0 /\ \A n \in 0 .. RxDescs - 1 : Place(RxDescs, 0, n) \in 0 .. RxDescs - 1
      BY <1>1 DEF Place
    <3>3. /\ 0 \in 0 .. RxDescs /\ 0 \in 0 .. RxDescs - 1
          /\ Place(RxDescs, pDMARxSet', 0) = dma'
          /\ \A n \in 0 .. RxDescs - 1 : Place(RxDescs, pDMARxSet', n) \notin own' <=> n < 0
      BY <1>1, <3>1, <3>2
    <3>4. \E m \in 0 .. RxDescs :
            /\ Place(RxDescs, pDMARxSet', m) = dma'
            /\ \A n \in 0 .. RxDescs - 1 : Place(RxDescs, pDMARxSet', n) \notin own' <=> n < m
      BY <3>3
    <3>5. QED
      BY <3>1, <3>3, <3>4 DEF RingInd
  <2>8. CASE Rx!LinkUp \/ Rx!Handler
    BY <2>4, <2>8 DEF Rx!LinkUp, Rx!Handler, Rx!Isr, Rx!IsrClear
  <2>9. CASE Rx!RecProcess /\ ~Rx!RxDescChainInit
    BY <2>4, <2>9
       DEF Rx!RecProcess, Rx!TestRBU, Rx!SoftwareReset, Rx!ReadMode, Rx!Start, Rx!TestStop,
           Rx!EnableRead, Rx!EnableWrite
  <2>10. CASE UNCHANGED Rx!vars
    BY <2>4, <2>10 DEF Rx!vars
  <2>11. QED
    BY <2>5, <2>6, <2>7, <2>8, <2>9, <2>10 DEF Rx!Next
<1>4. QED
  BY <1>2, <1>3, PTL DEF Rx!Spec

(* Reception never forgets that it is off, and the ring of descriptors     *)
(* keeps its order, for every number of them.                              *)
THEOREM WchRxRight == Rx!Spec => []Rx!RxInv
<1>1. Rx!NeverDeaf /\ Rx!NeverHalted /\ Rx!ModeRight /\ RingInd => Rx!RxInv
  BY RingSays DEF Rx!RxInv
<1>2. QED
  BY <1>1, WchRxFlags, WchRxRing, PTL

-----------------------------------------------------------------------------
(* The search for a link.                                                  *)

(* The search, with the types it needs.                                    *)
LinkSearch ==
  /\ phyLinkStatus \in {"init", "wait"} /\ phyPN \in {"auto", "P", "N"}
  /\ phyLinkCnt \in Nat /\ TRDetectStep \in 0 .. 2 /\ TRDetectCnt \in Nat
  /\ Link!SearchRight

(* The search for a link (eth_driver.c, WCHNET_LinkProcess) keeps its      *)
(* order, and no count runs past the value that it is compared with, for   *)
(* every number of tries.                                                  *)
LEMMA WchLinkSearch == Link!Spec => []Link!SearchRight
<1> USE DEF LinkSearch, Link!SearchRight
<1>1. /\ WaitTries \in Nat /\ PTries \in Nat /\ LongTries \in Nat
      /\ TRTries \in Nat /\ TRTries > 1 /\ Byte \in Nat \ {0}
  BY ProgramsAssumption DEF Link!WchLinkAssumption
<1>2. Link!Init => LinkSearch
  BY <1>1 DEF Link!Init, Link!Limit
<1>3. LinkSearch /\ [Link!Next]_(Link!vars) => LinkSearch'
  <2> SUFFICES ASSUME LinkSearch, [Link!Next]_(Link!vars) PROVE LinkSearch'
    OBVIOUS
  <2>1. /\ Link!Limit \in Nat
        /\ phyPN' \in {"auto", "P", "N"} => Link!Limit' \in Nat
    BY <1>1 DEF Link!Limit
  <2>2. CASE /\ UNCHANGED Link!searchVars
             /\ linkPc' \in {"reset", "params"} \/ linkPc \notin {"reset", "params"}
    <3>1. UNCHANGED <<phyLinkStatus, phyPN, phyLinkCnt, TRDetectStep, TRDetectCnt>>
      BY <2>2 DEF Link!searchVars
    <3>2. UNCHANGED Link!Limit
      BY <3>1 DEF Link!Limit
    <3>3. QED
      BY <2>2, <3>1, <3>2
  <2>3. CASE Link!TimeIsr \/ Link!LinkChange \/ Link!RingEmpty \/ Link!Handler
    BY <2>2, <2>3
       DEF Link!TimeIsr, Link!LinkChange, Link!RingEmpty, Link!Handler, Link!PHYLink,
           Link!ClearFlag
  <2>4. CASE Link!EndReset \/ Link!ClockOn \/ Link!PhyReset \/ Link!LinkTask
    BY <2>2, <2>4 DEF Link!EndReset, Link!ClockOn, Link!PhyReset, Link!LinkTask, Link!Main
  <2>5. CASE Link!CheckLink \/ Link!PNProcess \/ Link!ReInitMACReg
    BY <2>2, <2>5 DEF Link!CheckLink, Link!PNProcess, Link!ReInitMACReg, Link!Main
  <2>6. CASE Link!ParamInit
    BY <2>1, <2>6 DEF Link!ParamInit
  <2>7. CASE Link!CrossOnce
    <3>1. linkPc = "process" /\ UNCHANGED Link!Limit
      BY <2>7 DEF Link!CrossOnce, Link!Process, Link!Main, Link!Limit
    <3>2. QED
      BY <1>1, <2>7, <3>1 DEF Link!CrossOnce
  <2>8. CASE Link!SetPolarity
    BY <2>1, <2>8 DEF Link!SetPolarity, Link!Crossed
  <2>9. ASSUME NEW complete \in BOOLEAN, Link!AwaitSuccess(complete) PROVE LinkSearch'
    BY <2>1, <2>9 DEF Link!AwaitSuccess, Link!Crossed
  <2>10. CASE Link!CrossAgain
    <3>1. linkPc = "process" /\ UNCHANGED Link!Limit
      BY <2>10 DEF Link!CrossAgain, Link!Process, Link!Main, Link!Limit
    <3>2. QED
      BY <1>1, <2>10, <3>1 DEF Link!CrossAgain
  <2>11. CASE Link!CountSilence
    <3>1. linkPc = "process" /\ UNCHANGED Link!Limit
      BY <2>11 DEF Link!CountSilence, Link!Process, Link!Main, Link!Limit
    <3>2. \A n \in Nat : n % Byte \in Nat /\ n % Byte <= n
      BY <1>1
    <3>3. phyLinkCnt' \in Nat /\ phyLinkCnt' <= phyLinkCnt + 1
      BY <2>11, <3>2 DEF Link!CountSilence
    <3>4. phyLinkCnt' <= Link!Limit'
      BY <2>1, <2>11, <3>1, <3>3 DEF Link!CountSilence
    <3>5. QED
      BY <2>11, <3>3, <3>4 DEF Link!CountSilence
  <2>12. CASE Link!ReversePolarity
    BY <2>1, <2>12 DEF Link!ReversePolarity
  <2>13. CASE Link!SearchAnew
    BY <2>1, <2>13 DEF Link!SearchAnew
  <2>14. CASE Link!GiveUp
    BY <2>1, <2>14 DEF Link!GiveUp, Link!Main
  <2>15. CASE UNCHANGED Link!vars
    <3>1. UNCHANGED <<linkPc, Link!searchVars>>
      BY <2>15 DEF Link!vars
    <3>2. QED
      BY <2>2, <3>1
  <2>16. QED
    BY <2>3, <2>4, <2>5, <2>6, <2>7, <2>8, <2>9, <2>10, <2>11, <2>12, <2>13, <2>14, <2>15
       DEF Link!Next, Link!Loop, Link!LinkProcess
<1>4. QED
  BY <1>2, <1>3, PTL DEF Link!Spec

(* The PHY's clock, the link and the search for it, for every wait, every  *)
(* number of tries and every width of the counts.                          *)
THEOREM WchLinkRight == Link!Spec => []Link!LinkInv
<1>1. Link!ClockHeld /\ Link!LinkSeen /\ Link!SearchRight => Link!LinkInv
  BY DEF Link!LinkInv
<1>2. QED
  BY <1>1, WchLinkHeld, WchLinkSearch, PTL

-----------------------------------------------------------------------------
(* The driver's set-up, and its ring for sending.                          *)

(* The steps behind that which writes a register, or turns the PHY over.   *)
Behind(r) ==
  CASE r = "MACCR" -> {"MACFFR", "MACFCR", "DMAOMR", "PHY", "MACA0", "MMC", "DMAIER", "rings", "irq"}
    [] r = "MACFFR" -> {"MACFCR", "DMAOMR", "PHY", "MACA0", "MMC", "DMAIER", "rings", "irq"}
    [] r = "MACFCR" -> {"DMAOMR", "PHY", "MACA0", "MMC", "DMAIER", "rings", "irq"}
    [] r = "DMAOMR" -> {"PHY", "MACA0", "MMC", "DMAIER", "rings", "irq"}
    [] r = "PHY" -> {"MACA0", "MMC", "DMAIER", "rings", "irq"}
    [] r = "MACA0" -> {"MMC", "DMAIER", "rings", "irq"}
    [] r = "MMC" -> {"DMAIER", "rings", "irq"}
    [] r = "DMAIER" -> {"rings", "irq"}
    [] r = "DMATDLAR" -> {"irq"}

Passed(r) == starting \in Behind(r) \/ enabled

(* The registers, until the handler may run and from then on.              *)
RegsInd ==
  /\ starting \in {"lib", "clocks", "deinit", "reset", "wait", "MACCR", "loop"} \cup Behind("MACCR")
  /\ regs \in [Setup!Registers -> {"reset", "own", "left", "mixed"}]
  /\ resetting \in BOOLEAN /\ late \in BOOLEAN /\ enabled \in BOOLEAN /\ running \in BOOLEAN
  /\ linkFlag \in BOOLEAN
  /\ enabled => starting = "loop"
  /\ resetting => late \/ starting = "wait"
  /\ late => starting = "MACCR" \/ Passed("MACCR")
  /\ starting \in {"reset", "wait", "MACCR"} \/ Passed("MACCR")
       => \A r \in Setup!Registers : regs[r] \in {"reset", "own"}
  /\ ~late => \A r \in Setup!Registers : Passed(r) => regs[r] = "own"
  /\ Passed("DMATDLAR") /\ regs["DMAIER"] # "reset" => regs["DMATDLAR"] = "own"
  /\ running => enabled /\ regs["DMATDLAR"] = "own"
  /\ ~late /\ Passed("PHY") /\ phy = "linked" => linkFlag \/ running

(* So the set-up is right.                                                 *)
LEMMA RegsSay == RegsInd => Setup!SetRight /\ Setup!LinkNoticed /\ Setup!OwnRing
  BY DEF RegsInd, Passed, Behind, Setup!Registers, Setup!SetRight, Setup!LinkNoticed, Setup!OwnRing

(* It holds of every state.                                                *)
LEMMA SetupRegs == Setup!Spec => []RegsInd
<1>1. Setup!Init => RegsInd
  BY DEF Setup!Init, RegsInd, Passed, Behind, Setup!Registers
<1>2. RegsInd /\ [Setup!Next]_(Setup!vars) => RegsInd'
  <2> SUFFICES ASSUME RegsInd, [Setup!Next]_(Setup!vars) PROVE RegsInd'
    OBVIOUS
  <2>1. CASE Setup!LibInit
    BY <2>1 DEF RegsInd, Passed, Behind, Setup!Registers, Setup!Goto,
       Setup!LibInit
  <2>2. CASE Setup!EnablePhy
    BY <2>2 DEF RegsInd, Passed, Behind, Setup!Registers, Setup!Goto,
       Setup!EnablePhy
  <2>3. CASE Setup!DeInit
    BY <2>3 DEF RegsInd, Passed, Behind, Setup!Registers, Setup!Goto,
       Setup!DeInit
  <2>4. CASE Setup!SoftwareReset
    BY <2>4 DEF RegsInd, Passed, Behind, Setup!Registers, Setup!Goto,
       Setup!SoftwareReset
  <2>5. CASE Setup!Wait
    BY <2>5 DEF RegsInd, Passed, Behind, Setup!Registers, Setup!Goto,
       Setup!Wait, Setup!RegOrder
  <2>6. ASSUME NEW r \in Setup!Registers, Setup!RegInit(r) PROVE RegsInd'
    <3>1. /\ r # "DMATDLAR"
          /\ starting = r /\ starting' = Setup!Following(r)
      BY <2>6 DEF RegsInd, Passed, Behind, Setup!Registers, Setup!Goto,
       Setup!RegInit
    <3>2. Setup!Following(r) =
            CASE r = "MACCR" -> "MACFFR" [] r = "MACFFR" -> "MACFCR" [] r = "MACFCR" -> "DMAOMR"
              [] r = "DMAOMR" -> "PHY" [] r = "MACA0" -> "MMC" [] r = "MMC" -> "DMAIER"
              [] r = "DMAIER" -> "rings"
      BY <3>1 DEF Setup!Following, Setup!RegOrder, Setup!Registers
    <3>3. Setup!Written(r) = "own"
      BY <2>6, <3>1 DEF RegsInd, Passed, Behind, Setup!Registers, Setup!Written
    <3>4. QED
      BY <2>6, <3>1, <3>2, <3>3
         DEF RegsInd, Passed, Behind, Setup!Registers, Setup!Goto,
             Setup!RegInit
  <2>7. CASE Setup!ResetPhy
    BY <2>7 DEF RegsInd, Passed, Behind, Setup!Registers, Setup!Goto,
       Setup!ResetPhy
  <2>8. CASE Setup!ChainInit
    BY <2>8 DEF RegsInd, Passed, Behind, Setup!Registers, Setup!Goto,
       Setup!ChainInit
  <2>9. CASE Setup!EnableIRQ
    BY <2>9 DEF RegsInd, Passed, Behind, Setup!Registers, Setup!Goto,
       Setup!EnableIRQ, Setup!ringVars
  <2>10. CASE Setup!Isr
    BY <2>10 DEF RegsInd, Passed, Behind, Setup!Registers, Setup!Goto,
       Setup!Isr
  <2>11. CASE Setup!RestartPhy
    BY <2>11 DEF RegsInd, Passed, Behind, Setup!Registers, Setup!Goto,
       Setup!RestartPhy
  <2>12. CASE Setup!TxPktChainMode
    <3>1. UNCHANGED <<starting, regs, resetting, phy, linkFlag, running, enabled, late>>
      BY <2>12 DEF Setup!TxPktChainMode, Setup!SendFill, Setup!SendOwn, Setup!SendPoll
    <3>2. QED
      BY <3>1 DEF RegsInd, Passed, Behind, Setup!Registers
  <2>13. CASE Setup!ResetEnds
    BY <2>13 DEF RegsInd, Passed, Behind, Setup!Registers, Setup!Goto,
       Setup!ResetEnds
  <2>14. CASE Setup!LinkChange
    BY <2>14, ZenonT(40) DEF RegsInd, Passed, Behind, Setup!Registers, Setup!Goto,
       Setup!LinkChange
  <2>15. CASE Setup!Transmit
    BY <2>15 DEF RegsInd, Passed, Behind, Setup!Registers, Setup!Goto,
       Setup!Transmit
  <2>16. CASE UNCHANGED Setup!vars
    BY <2>16 DEF RegsInd, Passed, Behind, Setup!Registers, Setup!Goto,
       Setup!vars
  <2>17. QED
    BY <2>1, <2>2, <2>3, <2>4, <2>5, <2>6, <2>7, <2>8, <2>9, <2>10, <2>11, <2>12, <2>13, <2>14,
       <2>15, <2>16 DEF Setup!Next, Setup!Main
<1>3. QED
  BY <1>1, <1>2, PTL DEF Setup!Spec

(* The frames that were handed to the controller.                          *)
Given == IF sendPc = "filled" THEN Len(accepted) - 1 ELSE Len(accepted)

(* The driver's ring for sending, and the frames.                          *)
TxTypes ==
  /\ sendPc \in {"no", "filled", "owned"}
  /\ accepted \in Seq(0 .. TxNames - 1) /\ Len(accepted) <= TxDescs
  /\ count \in 0 .. TxNames - 1 /\ sent \in 0 .. TxNames
  /\ txOwn \in [0 .. TxDescs - 1 -> BOOLEAN] /\ frame \in [0 .. TxDescs - 1 -> 0 .. TxNames - 1]
  /\ txDma \in 0 .. TxDescs - 1 /\ DMATxDescToSet \in 0 .. TxDescs - 1

(* The descriptors in the hands of the controller are those from its own   *)
(* on, and the frames in them those accepted, in their order; and the      *)
(* numbers of the frames follow one another.                               *)
TxInd ==
  /\ TxTypes
  /\ ~enabled => sendPc = "no" /\ accepted = <<>> /\ txDma = 0 /\ DMATxDescToSet = 0
  /\ sendPc = "filled" => Len(accepted) > 0 /\ frame[DMATxDescToSet] = accepted[Len(accepted)]
  /\ Place(TxDescs, txDma, Given)
       = IF sendPc = "owned" THEN Place(TxDescs, DMATxDescToSet, 1) ELSE DMATxDescToSet
  /\ \A i \in 0 .. TxDescs - 1 : txOwn[Place(TxDescs, txDma, i)] <=> i < Given
  /\ \A i \in 0 .. TxDescs - 1 : i < Given => frame[Place(TxDescs, txDma, i)] = accepted[i + 1]
  /\ suspended = TRUE => Given = 0 \/ sendPc = "owned"
  /\ \A n \in 1 .. Len(accepted) : Place(TxNames, accepted[n], (Len(accepted) - n) + 1) = count
  /\ sent = TxNames \/ Place(TxNames, sent, Len(accepted) + 1) = count

(* A place further is the next one's, and different places differ.         *)
LEMMA PlaceNext ==
  ASSUME NEW n \in Nat \ {0}, NEW x \in 0 .. n - 1
  PROVE  /\ Place(n, x, 0) = x /\ Place(n, x, n) = x
         /\ \A y \in 0 .. n - 1 : Place(n, x, y) \in 0 .. n - 1
         /\ \A y \in 0 .. n - 1 : Place(n, x, y + 1) = Place(n, Place(n, x, y), 1)
         /\ \A y \in 0 .. n - 1 : Place(n, x, y + 1) = Place(n, Place(n, x, 1), y)
         /\ \A y, z \in 0 .. n - 1 : Place(n, x, y) = Place(n, x, z) => y = z
  BY DEF Place

(* So the frames go out in order and once.                                 *)
LEMMA TxSays == TxInd => Setup!FramesRight
<1> SUFFICES ASSUME TxInd PROVE Setup!FramesRight
  OBVIOUS
<1>1. TxDescs \in Nat \ {0} /\ TxNames \in Nat /\ TxNames > TxDescs
  BY ProgramsAssumption DEF Setup!WchSetupAssumption
<1> DEFINE l == Len(accepted)
           g == Given
<1>2. l \in 0 .. TxDescs /\ g \in 0 .. TxDescs /\ g <= l
  BY <1>1 DEF TxInd, TxTypes, Given
<1>3. \A x \in 0 .. TxDescs - 1, y \in 0 .. TxDescs : (x + y) % TxDescs = Place(TxDescs, x, y)
  BY <1>1, PlaceIs
<1>4. \A x \in 0 .. TxNames - 1, y \in 0 .. TxNames : (x + y) % TxNames = Place(TxNames, x, y)
  BY <1>1, PlaceIs
<1>5. /\ txDma \in 0 .. TxDescs - 1
      /\ \A i \in 0 .. TxDescs - 1 : txOwn[Place(TxDescs, txDma, i)] <=> i < g
      /\ \A i \in 0 .. TxDescs - 1 : i < g => frame[Place(TxDescs, txDma, i)] = accepted[i + 1]
      /\ suspended = TRUE => g = 0 \/ sendPc = "owned"
      /\ sent \in 0 .. TxNames /\ (sent = TxNames \/ Place(TxNames, sent, l + 1) = count)
  BY DEF TxInd, TxTypes
<1>6. g = IF sendPc = "filled" THEN l - 1 ELSE l
  BY DEF Given
<1> HIDE DEF l, g
<1>7. ASSUME NEW n \in 1 .. g
      PROVE  txOwn[((txDma + n) - 1) % TxDescs] /\ frame[((txDma + n) - 1) % TxDescs] = accepted[n]
  <2>1. (txDma + n) - 1 = txDma + (n - 1) /\ n - 1 \in 0 .. TxDescs - 1 /\ n - 1 \in 0 .. TxDescs
        /\ n - 1 < g /\ (n - 1) + 1 = n
    BY <1>1, <1>2, <1>5
  <2>2. ((txDma + n) - 1) % TxDescs = Place(TxDescs, txDma, n - 1)
    BY <1>3, <1>5, <2>1
  <2>3. QED
    BY <1>5, <2>1, <2>2
<1>8. ASSUME NEW n \in g .. TxDescs - 1 PROVE ~txOwn[(txDma + n) % TxDescs]
  <2>1. n \in 0 .. TxDescs - 1 /\ n \in 0 .. TxDescs /\ ~(n < g)
    BY <1>1, <1>2
  <2>2. QED
    BY <1>3, <1>5, <2>1
<1>9. sent = TxNames \/ ((sent + 1) + l) % TxNames = count
  <2>1. CASE sent # TxNames
    <3>1. sent \in 0 .. TxNames - 1 /\ l + 1 \in 0 .. TxNames /\ (sent + 1) + l = sent + (l + 1)
      BY <1>1, <1>2, <1>5, <2>1
    <3>2. QED
      BY <1>4, <1>5, <2>1, <3>1
  <2>2. QED
    BY <2>1
<1>10. QED
  BY <1>2, <1>5, <1>6, <1>7, <1>8, <1>9 DEF l, Setup!FramesRight

(* It holds of every state of the ring.                                    *)
LEMMA SetupTx == Setup!Spec => []TxInd
<1>1. TxDescs \in Nat \ {0} /\ TxNames \in Nat /\ TxNames > TxDescs
  BY ProgramsAssumption DEF Setup!WchSetupAssumption
<1>2. Setup!Init => TxInd
  BY <1>1 DEF Setup!Init, TxInd, TxTypes, Given, Place, Setup!Ring
<1>3. TxInd /\ RegsInd /\ [Setup!Next]_(Setup!vars) => TxInd'
  <2> SUFFICES ASSUME TxInd, RegsInd, [Setup!Next]_(Setup!vars) PROVE TxInd'
    OBVIOUS
  <2>1. \A x \in 0 .. TxDescs - 1 : Setup!NextIn(x) = Place(TxDescs, x, 1) /\ Place(TxDescs, x, 1) \in 0 .. TxDescs - 1
    <3> SUFFICES ASSUME NEW x \in 0 .. TxDescs - 1
                 PROVE  Setup!NextIn(x) = Place(TxDescs, x, 1) /\ Place(TxDescs, x, 1) \in 0 .. TxDescs - 1
      OBVIOUS
    <3>1. (x + 1) % TxDescs = Place(TxDescs, x, 1)
      BY <1>1, PlaceIs
    <3>2. QED
      BY <1>1, <3>1 DEF Setup!NextIn, Place
  <2>2. CASE UNCHANGED <<Setup!ringVars, suspended>> /\ enabled' \in {enabled, TRUE}
    BY <2>2 DEF TxInd, TxTypes, Given, Setup!ringVars
  <2>3. CASE Setup!LibInit \/ Setup!EnablePhy \/ Setup!DeInit \/ Setup!SoftwareReset \/ Setup!Wait
             \/ Setup!ResetPhy \/ Setup!EnableIRQ \/ (\E r \in Setup!Registers : Setup!RegInit(r))
    <3>1. UNCHANGED <<Setup!ringVars, suspended>> /\ enabled' \in {enabled, TRUE}
      BY <2>3 DEF Setup!LibInit, Setup!EnablePhy, Setup!DeInit, Setup!SoftwareReset, Setup!Wait,
                  Setup!ResetPhy, Setup!EnableIRQ, Setup!RegInit
    <3>2. QED
      BY <2>2, <3>1
  <2>4. CASE Setup!RestartPhy \/ Setup!ResetEnds \/ Setup!LinkChange
    <3>1. UNCHANGED <<Setup!ringVars, suspended, enabled>>
      BY <2>4 DEF Setup!RestartPhy, Setup!ResetEnds, Setup!LinkChange
    <3>2. QED
      BY <2>2, <3>1
  <2>5. CASE Setup!ChainInit
    <3>1. ~enabled
      BY <2>5 DEF Setup!ChainInit, Setup!Goto, RegsInd
    <3>2. QED
      BY <1>1, <2>5, <3>1 DEF Setup!ChainInit, TxInd, TxTypes, Given, Place, Setup!Ring
  <2>6. CASE Setup!Isr
    <3>1. UNCHANGED <<Setup!ringVars, enabled>> /\ suspended' \in {suspended, FALSE}
      BY <2>6 DEF Setup!Isr
    <3>2. QED
      BY <3>1 DEF TxInd, TxTypes, Given, Setup!ringVars
  <2> DEFINE l == Len(accepted)
             g == Given
  <2>7. /\ TxDescs \in Nat \ {0} /\ TxNames \in Nat /\ TxNames > TxDescs
        /\ l \in 0 .. TxDescs /\ g \in 0 .. TxDescs /\ g = IF sendPc = "filled" THEN l - 1 ELSE l
        /\ sendPc \in {"no", "filled", "owned"}
        /\ accepted \in Seq(0 .. TxNames - 1) /\ count \in 0 .. TxNames - 1 /\ sent \in 0 .. TxNames
        /\ txOwn \in [0 .. TxDescs - 1 -> BOOLEAN] /\ frame \in [0 .. TxDescs - 1 -> 0 .. TxNames - 1]
        /\ txDma \in 0 .. TxDescs - 1 /\ DMATxDescToSet \in 0 .. TxDescs - 1
    BY <1>1 DEF TxInd, TxTypes, Given
  <2>8. /\ ~enabled => sendPc = "no" /\ accepted = <<>> /\ txDma = 0 /\ DMATxDescToSet = 0
        /\ sendPc = "filled" => l > 0 /\ frame[DMATxDescToSet] = accepted[l]
        /\ Place(TxDescs, txDma, g)
             = IF sendPc = "owned" THEN Place(TxDescs, DMATxDescToSet, 1) ELSE DMATxDescToSet
    BY DEF TxInd
  <2>9. /\ \A i \in 0 .. TxDescs - 1 : txOwn[Place(TxDescs, txDma, i)] <=> i < g
        /\ \A i \in 0 .. TxDescs - 1 : i < g => frame[Place(TxDescs, txDma, i)] = accepted[i + 1]
        /\ suspended = TRUE => g = 0 \/ sendPc = "owned"
    BY DEF TxInd
  <2>10. /\ \A n \in 1 .. l : Place(TxNames, accepted[n], (l - n) + 1) = count
         /\ sent = TxNames \/ Place(TxNames, sent, l + 1) = count
    BY DEF TxInd
  <2>11. /\ Place(TxDescs, txDma, 0) = txDma /\ Place(TxDescs, txDma, TxDescs) = txDma
         /\ \A y \in 0 .. TxDescs - 1 : Place(TxDescs, txDma, y) \in 0 .. TxDescs - 1
         /\ \A y \in 0 .. TxDescs - 1 : Place(TxDescs, txDma, y + 1) = Place(TxDescs, Place(TxDescs, txDma, y), 1)
         /\ \A y \in 0 .. TxDescs - 1 : Place(TxDescs, txDma, y + 1) = Place(TxDescs, Place(TxDescs, txDma, 1), y)
         /\ \A y, z \in 0 .. TxDescs - 1 : Place(TxDescs, txDma, y) = Place(TxDescs, txDma, z) => y = z
    BY <2>7 DEF Place
  <2> HIDE DEF l, g
  <2>12. CASE Setup!SendFill
    <3>1. /\ sendPc = "no" /\ sendPc' = "filled" /\ enabled /\ ~txOwn[DMATxDescToSet]
          /\ frame' = [frame EXCEPT ![DMATxDescToSet] = count]
          /\ count' = (count + 1) % TxNames /\ accepted' = Append(accepted, count)
          /\ UNCHANGED <<suspended, enabled, txOwn, DMATxDescToSet, txDma, sent>>
      BY <2>12 DEF Setup!SendFill
    <3>2. l < TxDescs /\ g = l /\ Place(TxDescs, txDma, l) = DMATxDescToSet
      <4>1. l = TxDescs => txOwn[txDma] /\ txDma = DMATxDescToSet
        BY <1>1, <2>7, <2>8, <2>9, <2>11, <3>1
      <4>2. QED
        BY <2>7, <2>8, <3>1, <4>1
    <3>3. /\ accepted' \in Seq(0 .. TxNames - 1) /\ Len(accepted') = l + 1
          /\ \A n \in 1 .. l : accepted'[n] = accepted[n]
          /\ accepted'[l + 1] = count
      BY <2>7, <3>1 DEF l
    <3>4. Given' = l
      BY <2>7, <3>1, <3>3 DEF Given
    <3>5. (count + 1) % TxNames = Place(TxNames, count, 1) /\ Place(TxNames, count, 1) \in 0 .. TxNames - 1
      <4>1. (count + 1) % TxNames = Place(TxNames, count, 1)
        BY <1>1, <2>7, PlaceIs
      <4>2. QED
        BY <1>1, <2>7, <4>1 DEF Place
    <3>6. TxTypes'
      BY <1>1, <2>7, <3>1, <3>2, <3>3, <3>5 DEF TxTypes
    <3>7. \A i \in 0 .. TxDescs - 1 : i < l => frame'[Place(TxDescs, txDma, i)] = accepted'[i + 1]
      <4> SUFFICES ASSUME NEW i \in 0 .. TxDescs - 1, i < l
                   PROVE  frame'[Place(TxDescs, txDma, i)] = accepted'[i + 1]
        OBVIOUS
      <4>1. Place(TxDescs, txDma, i) # DMATxDescToSet /\ Place(TxDescs, txDma, i) \in 0 .. TxDescs - 1
        <5>1. l \in 0 .. TxDescs - 1 /\ i # l
          BY <2>7, <3>2
        <5>2. QED
          BY <2>11, <3>2, <5>1
      <4>2. frame'[Place(TxDescs, txDma, i)] = accepted[i + 1]
        BY <2>7, <2>9, <3>1, <3>2, <4>1
      <4>3. i + 1 \in 1 .. l
        BY <2>7
      <4>4. QED
        BY <3>3, <4>2, <4>3
    <3>8. \A n \in 1 .. l + 1 : Place(TxNames, accepted'[n], ((l + 1) - n) + 1) = count'
      <4> SUFFICES ASSUME NEW n \in 1 .. l + 1
                   PROVE  Place(TxNames, accepted'[n], ((l + 1) - n) + 1) = count'
        OBVIOUS
      <4>1. CASE n = l + 1
        BY <2>7, <3>1, <3>3, <3>5, <4>1
      <4>2. CASE n # l + 1
        <5>1. n \in 1 .. l /\ accepted'[n] = accepted[n] /\ accepted[n] \in 0 .. TxNames - 1
          <6>1. n \in 1 .. l
            BY <2>7, <4>2
          <6>2. accepted[n] \in 0 .. TxNames - 1
            BY <2>7, <6>1 DEF l
          <6>3. QED
            BY <3>3, <6>1, <6>2
        <5>2. Place(TxNames, accepted[n], (l - n) + 1) = count
          BY <2>10, <5>1
        <5>3. (l - n) + 1 \in 0 .. TxNames - 1 /\ ((l + 1) - n) + 1 = ((l - n) + 1) + 1
          BY <2>7, <3>2, <5>1
        <5>4. \A x, y \in 0 .. TxNames - 1 : Place(TxNames, x, y + 1) = Place(TxNames, Place(TxNames, x, y), 1)
          BY <2>7 DEF Place
        <5>5. Place(TxNames, accepted[n], ((l - n) + 1) + 1) = Place(TxNames, count, 1)
          BY <5>1, <5>2, <5>3, <5>4
        <5>6. QED
          BY <3>1, <3>5, <5>1, <5>3, <5>5
      <4>3. QED
        BY <4>1, <4>2
    <3>9. sent' = TxNames \/ Place(TxNames, sent', (l + 1) + 1) = count'
      BY <1>1, <2>7, <2>10, <3>1, <3>2, <3>5 DEF Place
    <3>10. frame'[DMATxDescToSet] = count
      BY <2>7, <3>1
    <3>11. sendPc' = "filled" /\ enabled' /\ l + 1 > 0 /\ ~(suspended' = TRUE /\ l # 0)
           /\ Place(TxDescs, txDma', l) = DMATxDescToSet' /\ frame'[DMATxDescToSet'] = accepted'[l + 1]
           /\ \A i \in 0 .. TxDescs - 1 : txOwn'[Place(TxDescs, txDma', i)] <=> i < l
      BY <2>7, <2>9, <3>1, <3>2, <3>3, <3>10
    <3>12. QED
      BY <3>1, <3>3, <3>4, <3>6, <3>7, <3>8, <3>9, <3>11 DEF TxInd
  <2>13. CASE Setup!SendOwn
    <3>1. /\ sendPc = "filled" /\ sendPc' = "owned"
          /\ txOwn' = [txOwn EXCEPT ![DMATxDescToSet] = TRUE]
          /\ UNCHANGED <<suspended, enabled, frame, DMATxDescToSet, txDma, count, accepted, sent>>
      BY <2>13 DEF Setup!SendOwn
    <3>2. g = l - 1 /\ g \in 0 .. TxDescs - 1 /\ Place(TxDescs, txDma, g) = DMATxDescToSet
      BY <2>7, <2>8, <3>1
    <3>3. Given' = l
      BY <3>1 DEF Given, l
    <3>4. TxTypes'
      BY <2>7, <3>1, <1>1 DEF TxTypes, l
    <3>5. \A i \in 0 .. TxDescs - 1 : txOwn'[Place(TxDescs, txDma, i)] <=> i < l
      <4> SUFFICES ASSUME NEW i \in 0 .. TxDescs - 1
                   PROVE  txOwn'[Place(TxDescs, txDma, i)] <=> i < l
        OBVIOUS
      <4>1. Place(TxDescs, txDma, i) \in 0 .. TxDescs - 1
            /\ (Place(TxDescs, txDma, i) = DMATxDescToSet <=> i = g)
        BY <2>11, <3>2
      <4>2. CASE i = g
        BY <2>7, <3>1, <3>2, <4>1, <4>2
      <4>3. CASE i # g
        <5>1. txOwn'[Place(TxDescs, txDma, i)] = txOwn[Place(TxDescs, txDma, i)]
          BY <2>7, <3>1, <4>1, <4>3
        <5>2. i < l <=> i < g
          BY <2>7, <3>2, <4>3
        <5>3. QED
          BY <2>9, <5>1, <5>2
      <4>4. QED
        BY <4>2, <4>3
    <3>6. \A i \in 0 .. TxDescs - 1 : i < l => frame[Place(TxDescs, txDma, i)] = accepted[i + 1]
      <4> SUFFICES ASSUME NEW i \in 0 .. TxDescs - 1, i < l
                   PROVE  frame[Place(TxDescs, txDma, i)] = accepted[i + 1]
        OBVIOUS
      <4>1. CASE i = g
        BY <2>7, <2>8, <3>1, <3>2, <4>1
      <4>2. CASE i # g
        BY <2>7, <2>9, <3>2, <4>2
      <4>3. QED
        BY <4>1, <4>2
    <3>7. Place(TxDescs, txDma, l) = Place(TxDescs, DMATxDescToSet, 1)
      <4>1. l = g + 1
        BY <2>7, <3>2
      <4>2. QED
        BY <2>11, <3>2, <4>1
    <3>8. enabled
      BY <2>8, <3>1
    <3>9. QED
      BY <2>10, <3>1, <3>3, <3>4, <3>5, <3>6, <3>7, <3>8 DEF TxInd, l
  <2>14. CASE Setup!SendPoll
    <3>1. /\ sendPc = "owned" /\ sendPc' = "no" /\ suspended' = FALSE
          /\ DMATxDescToSet' = Place(TxDescs, DMATxDescToSet, 1) /\ DMATxDescToSet' \in 0 .. TxDescs - 1
          /\ UNCHANGED <<enabled, txOwn, frame, txDma, count, accepted, sent>>
      BY <2>14, <2>1, <2>7 DEF Setup!SendPoll
    <3>2. Given' = g /\ enabled
      BY <2>8, <3>1 DEF Given, g
    <3>3. TxTypes'
      BY <1>1, <2>7, <3>1 DEF TxTypes, l
    <3>4. QED
      BY <2>8, <2>9, <2>10, <3>1, <3>2, <3>3 DEF TxInd, l
  <2>15. CASE Setup!Transmit
    <3>1. /\ enabled /\ suspended # TRUE
          /\ UNCHANGED <<enabled, frame, DMATxDescToSet, sendPc, count>>
      BY <2>15 DEF Setup!Transmit, RegsInd
    <3>2. CASE txOwn[txDma]
      <4>1. /\ txOwn' = [txOwn EXCEPT ![txDma] = FALSE] /\ txDma' = Place(TxDescs, txDma, 1)
            /\ txDma' \in 0 .. TxDescs - 1 /\ sent' = frame[txDma]
            /\ accepted' = IF accepted # <<>> /\ Head(accepted) = frame[txDma] THEN Tail(accepted)
                           ELSE accepted
            /\ suspended' = suspended
        BY <2>15, <3>2, <2>1, <2>7 DEF Setup!Transmit
      <4>2. g > 0 /\ l > 0 /\ frame[txDma] = accepted[1]
        <5>1. 0 \in 0 .. TxDescs - 1 /\ 0 < g
          BY <1>1, <2>9, <2>11, <3>2
        <5>2. frame[txDma] = accepted[0 + 1]
          BY <2>9, <2>11, <5>1
        <5>3. QED
          BY <2>7, <5>1, <5>2
      <4>3. /\ accepted' \in Seq(0 .. TxNames - 1) /\ Len(accepted') = l - 1
            /\ \A n \in 1 .. l - 1 : accepted'[n] = accepted[n + 1]
            /\ accepted[1] \in 0 .. TxNames - 1
        <5>1. accepted # <<>> /\ Head(accepted) = accepted[1] /\ accepted[1] \in 0 .. TxNames - 1
          BY <2>7, <4>2 DEF l
        <5>2. accepted' = Tail(accepted)
          BY <4>1, <4>2, <5>1
        <5>3. QED
          BY <2>7, <5>1, <5>2 DEF l
      <4>4. Given' = g - 1 /\ g \in 1 .. TxDescs
        BY <2>7, <3>1, <4>2, <4>3 DEF Given
      <4>5. TxTypes'
        <5>1. /\ txOwn' \in [0 .. TxDescs - 1 -> BOOLEAN]
              /\ sent' \in 0 .. TxNames /\ Len(accepted') <= TxDescs
          <6>1. txOwn' \in [0 .. TxDescs - 1 -> BOOLEAN]
            BY <2>7, <4>1
          <6>2. frame[txDma] \in 0 .. TxNames - 1
            BY <2>7
          <6>3. sent' \in 0 .. TxNames
            BY <2>7, <4>1, <6>2
          <6>4. l - 1 <= TxDescs
            BY <2>7
          <6>5. QED
            BY <4>3, <6>1, <6>3, <6>4
        <5>2. QED
          BY <2>7, <3>1, <4>1, <4>3, <5>1 DEF TxTypes
      <4>6. \A i \in 0 .. TxDescs - 1 : txOwn'[Place(TxDescs, txDma', i)] <=> i < g - 1
        <5> SUFFICES ASSUME NEW i \in 0 .. TxDescs - 1
                     PROVE  txOwn'[Place(TxDescs, txDma', i)] <=> i < g - 1
          OBVIOUS
        <5>1. Place(TxDescs, txDma', i) = Place(TxDescs, txDma, i + 1)
          BY <2>11, <4>1
        <5>2. CASE i = TxDescs - 1
          <6>1. i + 1 = TxDescs
            BY <2>7, <5>2
          <6>2. ~txOwn'[txDma]
            BY <2>7, <4>1
          <6>3. ~(i < g - 1)
            BY <2>7, <5>2
          <6>4. QED
            BY <2>11, <5>1, <6>1, <6>2, <6>3
        <5>3. CASE i # TxDescs - 1
          <6>1. i + 1 \in 0 .. TxDescs - 1 /\ Place(TxDescs, txDma, i + 1) # txDma
                /\ Place(TxDescs, txDma, i + 1) \in 0 .. TxDescs - 1
            <7>1. i + 1 \in 0 .. TxDescs - 1 /\ 0 \in 0 .. TxDescs - 1 /\ i + 1 # 0
              BY <1>1, <5>3
            <7>2. QED
              BY <2>11, <7>1
          <6>2. txOwn'[Place(TxDescs, txDma, i + 1)] = txOwn[Place(TxDescs, txDma, i + 1)]
            BY <2>7, <4>1, <6>1
          <6>3. i + 1 < g <=> i < g - 1
            BY <2>7
          <6>4. QED
            BY <2>9, <5>1, <6>1, <6>2, <6>3
        <5>4. QED
          BY <5>2, <5>3
      <4>7. \A i \in 0 .. TxDescs - 1 : i < g - 1 => frame[Place(TxDescs, txDma', i)] = accepted'[i + 1]
        <5> SUFFICES ASSUME NEW i \in 0 .. TxDescs - 1, i < g - 1
                     PROVE  frame[Place(TxDescs, txDma', i)] = accepted'[i + 1]
          OBVIOUS
        <5>1. i + 1 \in 0 .. TxDescs - 1 /\ i + 1 < g /\ i + 1 \in 1 .. l - 1
          BY <2>7, <4>4
        <5>2. Place(TxDescs, txDma', i) = Place(TxDescs, txDma, i + 1)
          BY <2>11, <4>1
        <5>3. QED
          BY <2>9, <4>3, <5>1, <5>2
      <4>8. Place(TxDescs, txDma', g - 1) = Place(TxDescs, txDma, g)
        <5>1. g - 1 \in 0 .. TxDescs - 1 /\ (g - 1) + 1 = g
          BY <2>7, <4>4
        <5>2. QED
          BY <2>11, <4>1, <5>1
      <4>9. sendPc = "filled" => l - 1 > 0 /\ frame[DMATxDescToSet] = accepted'[l - 1]
        <5> SUFFICES ASSUME sendPc = "filled" PROVE l - 1 > 0 /\ frame[DMATxDescToSet] = accepted'[l - 1]
          OBVIOUS
        <5>1. l - 1 \in 1 .. l - 1 /\ (l - 1) + 1 = l /\ l - 1 > 0
          BY <2>7, <4>4
        <5>2. QED
          BY <2>8, <4>3, <5>1
      <4>10. \A n \in 1 .. l - 1 : Place(TxNames, accepted'[n], ((l - 1) - n) + 1) = count
        <5> SUFFICES ASSUME NEW n \in 1 .. l - 1
                     PROVE  Place(TxNames, accepted'[n], ((l - 1) - n) + 1) = count
          OBVIOUS
        <5>1. n + 1 \in 1 .. l /\ (l - (n + 1)) + 1 = ((l - 1) - n) + 1
          BY <2>7
        <5>2. QED
          BY <2>10, <4>3, <5>1
      <4>11. Place(TxNames, sent', (l - 1) + 1) = count
        <5>1. 1 \in 1 .. l /\ (l - 1) + 1 = (l - 1) + 1
          BY <2>7, <4>2
        <5>2. QED
          BY <2>10, <4>1, <4>2, <5>1
      <4>12. QED
        BY <2>8, <3>1, <4>1, <4>3, <4>4, <4>5, <4>6, <4>7, <4>8, <4>9, <4>10, <4>11 DEF TxInd
    <3>3. CASE ~txOwn[txDma]
      <4>1. UNCHANGED <<txOwn, txDma, sent, accepted>>
        BY <2>15, <3>3 DEF Setup!Transmit
      <4>2. g = 0
        <5>1. 0 \in 0 .. TxDescs - 1
          BY <1>1
        <5>2. ~(0 < g)
          BY <2>9, <2>11, <3>3, <5>1
        <5>3. QED
          BY <2>7, <5>2
      <4>3. Given' = g
        BY <3>1, <4>1 DEF Given, g
      <4>4. TxTypes'
        BY <1>1, <2>7, <3>1, <4>1 DEF TxTypes, l
      <4>5. QED
        BY <2>8, <2>9, <2>10, <3>1, <4>1, <4>2, <4>3, <4>4 DEF TxInd, l
    <3>4. QED
      BY <3>2, <3>3
  <2>16. CASE UNCHANGED Setup!vars
    BY <2>2, <2>16 DEF Setup!vars
  <2>17. QED
    BY <2>3, <2>4, <2>5, <2>6, <2>12, <2>13, <2>14, <2>15, <2>16 DEF Setup!Next, Setup!Main, Setup!TxPktChainMode
<1>4. QED
  BY <1>2, <1>3, SetupRegs, PTL DEF Setup!Spec

(* When the handler may run every register is as the program wants it, no  *)
(* link is missed, and of what the program gives it to send the controller *)
(* sends each frame once, in order (eth_driver.c, ETH_Init and the         *)
(* functions it calls).                                                    *)
THEOREM SetupRight == Setup!Spec => []Setup!SetupInv
<1>1. RegsInd /\ TxInd => Setup!SetupInv
  BY RegsSay, TxSays DEF Setup!SetupInv
<1>2. QED
  BY <1>1, SetupRegs, SetupTx, PTL

-----------------------------------------------------------------------------
(* What the fields of a form are read as.                                  *)

(* The forms are read as the user may rely on.                             *)
FormRead(form) ==
  \A p \in Config!Pages :
    /\ ~(Config!ToSet(Config!Keys[p]) \subseteq Config!ToSet(form.keys)) => Config!SettingOf(form, p) = Config!Erased
    /\ Config!InOrder(form, p) /\ p # "login" => Config!SettingOf(form, p) = form.setting
    /\ Config!InOrder(form, p) /\ p = "login" /\ Config!Legal(form) =>
         Config!SettingOf(form, p) = form.user \o <<0>> \o form.pass

(* The places of a page's keys, one behind the other.                      *)
KeysAt(at, keys, p) ==
  at = [n \in 0 .. Len(Config!Keys[p]) |->
          IF n = 0 THEN 0 ELSE Config!DataLocate(keys, at[n - 1], Config!Keys[p][n])]

(* DataLocate finds the first.                                             *)
LEMMA Located ==
  ASSUME NEW keys, NEW l \in Nat, Len(keys) = l, DOMAIN keys = 1 .. l, NEW a \in Nat, NEW key
  PROVE  LET d == Config!DataLocate(keys, a, key)
         IN  /\ d \in 1 .. l + 1
             /\ d <= l => a < d /\ keys[d] = key
             /\ \A b \in 1 .. l : a < b /\ keys[b] = key => d <= b
<1> DEFINE found == {i \in a + 1 .. l : keys[i] = key}
           c == CHOOSE i \in found : \A j \in found : i <= j
<1>1. Config!DataLocate(keys, a, key) = IF found = {} THEN l + 1 ELSE c
  BY DEF Config!DataLocate
<1>2. found \subseteq Nat
  OBVIOUS
<1>3. found # {} => c \in found /\ \A j \in found : c <= j
  <2>1. found # {} => \E i \in found : \A j \in found : i <= j
    BY <1>2, LeastOf
  <2> HIDE DEF found
  <2>2. QED
    BY <2>1
<1> HIDE DEF c
<1>4. CASE found = {}
  BY <1>1, <1>4
<1>5. CASE found # {}
  <2>1. c \in 1 .. l /\ a < c /\ keys[c] = key /\ \A b \in 1 .. l : a < b /\ keys[b] = key => c <= b
    BY <1>3, <1>5
  <2>2. QED
    BY <1>1, <1>5, <2>1
<1>6. QED
  BY <1>4, <1>5

(* The places a Refresh function comes to.                                 *)
LEMMA KeysAre ==
  ASSUME NEW p \in Config!Pages, NEW keys, NEW l \in Nat, Len(keys) = l, DOMAIN keys = 1 .. l
  PROVE  \E at : /\ KeysAt(at, keys, p)
                 /\ Config!HasKeys(keys, p) <=> at[Len(Config!Keys[p])] <= l
                 /\ Len(Config!Keys[p]) \in {2, 4} /\ DOMAIN Config!Keys[p] = 1 .. Len(Config!Keys[p])
<1> DEFINE K == Config!Keys[p]
           a1 == Config!DataLocate(keys, 0, K[1])
           a2 == Config!DataLocate(keys, a1, K[2])
           a3 == Config!DataLocate(keys, a2, K[3])
           a4 == Config!DataLocate(keys, a3, K[4])
           at == [n \in 0 .. Len(K) |-> IF n = 0 THEN 0 ELSE IF n = 1 THEN a1 ELSE
                                        IF n = 2 THEN a2 ELSE IF n = 3 THEN a3 ELSE a4]
           ch == CHOOSE f : KeysAt(f, keys, p)
<1>1. Len(K) \in {2, 4} /\ DOMAIN K = 1 .. Len(K)
  BY DEF Config!Keys, Config!Pages
<1>2. KeysAt(at, keys, p)
  <2>1. ASSUME NEW n \in 0 .. Len(K), n # 0 PROVE at[n] = Config!DataLocate(keys, at[n - 1], K[n])
    <3>1. n \in {1, 2, 3, 4} /\ n - 1 \in 0 .. Len(K)
      <4> DEFINE k == Len(K)
      <4>1. k \in {2, 4} /\ n \in 0 .. k /\ n # 0
        BY <1>1, <2>1
      <4> HIDE DEF k
      <4>2. n \in {1, 2, 3, 4} /\ n - 1 \in 0 .. k
        BY <4>1
      <4>3. QED
        BY <4>2 DEF k
    <3> HIDE DEF K
    <3>2. CASE n = 1
      BY <3>1, <3>2
    <3>3. CASE n = 2
      BY <3>1, <3>3
    <3>4. CASE n = 3
      BY <3>1, <3>4
    <3>5. CASE n = 4
      BY <3>1, <3>5
    <3>6. QED
      BY <3>1, <3>2, <3>3, <3>4, <3>5
  <2>2. at[0] = 0
    BY <1>1
  <2>3. at = [n \in 0 .. Len(K) |-> at[n]]
    OBVIOUS
  <2> HIDE DEF at
  <2>4. at = [n \in 0 .. Len(K) |-> IF n = 0 THEN 0 ELSE Config!DataLocate(keys, at[n - 1], K[n])]
    BY <2>1, <2>2, <2>3
  <2>5. QED
    BY <2>4 DEF KeysAt
<1> HIDE DEF at
<1>3. KeysAt(ch, keys, p)
  BY <1>2
<1>4. Config!HasKeys(keys, p) <=> ch[Len(K)] <= l
  BY DEF Config!HasKeys, KeysAt
<1>5. QED
  BY <1>1, <1>3, <1>4

(* A form that lacks a key is not saved; one with all of them in order is. *)
LEMMA KeysFound ==
  ASSUME NEW p \in Config!Pages, NEW form, NEW l \in Nat, Len(form.keys) = l, DOMAIN form.keys = 1 .. l
  PROVE  /\ Config!HasKeys(form.keys, p) => Config!ToSet(Config!Keys[p]) \subseteq Config!ToSet(form.keys)
         /\ Config!InOrder(form, p) => Config!HasKeys(form.keys, p)
<1> DEFINE K == Config!Keys[p]
           k == Len(K)
           keys == form.keys
<1>1. PICK at : /\ KeysAt(at, keys, p)
                /\ Config!HasKeys(keys, p) <=> at[k] <= l
                /\ k \in {2, 4} /\ DOMAIN K = 1 .. k
  BY KeysAre
<1> HIDE DEF K, k, keys
<1>2. at[0] = 0 /\ \A n \in 1 .. k : at[n] = Config!DataLocate(keys, at[n - 1], K[n])
  <2>1. at = [n \in 0 .. k |-> IF n = 0 THEN 0 ELSE Config!DataLocate(keys, at[n - 1], K[n])]
    BY <1>1 DEF KeysAt, K, k
  <2>2. 0 \in 0 .. k /\ \A n \in 1 .. k : n \in 0 .. k /\ n # 0
    BY <1>1
  <2>3. QED
    BY <2>1, <2>2
<1>3. ASSUME NEW n \in 1 .. k, at[n - 1] \in Nat
      PROVE  /\ at[n] \in 1 .. l + 1 /\ at[n] \in Nat
             /\ at[n] <= l => at[n - 1] < at[n] /\ keys[at[n]] = K[n]
             /\ \A b \in 1 .. l : at[n - 1] < b /\ keys[b] = K[n] => at[n] <= b
  BY <1>2, <1>3, Located DEF keys
<1>4. /\ 1 \in 1 .. k /\ 2 \in 1 .. k /\ (k = 4 => 3 \in 1 .. k /\ 4 \in 1 .. k)
      /\ at[1] \in Nat /\ at[2] \in Nat /\ (k = 4 => at[3] \in Nat /\ at[4] \in Nat)
  <2>1. 1 \in 1 .. k /\ 2 \in 1 .. k /\ (k = 4 => 3 \in 1 .. k /\ 4 \in 1 .. k)
    BY <1>1
  <2>2. at[1] \in Nat
    BY <1>2, <1>3, <2>1
  <2>3. at[2] \in Nat
    BY <1>3, <2>1, <2>2
  <2>4. k = 4 => at[3] \in Nat
    BY <1>3, <2>1, <2>3
  <2>5. k = 4 => at[4] \in Nat
    BY <1>3, <2>1, <2>4
  <2>6. QED
    BY <2>1, <2>2, <2>3, <2>4, <2>5
<1>5. \A n \in 1 .. k : n \in {1, 2, 3, 4} /\ n - 1 \in {0, 1, 2, 3} /\ (n > 2 => k = 4)
  BY <1>1
<1>6. \A n \in 1 .. k : at[n - 1] \in Nat /\ at[n] \in Nat
  BY <1>2, <1>4, <1>5
<1>7. ASSUME at[k] <= l, NEW n \in 1 .. k PROVE at[n] <= l
  <2>1. \A m \in 1 .. k : at[m] <= l => at[m - 1] <= l
    BY <1>3, <1>6
  <2>2. k = 4 => at[3] <= l /\ at[2] <= l
    BY <1>4, <1>7, <2>1
  <2>3. at[2] <= l /\ at[1] <= l
    BY <1>1, <1>4, <1>7, <2>1, <2>2
  <2>4. QED
    BY <1>5, <1>7, <1>1, <2>2, <2>3
<1>8. ASSUME at[k] <= l PROVE Config!ToSet(K) \subseteq Config!ToSet(keys)
  <2>1. ASSUME NEW n \in 1 .. k PROVE \E i \in 1 .. l : keys[i] = K[n]
    <3>1. at[n] <= l
      BY <1>7, <1>8
    <3>2. at[n] \in 1 .. l /\ keys[at[n]] = K[n]
      BY <1>3, <1>6, <3>1
    <3>3. QED
      BY <3>2
  <2>2. DOMAIN keys = 1 .. l
    BY DEF keys
  <2>3. QED
    BY <1>1, <2>1, <2>2 DEF Config!ToSet
<1>9. ASSUME Config!InOrder(form, p) PROVE at[k] <= l
  <2>1. PICK b \in [DOMAIN K -> DOMAIN keys] :
          /\ \A n \in DOMAIN b : keys[b[n]] = K[n]
          /\ \A n \in DOMAIN b : \A m \in 1 .. n - 1 : b[m] < b[n]
    BY <1>9 DEF Config!InOrder, K, keys
  <2>2. \A n \in 1 .. k : b[n] \in 1 .. l /\ keys[b[n]] = K[n] /\ (\A m \in 1 .. n - 1 : b[m] < b[n])
    BY <1>1, <2>1 DEF keys
  <2>3. at[1] <= b[1]
    <3>1. 1 - 1 = 0 /\ b[1] > 0 /\ b[1] \in 1 .. l /\ keys[b[1]] = K[1]
      BY <1>4, <2>2
    <3>2. QED
      BY <1>2, <1>3, <1>4, <3>1
  <2>4. ASSUME NEW n \in 1 .. k, n > 1, at[n - 1] <= b[n - 1] PROVE at[n] <= b[n]
    <3>1. b[n - 1] < b[n] /\ b[n - 1] \in Nat /\ b[n] \in 1 .. l /\ keys[b[n]] = K[n]
      <4>1. n - 1 \in 1 .. n - 1 /\ n - 1 \in 1 .. k
        BY <1>1, <2>4
      <4>2. QED
        BY <2>2, <4>1
    <3>2. at[n - 1] < b[n]
      BY <1>6, <2>4, <3>1
    <3>3. QED
      BY <1>3, <1>6, <3>1, <3>2
  <2>5. at[2] <= b[2]
    BY <1>4, <2>3, <2>4
  <2>6. k = 4 => at[3] <= b[3]
    BY <1>4, <2>4, <2>5
  <2>7. k = 4 => at[4] <= b[4]
    BY <1>4, <2>4, <2>6
  <2>8. at[k] <= b[k] /\ k \in 1 .. k
    BY <1>1, <1>4, <2>5, <2>7
  <2>9. QED
    BY <1>6, <2>2, <2>8
<1>10. QED
  BY <1>1, <1>8, <1>9 DEF K, keys

(* The function FlattenSeq is defined with.                                *)
Flats(g, s, n) == g = [i \in 1 .. n |-> IF i = 1 THEN s[i] ELSE g[i - 1] \o s[i]]

(* There is one for every sequence of sequences.                           *)
LEMMA FlatsExist ==
  ASSUME NEW s, NEW l \in Nat
  PROVE  \E g : Flats(g, s, l)
<1> SUFFICES ASSUME ~ \E g : Flats(g, s, l) PROVE FALSE
  OBVIOUS
<1> DEFINE Bad == {n \in Nat : ~ \E g : Flats(g, s, n)}
<1>1. l \in Bad /\ Bad \subseteq Nat
  OBVIOUS
<1>2. PICK n \in Bad : \A m \in Bad : n <= m
  <2> HIDE DEF Bad
  <2>1. QED
    BY <1>1, LeastOf
<1>3. CASE n = 0
  <2> DEFINE e == [i \in 1 .. 0 |-> i]
  <2>1. \A i \in 1 .. 0 : FALSE
    OBVIOUS
  <2>2. e = [i \in 1 .. 0 |-> IF i = 1 THEN s[i] ELSE e[i - 1] \o s[i]]
    BY <2>1
  <2>3. Flats(e, s, 0)
    BY <2>2 DEF Flats
  <2>4. QED
    BY <1>2, <1>3, <2>3
<1>4. CASE n # 0
  <2>1. n \in Nat /\ n - 1 \in Nat /\ ~(n <= n - 1)
    BY <1>2, <1>4
  <2>2. n - 1 \notin Bad
    BY <1>2, <2>1
  <2>3. PICK g : Flats(g, s, n - 1)
    BY <2>1, <2>2
  <2> DEFINE h == [i \in 1 .. n |-> IF i < n THEN g[i] ELSE IF i = 1 THEN s[i] ELSE g[i - 1] \o s[i]]
  <2>4. ASSUME NEW i \in 1 .. n PROVE h[i] = IF i = 1 THEN s[i] ELSE h[i - 1] \o s[i]
    <3>1. i # 1 => i - 1 \in 1 .. n /\ i - 1 < n
      BY <2>1
    <3>2. i # 1 => h[i - 1] = g[i - 1]
      BY <3>1
    <3>3. i < n => i \in 1 .. n - 1
      BY <2>1
    <3>4. i < n => g[i] = IF i = 1 THEN s[i] ELSE g[i - 1] \o s[i]
      BY <2>3, <3>3 DEF Flats
    <3>5. h[i] = IF i < n THEN g[i] ELSE IF i = 1 THEN s[i] ELSE g[i - 1] \o s[i]
      OBVIOUS
    <3> HIDE DEF h
    <3>6. QED
      BY <3>2, <3>4, <3>5
  <2>5. h = [i \in 1 .. n |-> IF i = 1 THEN s[i] ELSE h[i - 1] \o s[i]]
    BY <2>4
  <2>6. Flats(h, s, n)
    BY <2>5 DEF Flats
  <2>7. QED
    BY <1>2, <2>6
<1>5. QED
  BY <1>3, <1>4

(* What it makes of sequences of some are sequences of them.               *)
LEMMA FlatsIn ==
  ASSUME NEW S, NEW s, NEW l \in Nat, NEW g, Flats(g, s, l), \A i \in 1 .. l : s[i] \in Seq(S)
  PROVE  \A i \in 1 .. l : g[i] \in Seq(S)
<1>1. \A i \in 1 .. l : g[i] = IF i = 1 THEN s[i] ELSE g[i - 1] \o s[i]
  BY DEF Flats
<1> SUFFICES ASSUME ~ \A i \in 1 .. l : g[i] \in Seq(S) PROVE FALSE
  OBVIOUS
<1> DEFINE Bad == {n \in 1 .. l : g[n] \notin Seq(S)}
<1>2. Bad # {} /\ Bad \subseteq Nat
  <2>1. PICK i \in 1 .. l : g[i] \notin Seq(S)
    OBVIOUS
  <2>2. i \in Bad
    BY <2>1
  <2>3. 1 .. l \subseteq Nat
    OBVIOUS
  <2>4. QED
    BY <2>2, <2>3
<1>3. PICK n \in Bad : \A m \in Bad : n <= m
  <2> HIDE DEF Bad
  <2>1. QED
    BY <1>2, LeastOf
<1>4. n \in 1 .. l /\ g[n] \notin Seq(S) /\ s[n] \in Seq(S)
  BY <1>3
<1>5. CASE n = 1
  BY <1>1, <1>4, <1>5
<1>6. CASE n # 1
  <2>1. n - 1 \in 1 .. l /\ ~(n <= n - 1)
    BY <1>4, <1>6
  <2>2. g[n - 1] \in Seq(S)
    BY <1>3, <2>1
  <2>3. g[n] = g[n - 1] \o s[n]
    BY <1>1, <1>4, <1>6
  <2>4. QED
    BY <1>4, <2>2, <2>3
<1>7. QED
  BY <1>5, <1>6

(* Sequences in a row, and where each of them begins.                      *)
Begins(at, s, l) ==
  /\ at \in [0 .. l -> Nat]
  /\ at[0] = 0 /\ at[l] = Len(Config!FlattenSeq(s))
  /\ \A n \in 1 .. l :
       /\ at[n] = at[n - 1] + Len(s[n]) /\ at[n] <= at[l]
       /\ \A i \in 1 .. Len(s[n]) : Config!FlattenSeq(s)[at[n - 1] + i] = s[n][i]

(* Each of sequences in a row is found where it begins.                    *)
LEMMA FlattenAt ==
  ASSUME NEW S, NEW s, NEW l \in Nat \ {0}, DOMAIN s = 1 .. l, Len(s) = l,
         \A i \in 1 .. l : s[i] \in Seq(S)
  PROVE  Config!FlattenSeq(s) \in Seq(S) /\ \E at : Begins(at, s, l)
<1> DEFINE g == CHOOSE f : Flats(f, s, l)
<1>1. Config!FlattenSeq(s) = g[l]
  BY DEF Config!FlattenSeq, Flats
<1>2. Flats(g, s, l)
  BY FlatsExist
<1> HIDE DEF g
<1>3. \A i \in 1 .. l : g[i] = IF i = 1 THEN s[i] ELSE g[i - 1] \o s[i]
  BY <1>2 DEF Flats
<1>4. \A i \in 1 .. l : g[i] \in Seq(S)
  BY <1>2, FlatsIn
<1> DEFINE at == [n \in 0 .. l |-> IF n = 0 THEN 0 ELSE Len(g[n])]
<1>5. \A n \in 1 .. l : at[n] = Len(g[n]) /\ Len(s[n]) \in Nat /\ Len(g[n]) \in Nat
  BY <1>4
<1>6. at[0] = 0 /\ at[l] = Len(g[l]) /\ at \in [0 .. l -> Nat]
  BY <1>4
<1> HIDE DEF at
<1>7. ASSUME NEW n \in 1 .. l
      PROVE  /\ at[n] = at[n - 1] + Len(s[n])
             /\ \A i \in 1 .. Len(s[n]) : g[n][at[n - 1] + i] = s[n][i]
             /\ n > 1 => \A i \in 1 .. at[n - 1] : g[n][i] = g[n - 1][i]
  <2>1. CASE n = 1
    <3>1. n - 1 = 0 /\ g[n] = s[n] /\ ~(n > 1)
      BY <1>3, <2>1
    <3>2. \A i \in 1 .. Len(s[n]) : 0 + i = i
      BY <1>5
    <3>3. QED
      BY <1>5, <1>6, <3>1, <3>2
  <2>2. CASE n # 1
    <3>1. n - 1 \in 1 .. l
      BY <2>2
    <3>2. g[n] = g[n - 1] \o s[n] /\ g[n - 1] \in Seq(S) /\ s[n] \in Seq(S)
      BY <1>3, <1>4, <2>2, <3>1
    <3> DEFINE h == g[n - 1]
               t == s[n]
    <3>3. h \in Seq(S) /\ t \in Seq(S) /\ g[n] = h \o t
      BY <3>2
    <3> HIDE DEF h, t
    <3>4. /\ Len(h \o t) = Len(h) + Len(t)
          /\ \A i \in 1 .. Len(h) : (h \o t)[i] = h[i]
          /\ \A i \in 1 .. Len(t) : (h \o t)[Len(h) + i] = t[i]
      BY <3>3, Joined
    <3>5. at[n - 1] = Len(h)
      BY <1>5, <3>1 DEF h
    <3>6. at[n] = Len(h \o t)
      BY <1>5, <3>3
    <3>7. QED
      BY <3>3, <3>4, <3>5, <3>6 DEF h, t
  <2>3. QED
    BY <2>1, <2>2
<1>8. ASSUME NEW n \in 1 .. l
      PROVE  \A m \in n .. l : at[n] <= at[m] /\ \A i \in 1 .. at[n] : g[m][i] = g[n][i]
  <2> DEFINE Right(m) == at[n] <= at[m] /\ \A i \in 1 .. at[n] : g[m][i] = g[n][i]
             Bad == {m \in n .. l : ~Right(m)}
  <2> SUFFICES ASSUME Bad # {} PROVE FALSE
    OBVIOUS
  <2>1. Bad \subseteq Nat
    OBVIOUS
  <2>2. PICK m \in Bad : \A j \in Bad : m <= j
    <3> HIDE DEF Bad
    <3>1. QED
      BY <2>1, LeastOf
  <2>3. m \in n .. l /\ ~Right(m) /\ m \in 1 .. l
    BY <2>2
  <2>4. CASE m = n
    <3>1. at[n] \in Nat
      BY <1>6
    <3>2. QED
      BY <2>3, <2>4, <3>1
  <2>5. CASE m # n
    <3>1. m - 1 \in n .. l /\ ~(m <= m - 1) /\ m > 1 /\ m - 1 \in 1 .. l
      BY <2>3, <2>5
    <3>2. Right(m - 1)
      BY <2>2, <3>1
    <3>3. at[m] = at[m - 1] + Len(s[m]) /\ \A i \in 1 .. at[m - 1] : g[m][i] = g[m - 1][i]
      BY <1>7, <2>3, <3>1
    <3>4. at[n] \in Nat /\ at[m] \in Nat /\ at[m - 1] \in Nat /\ Len(s[m]) \in Nat
      BY <1>5, <2>3, <3>1
    <3>5. at[n] <= at[m] /\ \A i \in 1 .. at[n] : i \in 1 .. at[m - 1]
      BY <3>2, <3>3, <3>4
    <3>6. QED
      BY <2>3, <3>2, <3>3, <3>5
  <2>6. QED
    BY <2>4, <2>5
<1>9. ASSUME NEW n \in 1 .. l
      PROVE  at[n] <= at[l] /\ \A i \in 1 .. Len(s[n]) : g[l][at[n - 1] + i] = s[n][i]
  <2>1. l \in n .. l /\ n - 1 \in 0 .. l
    OBVIOUS
  <2>2. at[n] <= at[l] /\ \A i \in 1 .. at[n] : g[l][i] = g[n][i]
    BY <1>8, <2>1
  <2>3. at[n - 1] \in Nat /\ Len(s[n]) \in Nat /\ at[n] = at[n - 1] + Len(s[n])
    BY <1>5, <1>6, <1>7, <2>1
  <2>4. \A i \in 1 .. Len(s[n]) : at[n - 1] + i \in 1 .. at[n]
    BY <2>3
  <2>5. QED
    BY <1>7, <2>2, <2>4
<1>10. g[l] \in Seq(S)
  BY <1>4
<1>11. \A n \in 1 .. l :
         /\ at[n] = at[n - 1] + Len(s[n]) /\ at[n] <= at[l]
         /\ \A i \in 1 .. Len(s[n]) : Config!FlattenSeq(s)[at[n - 1] + i] = s[n][i]
  BY <1>1, <1>7, <1>9
<1>12. Config!FlattenSeq(s) \in Seq(S) /\ at[0] = 0 /\ at[l] = Len(Config!FlattenSeq(s))
  BY <1>1, <1>6, <1>10
<1>13. Begins(at, s, l)
  BY <1>6, <1>11, <1>12 DEF Begins
<1>14. QED
  BY <1>12, <1>13

(* The values of a character.                                              *)
Chars == 0 .. 255

(* Those that a browser leaves as they are.                                *)
Plain == Config!Digits \cup Config!Letters

(* What a browser makes of a character.                                    *)
CodeOf(ch) ==
  IF ch = Config!Blank THEN <<Config!Plus>>
  ELSE IF ch \in Plain THEN <<ch>>
  ELSE <<Config!Percent, Config!Hex(ch \div 16), Config!Hex(ch % 16)>>

(* A field is encoded character by character.                              *)
LEMMA EncodeIs ==
  ASSUME NEW s
  PROVE  Config!Encode(s) = Config!FlattenSeq([n \in DOMAIN s |-> CodeOf(s[n])])
  BY DEF Config!Encode, CodeOf, Plain

(* No character is what stands for one that is not a digit.                *)
LEMMA CharsAre == Chars \subseteq Nat /\ Config!NotHex \notin Chars
  BY DEF Chars, Config!NotHex

(* Letters and digits are neither a blank nor a percent sign.              *)
LEMMA PlainAre ==
  ASSUME NEW ch \in Plain
  PROVE  ch # Config!Blank /\ ch # Config!Percent /\ ch \in Nat
<1>1. ch \in 48 .. 57 \/ ch \in 65 .. 90 \/ ch \in 97 .. 122
  BY DEF Plain, Config!Digits, Config!Letters
<1>2. QED
  BY <1>1 DEF Config!Blank, Config!Percent

(* Letters and digits are left as they are.                                *)
LEMMA PlainKept ==
  ASSUME NEW s \in Seq(Chars), \A n \in 1 .. Len(s) : s[n] \in Plain
  PROVE  Config!Encode(s) = s
<1> DEFINE l == Len(s)
           t == [n \in DOMAIN s |-> CodeOf(s[n])]
           e == Config!FlattenSeq(t)
<1>1. l \in Nat /\ DOMAIN s = 1 .. l /\ \A n \in 1 .. l : s[n] \in Nat /\ s[n] \in Plain
  <2>1. s \in Seq(Nat)
    BY CharsAre, SeqOfMore
  <2>2. QED
    BY <2>1
<1>2. Config!Encode(s) = e
  BY EncodeIs
<1>3. ASSUME NEW n \in 1 .. l PROVE t[n] = <<s[n]>> /\ t[n] \in Seq(Nat) /\ Len(t[n]) = 1 /\ t[n][1] = s[n]
  <2>1. s[n] # Config!Blank
    BY <1>1, PlainAre
  <2>2. t[n] = <<s[n]>>
    BY <1>1, <2>1 DEF CodeOf
  <2>3. s[n] \in Nat
    BY <1>1
  <2> HIDE DEF t
  <2>4. QED
    BY <2>2, <2>3
<1>4. DOMAIN t = 1 .. l /\ Len(t) = l
  BY <1>1
<1>5. CASE l = 0
  <2>1. t = <<>> /\ s = <<>>
    BY <1>1, <1>4, <1>5
  <2>2. e = t
    BY <1>4, <1>5 DEF Config!FlattenSeq
  <2>3. QED
    BY <1>2, <2>1, <2>2
<1>6. CASE l # 0
  <2>1. l \in Nat \ {0}
    BY <1>1, <1>6
  <2> HIDE DEF t, l
  <2>2. \A i \in 1 .. l : t[i] \in Seq(Nat)
    BY <1>3
  <2>3. e \in Seq(Nat) /\ \E at : Begins(at, t, l)
    BY <2>1, <2>2, <1>4, FlattenAt
  <2>4. PICK at : Begins(at, t, l)
    BY <2>3
  <2>5. /\ at \in [0 .. l -> Nat] /\ e \in Seq(Nat) /\ at[0] = 0 /\ at[l] = Len(e)
        /\ \A n \in 1 .. l :
             /\ at[n] = at[n - 1] + Len(t[n]) /\ at[n] <= at[l]
             /\ \A i \in 1 .. Len(t[n]) : e[at[n - 1] + i] = t[n][i]
    BY <2>4, <2>3 DEF Begins
  <2> HIDE DEF e
  <2>6. \A n \in 1 .. l : at[n] = at[n - 1] + 1 /\ e[at[n - 1] + 1] = s[n]
    <3> SUFFICES ASSUME NEW n \in 1 .. l
                 PROVE  at[n] = at[n - 1] + 1 /\ e[at[n - 1] + 1] = s[n]
      OBVIOUS
    <3>1. Len(t[n]) = 1 /\ t[n][1] = s[n]
      BY <1>3
    <3>2. 1 \in 1 .. Len(t[n])
      BY <3>1
    <3>3. at[n] = at[n - 1] + Len(t[n]) /\ e[at[n - 1] + 1] = t[n][1]
      BY <2>5, <3>2
    <3>4. QED
      BY <3>1, <3>3
  <2>7. \A n \in 0 .. l : at[n] = n
    <3> SUFFICES ASSUME ~ \A n \in 0 .. l : at[n] = n PROVE FALSE
      OBVIOUS
    <3> DEFINE Bad == {n \in 0 .. l : at[n] # n}
    <3>1. Bad # {} /\ Bad \subseteq Nat
      BY <1>1
    <3>2. PICK n \in Bad : \A m \in Bad : n <= m
      <4> HIDE DEF Bad
      <4>1. QED
        BY <3>1, LeastOf
    <3>3. n \in 0 .. l /\ at[n] # n /\ n # 0
      BY <2>5, <3>2
    <3>4. n - 1 \in 0 .. l /\ n \in 1 .. l /\ ~(n <= n - 1)
      BY <1>1, <3>3
    <3>5. at[n - 1] = n - 1
      BY <3>2, <3>4
    <3>6. QED
      BY <1>1, <2>6, <3>3, <3>4, <3>5
  <2>8. ASSUME NEW n \in 1 .. l PROVE e[n] = s[n]
    <3>1. n - 1 \in 0 .. l /\ (n - 1) + 1 = n
      BY <1>1
    <3>2. QED
      BY <2>6, <2>7, <3>1
  <2>9. Len(e) = l /\ e \in Seq(Nat) /\ s \in Seq(Nat)
    <3>1. l \in 0 .. l
      BY <2>1
    <3>2. Len(e) = l
      BY <2>5, <2>7, <3>1
    <3>3. QED
      BY <2>5, <3>2, CharsAre, SeqOfMore
  <2>10. e = s
    BY <2>8, <2>9 DEF l
  <2>11. QED
    BY <1>2, <2>10
<1>7. QED
  BY <1>5, <1>6

(* Two digits of a character are decoded to it.                            *)
LEMMA HexOf ==
  ASSUME NEW ch \in Chars
  PROVE  LET a == Config!ASCToDec(Config!Hex(ch \div 16))
             b == Config!ASCToDec(Config!Hex(ch % 16))
         IN  /\ a # Config!NotHex /\ b # Config!NotHex /\ 16 * a + b = ch
             /\ Config!Hex(ch \div 16) \in Nat /\ Config!Hex(ch % 16) \in Nat
<1>1. /\ ch \div 16 \in 0 .. 15 /\ ch % 16 \in 0 .. 15 /\ 16 * (ch \div 16) + (ch % 16) = ch
  BY DEF Chars
<1>2. ASSUME NEW d \in 0 .. 15
      PROVE  Config!ASCToDec(Config!Hex(d)) = d /\ d # Config!NotHex /\ Config!Hex(d) \in Nat
  BY DEF Config!ASCToDec, Config!Hex, Config!NotHex, Config!Digits
<1>3. QED
  BY <1>1, <1>2

(* What is encoded is a sequence again.                                    *)
LEMMA EncodedSeq ==
  ASSUME NEW p \in Seq(Chars), Len(p) # 0
  PROVE  Config!Encode(p) \in Seq(Nat)
<1> DEFINE l == Len(p)
           t == [n \in DOMAIN p |-> CodeOf(p[n])]
<1>1. l \in Nat \ {0} /\ DOMAIN p = 1 .. l /\ \A n \in 1 .. l : p[n] \in Chars
  OBVIOUS
<1>2. ASSUME NEW ch \in Chars PROVE CodeOf(ch) \in Seq(Nat)
  <2>1. Config!Hex(ch \div 16) \in Nat /\ Config!Hex(ch % 16) \in Nat /\ ch \in Nat
    BY HexOf, CharsAre
  <2>2. QED
    BY <2>1 DEF CodeOf, Config!Percent, Config!Plus
<1>3. DOMAIN t = 1 .. l /\ Len(t) = l /\ \A n \in 1 .. l : t[n] \in Seq(Nat)
  BY <1>1, <1>2
<1> HIDE DEF t, l
<1>4. Config!FlattenSeq(t) \in Seq(Nat)
  BY <1>1, <1>3, FlattenAt
<1>5. QED
  BY <1>4, EncodeIs DEF t

(* What the i-th character and those behind it are decoded to.             *)
Decoded(f, s, i) ==
  IF i > Len(s) THEN <<>>
  ELSE IF s[i] # Config!Percent THEN <<s[i]>> \o f[i + 1]
  ELSE IF i + 2 > Len(s) \/ Config!NotHex \in {Config!ASCToDec(s[i + 1]), Config!ASCToDec(s[i + 2])}
       THEN <<Config!NotHex>>
       ELSE <<16 * Config!ASCToDec(s[i + 1]) + Config!ASCToDec(s[i + 2])>> \o f[i + 3]

(* What URLDecode is defined with.                                         *)
Decoding(f, s) == f = [i \in 1 .. Len(s) + 1 |-> Decoded(f, s, i)]

(* There is one for every field.                                           *)
LEMMA DecodingExists ==
  ASSUME NEW s, NEW l \in Nat, Len(s) = l
  PROVE  \E f : Decoding(f, s)
<1> DEFINE Has(k) == \E f : f = [i \in l + 1 - k .. l + 1 |-> Decoded(f, s, i)]
           Bad == {k \in 0 .. l : ~Has(k)}
<1>1. Bad = {}
  <2> SUFFICES ASSUME Bad # {} PROVE FALSE
    OBVIOUS
  <2>1. Bad \subseteq Nat
    OBVIOUS
  <2>2. PICK k \in Bad : \A j \in Bad : k <= j
    <3> HIDE DEF Bad
    <3>1. QED
      BY <2>1, LeastOf
  <2>3. k \in 0 .. l /\ ~Has(k)
    BY <2>2
  <2>4. CASE k = 0
    <3> DEFINE e == [i \in l + 1 - k .. l + 1 |-> <<>>]
    <3>1. \A i \in l + 1 - k .. l + 1 : Decoded(e, s, i) = <<>>
      BY <2>4 DEF Decoded
    <3>2. e = [i \in l + 1 - k .. l + 1 |-> Decoded(e, s, i)]
      BY <3>1
    <3>3. QED
      BY <2>3, <3>2
  <2>5. CASE k # 0
    <3>1. k - 1 \in 0 .. l /\ ~(k <= k - 1)
      BY <2>3, <2>5
    <3>2. Has(k - 1)
      BY <2>2, <3>1
    <3> DEFINE a == l + 1 - k
    <3>3. a \in Nat /\ a + 1 = l + 1 - (k - 1) /\ a <= l
      BY <2>3, <2>5
    <3>4. PICK f : f = [i \in a + 1 .. l + 1 |-> Decoded(f, s, i)]
      BY <3>2, <3>3
    <3> HIDE DEF a
    <3> DEFINE h == [i \in a .. l + 1 |-> IF i = a THEN Decoded(f, s, a) ELSE f[i]]
    <3>5. ASSUME NEW i \in a .. l + 1 PROVE Decoded(h, s, i) = Decoded(f, s, i)
      <4>1. i <= l => i + 1 \in a .. l + 1 /\ i + 1 # a
        BY <3>3
      <4>2. ~(i + 2 > l) => i + 3 \in a .. l + 1 /\ i + 3 # a
        BY <3>3
      <4>3. i <= l => h[i + 1] = f[i + 1]
        BY <4>1
      <4>4. ~(i + 2 > l) => h[i + 3] = f[i + 3]
        BY <4>2
      <4>5. ~(i > l) => i <= l
        BY <3>3
      <4> HIDE DEF h
      <4>6. QED
        BY <4>3, <4>4, <4>5 DEF Decoded
    <3>6. ASSUME NEW i \in a .. l + 1 PROVE h[i] = Decoded(f, s, i)
      <4>1. CASE i = a
        BY <4>1
      <4>2. CASE i # a
        <5>1. i \in a + 1 .. l + 1
          BY <3>3, <4>2
        <5>2. f[i] = Decoded(f, s, i)
          BY <3>4, <5>1
        <5>3. QED
          BY <4>2, <5>2
      <4>3. QED
        BY <4>1, <4>2
    <3>7. h = [i \in a .. l + 1 |-> h[i]]
      OBVIOUS
    <3> HIDE DEF h
    <3>8. h = [i \in a .. l + 1 |-> Decoded(h, s, i)]
      BY <3>5, <3>6, <3>7
    <3>9. QED
      BY <2>3, <3>8 DEF a
  <2>6. QED
    BY <2>4, <2>5
<1>2. Has(l)
  <2>1. \A k \in 0 .. l : Has(k)
    <3> HIDE DEF Has
    <3>1. QED
      BY <1>1
  <2>2. l \in 0 .. l
    OBVIOUS
  <2> HIDE DEF Has
  <2>3. QED
    BY <2>1, <2>2
<1>3. l + 1 - l = 1
  OBVIOUS
<1>4. QED
  BY <1>2, <1>3 DEF Decoding

(* What a browser makes of a password without blanks, however many of its  *)
(* characters it has to encode, URLDecode of HTTPS.c makes the password    *)
(* again.                                                                  *)
THEOREM DecodesEncoded ==
  ASSUME NEW p \in Seq(Chars), Len(p) \in 1 .. PassLen, Config!Blank \notin Config!ToSet(p)
  PROVE  Config!URLDecode(Config!Encode(p)) = p
<1> DEFINE l == Len(p)
           t == [n \in DOMAIN p |-> CodeOf(p[n])]
           s == Config!FlattenSeq(t)
           f == CHOOSE x : Decoding(x, s)
<1>1. l \in Nat \ {0} /\ DOMAIN p = 1 .. l /\ \A n \in 1 .. l : p[n] \in Chars /\ p[n] # Config!Blank
  BY DEF Config!ToSet
<1>2. Config!Encode(p) = s
  BY EncodeIs
<1>3. ASSUME NEW n \in 1 .. l
      PROVE  /\ t[n] \in Seq(Nat)
             /\ \/ t[n] = <<p[n]>> /\ Len(t[n]) = 1 /\ t[n][1] = p[n] /\ p[n] # Config!Percent
                \/ /\ t[n] = <<Config!Percent, Config!Hex(p[n] \div 16), Config!Hex(p[n] % 16)>>
                   /\ Len(t[n]) = 3 /\ t[n][1] = Config!Percent
                   /\ t[n][2] = Config!Hex(p[n] \div 16) /\ t[n][3] = Config!Hex(p[n] % 16)
  <2>1. t[n] = CodeOf(p[n]) /\ p[n] \in Chars /\ p[n] # Config!Blank
    BY <1>1
  <2>2. Config!Hex(p[n] \div 16) \in Nat /\ Config!Hex(p[n] % 16) \in Nat
    BY <2>1, HexOf
  <2>3. p[n] \in Nat /\ Config!Percent \in Nat
    BY <2>1, CharsAre DEF Config!Percent
  <2> HIDE DEF t
  <2>4. CASE p[n] \in Plain
    <3>1. p[n] # Config!Percent
      BY <2>4, PlainAre
    <3>2. t[n] = <<p[n]>>
      BY <2>1, <2>4 DEF CodeOf
    <3>3. QED
      BY <2>3, <3>1, <3>2
  <2>5. CASE p[n] \notin Plain
    <3>1. t[n] = <<Config!Percent, Config!Hex(p[n] \div 16), Config!Hex(p[n] % 16)>>
      BY <2>1, <2>5 DEF CodeOf
    <3>2. QED
      BY <2>2, <2>3, <3>1
  <2>6. QED
    BY <2>4, <2>5
<1>4. DOMAIN t = 1 .. l /\ Len(t) = l
  BY <1>1
<1> HIDE DEF t, l
<1>5. \A i \in 1 .. l : t[i] \in Seq(Nat)
  BY <1>3
<1>6. s \in Seq(Nat) /\ \E at : Begins(at, t, l)
  BY <1>1, <1>5, <1>4, FlattenAt
<1>7. PICK at : Begins(at, t, l)
  BY <1>6
<1>8. /\ at \in [0 .. l -> Nat] /\ s \in Seq(Nat) /\ at[0] = 0 /\ at[l] = Len(s)
      /\ \A n \in 1 .. l :
           /\ at[n] = at[n - 1] + Len(t[n]) /\ at[n] <= at[l]
           /\ \A i \in 1 .. Len(t[n]) : s[at[n - 1] + i] = t[n][i]
  BY <1>6, <1>7 DEF Begins
<1>9. Config!URLDecode(s) = IF Config!NotHex \in Config!ToSet(f[1]) \/ Len(f[1]) > PassLen THEN <<>> ELSE f[1]
  BY DEF Config!URLDecode, Decoding, Decoded
<1>10. Decoding(f, s)
  <2>1. Len(s) \in Nat
    BY <1>8
  <2> HIDE DEF s
  <2>2. QED
    BY <2>1, DecodingExists
<1> HIDE DEF f, s
<1>11. \A i \in 1 .. Len(s) + 1 : f[i] = Decoded(f, s, i)
  BY <1>10 DEF Decoding
<1> DEFINE Rest(n) == SubSeq(p, n + 1, l)
           Right(k) == f[at[l - k] + 1] = Rest(l - k)
           Bad == {k \in 0 .. l : ~Right(k)}
<1>12. Bad = {}
  <2> SUFFICES ASSUME Bad # {} PROVE FALSE
    OBVIOUS
  <2>1. Bad \subseteq Nat
    OBVIOUS
  <2>2. PICK k \in Bad : \A j \in Bad : k <= j
    <3> HIDE DEF Bad
    <3>1. QED
      BY <2>1, LeastOf
  <2>3. k \in 0 .. l /\ ~Right(k)
    BY <2>2
  <2>4. CASE k = 0
    <3>1. l - k = l
      BY <1>1, <2>4
    <3>2. Rest(l) = <<>>
      BY <1>1 DEF l
    <3>3. Len(s) \in Nat /\ Len(s) + 1 \in 1 .. Len(s) + 1 /\ Len(s) + 1 > Len(s)
      BY <1>8
    <3>4. f[Len(s) + 1] = <<>>
      BY <1>11, <3>3 DEF Decoded
    <3>5. QED
      BY <1>8, <2>3, <3>1, <3>2, <3>4
  <2>5. CASE k # 0
    <3> DEFINE n == l - k
               m == n + 1
               ch == p[m]
               i == at[n] + 1
    <3>1. k - 1 \in 0 .. l /\ ~(k <= k - 1) /\ l - (k - 1) = m /\ m \in 1 .. l /\ m - 1 = n /\ n \in 0 .. l
      BY <1>1, <2>3, <2>5
    <3>2. f[at[m] + 1] = Rest(m)
      BY <2>2, <3>1
    <3> HIDE DEF m
    <3>3. /\ at[m] = at[n] + Len(t[m]) /\ at[m] <= Len(s) /\ at[n] \in Nat /\ at[m] \in Nat
          /\ \A j \in 1 .. Len(t[m]) : s[at[n] + j] = t[m][j]
      <4> HIDE DEF n
      <4>1. at[m] = at[m - 1] + Len(t[m]) /\ at[m] <= at[l] /\ \A j \in 1 .. Len(t[m]) : s[at[m - 1] + j] = t[m][j]
        BY <1>8, <3>1
      <4>2. at[n] \in Nat /\ at[m] \in Nat
        <5>1. m \in 0 .. l /\ n \in 0 .. l
          BY <1>1, <3>1
        <5>2. QED
          BY <1>8, <5>1
      <4>3. QED
        BY <1>8, <3>1, <4>1, <4>2
    <3>4. ch \in Chars /\ Rest(n) = <<ch>> \o Rest(m)
      <4>1. n + 1 = m /\ m \in 1 .. Len(p)
        BY <3>1 DEF m, l
      <4>2. p[m] \in Chars /\ SubSeq(p, m, Len(p)) = <<p[m]>> \o SubSeq(p, m + 1, Len(p))
        BY <4>1, RestOf
      <4>3. QED
        BY <4>1, <4>2 DEF l
    <3>5. f[i] = <<ch>> \o Rest(m)
      <4>1. /\ Len(s) \in Nat /\ Len(t[m]) \in Nat /\ Len(t[m]) >= 1
            /\ \/ Len(t[m]) = 1 /\ t[m][1] = ch /\ ch # Config!Percent
               \/ /\ Len(t[m]) = 3 /\ t[m][1] = Config!Percent
                  /\ t[m][2] = Config!Hex(ch \div 16) /\ t[m][3] = Config!Hex(ch % 16)
        <5>1. t[m] \in Seq(Nat)
          BY <1>5, <3>1
        <5>2. Len(s) \in Nat
          BY <1>8
        <5>3. Len(t[m]) \in Nat
          BY <5>1
        <5>4. \/ Len(t[m]) = 1 /\ t[m][1] = ch /\ ch # Config!Percent
              \/ /\ Len(t[m]) = 3 /\ t[m][1] = Config!Percent
                 /\ t[m][2] = Config!Hex(ch \div 16) /\ t[m][3] = Config!Hex(ch % 16)
          BY <1>3, <3>1
        <5>5. Len(t[m]) >= 1
          BY <5>4
        <5>6. QED
          BY <5>2, <5>3, <5>4, <5>5
      <4> HIDE DEF n, ch
      <4>2. i \in 1 .. Len(s) /\ i \in 1 .. Len(s) + 1 /\ ~(i > Len(s)) /\ 1 \in 1 .. Len(t[m])
        BY <3>3, <4>1
      <4>3. f[i] = Decoded(f, s, i) /\ s[i] = t[m][1]
        BY <1>11, <3>3, <4>2
      <4>4. CASE Len(t[m]) = 1 /\ t[m][1] = ch /\ ch # Config!Percent
        <5>1. i + 1 = at[m] + 1
          BY <3>3, <4>4
        <5>2. f[i] = <<ch>> \o f[i + 1]
          BY <4>2, <4>3, <4>4 DEF Decoded
        <5>3. QED
          BY <3>2, <5>1, <5>2
      <4>5. CASE /\ Len(t[m]) = 3 /\ t[m][1] = Config!Percent
                 /\ t[m][2] = Config!Hex(ch \div 16) /\ t[m][3] = Config!Hex(ch % 16)
        <5>1. i + 3 = at[m] + 1 /\ ~(i + 2 > Len(s)) /\ i + 1 = at[n] + 2 /\ i + 2 = at[n] + 3
              /\ 2 \in 1 .. Len(t[m]) /\ 3 \in 1 .. Len(t[m])
          <6> DEFINE x == at[n]
                     y == at[m]
                     z == Len(s)
          <6>1. x \in Nat /\ z \in Nat /\ y = x + 3 /\ y <= z /\ Len(t[m]) = 3
            BY <3>3, <4>1, <4>5
          <6> HIDE DEF x, y, z
          <6>2. /\ (x + 1) + 3 = y + 1 /\ ~((x + 1) + 2 > z) /\ (x + 1) + 1 = x + 2 /\ (x + 1) + 2 = x + 3
                /\ 2 \in 1 .. Len(t[m]) /\ 3 \in 1 .. Len(t[m])
            BY <6>1
          <6>3. QED
            BY <6>2 DEF x, y, z
        <5>2. s[i + 1] = Config!Hex(ch \div 16) /\ s[i + 2] = Config!Hex(ch % 16) /\ s[i] = Config!Percent
          BY <3>3, <4>3, <4>5, <5>1
        <5> DEFINE u == Config!ASCToDec(s[i + 1])
                   v == Config!ASCToDec(s[i + 2])
        <5>3. u # Config!NotHex /\ v # Config!NotHex /\ 16 * u + v = ch
          BY <3>4, <5>2, HexOf
        <5>4. f[i] = <<16 * u + v>> \o f[i + 3]
          BY <4>2, <4>3, <5>1, <5>2, <5>3 DEF Decoded
        <5>5. QED
          BY <3>2, <5>1, <5>3, <5>4
      <4>6. QED
        BY <4>1, <4>4, <4>5
    <3>6. QED
      BY <2>3, <3>4, <3>5
  <2>6. QED
    BY <2>4, <2>5
<1>13. f[1] = p
  <2>1. l \in 0 .. l /\ l - l = 0
    BY <1>1
  <2>2. Right(l)
    <3> HIDE DEF Right
    <3>1. QED
      BY <1>12, <2>1
  <2>3. f[0 + 1] = Rest(0)
    BY <1>8, <2>1, <2>2
  <2>4. Rest(0) = p
    <3>1. SubSeq(p, 1, Len(p)) = p
      OBVIOUS
    <3>2. QED
      BY <3>1 DEF l
  <2>5. 0 + 1 = 1
    OBVIOUS
  <2>6. f[1] = Rest(0)
    <3> HIDE DEF Rest
    <3>1. QED
      BY <2>3, <2>5
  <2>7. QED
    BY <2>4, <2>6
<1>14. Config!NotHex \notin Config!ToSet(p)
  BY <1>1, CharsAre DEF Config!ToSet
<1>15. ~(Len(p) > PassLen)
  BY ProgramsAssumption DEF Config!WebConfigAssumption
<1>16. QED
  BY <1>2, <1>9, <1>13, <1>14, <1>15

(* Every form is read as the user may rely on: one that lacks a key        *)
(* changes nothing, one with all its keys in order is saved as it was      *)
(* typed (Refresh_Basic, Refresh_Port and Refresh_Login of HTTPS.c).       *)
LEMMA FormsRead == \A form \in Forms : FormRead(form)
<1> SUFFICES ASSUME NEW form \in Forms PROVE FormRead(form)
  OBVIOUS
<1>1. /\ form.keys \in Seq(STRING) /\ form.user \in Seq(Chars) /\ form.pass \in Seq(Chars)
      /\ UserLen \in Nat /\ PassLen \in Nat \ {0} /\ Wide \in Nat /\ Wide > UserLen
  BY ProgramsAssumption DEF Config!WebConfigAssumption, Chars
<1>2. \A p \in Config!Pages :
        /\ Config!HasKeys(form.keys, p) => Config!ToSet(Config!Keys[p]) \subseteq Config!ToSet(form.keys)
        /\ Config!InOrder(form, p) => Config!HasKeys(form.keys, p)
  <2>1. Len(form.keys) \in Nat /\ DOMAIN form.keys = 1 .. Len(form.keys)
    BY <1>1
  <2>2. QED
    BY <2>1, KeysFound
<1>3. ASSUME Config!Legal(form) PROVE Config!LoginOf(form) = form.user \o <<0>> \o form.pass
  <2>1. /\ \A n \in 1 .. Len(form.user) : form.user[n] \in Plain
        /\ Len(form.user) <= UserLen
        /\ Config!Blank \notin Config!ToSet(form.pass) /\ Len(form.pass) \in 1 .. PassLen
        /\ Len(Config!Encode(form.pass)) < Wide
    BY <1>1, <1>3 DEF Config!Legal, Plain, Config!ToSet
  <2>2. Config!Encode(form.user) = form.user
    BY <1>1, <2>1, PlainKept
  <2>3. Config!URLDecode(Config!Encode(form.pass)) = form.pass
    BY <1>1, <2>1, DecodesEncoded
  <2> DEFINE Kept(s) == SubSeq(s, 1, Len(s) % Wide)
  <2>4. ASSUME NEW s \in Seq(Nat), Len(s) < Wide PROVE Kept(s) = s
    <3>1. Len(s) % Wide = Len(s)
      <4> DEFINE n == Len(s)
      <4>1. n \in Nat /\ n < Wide /\ Wide \in Nat
        BY <1>1, <2>4
      <4> HIDE DEF n
      <4>2. n % Wide = n
        BY <4>1, SmallRest
      <4>3. QED
        BY <4>2 DEF n
    <3>2. QED
      BY <3>1, AllOf
  <2>5. Kept(form.user) = form.user
    <3>1. form.user \in Seq(Nat)
      BY <1>1, CharsAre, SeqOfMore
    <3>2. Len(form.user) \in Nat
      BY <3>1
    <3>3. Len(form.user) < Wide
      BY <1>1, <2>1, <3>2
    <3>4. QED
      BY <2>4, <3>1, <3>3
  <2>6. Kept(Config!Encode(form.pass)) = Config!Encode(form.pass)
    <3> DEFINE e == Config!Encode(form.pass)
    <3>1. e \in Seq(Nat)
      BY <1>1, <2>1, EncodedSeq
    <3> HIDE DEF e
    <3>2. QED
      BY <2>1, <2>4, <3>1 DEF e
  <2>7. form.pass # <<>>
    BY <2>1
  <2>8. Config!LoginOf(form) = IF Len(form.user) > UserLen \/ form.pass = <<>> THEN Config!Erased
                               ELSE form.user \o <<0>> \o form.pass
    BY <2>2, <2>3, <2>5, <2>6 DEF Config!LoginOf
  <2>9. ~(Len(form.user) > UserLen)
    <3>1. Len(form.user) \in Nat
      BY <1>1
    <3>2. QED
      BY <1>1, <2>1, <3>1
  <2>10. QED
    BY <2>7, <2>8, <2>9
<1>4. QED
  BY <1>2, <1>3 DEF FormRead, Config!SettingOf

-----------------------------------------------------------------------------
(* The settings in flash.                                                  *)

(* What can be written into a page.                                        *)
Settings ==
  {Config!Erased} \cup {Default[p] : p \in Config!Pages}
    \cup {Config!SettingOf(form, p) : form \in Forms, p \in Config!Pages}

(* The calls that are to be made.                                          *)
Calls == [page : Config!Pages, setting : Settings, word : Nat]

(* Whether the n-th of them writes.                                        *)
Writes(n) == todo[n].setting # Config!Erased

(* What is left to do writes each page once, behind its erasing, and what  *)
(* was entered for it; only the first call may be half done.               *)
TodoInd ==
  /\ todo \in Seq(Calls)
  /\ \A n \in 1 .. Len(todo) : Writes(n) =>
       /\ todo[n].setting = entered[todo[n].page]
       /\ todo[n].word \in 0 .. Words[todo[n].page] - 1 /\ (n = 1 \/ todo[n].word = 0)
       /\ \A m \in n + 1 .. Len(todo) : todo[m].page # todo[n].page
       /\ \/ \E m \in 1 .. n - 1 : todo[m].page = todo[n].page
          \/ /\ todo[n].page \in hurt \cap saved
             /\ \A i \in 1 .. Words[todo[n].page] :
                  flash[todo[n].page][i] = IF i <= todo[n].word THEN todo[n].setting ELSE Config!Erased

ConfigInd ==
  /\ flash = [p \in Config!Pages |-> [i \in 1 .. Words[p] |-> flash[p][i]]]
  /\ hurt \subseteq Config!Pages /\ saved \subseteq Config!Pages
  /\ doing \in {"boot", "held", "restore", "run", "save"}
  /\ \A p \in Config!Pages : entered[p] # Config!Erased
  /\ doing \in {"boot", "held", "run"} => todo = <<>>
  /\ TodoInd /\ Config!ConfigInv

(* Calls that none of was begun.                                           *)
Fresh(t, e) ==
  /\ t \in Seq(Calls)
  /\ \A n \in 1 .. Len(t) : t[n].setting # Config!Erased =>
       /\ t[n].setting = e[t[n].page] /\ t[n].word = 0
       /\ \A m \in n + 1 .. Len(t) : t[m].page # t[n].page
       /\ \E m \in 1 .. n - 1 : t[m].page = t[n].page

(* Calls that none of was begun are as they have to be.                    *)
LEMMA FreshTodo == \A e : (entered' = e /\ Fresh(todo', e)) => TodoInd'
<1> SUFFICES ASSUME NEW e, entered' = e, Fresh(todo', e) PROVE TodoInd'
  OBVIOUS
<1>1. \A p \in Config!Pages : Words[p] \in Nat \ {0}
  BY ProgramsAssumption DEF Config!WebConfigAssumption
<1>2. ASSUME NEW n \in 1 .. Len(todo'), todo'[n].setting # Config!Erased
      PROVE  /\ todo'[n].setting = e[todo'[n].page] /\ todo'[n].word = 0
             /\ 0 \in 0 .. Words[todo'[n].page] - 1
             /\ \A m \in n + 1 .. Len(todo') : todo'[m].page # todo'[n].page
             /\ \E m \in 1 .. n - 1 : todo'[m].page = todo'[n].page
  <2>1. todo'[n] \in Calls
    BY DEF Fresh
  <2>2. todo'[n].page \in Config!Pages
    BY <2>1 DEF Calls
  <2>3. QED
    BY <1>1, <1>2, <2>2 DEF Fresh
<1>3. todo' \in Seq(Calls)
  BY DEF Fresh
<1>4. QED
  BY <1>2, <1>3 DEF TodoInd, Writes

(* Calls for other pages may follow.                                       *)
LEMMA FreshMore ==
  ASSUME NEW t, NEW u, NEW e, Fresh(t, e), Fresh(u, e),
         \A n \in 1 .. Len(t), m \in 1 .. Len(u) : t[n].page # u[m].page
  PROVE  Fresh(t \o u, e)
<1> DEFINE k == Len(t)
           l == Len(u)
           s == t \o u
<1>1. t \in Seq(Calls) /\ u \in Seq(Calls)
  BY DEF Fresh
<1>2. /\ k \in Nat /\ l \in Nat
      /\ s \in Seq(Calls) /\ Len(s) = k + l
      /\ \A n \in 1 .. k : s[n] = t[n]
      /\ \A n \in k + 1 .. k + l : s[n] = u[n - k]
  BY <1>1
<1>3. /\ \A n \in 1 .. k : t[n].setting # Config!Erased =>
           /\ t[n].setting = e[t[n].page] /\ t[n].word = 0
           /\ \A m \in n + 1 .. k : t[m].page # t[n].page
           /\ \E m \in 1 .. n - 1 : t[m].page = t[n].page
      /\ \A n \in 1 .. l : u[n].setting # Config!Erased =>
           /\ u[n].setting = e[u[n].page] /\ u[n].word = 0
           /\ \A m \in n + 1 .. l : u[m].page # u[n].page
           /\ \E m \in 1 .. n - 1 : u[m].page = u[n].page
      /\ \A n \in 1 .. k, m \in 1 .. l : t[n].page # u[m].page
  BY DEF Fresh
<1> HIDE DEF k, l, s
<1>4. ASSUME NEW n \in 1 .. k + l, s[n].setting # Config!Erased
      PROVE  /\ s[n].setting = e[s[n].page] /\ s[n].word = 0
             /\ \A m \in n + 1 .. k + l : s[m].page # s[n].page
             /\ \E m \in 1 .. n - 1 : s[m].page = s[n].page
  <2>1. CASE n <= k
    <3>1. n \in 1 .. k /\ s[n] = t[n]
      BY <1>2, <2>1
    <3>2. PICK m \in 1 .. n - 1 : t[m].page = t[n].page
      BY <1>3, <1>4, <3>1
    <3>3. m \in 1 .. k /\ s[m] = t[m]
      BY <1>2, <3>1
    <3>4. ASSUME NEW j \in n + 1 .. k + l PROVE s[j].page # s[n].page
      <4>1. CASE j <= k
        BY <1>2, <1>3, <1>4, <3>1, <4>1
      <4>2. CASE ~(j <= k)
        <5>1. j - k \in 1 .. l /\ s[j] = u[j - k]
          BY <1>2, <4>2
        <5>2. QED
          BY <1>3, <3>1, <5>1
      <4>3. QED
        BY <4>1, <4>2
    <3>5. QED
      BY <1>3, <1>4, <3>1, <3>2, <3>3, <3>4
  <2>2. CASE ~(n <= k)
    <3>1. n - k \in 1 .. l /\ s[n] = u[n - k]
      BY <1>2, <2>2
    <3>2. PICK m \in 1 .. (n - k) - 1 : u[m].page = u[n - k].page
      BY <1>3, <1>4, <3>1
    <3>3. m + k \in 1 .. n - 1 /\ s[m + k] = u[m]
      <4>1. m + k \in k + 1 .. k + l /\ (m + k) - k = m
        BY <1>2, <3>1
      <4>2. s[m + k] = u[m]
        BY <1>2, <4>1
      <4>3. QED
        BY <1>2, <3>1, <4>2
    <3>4. ASSUME NEW j \in n + 1 .. k + l PROVE s[j].page # s[n].page
      <4>1. j - k \in (n - k) + 1 .. l /\ s[j] = u[j - k]
        BY <1>2, <2>2
      <4>2. QED
        BY <1>3, <1>4, <3>1, <4>1
    <3>5. QED
      BY <1>3, <1>4, <3>1, <3>2, <3>3, <3>4
  <2>3. QED
    BY <2>1, <2>2
<1>5. QED
  BY <1>2, <1>4 DEF Fresh, s

(* What a page is saved with.                                              *)
LEMMA FreshSave ==
  ASSUME NEW p \in Config!Pages, NEW x \in Settings, NEW e, x # Config!Erased => e[p] = x
  PROVE  LET t == IF x = Config!Erased THEN <<>> ELSE <<Config!Call(p, Config!Erased), Config!Call(p, x)>>
         IN  Fresh(t, e) /\ \A n \in 1 .. Len(t) : t[n].page = p
<1> DEFINE a == Config!Call(p, Config!Erased)
           b == Config!Call(p, x)
<1>1. a \in Calls /\ b \in Calls /\ a.page = p /\ b.page = p /\ b.word = 0 /\ b.setting = x
      /\ a.setting = Config!Erased
  BY DEF Config!Call, Calls, Settings
<1> HIDE DEF a, b
<1>2. CASE x = Config!Erased
  BY <1>2 DEF Fresh
<1>3. CASE x # Config!Erased
  <2> DEFINE t == <<a, b>>
  <2>1. t \in Seq(Calls) /\ Len(t) = 2 /\ t[1] = a /\ t[2] = b
    BY <1>1
  <2> HIDE DEF t
  <2>2. Fresh(t, e) /\ \A n \in 1 .. Len(t) : t[n].page = p
    BY <1>1, <1>3, <2>1 DEF Fresh
  <2>3. QED
    BY <1>3, <2>2 DEF t, a, b
<1>4. QED
  BY <1>2, <1>3

(* It holds of every state of the settings.                                *)
LEMMA ConfigInvariant ==
  ASSUME \A form \in Forms : FormRead(form)
  PROVE  Config!Spec => []ConfigInd
<1>1. /\ \A p \in Config!Pages : Words[p] \in Nat \ {0}
      /\ \A p \in Config!Pages : Default[p] # Config!Erased
  BY ProgramsAssumption DEF Config!WebConfigAssumption, Config!Erased
<1>2. Config!Init => ConfigInd
  BY <1>1 DEF Config!Init, ConfigInd, TodoInd, Writes, Calls, Config!Page, Config!ConfigInv, Config!PagesRight,
              Config!RunsOnFlags, Config!DefaultsOnlyIf, Config!Pages
<1>3. ConfigInd /\ [Config!Next]_(Config!vars) => ConfigInd'
  <2> SUFFICES ASSUME ConfigInd, [Config!Next]_(Config!vars) PROVE ConfigInd'
    OBVIOUS
  <2>1. /\ flash = [p \in Config!Pages |-> [i \in 1 .. Words[p] |-> flash[p][i]]]
        /\ hurt \subseteq Config!Pages /\ saved \subseteq Config!Pages
        /\ doing \in {"boot", "held", "restore", "run", "save"}
        /\ \A p \in Config!Pages : entered[p] # Config!Erased
        /\ doing \in {"boot", "held", "run"} => todo = <<>>
        /\ TodoInd /\ Config!PagesRight /\ Config!RunsOnFlags /\ Config!DefaultsOnlyIf
    BY DEF ConfigInd, Config!ConfigInv
  <2>2. ASSUME UNCHANGED <<todo, entered, hurt, saved, flash>> PROVE TodoInd'
    BY <2>1, <2>2, ZenonT(40) DEF TodoInd, Writes
  <2>3. todo' = <<>> => TodoInd'
    BY DEF TodoInd, Writes
  <2>4. ASSUME UNCHANGED <<todo, entered, hurt, flash>> PROVE Config!PagesRight'
    BY <2>1, <2>4 DEF Config!PagesRight
  <2>5. ASSUME TodoInd', Config!PagesRight', Config!RunsOnFlags', Config!DefaultsOnlyIf',
               flash' = [p \in Config!Pages |-> [i \in 1 .. Words[p] |-> flash'[p][i]]],
               hurt' \subseteq Config!Pages, saved' \subseteq Config!Pages,
               doing' \in {"boot", "held", "restore", "run", "save"},
               \A p \in Config!Pages : entered'[p] # Config!Erased,
               doing' \in {"boot", "held", "run"} => todo' = <<>>
        PROVE  ConfigInd'
    BY <2>5 DEF ConfigInd, Config!ConfigInv
  <2>6. ASSUME NEW why, Config!StartRestore(why), UNCHANGED <<flash, hurt>>, saved' \subseteq Config!Pages,
               why \in {"button", "hurt"}
        PROVE  ConfigInd'
    <3> DEFINE t == <<Config!Call("basic", Config!Erased), Config!Call("port", Config!Erased),
                      Config!Call("login", Config!Erased), Config!Call("basic", Default["basic"]),
                      Config!Call("port", Default["port"]), Config!Call("login", Default["login"])>>
    <3>1. doing' = "restore" /\ todo' = t /\ entered' = Default /\ cause' = why
      BY <2>6 DEF Config!StartRestore
    <3>2. \A p \in Config!Pages :
            /\ Config!Call(p, Config!Erased) \in Calls /\ Config!Call(p, Default[p]) \in Calls
            /\ Config!Call(p, Config!Erased).page = p /\ Config!Call(p, Default[p]).page = p
            /\ Config!Call(p, Config!Erased).setting = Config!Erased
            /\ Config!Call(p, Default[p]).setting = Default[p] /\ Config!Call(p, Default[p]).word = 0
      BY DEF Config!Call, Calls, Settings
    <3>3. Config!Pages = {"basic", "port", "login"}
      BY DEF Config!Pages
    <3>4. /\ t \in Seq(Calls) /\ Len(t) = 6
          /\ t[1].page = "basic" /\ t[2].page = "port" /\ t[3].page = "login"
          /\ t[4].page = "basic" /\ t[5].page = "port" /\ t[6].page = "login"
          /\ \A n \in {1, 2, 3} : t[n].setting = Config!Erased
          /\ \A n \in {4, 5, 6} : t[n].setting = Default[t[n].page] /\ t[n].word = 0
      BY <3>2, <3>3
    <3> HIDE DEF t
    <3>5. Fresh(t, Default)
      BY <3>4 DEF Fresh
    <3>6. TodoInd'
      BY <3>1, <3>5, FreshTodo
    <3>7. Config!PagesRight'
      <4>1. \A p \in Config!Pages : \E n \in DOMAIN t : t[n].page = p
        BY <3>3, <3>4
      <4>2. QED
        BY <3>1, <4>1 DEF Config!PagesRight
    <3>8. Config!RunsOnFlags' /\ Config!DefaultsOnlyIf'
      BY <2>6, <3>1 DEF Config!RunsOnFlags, Config!DefaultsOnlyIf
    <3>9. QED
      BY <1>1, <2>6, <2>1, <2>5, <3>1, <3>6, <3>7, <3>8
  <2>7. ASSUME todo # <<>>
        PROVE  /\ doing \in {"restore", "save"} /\ todo \in Seq(Calls) /\ Len(todo) \in Nat \ {0}
               /\ Head(todo) = todo[1] /\ todo[1] \in Calls /\ todo[1].page \in Config!Pages
               /\ Tail(todo) \in Seq(Calls) /\ Len(Tail(todo)) = Len(todo) - 1
               /\ DOMAIN Tail(todo) = 1 .. Len(todo) - 1
               /\ \A n \in 1 .. Len(todo) - 1 : Tail(todo)[n] = todo[n + 1]
               /\ \A n \in 1 .. Len(todo) : todo[n].page \in Config!Pages
    <3>1. todo \in Seq(Calls)
      BY <2>1 DEF TodoInd
    <3>2. Len(todo) \in Nat \ {0} /\ todo[1] \in Calls
      BY <2>7, <3>1
    <3>3. todo[1].page \in Config!Pages /\ \A n \in 1 .. Len(todo) : todo[n].page \in Config!Pages
      <4>1. \A n \in 1 .. Len(todo) : todo[n] \in Calls
        BY <3>1
      <4>2. QED
        BY <3>2, <4>1 DEF Calls
    <3>4. /\ Head(todo) = todo[1] /\ Tail(todo) \in Seq(Calls) /\ Len(Tail(todo)) = Len(todo) - 1
          /\ DOMAIN Tail(todo) = 1 .. Len(todo) - 1
          /\ \A n \in 1 .. Len(todo) - 1 : Tail(todo)[n] = todo[n + 1]
      BY <2>7, <3>1
    <3>5. QED
      BY <2>1, <2>7, <3>1, <3>2, <3>3, <3>4
  <2>8. ASSUME NEW n \in 1 .. Len(todo), Writes(n)
        PROVE  /\ todo[n].setting = entered[todo[n].page]
               /\ todo[n].word \in 0 .. Words[todo[n].page] - 1 /\ (n = 1 \/ todo[n].word = 0)
               /\ \A m \in n + 1 .. Len(todo) : todo[m].page # todo[n].page
               /\ \/ \E m \in 1 .. n - 1 : todo[m].page = todo[n].page
                  \/ /\ todo[n].page \in hurt \cap saved
                     /\ \A i \in 1 .. Words[todo[n].page] :
                          flash[todo[n].page][i] = IF i <= todo[n].word THEN todo[n].setting ELSE Config!Erased
    BY <2>1, <2>8 DEF TodoInd
  <2>9. ASSUME todo # <<>>, Writes(1), todo' = Tail(todo), UNCHANGED <<entered, saved>>,
               \A p \in Config!Pages : p # todo[1].page => flash'[p] = flash[p] /\ (p \in hurt => p \in hurt')
        PROVE  TodoInd'
    <3>1. /\ Len(todo) \in Nat /\ 1 \in 1 .. Len(todo)
          /\ \A m \in 2 .. Len(todo) : todo[m].page # todo[1].page
      BY <2>7, <2>8, <2>9
    <3>2. ASSUME NEW n \in 1 .. Len(todo) - 1, todo[n + 1].setting # Config!Erased
          PROVE  /\ todo[n + 1].setting = entered[todo[n + 1].page]
                 /\ todo[n + 1].word \in 0 .. Words[todo[n + 1].page] - 1 /\ todo[n + 1].word = 0
                 /\ \A m \in n + 1 .. Len(todo) - 1 : todo[m + 1].page # todo[n + 1].page
                 /\ \/ \E m \in 1 .. n - 1 : todo[m + 1].page = todo[n + 1].page
                    \/ /\ todo[n + 1].page \in hurt' \cap saved'
                       /\ \A i \in 1 .. Words[todo[n + 1].page] :
                            flash'[todo[n + 1].page][i] =
                              IF i <= todo[n + 1].word THEN todo[n + 1].setting ELSE Config!Erased
      <4>1. n + 1 \in 1 .. Len(todo) /\ n + 1 \in 2 .. Len(todo) /\ Writes(n + 1)
        BY <3>1, <3>2 DEF Writes
      <4> DEFINE d == todo[n + 1]
      <4>2. /\ d.setting = entered[d.page]
            /\ d.word \in 0 .. Words[d.page] - 1 /\ d.word = 0
            /\ \A m \in (n + 1) + 1 .. Len(todo) : todo[m].page # d.page
            /\ \/ \E m \in 1 .. (n + 1) - 1 : todo[m].page = d.page
               \/ /\ d.page \in hurt \cap saved
                  /\ \A i \in 1 .. Words[d.page] :
                       flash[d.page][i] = IF i <= d.word THEN d.setting ELSE Config!Erased
        BY <2>8, <4>1
      <4>3. \A m \in n + 1 .. Len(todo) - 1 : todo[m + 1].page # d.page
        BY <3>1, <4>1, <4>2
      <4>4. d.page # todo[1].page /\ d.page \in Config!Pages
        BY <2>7, <2>9, <3>1, <4>1
      <4>5. flash'[d.page] = flash[d.page] /\ (d.page \in hurt => d.page \in hurt')
        BY <2>9, <4>4
      <4>6. CASE \E m \in 1 .. (n + 1) - 1 : todo[m].page = d.page
        <5>1. PICK m \in 1 .. (n + 1) - 1 : todo[m].page = d.page
          BY <4>6
        <5>2. m # 1 /\ m - 1 \in 1 .. n - 1 /\ (m - 1) + 1 = m
          BY <4>4, <5>1
        <5>3. QED
          BY <4>2, <4>3, <5>1, <5>2
      <4>7. CASE ~ \E m \in 1 .. (n + 1) - 1 : todo[m].page = d.page
        BY <2>9, <4>2, <4>3, <4>5, <4>7
      <4>8. QED
        BY <4>6, <4>7
    <3>3. /\ todo' \in Seq(Calls) /\ Len(todo') = Len(todo) - 1
          /\ \A n \in 1 .. Len(todo) - 1 : todo'[n] = todo[n + 1] /\ (Writes(n)' <=> todo[n + 1].setting # Config!Erased)
      BY <2>7, <2>9 DEF Writes
    <3>4. UNCHANGED entered
      BY <2>9
    <3>5. ASSUME NEW n \in 1 .. Len(todo) - 1
          PROVE  /\ \A m \in n + 1 .. Len(todo) - 1 : m \in 1 .. Len(todo) - 1
                 /\ \A m \in 1 .. n - 1 : m \in 1 .. Len(todo) - 1
      BY <3>1
    <3>6. ASSUME NEW n \in 1 .. Len(todo'), Writes(n)'
          PROVE  /\ todo'[n].setting = entered'[todo'[n].page]
                 /\ todo'[n].word \in 0 .. Words[todo'[n].page] - 1 /\ (n = 1 \/ todo'[n].word = 0)
                 /\ \A m \in n + 1 .. Len(todo') : todo'[m].page # todo'[n].page
                 /\ \/ \E m \in 1 .. n - 1 : todo'[m].page = todo'[n].page
                    \/ /\ todo'[n].page \in hurt' \cap saved'
                       /\ \A i \in 1 .. Words[todo'[n].page] :
                            flash'[todo'[n].page][i] =
                              IF i <= todo'[n].word THEN todo'[n].setting ELSE Config!Erased
      <4>1. n \in 1 .. Len(todo) - 1 /\ todo'[n] = todo[n + 1] /\ todo[n + 1].setting # Config!Erased
        BY <3>3, <3>6
      <4>2. /\ \A m \in n + 1 .. Len(todo) - 1 : todo'[m] = todo[m + 1]
            /\ \A m \in 1 .. n - 1 : todo'[m] = todo[m + 1]
        BY <3>3, <3>5, <4>1
      <4> DEFINE d == todo[n + 1]
      <4>3. /\ d.setting = entered[d.page] /\ d.word \in 0 .. Words[d.page] - 1 /\ d.word = 0
            /\ \A m \in n + 1 .. Len(todo) - 1 : todo[m + 1].page # d.page
            /\ \/ \E m \in 1 .. n - 1 : todo[m + 1].page = d.page
               \/ /\ d.page \in hurt' \cap saved'
                  /\ \A i \in 1 .. Words[d.page] :
                       flash'[d.page][i] = IF i <= d.word THEN d.setting ELSE Config!Erased
        BY <3>2, <4>1
      <4>4. todo'[n] = d /\ Len(todo') = Len(todo) - 1 /\ entered' = entered
        BY <3>3, <3>4, <4>1
      <4> HIDE DEF d
      <4>5. \A m \in n + 1 .. Len(todo') : todo'[m].page # d.page
        BY <4>2, <4>3, <4>4
      <4>6. (\E m \in 1 .. n - 1 : todo[m + 1].page = d.page) => \E m \in 1 .. n - 1 : todo'[m].page = d.page
        BY <4>2
      <4>7. QED
        BY <4>3, <4>4, <4>5, <4>6
    <3>7. QED
      BY <3>3, <3>6 DEF TodoInd
  <2>10. ASSUME NEW p \in Config!Pages, p \notin hurt, todo # <<>>, p # todo[1].page,
                \A n \in 1 .. Len(todo) - 1 : todo[n + 1].page # p
         PROVE  flash[p] = Config!Page(p, entered[p])
    <3>1. \A n \in DOMAIN todo : todo[n].page # p
      <4>1. DOMAIN todo = 1 .. Len(todo) /\ Len(todo) \in Nat
        BY <2>7, <2>10
      <4>2. \A n \in 1 .. Len(todo) : n = 1 \/ (n - 1 \in 1 .. Len(todo) - 1 /\ (n - 1) + 1 = n)
        BY <4>1
      <4>3. QED
        BY <2>10, <4>1, <4>2
    <3>2. QED
      BY <2>1, <2>10, <3>1 DEF Config!PagesRight
  <2>11. CASE Config!Hold
    <3>1. UNCHANGED <<flash, ram, todo, faults, entered, hurt, saved, cause>> /\ doing' = "held" /\ doing = "boot"
      BY <2>11 DEF Config!Hold
    <3>2. TodoInd' /\ Config!PagesRight'
      BY <2>2, <2>4, <3>1
    <3>3. Config!RunsOnFlags' /\ Config!DefaultsOnlyIf'
      BY <3>1 DEF Config!RunsOnFlags, Config!DefaultsOnlyIf
    <3>4. QED
      BY <2>1, <2>5, <3>1, <3>2, <3>3
  <2>12. CASE Config!Release
    BY <2>6, <2>12, <2>1 DEF Config!Release
  <2>13. CASE Config!ReadConfig
    <3>1. ram' = flash /\ saved' = {} /\ doing = "boot" /\ UNCHANGED <<flash, hurt>> /\ todo = <<>>
      BY <2>13, <2>1 DEF Config!ReadConfig
    <3>2. CASE \A p \in Config!Pages : Config!HasFlags(flash[p])
      <4>1. doing' = "run" /\ UNCHANGED <<todo, entered, cause>>
        BY <2>13, <3>2 DEF Config!ReadConfig
      <4>2. TodoInd' /\ Config!PagesRight'
        BY <2>3, <2>4, <3>1, <4>1
      <4>3. Config!RunsOnFlags' /\ Config!DefaultsOnlyIf'
        BY <3>1, <3>2, <4>1 DEF Config!RunsOnFlags, Config!DefaultsOnlyIf
      <4>4. QED
        BY <2>1, <2>5, <3>1, <4>1, <4>2, <4>3
    <3>3. CASE ~ \A p \in Config!Pages : Config!HasFlags(flash[p])
      <4>1. PICK p \in Config!Pages : ~Config!HasFlags(flash[p])
        BY <3>3
      <4>2. hurt # {}
        <5>1. hurt = {} => flash[p] = Config!Page(p, entered[p])
          <6>1. DOMAIN todo = {}
            BY <3>1
          <6>2. QED
            BY <2>1, <6>1 DEF Config!PagesRight
        <5>2. Config!Page(p, entered[p])[1] = entered[p]
          BY <1>1 DEF Config!Page
        <5>3. QED
          BY <2>1, <4>1, <5>1, <5>2 DEF Config!HasFlags
      <4>3. Config!StartRestore("hurt")
        BY <2>13, <3>3, <4>2 DEF Config!ReadConfig
      <4>4. QED
        BY <2>6, <3>1, <4>3
    <3>4. QED
      BY <3>2, <3>3
  <2>14. ASSUME NEW form \in Forms, Config!Post(form) PROVE ConfigInd'
    <3> DEFINE x(p) == Config!SettingOf(form, p)
               e == [p \in Config!Pages |-> Config!Ought(form, p)]
               Save(p) == IF x(p) = Config!Erased THEN <<>>
                          ELSE <<Config!Call(p, Config!Erased), Config!Call(p, x(p))>>
               u == Save("port")
               s == Save("basic") \o u
               t == s \o Save("login")
    <3>1. /\ doing = "run" /\ doing' = "save" /\ todo' = t /\ entered' = e
          /\ UNCHANGED <<flash, ram, faults, hurt, saved, cause>>
      BY <2>14 DEF Config!Post
    <3>2. FormRead(form) /\ form.setting # <<>> /\ form.user \in Seq(0 .. 255) /\ form.pass \in Seq(0 .. 255)
      BY ProgramsAssumption DEF Config!WebConfigAssumption
    <3>3. ASSUME NEW p \in Config!Pages
          PROVE  e[p] = IF x(p) = Config!Erased THEN entered[p] ELSE x(p)
      <4>1. form.user \o <<0>> \o form.pass # <<>> /\ form.setting # <<>>
        BY <3>2
      <4>2. /\ ~(Config!ToSet(Config!Keys[p]) \subseteq Config!ToSet(form.keys)) => x(p) = Config!Erased
            /\ Config!InOrder(form, p) /\ p # "login" => x(p) = form.setting
            /\ Config!InOrder(form, p) /\ p = "login" /\ Config!Legal(form) =>
                 x(p) = form.user \o <<0>> \o form.pass
        BY <3>2 DEF FormRead
      <4> HIDE DEF x
      <4>3. e[p] = Config!Ought(form, p)
        OBVIOUS
      <4>4. Config!Ought(form, p) = IF x(p) = Config!Erased THEN entered[p] ELSE x(p)
        BY <4>1, <4>2 DEF Config!Ought, Config!Erased, x
      <4>5. QED
        BY <4>3, <4>4
    <3>4. \A p \in Config!Pages : x(p) \in Settings
      BY DEF Settings
    <3> HIDE DEF x, e
    <3>5. ASSUME NEW p \in Config!Pages
          PROVE  /\ Fresh(Save(p), e) /\ Save(p) \in Seq(Calls)
                 /\ \A n \in 1 .. Len(Save(p)) : Save(p)[n].page = p
                 /\ x(p) # Config!Erased => Len(Save(p)) = 2
      <4>1. Fresh(Save(p), e) /\ \A n \in 1 .. Len(Save(p)) : Save(p)[n].page = p
        BY <3>3, <3>4, FreshSave
      <4>2. QED
        BY <4>1 DEF Fresh
    <3>6. "basic" \in Config!Pages /\ "port" \in Config!Pages /\ "login" \in Config!Pages
      BY DEF Config!Pages
    <3> DEFINE a == Save("basic")
               b == Save("login")
    <3>7. /\ Fresh(a, e) /\ a \in Seq(Calls) /\ \A n \in 1 .. Len(a) : a[n].page = "basic"
          /\ Fresh(u, e) /\ u \in Seq(Calls) /\ \A n \in 1 .. Len(u) : u[n].page = "port"
          /\ Fresh(b, e) /\ b \in Seq(Calls) /\ \A n \in 1 .. Len(b) : b[n].page = "login"
          /\ x("basic") # Config!Erased => Len(a) = 2
          /\ x("port") # Config!Erased => Len(u) = 2
          /\ x("login") # Config!Erased => Len(b) = 2
      BY <3>5, <3>6
    <3>8. s = a \o u /\ t = s \o b
      OBVIOUS
    <3> HIDE DEF a, u, b, s, t
    <3>9. /\ Len(a) \in Nat /\ Len(u) \in Nat /\ Len(b) \in Nat
          /\ s \in Seq(Calls) /\ Len(s) = Len(a) + Len(u)
          /\ \A n \in 1 .. Len(a) : s[n] = a[n]
          /\ \A n \in 1 .. Len(u) : s[Len(a) + n] = u[n]
      BY <3>7, <3>8
    <3>10. /\ DOMAIN t = 1 .. Len(s) + Len(b)
           /\ \A n \in 1 .. Len(s) : t[n] = s[n]
           /\ \A n \in 1 .. Len(b) : t[Len(s) + n] = b[n]
      BY <3>7, <3>8, <3>9
    <3>11. Fresh(s, e) /\ s \in Seq(Calls)
      <4>1. \A n \in 1 .. Len(a), m \in 1 .. Len(u) : a[n].page # u[m].page
        BY <3>7
      <4>2. QED
        BY <3>7, <3>8, <4>1, FreshMore
    <3>12. \A n \in 1 .. Len(s) : s[n].page \in {"basic", "port"}
      BY <3>7, <3>8
    <3>13. Fresh(t, e)
      <4>1. \A n \in 1 .. Len(s), m \in 1 .. Len(b) : s[n].page # b[m].page
        BY <3>7, <3>12
      <4>2. QED
        BY <3>7, <3>8, <3>11, <4>1, FreshMore
    <3>14. TodoInd'
      BY <3>1, <3>13, FreshTodo
    <3>15. ASSUME NEW p \in Config!Pages, x(p) # Config!Erased
           PROVE  \E n \in DOMAIN t : t[n].page = p
      <4>1. CASE p = "basic"
        <5>1. Len(a) = 2
          BY <3>7, <3>15, <4>1
        <5>2. 1 \in DOMAIN t /\ t[1] = a[1] /\ a[1].page = "basic"
          BY <3>7, <3>9, <3>10, <5>1
        <5>3. QED
          BY <4>1, <5>2
      <4>2. CASE p = "port"
        <5>1. Len(a) + 1 \in DOMAIN t /\ t[Len(a) + 1] = u[1] /\ u[1].page = "port"
          <6>1. Len(u) = 2
            BY <3>7, <3>15, <4>2
          <6>2. 1 \in 1 .. Len(u) /\ Len(a) + 1 \in 1 .. Len(s) /\ Len(a) + 1 \in DOMAIN t
            BY <3>9, <3>10, <6>1
          <6>3. QED
            BY <3>7, <3>9, <3>10, <6>2
        <5>2. QED
          BY <4>2, <5>1
      <4>3. CASE p = "login"
        <5>1. Len(s) + 1 \in DOMAIN t /\ t[Len(s) + 1] = b[1] /\ b[1].page = "login"
          <6>1. Len(b) = 2
            BY <3>7, <3>15, <4>3
          <6>2. 1 \in 1 .. Len(b) /\ Len(s) + 1 \in DOMAIN t
            BY <3>9, <3>10, <6>1
          <6>3. QED
            BY <3>7, <3>10, <6>2
        <5>2. QED
          BY <4>3, <5>1
      <4>4. QED
        BY <4>1, <4>2, <4>3 DEF Config!Pages
    <3>16. Config!PagesRight'
      <4>1. ASSUME NEW p \in Config!Pages, p \notin hurt', \A n \in DOMAIN todo' : todo'[n].page # p
            PROVE  flash'[p] = Config!Page(p, e[p])
        <5>1. x(p) = Config!Erased
          BY <3>1, <3>15, <4>1
        <5>2. e[p] = entered[p]
          BY <3>3, <5>1
        <5>3. todo = <<>> /\ DOMAIN todo = {}
          BY <2>1, <3>1
        <5>4. QED
          BY <2>1, <3>1, <4>1, <5>2, <5>3 DEF Config!PagesRight
      <4>2. QED
        BY <3>1, <4>1 DEF Config!PagesRight, Config!Page
    <3>17. Config!RunsOnFlags' /\ Config!DefaultsOnlyIf'
      BY <2>1, <3>1 DEF Config!RunsOnFlags, Config!DefaultsOnlyIf
    <3>18. \A p \in Config!Pages : entered'[p] # Config!Erased
      BY <2>1, <3>1, <3>3
    <3>19. QED
      BY <2>1, <2>5, <3>1, <3>14, <3>16, <3>17, <3>18
  <2>15. CASE Config!EraseCall
    <3> DEFINE c == todo[1]
    <3>1. /\ todo # <<>> /\ c.setting = Config!Erased /\ todo' = Tail(todo)
          /\ flash' = [flash EXCEPT ![c.page] = Config!Page(c.page, Config!Erased)]
          /\ hurt' = hurt \cup {c.page} /\ saved' = saved \cup {c.page}
          /\ UNCHANGED <<ram, doing, faults, entered, cause>>
      BY <2>15, <2>7 DEF Config!EraseCall
    <3>2. /\ c.page \in Config!Pages
          /\ flash'[c.page] = [i \in 1 .. Words[c.page] |-> Config!Erased]
          /\ \A p \in Config!Pages : p # c.page => flash'[p] = flash[p]
      <4>1. DOMAIN flash = Config!Pages
        BY <2>1
      <4>2. QED
        BY <2>7, <3>1, <4>1 DEF Config!Page
    <3>3. flash' = [p \in Config!Pages |-> [i \in 1 .. Words[p] |-> flash'[p][i]]]
      <4>1. \A p \in Config!Pages : flash'[p] = [i \in 1 .. Words[p] |-> flash'[p][i]]
        BY <2>1, <3>2
      <4>2. flash' = [p \in Config!Pages |-> flash'[p]]
        BY <2>1, <3>1
      <4>3. QED
        BY <4>1, <4>2
    <3>4. TodoInd'
      <4>1. ASSUME NEW n \in 1 .. Len(todo) - 1, todo[n + 1].setting # Config!Erased
            PROVE  /\ todo[n + 1].setting = entered[todo[n + 1].page]
                   /\ todo[n + 1].word \in 0 .. Words[todo[n + 1].page] - 1 /\ todo[n + 1].word = 0
                   /\ \A m \in n + 1 .. Len(todo) - 1 : todo[m + 1].page # todo[n + 1].page
                   /\ \/ \E m \in 1 .. n - 1 : todo[m + 1].page = todo[n + 1].page
                      \/ /\ todo[n + 1].page \in hurt' \cap saved'
                         /\ \A i \in 1 .. Words[todo[n + 1].page] :
                              flash'[todo[n + 1].page][i] =
                                IF i <= todo[n + 1].word THEN todo[n + 1].setting ELSE Config!Erased
        <5>1. n + 1 \in 1 .. Len(todo) /\ Len(todo) \in Nat /\ Writes(n + 1) /\ n + 1 # 1
          BY <2>7, <3>1, <4>1 DEF Writes
        <5> DEFINE d == todo[n + 1]
        <5>2. /\ d.setting = entered[d.page]
              /\ d.word \in 0 .. Words[d.page] - 1 /\ d.word = 0
              /\ \A m \in (n + 1) + 1 .. Len(todo) : todo[m].page # d.page
              /\ \/ \E m \in 1 .. (n + 1) - 1 : todo[m].page = d.page
                 \/ /\ d.page \in hurt \cap saved
                    /\ \A i \in 1 .. Words[d.page] :
                         flash[d.page][i] = IF i <= d.word THEN d.setting ELSE Config!Erased
          BY <2>8, <5>1
        <5>3. \A m \in n + 1 .. Len(todo) - 1 : todo[m + 1].page # d.page
          BY <5>1, <5>2
        <5>4. CASE d.page = c.page
          <6>1. \A i \in 1 .. Words[d.page] : flash'[d.page][i] = Config!Erased /\ ~(i <= d.word)
            <7>1. \A i \in 1 .. Words[d.page] : flash'[d.page][i] = Config!Erased
              BY <3>2, <5>4
            <7>2. Words[d.page] \in Nat
              BY <1>1, <3>2, <5>4
            <7>3. \A i \in 1 .. Words[d.page] : ~(i <= 0)
              BY <7>2
            <7>4. QED
              BY <5>2, <7>1, <7>3
          <6>2. QED
            BY <3>1, <5>2, <5>3, <5>4, <6>1
        <5>5. CASE d.page # c.page
          <6>1. d.page \in Config!Pages
            BY <2>7, <3>1, <5>1
          <6>2. flash'[d.page] = flash[d.page]
            BY <3>2, <5>5, <6>1
          <6>3. CASE \E m \in 1 .. (n + 1) - 1 : todo[m].page = d.page
            <7>1. PICK m \in 1 .. (n + 1) - 1 : todo[m].page = d.page
              BY <6>3
            <7>2. m # 1 /\ m - 1 \in 1 .. n - 1 /\ (m - 1) + 1 = m
              BY <5>5, <7>1
            <7>3. QED
              BY <5>2, <5>3, <7>1, <7>2
          <6>4. CASE ~ \E m \in 1 .. (n + 1) - 1 : todo[m].page = d.page
            BY <3>1, <5>2, <5>3, <6>2, <6>4
          <6>5. QED
            BY <6>3, <6>4
        <5>6. QED
          BY <5>4, <5>5
      <4>2. /\ todo' \in Seq(Calls) /\ Len(todo') = Len(todo) - 1
            /\ \A n \in 1 .. Len(todo) - 1 : todo'[n] = todo[n + 1] /\ (Writes(n)' <=> todo[n + 1].setting # Config!Erased)
        BY <2>7, <3>1 DEF Writes
      <4>3. UNCHANGED entered
        BY <3>1
      <4>4. ASSUME NEW n \in 1 .. Len(todo) - 1
            PROVE  /\ \A m \in n + 1 .. Len(todo) - 1 : m \in 1 .. Len(todo) - 1
                   /\ \A m \in 1 .. n - 1 : m \in 1 .. Len(todo) - 1
        BY <2>7, <3>1
      <4>5. ASSUME NEW n \in 1 .. Len(todo'), Writes(n)'
            PROVE  /\ todo'[n].setting = entered'[todo'[n].page]
                   /\ todo'[n].word \in 0 .. Words[todo'[n].page] - 1 /\ (n = 1 \/ todo'[n].word = 0)
                   /\ \A m \in n + 1 .. Len(todo') : todo'[m].page # todo'[n].page
                   /\ \/ \E m \in 1 .. n - 1 : todo'[m].page = todo'[n].page
                      \/ /\ todo'[n].page \in hurt' \cap saved'
                         /\ \A i \in 1 .. Words[todo'[n].page] :
                              flash'[todo'[n].page][i] =
                                IF i <= todo'[n].word THEN todo'[n].setting ELSE Config!Erased
        <5>1. n \in 1 .. Len(todo) - 1 /\ todo'[n] = todo[n + 1] /\ todo[n + 1].setting # Config!Erased
          BY <4>2, <4>5
        <5>2. /\ \A m \in n + 1 .. Len(todo) - 1 : todo'[m] = todo[m + 1]
              /\ \A m \in 1 .. n - 1 : todo'[m] = todo[m + 1]
          BY <4>2, <4>4, <5>1
        <5> DEFINE d == todo[n + 1]
        <5>3. /\ d.setting = entered[d.page] /\ d.word \in 0 .. Words[d.page] - 1 /\ d.word = 0
              /\ \A m \in n + 1 .. Len(todo) - 1 : todo[m + 1].page # d.page
              /\ \/ \E m \in 1 .. n - 1 : todo[m + 1].page = d.page
                 \/ /\ d.page \in hurt' \cap saved'
                    /\ \A i \in 1 .. Words[d.page] :
                         flash'[d.page][i] = IF i <= d.word THEN d.setting ELSE Config!Erased
          BY <4>1, <5>1
        <5>4. todo'[n] = d /\ Len(todo') = Len(todo) - 1 /\ entered' = entered
          BY <4>2, <4>3, <5>1
        <5> HIDE DEF d
        <5>5. \A m \in n + 1 .. Len(todo') : todo'[m].page # d.page
          BY <5>2, <5>3, <5>4
        <5>6. (\E m \in 1 .. n - 1 : todo[m + 1].page = d.page) => \E m \in 1 .. n - 1 : todo'[m].page = d.page
          BY <5>2
        <5>7. QED
          BY <5>3, <5>4, <5>5, <5>6
      <4>6. QED
        BY <4>2, <4>5 DEF TodoInd
    <3>5. Config!PagesRight'
      <4>1. ASSUME NEW p \in Config!Pages, p \notin hurt', \A n \in DOMAIN todo' : todo'[n].page # p
            PROVE  flash'[p] = Config!Page(p, entered[p])
        <5>1. p \notin hurt /\ p # c.page
          BY <3>1, <4>1
        <5>2. \A n \in 1 .. Len(todo) - 1 : todo[n + 1].page # p
          <6>1. \A n \in 1 .. Len(todo) - 1 : todo'[n] = todo[n + 1] /\ n \in DOMAIN todo'
            BY <2>7, <3>1
          <6>2. QED
            BY <4>1, <6>1
        <5>3. QED
          BY <2>10, <3>1, <3>2, <5>1, <5>2
      <4>2. QED
        BY <3>1, <4>1 DEF Config!PagesRight, Config!Page
    <3>6. Config!RunsOnFlags' /\ Config!DefaultsOnlyIf'
      BY <2>1, <3>1, <3>2 DEF Config!RunsOnFlags, Config!DefaultsOnlyIf
    <3>7. QED
      BY <2>1, <2>5, <2>7, <3>1, <3>2, <3>3, <3>4, <3>5, <3>6
  <2>16. CASE Config!WriteWord
    <3> DEFINE c == todo[1]
               last == c.word + 1 = Words[c.page]
    <3>1. /\ todo # <<>> /\ c.setting # Config!Erased
          /\ flash' = [flash EXCEPT ![c.page][c.word + 1] = c.setting]
          /\ todo' = IF last THEN Tail(todo) ELSE [todo EXCEPT ![1].word = @ + 1]
          /\ hurt' = IF last THEN hurt \ {c.page} ELSE hurt
          /\ UNCHANGED <<ram, doing, faults, entered, saved, cause>>
      BY <2>16, <2>7 DEF Config!WriteWord
    <3>2. /\ 1 \in 1 .. Len(todo) /\ Len(todo) \in Nat /\ Writes(1) /\ c \in Calls
          /\ c.page \in Config!Pages
      BY <2>7, <3>1 DEF Writes
    <3>3. /\ c.setting = entered[c.page] /\ c.word \in 0 .. Words[c.page] - 1
          /\ c.page \in hurt \cap saved
          /\ \A i \in 1 .. Words[c.page] :
               flash[c.page][i] = IF i <= c.word THEN c.setting ELSE Config!Erased
          /\ \A m \in 2 .. Len(todo) : todo[m].page # c.page
      BY <2>8, <3>2
    <3>4. /\ c.word + 1 \in 1 .. Words[c.page] /\ c.word \in Nat /\ Words[c.page] \in Nat
      BY <1>1, <3>2, <3>3
    <3>5. /\ \A i \in 1 .. Words[c.page] :
               flash'[c.page][i] = IF i <= c.word + 1 THEN c.setting ELSE Config!Erased
          /\ flash'[c.page] = [i \in 1 .. Words[c.page] |-> flash'[c.page][i]]
          /\ \A p \in Config!Pages : p # c.page => flash'[p] = flash[p]
          /\ flash' = [p \in Config!Pages |-> flash'[p]]
      <4>1. /\ flash = [p \in Config!Pages |-> flash[p]]
            /\ flash[c.page] = [i \in 1 .. Words[c.page] |-> flash[c.page][i]]
        BY <2>1, <3>2
      <4>2. /\ flash'[c.page] = [flash[c.page] EXCEPT ![c.word + 1] = c.setting]
            /\ \A p \in Config!Pages : p # c.page => flash'[p] = flash[p]
            /\ flash' = [p \in Config!Pages |-> flash'[p]]
        BY <3>1, <3>2, <4>1
      <4>3. ASSUME NEW i \in 1 .. Words[c.page]
            PROVE  flash'[c.page][i] = IF i <= c.word + 1 THEN c.setting ELSE Config!Erased
        <5>1. CASE i = c.word + 1
          <6>1. flash'[c.page][i] = c.setting
            BY <4>1, <4>2, <5>1
          <6>2. i <= c.word + 1
            BY <3>4, <5>1
          <6>3. QED
            BY <6>1, <6>2
        <5>2. CASE i # c.word + 1
          <6>1. flash'[c.page][i] = flash[c.page][i]
            BY <4>1, <4>2, <5>2
          <6>2. i <= c.word + 1 <=> i <= c.word
            BY <3>4, <5>2
          <6>3. QED
            BY <3>3, <6>1, <6>2
        <5>3. QED
          BY <5>1, <5>2
      <4>4. flash'[c.page] = [i \in 1 .. Words[c.page] |-> flash'[c.page][i]]
        BY <4>1, <4>2
      <4>5. QED
        BY <4>2, <4>3, <4>4
    <3>6. flash' = [p \in Config!Pages |-> [i \in 1 .. Words[p] |-> flash'[p][i]]]
      <4>1. \A p \in Config!Pages : flash'[p] = [i \in 1 .. Words[p] |-> flash'[p][i]]
        BY <2>1, <3>5
      <4>2. QED
        BY <3>5, <4>1
    <3>7. Config!RunsOnFlags' /\ Config!DefaultsOnlyIf'
      BY <2>1, <3>1, <3>3, <3>5 DEF Config!RunsOnFlags, Config!DefaultsOnlyIf
    <3>8. CASE last
      <4>1. todo' = Tail(todo) /\ hurt' = hurt \ {c.page}
        BY <3>1, <3>8
      <4>2. TodoInd'
        BY <2>9, <3>1, <3>2, <3>5, <4>1
      <4>3. flash'[c.page] = Config!Page(c.page, entered[c.page])
        <5>1. \A i \in 1 .. Words[c.page] : flash'[c.page][i] = entered[c.page]
          <6>1. \A i \in 1 .. Words[c.page] : i <= c.word + 1
            BY <3>4, <3>8
          <6>2. QED
            BY <3>3, <3>5, <6>1
        <5>2. QED
          BY <3>5, <5>1 DEF Config!Page
      <4>4. Config!PagesRight'
        <5>1. ASSUME NEW p \in Config!Pages, p \notin hurt', \A n \in DOMAIN todo' : todo'[n].page # p,
                     p # c.page
              PROVE  flash'[p] = Config!Page(p, entered[p])
          <6>1. p \notin hurt
            BY <4>1, <5>1
          <6>2. \A n \in 1 .. Len(todo) - 1 : todo[n + 1].page # p
            <7>1. \A n \in 1 .. Len(todo) - 1 : todo'[n] = todo[n + 1] /\ n \in DOMAIN todo'
              BY <2>7, <3>1, <4>1
            <7>2. QED
              BY <5>1, <7>1
          <6>3. QED
            BY <2>10, <3>1, <3>5, <5>1, <6>1, <6>2
        <5>2. QED
          BY <3>1, <4>3, <5>1 DEF Config!PagesRight, Config!Page
      <4>5. QED
        BY <2>1, <2>5, <2>7, <3>1, <3>6, <3>7, <4>1, <4>2, <4>4
    <3>9. CASE ~last
      <4>1. todo' = [todo EXCEPT ![1].word = @ + 1] /\ hurt' = hurt
        BY <3>1, <3>9
      <4>2. /\ todo' \in Seq(Calls) /\ Len(todo') = Len(todo)
            /\ todo'[1] = [c EXCEPT !.word = @ + 1]
            /\ \A n \in 2 .. Len(todo) : todo'[n] = todo[n]
        <5>1. [c EXCEPT !.word = @ + 1] \in Calls
          BY <3>2, <3>4 DEF Calls
        <5>2. todo' = [todo EXCEPT ![1] = [c EXCEPT !.word = @ + 1]]
          BY <4>1
        <5>3. QED
          BY <2>7, <3>1, <3>2, <5>1, <5>2
      <4>3. /\ todo'[1].page = c.page /\ todo'[1].setting = c.setting /\ todo'[1].word = c.word + 1
            /\ \A n \in 1 .. Len(todo) : todo'[n].page = todo[n].page /\ todo'[n].setting = todo[n].setting
        <5>1. c = [page |-> c.page, setting |-> c.setting, word |-> c.word]
          BY <3>2 DEF Calls
        <5>2. todo'[1].page = c.page /\ todo'[1].setting = c.setting /\ todo'[1].word = c.word + 1
          BY <4>2, <5>1
        <5>3. \A n \in 1 .. Len(todo) : n = 1 \/ n \in 2 .. Len(todo)
          BY <3>2
        <5>4. QED
          BY <4>2, <5>2, <5>3
      <4>4. TodoInd'
        <5>1. ASSUME NEW n \in 1 .. Len(todo), todo[n].setting # Config!Erased
              PROVE  /\ todo[n].setting = entered[todo[n].page]
                     /\ todo'[n].word \in 0 .. Words[todo[n].page] - 1 /\ (n = 1 \/ todo'[n].word = 0)
                     /\ \A m \in n + 1 .. Len(todo) : todo[m].page # todo[n].page
                     /\ \/ \E m \in 1 .. n - 1 : todo[m].page = todo[n].page
                        \/ /\ todo[n].page \in hurt' \cap saved'
                           /\ \A i \in 1 .. Words[todo[n].page] :
                                flash'[todo[n].page][i] =
                                  IF i <= todo'[n].word THEN todo[n].setting ELSE Config!Erased
          <6>1. CASE n = 1
            <7>1. c.word + 1 \in 0 .. Words[c.page] - 1
              BY <3>3, <3>4, <3>9
            <7>2. QED
              BY <3>1, <3>3, <3>5, <4>1, <4>3, <6>1, <7>1, SMTT(30)
          <6>2. CASE n # 1
            <7>1. n \in 2 .. Len(todo) /\ Writes(n)
              BY <3>2, <5>1, <6>2 DEF Writes
            <7>2. todo'[n] = todo[n] /\ todo[n].page # c.page
              BY <3>3, <4>2, <7>1
            <7>3. flash'[todo[n].page] = flash[todo[n].page]
              <8>1. todo[n].page \in Config!Pages
                BY <2>7, <3>1
              <8>2. QED
                BY <3>5, <7>2, <8>1
            <7>4. hurt' = hurt /\ saved' = saved
              BY <3>1, <4>1
            <7>5. QED
              BY <2>8, <7>1, <7>2, <7>3, <7>4
          <6>3. QED
            BY <6>1, <6>2
        <5>2. \A n \in 1 .. Len(todo) : Writes(n)' <=> todo[n].setting # Config!Erased
          BY <4>3 DEF Writes
        <5>3. ASSUME NEW n \in 1 .. Len(todo)
              PROVE  \A m : m \in n + 1 .. Len(todo) \/ m \in 1 .. n - 1 => m \in 1 .. Len(todo)
          BY <3>2
        <5>4. UNCHANGED entered
          BY <3>1
        <5>5. QED
          BY <4>2, <4>3, <5>1, <5>2, <5>3, <5>4 DEF TodoInd
      <4>5. Config!PagesRight'
        <5>1. ASSUME NEW p \in Config!Pages, p \notin hurt', \A n \in DOMAIN todo' : todo'[n].page # p
              PROVE  flash'[p] = Config!Page(p, entered[p])
          <6>1. p \notin hurt /\ p # c.page
            BY <3>3, <4>1, <5>1
          <6>2. \A n \in 1 .. Len(todo) - 1 : todo[n + 1].page # p
            <7>1. \A n \in 1 .. Len(todo) - 1 : n + 1 \in 1 .. Len(todo) /\ n + 1 \in DOMAIN todo'
              BY <3>2, <4>2
            <7>2. QED
              BY <4>3, <5>1, <7>1
          <6>3. QED
            BY <2>10, <3>1, <3>5, <6>1, <6>2
        <5>2. QED
          BY <3>1, <5>1 DEF Config!PagesRight, Config!Page
      <4>6. doing' \notin {"boot", "held", "run"}
        BY <2>7, <3>1
      <4>7. QED
        BY <2>1, <2>5, <3>1, <3>6, <3>7, <4>1, <4>4, <4>5, <4>6
    <3>10. QED
      BY <3>8, <3>9
  <2>17. CASE Config!WriteFails
    <3> DEFINE c == todo[1]
    <3>1. /\ todo # <<>> /\ c.setting # Config!Erased /\ todo' = Tail(todo)
          /\ UNCHANGED <<flash, ram, doing, entered, hurt, saved, cause>>
      BY <2>17, <2>7 DEF Config!WriteFails
    <3>2. /\ c.page \in hurt \cap saved
          /\ \A m \in 2 .. Len(todo) : todo[m].page # c.page
      <4>1. 1 \in 1 .. Len(todo) /\ Writes(1)
        BY <2>7, <3>1 DEF Writes
      <4>2. QED
        BY <2>8, <4>1
    <3>3. TodoInd'
      <4>1. \A p \in Config!Pages : p # c.page => flash'[p] = flash[p] /\ (p \in hurt => p \in hurt')
        BY <3>1
      <4>2. Writes(1)
        BY <3>1 DEF Writes
      <4>3. QED
        BY <2>9, <3>1, <4>1, <4>2
    <3>4. Config!PagesRight'
      <4>1. ASSUME NEW p \in Config!Pages, p \notin hurt', \A n \in DOMAIN todo' : todo'[n].page # p
            PROVE  flash'[p] = Config!Page(p, entered[p])
        <5>1. p \notin hurt /\ p # c.page
          BY <3>1, <3>2, <4>1
        <5>2. \A n \in 1 .. Len(todo) - 1 : todo[n + 1].page # p
          <6>1. \A n \in 1 .. Len(todo) - 1 : todo'[n] = todo[n + 1] /\ n \in DOMAIN todo'
            BY <2>7, <3>1
          <6>2. QED
            BY <4>1, <6>1
        <5>3. QED
          BY <2>10, <3>1, <5>1, <5>2
      <4>2. QED
        BY <3>1, <4>1 DEF Config!PagesRight, Config!Page
    <3>5. Config!RunsOnFlags' /\ Config!DefaultsOnlyIf'
      BY <2>1, <3>1 DEF Config!RunsOnFlags, Config!DefaultsOnlyIf
    <3>6. QED
      BY <2>1, <2>5, <2>7, <3>1, <3>3, <3>4, <3>5
  <2>18. CASE Config!Finish
    <3>1. /\ UNCHANGED <<flash, ram, todo, faults, entered, hurt, saved>> /\ todo = <<>>
          /\ (doing' = "run" /\ doing = "save") \/ doing' = "boot"
      BY <2>18 DEF Config!Finish
    <3>2. TodoInd' /\ Config!PagesRight'
      BY <2>2, <2>4, <3>1
    <3>3. Config!RunsOnFlags' /\ Config!DefaultsOnlyIf'
      BY <2>1, <3>1 DEF Config!RunsOnFlags, Config!DefaultsOnlyIf
    <3>4. QED
      BY <2>1, <2>5, <3>1, <3>2, <3>3
  <2>19. CASE Config!PowerCut
    <3>1. /\ doing' = "boot" /\ todo' = <<>> /\ saved' = {} /\ UNCHANGED <<flash, entered>>
          /\ hurt' = hurt \cup {todo[n].page : n \in DOMAIN todo}
      BY <2>19 DEF Config!PowerCut
    <3>2. hurt' \subseteq Config!Pages
      <4>1. \A n \in DOMAIN todo : todo[n] \in Calls
        BY <2>1 DEF TodoInd
      <4>2. QED
        BY <2>1, <3>1, <4>1 DEF Calls
    <3>3. Config!PagesRight'
      BY <2>1, <3>1 DEF Config!PagesRight
    <3>4. Config!RunsOnFlags' /\ Config!DefaultsOnlyIf'
      BY <3>1 DEF Config!RunsOnFlags, Config!DefaultsOnlyIf
    <3>5. QED
      BY <2>1, <2>3, <2>5, <3>1, <3>2, <3>3, <3>4
  <2>20. CASE UNCHANGED Config!vars
    <3>1. UNCHANGED <<flash, ram, doing, todo, faults, entered, hurt, saved, cause>>
      BY <2>20 DEF Config!vars
    <3>2. TodoInd' /\ Config!PagesRight'
      BY <2>2, <2>4, <3>1
    <3>3. Config!RunsOnFlags' /\ Config!DefaultsOnlyIf'
      BY <2>1, <3>1 DEF Config!RunsOnFlags, Config!DefaultsOnlyIf
    <3>4. QED
      BY <2>1, <2>5, <3>1, <3>2, <3>3
  <2>21. QED
    BY <2>11, <2>12, <2>13, <2>14, <2>15, <2>16, <2>17, <2>18, <2>19, <2>20 DEF Config!Next, Config!Program, Config!User
<1>4. QED
  BY <1>2, <1>3, PTL DEF Config!Spec

(* Whatever is posted, and wherever power fails or a word is not written,  *)
(* a page holds what was last entered for it unless its last writing was   *)
(* cut short; the program runs on pages that have their flags, and the     *)
(* defaults are restored only if the button was held or a page was hurt    *)
(* (main.c and HTTPS.c).                                                   *)
THEOREM ConfigRight == Config!Spec => []Config!ConfigInv
<1>1. ConfigInd => Config!ConfigInv
  BY DEF ConfigInd
<1>2. Config!Spec => []ConfigInd
  BY FormsRead, ConfigInvariant
<1>3. QED
  BY <1>1, <1>2, PTL

-----------------------------------------------------------------------------
(* The server.                                                             *)

(* So sequences in a row are one.                                          *)
LEMMA FlattenIn ==
  ASSUME NEW S, NEW s, NEW l \in Nat, DOMAIN s = 1 .. l, Len(s) = l, \A i \in 1 .. l : s[i] \in Seq(S)
  PROVE  Server!FlattenSeq(s) \in Seq(S) \/ (l = 0 /\ Server!FlattenSeq(s) = s)
<1> DEFINE g == CHOOSE f : Flats(f, s, l)
<1>1. Server!FlattenSeq(s) = IF l = 0 THEN s ELSE g[l]
  BY DEF Server!FlattenSeq, Flats
<1>2. Flats(g, s, l)
  BY FlatsExist
<1> HIDE DEF g
<1>3. \A i \in 1 .. l : g[i] \in Seq(S)
  BY <1>2, FlatsIn
<1>4. CASE l = 0
  BY <1>1, <1>4
<1>5. CASE l # 0
  BY <1>1, <1>3, <1>5
<1>6. QED
  BY <1>4, <1>5

(* The program is busy with what came in on one socket.                    *)
Answering == serving \in {"serve", "header", "page", "sent"}

(* The words of the pages as they are shown, and what is sent.             *)
Filled ==
  ((UNION {Server!ToSet(Template[name]) : name \in DOMAIN Template})
     \cup (UNION {Server!ToSet(Value[word]) : word \in DOMAIN Value})) \ DOMAIN Value

(* What is sent of an answer, and the answer.                              *)
Sendable == {"head"} \cup Filled

(* The headers.                                                            *)
Heads == [type : {"ERR"} \cup {TypeOf[name] : name \in DOMAIN TypeOf}, len : Nat]

(* The answers.                                                            *)
Answers == [head : Heads, sent : Seq(Sendable)]

(* What happens on a socket.                                               *)
Events == {"connect", "recv", "disconnect", "timeout"}

(* What is said to have come in did, wherever the connection is by then.   *)
SocketInd ==
  /\ mode \in {"server", "client"}
  /\ sockets \in [Server!Sockets -> {"free", "listener", "server", "client", "http"}]
  /\ ids \in [listen : Server!Sockets, cfg : Server!Sockets]
  /\ ints \in [Server!Sockets -> SUBSET Events]
  /\ DOMAIN incoming = Server!Sockets
  /\ serving \in {"listen", "configure", "loop", "scan", "recv", "serve", "header", "page", "sent", "events"}
  /\ cur \in Nat
  /\ serving = "listen" => \A i \in Server!Sockets : sockets[i] = "free"
  /\ serving \notin {"listen", "configure", "loop", "scan"} => cur \in Server!Sockets /\ ints[cur] = {}
  /\ \A i \in Server!Sockets : sockets[i] = "http" /\ "recv" \in ints[i] => incoming[i] \in Received
  /\ serving = "recv" /\ sockets[cur] = "http" /\ "recv" \in stat => incoming[cur] \in Received
  /\ serving = "events" => sockets[cur] # "http" \/ "recv" \notin stat
  /\ serving # "listen" => sockets[ids.listen] = "listener"
  /\ Answering => sockets[cur] \in {"http", "free"}

(* The part of HtmlBuffer that is a page.                                  *)
Html == SubSeq(html, 1, pagelen)

(* A request that came alone, with no word of another.                     *)
Alone == Len(buffer.requests) = 1 /\ buffer.requests[1].also = {}

(* The page that is its answer.                                            *)
AlonePage ==
  LET r == buffer.requests[1]
  IN  IF r.name \in (IF r.method = "GET" THEN Server!Shown ELSE Server!Posted)
      THEN Server!Refresh_Html(r.name) ELSE <<>>

(* What has been sent and what is being sent of an answer are the header   *)
(* and then the page that HtmlBuffer holds.                                *)
AnswerInd ==
  /\ html \in Seq(Filled)
  /\ ~Answering => buffer = Server!Nothing /\ pagelen = 0 /\ answers = <<>> /\ ~gaveUp
  /\ Answering =>
       /\ buffer.requests \in Received /\ buffer = [requests |-> buffer.requests, cleared |-> buffer.cleared]
       /\ reqnum \in Nat /\ pagelen \in {0, Len(html)} /\ answers \in Seq(Answers)
       /\ Len(answers) + reqnum <= Server!CountWords(buffer)
       /\ Len(buffer.requests) > 1 => Len(answers) + reqnum = Server!CountWords(buffer)
       /\ ~buffer.cleared =>
            answers = <<>> /\ reqnum = Server!CountWords(buffer) /\ pagelen = 0 /\ ~gaveUp /\ serving = "serve"
       /\ buffer.cleared => answers # <<>>
       /\ ~gaveUp => \A n \in 1 .. Len(answers) :
            n < Len(answers) \/ serving \in {"serve", "sent"} =>
              Len(answers[n].sent) = 1 + answers[n].head.len
       /\ serving \in {"header", "page"} =>
            /\ buffer.cleared /\ sending.data \in Seq(Sendable) /\ Last(answers).head.len = pagelen
            /\ ~gaveUp => Last(answers).sent \o sending.data = IF serving = "header" THEN <<"head">> ELSE <<"head">> \o Html
       /\ Alone /\ buffer.cleared =>
            /\ AlonePage = Html
            /\ answers[1].head = [type |-> TypeOf[buffer.requests[1].name], len |-> pagelen]
            /\ serving \in {"serve", "sent"} /\ ~gaveUp => answers[1].sent = <<"head">> \o Html

(* The first free socket is one.                                           *)
LEMMA FirstFreeIn ==
  ASSUME Server!Free # {}
  PROVE  Server!FirstFree \in Server!Sockets /\ sockets[Server!FirstFree] = "free"
<1>1. Server!Free \subseteq Nat
  BY ProgramsAssumption DEF Server!WebServerAssumption, Server!Free, Server!Sockets
<1>2. \E n \in Server!Free : \A m \in Server!Free : n <= m
  BY <1>1, LeastOf
<1>3. Server!FirstFree \in Server!Free
  BY <1>2 DEF Server!FirstFree
<1>4. QED
  BY <1>3 DEF Server!Free

(* A page as it is shown has no parameter left.                            *)
LEMMA HtmlFilled ==
  ASSUME NEW name \in DOMAIN Template
  PROVE  Server!Refresh_Html(name) \in Seq(Filled)
<1> DEFINE t == Template[name]
           s == [n \in DOMAIN t |-> IF t[n] \in DOMAIN Value THEN Value[t[n]] ELSE <<t[n]>>]
<1>1. /\ t \in Seq(Server!ToSet(t))
      /\ \A word \in DOMAIN Value : Value[word] \in Seq(Server!ToSet(Value[word]) \ DOMAIN Value)
  BY ProgramsAssumption DEF Server!WebServerAssumption
<1>2. Len(t) \in Nat /\ DOMAIN t = 1 .. Len(t)
  BY <1>1
<1>3. DOMAIN s = 1 .. Len(t) /\ Len(s) = Len(t)
  BY <1>2
<1>4. ASSUME NEW i \in 1 .. Len(t) PROVE s[i] \in Seq(Filled)
  <2> DEFINE w == t[i]
  <2>1. s[i] = (IF w \in DOMAIN Value THEN Value[w] ELSE <<w>>) /\ w \in Server!ToSet(t)
    BY <1>2 DEF Server!ToSet
  <2> HIDE DEF w, s
  <2>2. CASE w \in DOMAIN Value
    <3>1. Value[w] \in Seq(Server!ToSet(Value[w]) \ DOMAIN Value)
      BY <1>1, <2>2
    <3>2. \A x \in Server!ToSet(Value[w]) \ DOMAIN Value : x \in Filled
      BY <2>2 DEF Filled
    <3>3. QED
      BY <2>1, <2>2, <3>1, <3>2
  <2>3. CASE w \notin DOMAIN Value
    <3>1. w \in Filled
      BY <2>1, <2>3 DEF Filled
    <3>2. <<w>> \in Seq(Filled)
      BY <3>1
    <3>3. QED
      BY <2>1, <2>3, <3>2
  <2>4. QED
    BY <2>2, <2>3
<1>5. Server!Refresh_Html(name) = Server!FlattenSeq(s)
  BY DEF Server!Refresh_Html
<1>6. Len(t) = 0 => s \in Seq(Filled)
  <2>1. Len(t) = 0 => s = <<>>
    BY <1>3
  <2>2. QED
    BY <2>1
<1> HIDE DEF t, s
<1>7. QED
  BY <1>2, <1>3, <1>4, <1>5, <1>6, FlattenIn

(* Every request is counted.                                               *)
LEMMA WordsCounted ==
  ASSUME NEW b, b.requests \in Received
  PROVE  /\ Len(b.requests) \in Nat \ {0} /\ DOMAIN b.requests = 1 .. Len(b.requests)
         /\ \A n \in 1 .. Len(b.requests) :
              b.requests[n] \in [method : Server!Methods, name : DOMAIN TypeOf, also : SUBSET Server!Methods]
         /\ Server!CountWords(b) \in Nat /\ Server!CountWords(b) >= Len(b.requests)
         /\ Len(b.requests) = 1 /\ b.requests[1].also = {} => Server!CountWords(b) = 1
<1> DEFINE r == b.requests
           R == [method : Server!Methods, name : DOMAIN TypeOf, also : SUBSET Server!Methods]
           Also(n) == {n} \X r[n].also
           U == UNION {Also(n) : n \in DOMAIN r}
<1>1. r \in Seq(R) /\ r # <<>>
  BY ProgramsAssumption DEF Server!WebServerAssumption
<1> HIDE DEF R
<1>2. Len(r) \in Nat \ {0} /\ DOMAIN r = 1 .. Len(r) /\ \A n \in 1 .. Len(r) : r[n] \in R
  BY <1>1
<1>3. \A n \in DOMAIN r : r[n].also \subseteq Server!Methods
  BY <1>2 DEF R
<1>4. IsFiniteSet(1 .. Len(r)) /\ IsFiniteSet(Server!Methods)
  <2>1. IsFiniteSet({"GET"})
    BY FS_Singleton
  <2>2. IsFiniteSet({"GET"} \cup {"POST"})
    BY <2>1, FS_AddElement
  <2>3. Server!Methods = {"GET"} \cup {"POST"}
    BY DEF Server!Methods
  <2>4. QED
    BY <1>2, <2>2, <2>3, FS_Interval
<1>5. IsFiniteSet((1 .. Len(r)) \X Server!Methods)
  BY <1>4, FS_Product
<1>6. U \subseteq (1 .. Len(r)) \X Server!Methods
  BY <1>2, <1>3
<1>7. IsFiniteSet(U)
  BY <1>5, <1>6, FS_Subset
<1>8. Cardinality(U) \in Nat
  BY <1>7, FS_CardinalityType
<1>9. Len(r) = 1 /\ r[1].also = {} => U = {}
  BY <1>2
<1>10. Server!CountWords(b) = Len(r) + Cardinality(U)
  BY DEF Server!CountWords, Cardinality, Server!Cardinality
<1> HIDE DEF U
<1>11. Len(r) = 1 /\ r[1].also = {} => Server!CountWords(b) = 1
  BY <1>9, <1>10, FS_EmptySet
<1>12. QED
  BY <1>2, <1>8, <1>10, <1>11 DEF R

(* It holds of every state of the server.                                  *)
LEMMA SocketInvariant == Server!Spec => []SocketInd
<1>1. MaxSockets \in Nat /\ MaxSockets > 2 /\ <<>> \notin Received
  BY ProgramsAssumption DEF Server!WebServerAssumption
<1>2. Server!Init => SocketInd
  BY <1>1 DEF Server!Init, SocketInd, Answering, Server!Sockets, Events
<1>3. SocketInd /\ [Server!Next]_(Server!vars) => SocketInd'
  <2> SUFFICES ASSUME SocketInd, [Server!Next]_(Server!vars) PROVE SocketInd'
    OBVIOUS
  <2>1. ASSUME Server!Free # {}
        PROVE  Server!FirstFree \in Server!Sockets /\ sockets[Server!FirstFree] = "free"
    BY <2>1, FirstFreeIn
  <2>2. ASSUME Server!CreateCfgSocket
        PROVE  /\ sockets' \in [Server!Sockets -> {"free", "listener", "server", "client", "http"}]
               /\ ids' \in [listen : Server!Sockets, cfg : Server!Sockets] /\ ids'.listen = ids.listen
               /\ \A i \in Server!Sockets : sockets'[i] = sockets[i] \/ (sockets[i] = "free" /\ sockets'[i] = mode)
    <3>1. CASE Server!Free = {}
      BY <2>2, <3>1 DEF Server!CreateCfgSocket, SocketInd
    <3>2. CASE Server!Free # {}
      BY <2>1, <2>2, <3>2 DEF Server!CreateCfgSocket, SocketInd
    <3>3. QED
      BY <3>1, <3>2
  <2>3. CASE Server!Accept
    BY <2>3 DEF Server!Accept, Server!Raise, Server!Free, SocketInd, Answering, Server!serverVars, Server!boundVars, Events
  <2>4. CASE Server!Deliver
    <3>1. PICK i \in Server!Sockets : \E requests \in IF sockets[i] = "http" THEN Received ELSE {<<>>} :
            /\ sockets[i] \in {"http", "client"} /\ incoming[i] = <<>>
            /\ incoming' = [incoming EXCEPT ![i] = requests]
            /\ ints' = [ints EXCEPT ![i] = @ \cup {"recv"}]
      BY <2>4 DEF Server!Deliver, Server!Raise
    <3>2. serving = "loop" /\ UNCHANGED <<mode, serving, sockets, ids, cur, stat>>
      BY <2>4 DEF Server!Deliver
    <3>3. QED
      BY <3>1, <3>2 DEF SocketInd, Answering, Events
  <2>5. ASSUME NEW event \in {"disconnect", "timeout"}, Server!Lose(event) PROVE SocketInd'
    BY <2>5 DEF Server!Lose, Server!Raise, SocketInd, Answering, Server!serverVars, Events
  <2>6. CASE Server!CreateTcpSocketListen
    <3>1. Server!Free # {}
      <4>1. 0 \in Server!Sockets
        BY <1>1 DEF Server!Sockets
      <4>2. QED
        BY <2>6, <4>1 DEF Server!CreateTcpSocketListen, Server!Free, SocketInd
    <3>2. QED
      BY <2>6, <2>1, <3>1 DEF Server!CreateTcpSocketListen, SocketInd, Answering, Server!serverVars, Server!boundVars
  <2>7. CASE Server!Configure
    <3>1. /\ serving = "configure" /\ serving' = "loop"
          /\ UNCHANGED <<mode, ints, incoming, cur, stat>> /\ Server!CreateCfgSocket
      BY <2>7 DEF Server!Configure
    <3>2. QED
      BY <2>2, <3>1 DEF SocketInd, Answering
  <2>8. CASE Server!Scan
    <3> DEFINE left == {i \in cur .. MaxSockets - 1 : ints[i] # {}}
               i == CHOOSE n \in left : \A m \in left : n <= m
    <3>1. /\ serving \in {"scan", "loop"} /\ UNCHANGED <<mode, sockets, ids, incoming>>
          /\ left = {} => serving' = "loop" /\ cur' = 0 /\ UNCHANGED <<stat, ints>>
          /\ left # {} => cur' = i /\ stat' = ints[i] /\ ints' = [ints EXCEPT ![i] = {}] /\ serving' = "recv"
      BY <2>8 DEF Server!Scan
    <3>2. left # {} => i \in left
      <4>1. left \subseteq Nat
        BY <1>1 DEF SocketInd
      <4>2. left # {} => \E n \in left : \A m \in left : n <= m
        BY <4>1, LeastOf
      <4> HIDE DEF left
      <4>3. QED
        BY <4>2
    <3>3. left # {} => i \in Server!Sockets
      BY <1>1, <3>2 DEF SocketInd, Server!Sockets
    <3> HIDE DEF left, i
    <3>4. CASE left = {}
      BY <3>1, <3>4 DEF SocketInd, Answering
    <3>5. CASE left # {}
      <4>1. i \in Nat
        BY <1>1, <3>3, <3>5 DEF Server!Sockets
      <4>2. QED
        BY <3>1, <3>3, <3>5, <4>1 DEF SocketInd, Answering
    <3>6. QED
      BY <3>4, <3>5
  <2>9. CASE Server!HandleRecv
    BY <2>9 DEF Server!HandleRecv, SocketInd, Answering
  <2>10. CASE Server!HandleEvents
    <3>1. /\ serving = "events" /\ serving' = "scan" /\ cur' = cur + 1 /\ stat' = {}
          /\ UNCHANGED <<mode, ints, incoming>>
          /\ Server!CreateCfgSocket \/ UNCHANGED <<sockets, ids>>
      BY <2>10 DEF Server!HandleEvents
    <3>2. /\ sockets' \in [Server!Sockets -> {"free", "listener", "server", "client", "http"}]
          /\ ids' \in [listen : Server!Sockets, cfg : Server!Sockets] /\ ids'.listen = ids.listen
          /\ \A i \in Server!Sockets : sockets'[i] = sockets[i] \/ (sockets[i] = "free" /\ sockets'[i] = mode)
      BY <2>2, <3>1 DEF SocketInd
    <3>3. QED
      BY <3>1, <3>2 DEF SocketInd, Answering
  <2>11. CASE Server!Request
    <3>1. serving' \in {"serve", "header"} /\ UNCHANGED <<mode, ids, sockets, ints, incoming, cur, stat>> /\ serving = "serve"
      BY <2>11 DEF Server!Request, Server!loopVars
    <3>2. QED
      BY <3>1 DEF SocketInd, Answering
  <2>12. CASE Server!Data_Send
    <3>1. /\ serving' \in {"header", "page", "sent"} /\ serving \in {"header", "page"}
          /\ UNCHANGED <<mode, ids, sockets, ints, incoming, cur, stat>>
      BY <2>12 DEF Server!Data_Send, Server!loopVars
    <3>2. QED
      BY <3>1 DEF SocketInd, Answering
  <2>13. CASE Server!Sent
    BY <2>13 DEF Server!Sent, SocketInd, Answering
  <2>14. CASE Server!Close
    BY <2>14 DEF Server!Close, SocketInd, Answering
  <2>15. CASE UNCHANGED Server!vars
    BY <2>15 DEF Server!vars, Server!loopVars, SocketInd, Answering
  <2>16. QED
    BY <2>3, <2>4, <2>5, <2>6, <2>7, <2>8, <2>9, <2>10, <2>11, <2>12, <2>13, <2>14, <2>15
       DEF Server!Next, Server!Library, Server!Program
<1>4. QED
  BY <1>2, <1>3, PTL DEF Server!Spec

(* A part of HtmlBuffer.                                                   *)
LEMMA HtmlPart ==
  ASSUME NEW h \in Seq(Filled), NEW l \in {0, Len(h)}
  PROVE  /\ SubSeq(h, 1, l) \in Seq(Sendable) /\ Len(SubSeq(h, 1, l)) = l
         /\ l = 0 => SubSeq(h, 1, l) = <<>>
         /\ l = Len(h) => SubSeq(h, 1, l) = h
<1>1. Len(h) \in Nat /\ l \in Nat /\ Filled \subseteq Sendable
  BY DEF Sendable
<1>2. SubSeq(h, 1, l) \in Seq(Filled) /\ Len(SubSeq(h, 1, l)) = l
  BY <1>1
<1>3. l = 0 => SubSeq(h, 1, l) = <<>>
  BY <1>2
<1>4. l = Len(h) => SubSeq(h, 1, l) = h
  BY <1>1
<1>5. QED
  BY <1>1, <1>2, <1>3, <1>4

(* As does this.                                                           *)
LEMMA AnswerInvariant == Server!Spec => []AnswerInd
<1>1. /\ Server!Posted \subseteq DOMAIN Template /\ Server!Shown \subseteq DOMAIN Template
      /\ DOMAIN Template \subseteq DOMAIN TypeOf
  BY ProgramsAssumption DEF Server!WebServerAssumption, Server!Posted, Server!Shown
<1>2. Server!Init => AnswerInd
  BY DEF Server!Init, AnswerInd, Answering
<1>3. SocketInd /\ AnswerInd /\ [Server!Next]_(Server!vars) => AnswerInd'
  <2> SUFFICES ASSUME SocketInd, AnswerInd, [Server!Next]_(Server!vars) PROVE AnswerInd'
    OBVIOUS
  <2>1. ASSUME UNCHANGED <<html, buffer, pagelen, answers, gaveUp>>, ~Answering, ~Answering'
        PROVE  AnswerInd'
    BY <2>1 DEF AnswerInd
  <2>2. ASSUME UNCHANGED <<html, buffer, pagelen, answers, gaveUp, reqnum, sending>>, UNCHANGED serving
        PROVE  AnswerInd'
    BY <2>2 DEF AnswerInd, Answering, Html, Alone, AlonePage, Last, Server!CountWords
  <2>3. ASSUME Answering
        PROVE  /\ buffer.requests \in Received /\ buffer = [requests |-> buffer.requests, cleared |-> buffer.cleared]
               /\ reqnum \in Nat /\ pagelen \in {0, Len(html)} /\ pagelen \in Nat /\ answers \in Seq(Answers)
               /\ Len(answers) \in Nat
               /\ Len(answers) + reqnum <= Server!CountWords(buffer)
               /\ Len(buffer.requests) > 1 => Len(answers) + reqnum = Server!CountWords(buffer)
               /\ ~buffer.cleared => answers = <<>> /\ reqnum = Server!CountWords(buffer)
               /\ ~buffer.cleared => pagelen = 0 /\ serving = "serve"
               /\ ~buffer.cleared => ~gaveUp
               /\ buffer.cleared => answers # <<>>
               /\ html \in Seq(Filled)
    BY <2>3 DEF AnswerInd
  <2>4. CASE Server!Accept
    BY <2>4, <2>1 DEF Server!Accept, Server!serverVars, Answering
  <2>5. CASE Server!Deliver
    BY <2>5, <2>1 DEF Server!Deliver, Server!serverVars, Answering
  <2>6. ASSUME NEW event, Server!Lose(event) PROVE AnswerInd'
    BY <2>6, <2>1 DEF Server!Lose, Server!serverVars, Answering
  <2>7. CASE Server!CreateTcpSocketListen
    BY <2>7, <2>1 DEF Server!CreateTcpSocketListen, Server!serverVars, Answering
  <2>8. CASE Server!Configure
    BY <2>8, <2>1 DEF Server!Configure, Server!serverVars, Answering
  <2>9. CASE Server!Scan
    BY <2>9, <2>1 DEF Server!Scan, Server!serverVars, Answering
  <2>10. CASE Server!HandleRecv
    <3>1. /\ ~Answering /\ serving = "recv"
          /\ UNCHANGED <<html, pagelen, answers, gaveUp, sending>>
      BY <2>10 DEF Server!HandleRecv, Answering
    <3>2. CASE "recv" \in stat /\ sockets[cur] = "http"
      <4>1. /\ buffer' = [requests |-> incoming[cur], cleared |-> FALSE]
            /\ reqnum' = Server!CountWords(buffer') /\ serving' = "serve"
        BY <2>10, <3>2 DEF Server!HandleRecv
      <4>2. incoming[cur] \in Received
        BY <3>1, <3>2 DEF SocketInd
      <4>3. buffer'.requests \in Received /\ buffer'.cleared = FALSE
            /\ buffer' = [requests |-> buffer'.requests, cleared |-> buffer'.cleared]
        BY <4>1, <4>2
      <4>4. reqnum' \in Nat /\ Server!CountWords(buffer') \in Nat
        BY <4>1, <4>3, WordsCounted
      <4>5. answers' = <<>> /\ Len(answers') = 0 /\ pagelen' = 0 /\ html' \in Seq(Filled) /\ ~gaveUp'
            /\ answers' \in Seq(Answers)
        BY <3>1 DEF AnswerInd
      <4>6. Answering'
        BY <4>1 DEF Answering
      <4>7. QED
        BY <4>1, <4>3, <4>4, <4>5, <4>6 DEF AnswerInd
    <3>3. CASE ~("recv" \in stat /\ sockets[cur] = "http")
      <4>1. UNCHANGED buffer /\ serving' = "events"
        BY <2>10, <3>3 DEF Server!HandleRecv
      <4>2. QED
        BY <2>1, <3>1, <4>1 DEF Answering
    <3>4. QED
      BY <3>2, <3>3
  <2>11. CASE Server!HandleEvents
    BY <2>11, <2>1 DEF Server!HandleEvents, Server!serverVars, Answering
  <2>12. CASE Server!Request
    <3> DEFINE found == Server!MethodFound(buffer)
               parsed == Server!Parsed(buffer)
               r == buffer.requests
               known == parsed.page \in (IF found = "GET" THEN Server!Shown ELSE Server!Posted)
    <3>1. /\ serving = "serve" /\ reqnum > 0 /\ reqnum' = reqnum - 1
          /\ buffer' = [buffer EXCEPT !.cleared = found # "none" \/ @]
          /\ UNCHANGED gaveUp /\ Answering
      BY <2>12 DEF Server!Request, Answering
    <3>2. /\ Len(r) \in Nat \ {0} /\ DOMAIN r = 1 .. Len(r)
          /\ \A n \in 1 .. Len(r) :
               r[n] \in [method : Server!Methods, name : DOMAIN TypeOf, also : SUBSET Server!Methods]
          /\ Server!CountWords(buffer) \in Nat
          /\ Len(r) = 1 /\ r[1].also = {} => Server!CountWords(buffer) = 1
      BY <2>3, <3>1, WordsCounted
    <3>3. /\ buffer'.requests = r /\ (buffer'.cleared <=> (found # "none" \/ buffer.cleared))
          /\ buffer' = [requests |-> buffer'.requests, cleared |-> buffer'.cleared]
          /\ Server!CountWords(buffer') = Server!CountWords(buffer)
          /\ (Alone' <=> Alone)
      <4>1. buffer' = [requests |-> r, cleared |-> found # "none" \/ buffer.cleared]
        BY <2>3, <3>1
      <4>2. buffer'.requests = r /\ (buffer'.cleared <=> (found # "none" \/ buffer.cleared))
        BY <4>1
      <4>3. buffer' = [requests |-> buffer'.requests, cleared |-> buffer'.cleared]
        BY <4>1
      <4>4. QED
        BY <4>2, <4>3 DEF Server!CountWords, Alone
    <3>4. /\ ~buffer.cleared => found # "none"
          /\ Len(r) > 1 => found # "none"
          /\ Alone /\ ~buffer.cleared => found = r[1].method
      <4>1. /\ ~buffer.cleared => r[1].method \in Server!MethodsIn(buffer)
            /\ Len(r) > 1 => r[2].method \in Server!MethodsIn(buffer)
            /\ Alone /\ ~buffer.cleared => Server!MethodsIn(buffer) = {r[1].method}
        <5>1. ~buffer.cleared => r[1].method \in Server!MethodsIn(buffer)
          BY DEF Server!MethodsIn
        <5>2. Len(r) > 1 => 2 \in DOMAIN r \ {1}
          BY <3>2
        <5>3. Len(r) > 1 => r[2].method \in Server!MethodsIn(buffer)
          BY <5>2 DEF Server!MethodsIn
        <5>4. Alone => DOMAIN r = {1} /\ r[1].also = {}
          BY <3>2 DEF Alone
        <5>5. Alone /\ ~buffer.cleared => Server!MethodsIn(buffer) = {r[1].method}
          BY <5>4 DEF Server!MethodsIn
        <5>6. QED
          BY <5>1, <5>3, <5>5
      <4>2. r[1].method \in Server!Methods /\ (Len(r) > 1 => r[2].method \in Server!Methods)
        BY <3>2
      <4>3. QED
        BY <4>1, <4>2 DEF Server!MethodFound, Server!Methods
    <3>5. CASE found = "none"
      <4>1. UNCHANGED <<serving, html, pagelen, head, sending, answers>>
        BY <2>12, <3>5 DEF Server!Request
      <4>2. buffer.cleared /\ buffer'.cleared /\ ~(Len(r) > 1)
        BY <3>3, <3>4, <3>5
      <4>3. Answering' /\ Html' = Html /\ AlonePage' = AlonePage
        BY <3>1, <3>3, <4>1 DEF Answering, Html, AlonePage
      <4>4. reqnum' \in Nat /\ Len(answers') + reqnum' <= Server!CountWords(buffer')
        BY <2>3, <3>1, <3>2, <3>3, <4>1
      <4>5. QED
        BY <2>3, <3>1, <3>3, <4>1, <4>2, <4>3, <4>4 DEF AnswerInd
    <3>6. CASE found # "none"
      <4>1. /\ IF known THEN html' = Server!Refresh_Html(parsed.page) /\ pagelen' = Len(html')
                ELSE UNCHANGED <<html, pagelen>>
            /\ head' = [type |-> parsed.type, len |-> pagelen']
            /\ sending'.data = <<"head">>
            /\ serving' = "header"
            /\ answers' = Append(answers, [head |-> head', sent |-> <<>>])
        BY <2>12, <3>6 DEF Server!Request
      <4>2. html' \in Seq(Filled) /\ pagelen' \in {0, Len(html')}
        <5>1. known => parsed.page \in DOMAIN Template
          BY <1>1
        <5>2. QED
          BY <2>3, <3>1, <4>1, <5>1, HtmlFilled
      <4>3. pagelen' \in Nat
        BY <4>2
      <4>4. parsed.type \in {"ERR"} \cup {TypeOf[name] : name \in DOMAIN TypeOf}
        BY <3>2 DEF Server!Parsed
      <4> DEFINE a == [head |-> head', sent |-> <<>>]
      <4>5. a \in Answers /\ a.sent = <<>> /\ a.head.len = pagelen' /\ a.head = head'
        BY <4>1, <4>3, <4>4 DEF Answers, Heads
      <4> HIDE DEF a, found, parsed, known
      <4>6. /\ answers' \in Seq(Answers) /\ Len(answers') = Len(answers) + 1 /\ answers' # <<>>
            /\ \A n \in 1 .. Len(answers) : answers'[n] = answers[n]
            /\ answers'[Len(answers')] = a
        BY <2>3, <3>1, <4>1, <4>5 DEF a
      <4>7. Answering' /\ buffer'.cleared /\ Last(answers') = a
        BY <3>3, <3>6, <4>1, <4>6 DEF Answering, Last
      <4>8. /\ reqnum' \in Nat /\ Len(answers') + reqnum' = Len(answers) + reqnum
        <5> DEFINE n == Len(answers)
                   m == reqnum
        <5>1. n \in Nat /\ m \in Nat /\ m > 0
          BY <2>3, <3>1
        <5>2. Len(answers') = n + 1 /\ reqnum' = m - 1
          BY <3>1, <4>6
        <5> HIDE DEF n, m
        <5>3. reqnum' \in Nat /\ Len(answers') + reqnum' = n + m
          BY <5>1, <5>2
        <5>4. QED
          BY <5>3 DEF n, m
      <4>9. ~gaveUp' => \A n \in 1 .. Len(answers') : n < Len(answers') =>
              Len(answers'[n].sent) = 1 + answers'[n].head.len
        <5>1. ~gaveUp => \A n \in 1 .. Len(answers) : Len(answers[n].sent) = 1 + answers[n].head.len
          BY <3>1 DEF AnswerInd
        <5>2. \A n \in 1 .. Len(answers') : n < Len(answers') => n \in 1 .. Len(answers)
          BY <2>3, <3>1, <4>6
        <5>3. QED
          BY <3>1, <4>6, <5>1, <5>2
      <4>10. sending'.data \in Seq(Sendable) /\ Last(answers').sent \o sending'.data = <<"head">>
        <5>1. <<"head">> \in Seq(Sendable) /\ <<>> \o <<"head">> = <<"head">>
          BY DEF Sendable
        <5>2. QED
          BY <4>1, <4>5, <4>7, <5>1
      <4>11. ASSUME Alone'
             PROVE  /\ AlonePage' = Html'
                    /\ answers'[1].head = [type |-> TypeOf[buffer'.requests[1].name], len |-> pagelen']
        <5>1. Alone /\ Server!CountWords(buffer) = 1
          BY <3>2, <3>3, <4>11 DEF Alone
        <5>2. answers = <<>> /\ Len(answers) = 0
          BY <2>3, <3>1, <5>1
        <5>3. ~buffer.cleared /\ pagelen = 0
          BY <2>3, <3>1, <5>2
        <5>4. found = r[1].method /\ r[1].method \in Server!Methods
          BY <3>2, <3>4, <5>1, <5>3
        <5>5. parsed.page = r[1].name /\ parsed.type = TypeOf[r[1].name]
          BY <5>4 DEF parsed, found, Server!Parsed, Server!Methods
        <5>6. answers'[1].head = [type |-> TypeOf[r[1].name], len |-> pagelen']
          BY <4>1, <4>5, <4>6, <5>2, <5>5
        <5>7. AlonePage' = IF known THEN Server!Refresh_Html(parsed.page) ELSE <<>>
          BY <3>3, <5>4, <5>5 DEF AlonePage, known
        <5>8. Html' = IF known THEN html' ELSE <<>>
          <6>1. ~known => pagelen' = 0
            BY <4>1, <5>3
          <6>2. QED
            BY <4>1, <4>2, <6>1, HtmlPart DEF Html
        <5>9. QED
          BY <3>3, <4>1, <5>6, <5>7, <5>8
      <4>12. Len(answers') + reqnum' <= Server!CountWords(buffer')
             /\ (Len(buffer'.requests) > 1 => Len(answers') + reqnum' = Server!CountWords(buffer'))
        BY <2>3, <3>1, <3>3, <4>8
      <4>13. QED
        BY <2>3, <3>1, <3>3, <4>1, <4>2, <4>5, <4>6, <4>7, <4>8, <4>9, <4>10, <4>11, <4>12 DEF AnswerInd
    <3>7. QED
      BY <3>5, <3>6
  <2>13. CASE Server!Data_Send
    <3> DEFINE d == sending.data
               k == Len(answers)
    <3>1. PICK n \in 0 .. (IF sockets[cur] = "free" THEN 0 ELSE Len(d)) :
            LET rest == SubSeq(d, n + 1, Len(d))
                ends == sending.tries = 1 \/ rest = <<>>
            IN  /\ answers' = [answers EXCEPT ![k].sent = @ \o SubSeq(d, 1, n)]
                /\ gaveUp' = (gaveUp \/ (ends /\ rest # <<>>))
                /\ IF ~ends
                   THEN /\ sending' = [data |-> rest, tries |-> sending.tries - 1]
                        /\ UNCHANGED serving
                   ELSE /\ serving' = IF serving = "header" THEN "page" ELSE "sent"
                        /\ sending' = [data |-> SubSeq(html, 1, pagelen), tries |-> MaxTries]
      BY <2>13 DEF Server!Data_Send
    <3> DEFINE rest == SubSeq(d, n + 1, Len(d))
               ends == sending.tries = 1 \/ rest = <<>>
               part1 == SubSeq(d, 1, n)
    <3>2. /\ serving \in {"header", "page"} /\ Answering
          /\ UNCHANGED <<buffer, reqnum, pagelen, html>>
      BY <2>13 DEF Server!Data_Send, Answering
    <3>3. /\ buffer.cleared /\ d \in Seq(Sendable) /\ Last(answers).head.len = pagelen
          /\ ~gaveUp => Last(answers).sent \o d = IF serving = "header" THEN <<"head">> ELSE <<"head">> \o Html
      BY <3>2 DEF AnswerInd
    <3>4. k \in Nat \ {0} /\ answers[k] \in Answers /\ Last(answers) = answers[k]
      BY <2>3, <3>2, <3>3 DEF Last
    <3>5. answers[k].sent \in Seq(Sendable) /\ answers[k].head \in Heads
          /\ answers[k] = [head |-> answers[k].head, sent |-> answers[k].sent]
      BY <3>4 DEF Answers
    <3>6. n \in 0 .. Len(d)
      BY <3>1, <3>3
    <3>7. /\ part1 \in Seq(Sendable) /\ rest \in Seq(Sendable)
          /\ answers[k].sent \o part1 \in Seq(Sendable)
          /\ (answers[k].sent \o part1) \o rest = answers[k].sent \o d
      <4> DEFINE t == answers[k].sent
      <4>1. t \in Seq(Sendable) /\ d \in Seq(Sendable) /\ n \in 0 .. Len(d)
        BY <3>3, <3>5, <3>6
      <4> HIDE DEF t, d, k
      <4>2. QED
        BY <4>1, SentWhole, ZenonT(60) DEF t
    <3>8. /\ answers' = [answers EXCEPT ![k].sent = @ \o part1]
          /\ gaveUp' = (gaveUp \/ (ends /\ rest # <<>>))
          /\ ~ends => sending'.data = rest /\ UNCHANGED serving
          /\ ends => serving' = (IF serving = "header" THEN "page" ELSE "sent") /\ sending'.data = Html
      BY <3>1 DEF Html
    <3>9. (~gaveUp' => ~gaveUp) /\ (~gaveUp' /\ ends => rest = <<>>)
      BY <3>8
    <3> DEFINE s == answers[k].sent \o part1
    <3> HIDE DEF rest, ends, part1, d, s
    <3>10. /\ answers' \in Seq(Answers) /\ Len(answers') = k /\ answers' # <<>>
           /\ answers'[k].head = answers[k].head /\ answers'[k].sent = s
           /\ \A m \in 1 .. k : m # k => answers'[m] = answers[m]
           /\ Last(answers') = answers'[k]
      <4>1. s \in Seq(Sendable)
        BY <3>7 DEF s
      <4> DEFINE a == [head |-> answers[k].head, sent |-> s]
      <4>2. a \in Answers /\ a.head = answers[k].head /\ a.sent = s
        BY <3>5, <4>1 DEF Answers
      <4>3. answers' = [answers EXCEPT ![k] = [answers[k] EXCEPT !.sent = s]]
        BY <3>8 DEF s
      <4>4. [answers[k] EXCEPT !.sent = s] = a
        BY <3>5
      <4> HIDE DEF a
      <4>5. answers' = [answers EXCEPT ![k] = a]
        BY <4>3, <4>4
      <4>6. /\ answers' \in Seq(Answers) /\ Len(answers') = k /\ answers'[k] = a
            /\ \A m \in 1 .. k : m # k => answers'[m] = answers[m]
        BY <2>3, <3>2, <3>4, <4>2, <4>5
      <4>7. QED
        BY <3>4, <4>2, <4>6 DEF Last
    <3>11. /\ Answering' /\ Html' = Html /\ (Alone' <=> Alone) /\ AlonePage' = AlonePage
           /\ Server!CountWords(buffer') = Server!CountWords(buffer)
      <4>1. serving' \in {"header", "page", "sent"}
        BY <3>2, <3>8
      <4>2. QED
        BY <3>2, <4>1 DEF Answering, Html, Alone, AlonePage, Server!CountWords
    <3>12. Html \in Seq(Sendable) /\ Len(Html) = pagelen
      BY <2>3, <3>2, HtmlPart DEF Html
    <3>13. ~gaveUp' => s \o rest = IF serving = "header" THEN <<"head">> ELSE <<"head">> \o Html
      BY <3>3, <3>4, <3>7, <3>9 DEF s, d
    <3>14. s \in Seq(Sendable) /\ s \o <<>> = s /\ rest \in Seq(Sendable)
      <4>1. s \in Seq(Sendable) /\ rest \in Seq(Sendable)
        BY <3>7 DEF s
      <4>2. QED
        BY <4>1
    <3>15. ~gaveUp' /\ ends => s = IF serving = "header" THEN <<"head">> ELSE <<"head">> \o Html
      BY <3>9, <3>13, <3>14
    <3>16. serving' \in {"header", "page"} =>
             /\ sending'.data \in Seq(Sendable) /\ Last(answers').head.len = pagelen'
             /\ ~gaveUp' => Last(answers').sent \o sending'.data
                              = IF serving' = "header" THEN <<"head">> ELSE <<"head">> \o Html'
      <4>1. CASE ends
        BY <3>2, <3>3, <3>4, <3>8, <3>10, <3>11, <3>12, <3>15, <4>1
      <4>2. CASE ~ends
        BY <3>2, <3>3, <3>4, <3>8, <3>10, <3>11, <3>13, <3>14, <4>2
      <4>3. QED
        BY <4>1, <4>2
    <3>17. serving' = "sent" /\ ~gaveUp' => s = <<"head">> \o Html /\ Len(s) = 1 + pagelen
      <4>1. serving' = "sent" => ends /\ serving = "page"
        BY <3>2, <3>8
      <4>2. <<"head">> \in Seq(Sendable) /\ Len(<<"head">>) = 1
        BY DEF Sendable
      <4>3. Len(<<"head">> \o Html) = 1 + pagelen
        BY <3>12, <4>2
      <4>4. QED
        BY <3>15, <4>1, <4>3
    <3>18. ~gaveUp' => \A m \in 1 .. Len(answers') :
             m < Len(answers') \/ serving' \in {"serve", "sent"} =>
               Len(answers'[m].sent) = 1 + answers'[m].head.len
      <4>1. ~gaveUp => \A m \in 1 .. k : m < k => Len(answers[m].sent) = 1 + answers[m].head.len
        BY <3>2 DEF AnswerInd
      <4>2. ASSUME ~gaveUp', NEW m \in 1 .. k, m # k PROVE Len(answers'[m].sent) = 1 + answers'[m].head.len
        <5>1. m < k
          BY <3>4, <4>2
        <5>2. QED
          BY <3>9, <3>10, <4>1, <4>2, <5>1
      <4>3. ASSUME ~gaveUp', serving' \in {"serve", "sent"} PROVE Len(answers'[k].sent) = 1 + answers'[k].head.len
        <5>1. serving' = "sent"
          BY <3>2, <3>8, <4>3
        <5>2. QED
          BY <3>3, <3>4, <3>10, <3>17, <4>3, <5>1
      <4>4. k \in Nat /\ \A m \in 1 .. k : ~(m < k) => m = k
        BY <3>4
      <4> HIDE DEF k
      <4>5. QED
        BY <3>10, <4>2, <4>3, <4>4
    <3>19. ASSUME Alone'
           PROVE  /\ AlonePage' = Html'
                  /\ answers'[1].head = [type |-> TypeOf[buffer'.requests[1].name], len |-> pagelen']
                  /\ serving' \in {"serve", "sent"} /\ ~gaveUp' => answers'[1].sent = <<"head">> \o Html'
      <4>1. /\ Alone /\ AlonePage = Html
            /\ answers[1].head = [type |-> TypeOf[buffer.requests[1].name], len |-> pagelen]
        BY <3>2, <3>3, <3>11, <3>19 DEF AnswerInd
      <4>2. Server!CountWords(buffer) = 1
        BY <2>3, <3>2, <4>1, WordsCounted DEF Alone
      <4>3. k = 1
        <5>1. k + reqnum <= 1 /\ reqnum \in Nat
          BY <2>3, <3>2, <4>2
        <5> HIDE DEF k
        <5>2. QED
          BY <3>4, <5>1
      <4>4. serving' \in {"serve", "sent"} => serving' = "sent"
        BY <3>2, <3>8
      <4>5. QED
        BY <3>2, <3>10, <3>11, <3>17, <4>1, <4>3, <4>4
    <3>20. /\ html' \in Seq(Filled) /\ buffer'.requests \in Received
           /\ buffer' = [requests |-> buffer'.requests, cleared |-> buffer'.cleared]
           /\ reqnum' \in Nat /\ pagelen' \in {0, Len(html')}
           /\ Len(answers') + reqnum' <= Server!CountWords(buffer')
           /\ (Len(buffer'.requests) > 1 => Len(answers') + reqnum' = Server!CountWords(buffer'))
           /\ buffer'.cleared
      BY <2>3, <3>2, <3>3, <3>10, <3>11
    <3>21. QED
      BY <3>10, <3>11, <3>16, <3>18, <3>19, <3>20 DEF AnswerInd
  <2>14. CASE Server!Sent
    <3>1. /\ serving = "sent" /\ serving' = "serve" /\ Answering /\ Answering'
          /\ UNCHANGED <<html, buffer, pagelen, answers, gaveUp, reqnum, sending>>
      BY <2>14 DEF Server!Sent, Server!serverVars, Answering
    <3>2. buffer.cleared
      BY <2>3, <3>1
    <3>3. QED
      BY <3>1, <3>2 DEF AnswerInd, Html, Alone, AlonePage, Server!CountWords
  <2>15. CASE Server!Close
    <3>1. /\ ~Answering' /\ buffer' = Server!Nothing /\ pagelen' = 0 /\ answers' = <<>> /\ ~gaveUp'
          /\ UNCHANGED html
      BY <2>15 DEF Server!Close, Answering
    <3>2. QED
      BY <3>1 DEF AnswerInd
  <2>16. CASE UNCHANGED Server!vars
    BY <2>16, <2>2 DEF Server!vars, Server!serverVars
  <2>17. QED
    BY <2>4, <2>5, <2>6, <2>7, <2>8, <2>9, <2>10, <2>11, <2>12, <2>13, <2>14, <2>15, <2>16
       DEF Server!Next, Server!Library, Server!Program
<1>4. QED
  BY <1>2, <1>3, SocketInvariant, PTL DEF Server!Spec

(* What the sockets and the answers are says what the server promises.     *)
LEMMA ServerSays == SocketInd /\ AnswerInd => Server!ServerInv
<1> SUFFICES ASSUME SocketInd, AnswerInd PROVE Server!ServerInv
  OBVIOUS
<1>1. ASSUME Server!Complete
      PROVE  /\ Answering /\ serving = "serve" /\ reqnum = 0 /\ buffer.requests \in Received
             /\ answers \in Seq(Answers) /\ Len(answers) \in Nat /\ Len(answers) <= Server!CountWords(buffer)
             /\ Len(buffer.requests) > 1 => Len(answers) = Server!CountWords(buffer)
             /\ ~buffer.cleared => Server!CountWords(buffer) = 0
             /\ buffer.cleared => Len(answers) >= 1
             /\ html \in Seq(Filled) /\ pagelen \in {0, Len(html)}
             /\ ~gaveUp => \A n \in 1 .. Len(answers) : Len(answers[n].sent) = 1 + answers[n].head.len
             /\ Alone /\ buffer.cleared =>
                  /\ AlonePage = Html
                  /\ answers[1].head = [type |-> TypeOf[buffer.requests[1].name], len |-> pagelen]
                  /\ ~gaveUp => answers[1].sent = <<"head">> \o Html
  <2>1. serving = "serve" /\ reqnum = 0 /\ Answering
    BY <1>1 DEF Server!Complete, Answering
  <2>2. answers \in Seq(Answers) /\ (buffer.cleared => answers # <<>>)
    BY <2>1 DEF AnswerInd
  <2>3. Len(answers) \in Nat /\ (buffer.cleared => Len(answers) >= 1)
    BY <2>2
  <2>4. /\ buffer.requests \in Received
        /\ Len(answers) + reqnum <= Server!CountWords(buffer)
        /\ Len(buffer.requests) > 1 => Len(answers) + reqnum = Server!CountWords(buffer)
        /\ ~buffer.cleared => Server!CountWords(buffer) = 0
        /\ html \in Seq(Filled) /\ pagelen \in {0, Len(html)}
    BY <2>1 DEF AnswerInd
  <2>5. /\ ~gaveUp => \A n \in 1 .. Len(answers) : Len(answers[n].sent) = 1 + answers[n].head.len
        /\ Alone /\ buffer.cleared =>
             /\ AlonePage = Html
             /\ answers[1].head = [type |-> TypeOf[buffer.requests[1].name], len |-> pagelen]
             /\ ~gaveUp => answers[1].sent = <<"head">> \o Html
    BY <2>1 DEF AnswerInd
  <2>6. /\ Len(answers) <= Server!CountWords(buffer)
        /\ Len(buffer.requests) > 1 => Len(answers) = Server!CountWords(buffer)
    BY <2>1, <2>3, <2>4
  <2>7. QED
    BY <2>1, <2>2, <2>3, <2>4, <2>5, <2>6
<1>2. ASSUME Server!Complete
      PROVE  /\ Len(buffer.requests) \in Nat \ {0} /\ Server!CountWords(buffer) \in Nat
             /\ Server!CountWords(buffer) >= Len(buffer.requests)
             /\ Alone => Server!CountWords(buffer) = 1
             /\ buffer.cleared
  <2>1. /\ Len(buffer.requests) \in Nat \ {0} /\ Server!CountWords(buffer) \in Nat
        /\ Server!CountWords(buffer) >= Len(buffer.requests)
        /\ Alone => Server!CountWords(buffer) = 1
    BY <1>1, <1>2, WordsCounted DEF Alone
  <2>2. QED
    BY <1>1, <1>2, <2>1
<1>3. Server!AloneRight
  <2>1. ASSUME Server!Complete, Alone
        PROVE  /\ Len(answers) = 1
               /\ answers[1].head = [type |-> TypeOf[buffer.requests[1].name], len |-> Len(AlonePage)]
               /\ ~gaveUp => answers[1].sent = <<"head">> \o AlonePage
    <3>1. Len(answers) = 1
      BY <1>1, <1>2, <2>1
    <3>2. Len(Html) = pagelen
      BY <1>1, <2>1, HtmlPart DEF Html
    <3>3. QED
      BY <1>1, <1>2, <2>1, <3>1, <3>2
  <2>2. QED
    BY <2>1 DEF Server!AloneRight, Alone, AlonePage
<1>4. Server!AllAnswered
  <2>1. Server!Complete => DOMAIN answers = 1 .. Len(answers)
    BY <1>1
  <2>2. Server!Complete => Len(answers) >= Len(buffer.requests)
    BY <1>1, <1>2
  <2>3. QED
    BY <1>1, <2>1, <2>2 DEF Server!AllAnswered
<1>5. Server!ParametersFilled
  <2>1. \A n \in DOMAIN html : html[n] \in Filled
    BY DEF AnswerInd
  <2>2. QED
    BY <2>1 DEF Server!ParametersFilled, Server!ToSet, Filled
<1>6. Server!SocketsRight
  <2>1. serving \in {"loop", "scan", "events"} => buffer = Server!Nothing
    BY DEF AnswerInd, Answering
  <2>2. QED
    BY <2>1 DEF Server!SocketsRight, SocketInd, Answering
<1>7. QED
  BY <1>3, <1>4, <1>5, <1>6 DEF Server!ServerInv

(* Whatever the library reports in whatever order, a request that comes    *)
(* alone is answered once, with its own page and its length; every request *)
(* of a buffer is answered; no page is shown with a parameter in it; and   *)
(* what the loop looks at is not left over from another socket             *)
(* (WCHNET_HandleSockInt and Web_Server of HTTPS.c).                       *)
THEOREM ServerRight == Server!Spec => []Server!ServerInv
  BY SocketInvariant, AnswerInvariant, ServerSays, PTL

-----------------------------------------------------------------------------
(* Side by side.                                                           *)

(* What may be looked at.                                                  *)
Parts == {"brieip", "config", "server", "rx", "link", "setup"}

(* Side by side, each part does what it does alone.                        *)
LEMMA PartsGo ==
  FairSpec => /\ [](part \in Parts) /\ B!Spec /\ Config!Spec /\ Server!Spec
              /\ Rx!Spec /\ Link!Spec /\ Setup!Spec
<1>1. Init => /\ part \in Parts /\ B!Init /\ Config!Init /\ Server!Init
              /\ Rx!Init /\ Link!Init /\ Setup!Init
  BY DEF Init, Parts
<1>2. [Next]_vars => [B!Next]_(B!vars)
  BY DEF Next, Others, vars, brieipVars, B!vars, B!mainVars
<1>3. [Next]_vars => [Rx!Next]_(Rx!vars)
  BY DEF Next, Others, vars, rxVars, Rx!vars
<1>4. [Next]_vars => [Link!Next]_(Link!vars)
  BY DEF Next, Others, vars, linkVars, Link!vars, Link!phyVars, Link!searchVars, Link!upVars
<1>5. [Next]_vars => [Config!Next]_(Config!vars)
  BY DEF Next, Others, vars, configVars, Config!vars
<1>6. [Next]_vars => [Server!Next]_(Server!vars)
  BY DEF Next, Others, vars, serverVars, Server!vars, Server!loopVars, Server!serverVars, Server!boundVars
<1>7. [Next]_vars => [Setup!Next]_(Setup!vars)
  BY DEF Next, Others, vars, setupVars, Setup!vars, Setup!ringVars
<1>8. part \in Parts /\ [Next]_vars => (part \in Parts)'
  BY DEF Next, Others, vars
<1>9. FairSpec => [](part \in Parts)
  BY <1>1, <1>8, PTL DEF FairSpec
<1>10. FairSpec => B!Spec /\ Config!Spec /\ Server!Spec /\ Rx!Spec /\ Link!Spec /\ Setup!Spec
  BY <1>1, <1>2, <1>3, <1>4, <1>5, <1>6, <1>7, PTL
  DEF FairSpec, B!Spec, Config!Spec, Server!Spec, Rx!Spec, Link!Spec, Setup!Spec
<1>11. QED
  BY <1>9, <1>10

(* So the run's invariant holds of every state, for every ring, every set  *)
(* of frames, forms and requests, every page and every bound.              *)
THEOREM ProgramsInv == FairSpec => []Inv
<1>1. /\ part \in Parts /\ B!Inv /\ Config!ConfigInv /\ Server!ServerInv
      /\ Rx!RxInv /\ Link!LinkInv /\ Setup!SetupInv
      => Inv
  BY DEF Inv, Parts
<1>2. QED
  BY <1>1, PartsGo, BrieipRight, ConfigRight, ServerRight, WchRxRight, WchLinkRight, SetupRight, PTL

(* So brieip_process answers no ping twice in the specification that is    *)
(* checked, either.                                                        *)
THEOREM ProgramsEchoAtMostOnce ==
  ASSUME B!BrieipAssumption
  PROVE  FairSpec => []EchoAtMostOnce
<1>1. B!EchoAtMostOnce => EchoAtMostOnce
  BY DEF EchoAtMostOnce
<1>2. QED
  BY <1>1, PartsGo, BrieipEchoAtMostOnce, PTL
=============================================================================
