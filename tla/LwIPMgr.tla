------------------------------ MODULE LwIPMgr ------------------------------
(***************************************************************************)
(* The LwIPMgr active object (lwipmgr.c), with the text events it          *)
(* exchanges with Table (table.c): a UDP datagram, a CGI request or a new  *)
(* IP address is published to Table for display, and Table answers every   *)
(* datagram with a SEND_UDP event.  All of these come from the medium      *)
(* event pool, which has N_TEXT blocks (main.c).                           *)
(*                                                                         *)
(* LwIPMgr has the lowest priority.  Table preempts it as soon as it       *)
(* publishes and runs before LwIPMgr goes on; interrupts come at any time. *)
(* The driver is that of EthDriver, seen from above: one eth_driver_read   *)
(* takes frames until none is left.                                        *)
(***************************************************************************)
EXTENDS Integers, Sequences, FiniteSets

CONSTANTS
  Peer,      (* the hosts that send datagrams to UDP port 777              *)
  NONE,      (* no host                                                    *)
  IpAddr,    (* IP addresses DHCP may assign                               *)
  ZERO,      (* 0.0.0.0                                                    *)
  NO_ADDR,   (* 0xFFFFFFFF, the impossible address                         *)
  N_TEXT,    (* blocks of the medium event pool                            *)
  Q_LEN,     (* entries of the ring buffer of LwIPMgr's event queue        *)
  DHCP_TICKS,(* slow ticks between two calls of the DHCP timers            *)
  N_RX,      (* bound: frames waiting in the receive ring                  *)
  BURST      (* bound: datagrams one eth_driver_read comes upon            *)

ASSUME MgrAssumption ==
  /\ NONE \notin Peer /\ ZERO \notin IpAddr /\ NO_ADDR \notin IpAddr \cup {ZERO}
  /\ N_TEXT \in Nat /\ Q_LEN \in Nat /\ DHCP_TICKS \in Nat \ {0}
  /\ N_RX \in Nat /\ BURST \in Nat

Host  == Peer \cup {NONE}
Frame == [kind : {"udp"}, from : Peer] \cup [kind : {"cgi", "dhcp"}, from : {NONE}]

(* The events of LwIPMgr and of Table; text is what a TextEvt is about.    *)
Evt(s, t) == [sig |-> s, text |-> t]

VARIABLES
  ring,     (* the frames in the receive ring                              *)
  irq,      (* the R and RO flags and the receive interrupt enable         *)
  queue,    (* the event queue of LwIPMgr                                  *)
  tableQ,   (* the display events in the queue of Table                    *)
  nText,    (* free blocks of the medium event pool                        *)
  pc,       (* where LwIPMgr is in its run-to-completion step              *)
  ev,       (* the event LwIPMgr handles                                   *)
  from,     (* the sender of the datagram udp_rx_handler handles           *)
  burst,    (* datagrams this eth_driver_read has come upon                *)
  peer,     (* the host upcb is connected to                               *)
  ip_addr,  (* me->ip_addr                                                 *)
  netifIp,  (* me->netif->ip_addr                                          *)
  shown,    (* the address on the display                                  *)
  dhcpTmr,  (* me->dhcp_fine_tmr, in slow ticks                            *)
  status    (* "running", or the assertion that stopped the system         *)

netVars == <<peer, ip_addr, netifIp, dhcpTmr>>
vars == <<ring, irq, queue, tableQ, nText, pc, ev, from, burst, netVars, shown, status>>

NoEvt == Evt("NONE", NONE)

Init ==
  /\ ring = << >> /\ irq = [R |-> 0, RO |-> 0, IE |-> 1]
  /\ queue = << >> /\ tableQ = << >> /\ nText = N_TEXT
  /\ pc = "idle" /\ ev = NoEvt /\ from = NONE /\ burst = 0
  /\ peer = NONE /\ ip_addr = NO_ADDR /\ netifIp = ZERO /\ dhcpTmr = 0
  /\ shown = NO_ADDR
  /\ status = "running"

(* Q_onAssert stops the system.                                            *)
Halt(why) ==
  /\ status' = why
  /\ UNCHANGED <<ring, irq, queue, tableQ, nText, pc, ev, from, burst, netVars, shown>>

(* QACTIVE_POST of es to LwIPMgr, then act.                                *)
Posting(es, act) ==
  \/ /\ Len(queue) + Len(es) <= Q_LEN + 1
     /\ queue' = queue \o es
     /\ act
     /\ UNCHANGED status
  \/ Len(queue) + Len(es) > Q_LEN + 1 /\ Halt("overflow")

----------------------------------------------------------------------------
(* Interrupts.                                                             *)

Datagrams(s) == Cardinality({i \in 1 .. Len(s) : s[i].kind = "udp"})

(* A frame arrives; RO may be raised with it and is never cleared.         *)
FrameArrives(f) ==
  /\ status = "running"
  /\ Len(ring) < N_RX
  /\ f.kind = "udp" => burst + Datagrams(ring) < BURST
  /\ ring' = Append(ring, f)
  /\ \E ro \in {irq.RO, 1} : irq' = [irq EXCEPT !.R = 1, !.RO = ro]
  /\ UNCHANGED <<queue, tableQ, nText, pc, ev, from, burst, netVars, shown, status>>

ETH_IRQHandler ==
  /\ status = "running" /\ irq.R = 1 /\ irq.IE = 1
  /\ Posting(<<Evt("RX_READY", NONE)>>
               \o (IF irq.RO = 1 THEN <<Evt("RX_OVERRUN", NONE)>> ELSE << >>),
             /\ irq' = [irq EXCEPT !.R = 0, !.IE = 0]
             /\ UNCHANGED <<ring, tableQ, nText, pc, ev, from, burst, netVars, shown>>)

(* The time event of LwIPMgr, not again before the last one is processed.  *)
SlowTick ==
  /\ status = "running"
  /\ \A i \in 1 .. Len(queue) : queue[i].sig # "SLOW_TICK"
  /\ Posting(<<Evt("SLOW_TICK", NONE)>>,
             UNCHANGED <<ring, irq, tableQ, nText, pc, ev, from, burst, netVars, shown>>)

----------------------------------------------------------------------------
(* LwIPMgr.                                                                *)

(* LwIPMgr executes at l: Table, which outranks it, has nothing to do.     *)
At(l) == status = "running" /\ pc = l /\ tableQ = << >>

Dispatch ==
  LET e == Head(queue) IN
  /\ At("idle") /\ queue # << >>
  /\ queue' = Tail(queue)
  /\ \/ /\ e.sig \in {"RX_READY", "SLOW_TICK", "SEND_UDP"}
        /\ ev' = e /\ pc' = e.sig
     \/ e.sig = "RX_OVERRUN" /\ UNCHANGED <<pc, ev>>
  /\ UNCHANGED <<ring, irq, tableQ, nText, from, burst, netVars, shown, status>>

(* Q_NEW of a TextEvt and QF_PUBLISH of it to Table, the only subscriber;  *)
(* act is the rest of the step up to there.                                *)
PublishText(e, act) ==
  \/ /\ nText > 0
     /\ nText' = nText - 1
     /\ tableQ' = <<e>>
     /\ act
     /\ UNCHANGED status
  \/ nText = 0 /\ Halt("empty")

(* Mutants: the published event is not collected, or Table's step collects *)
(* it although QF_publish still refers to it.                              *)
CollectedNot == nText
CollectedTwice == nText + 2
(* QF_publish drops the last reference when Table is through.              *)
Collected == nText + 1

(* Mutant: any datagram to the port is accepted.                           *)
AcceptsAny(p) == TRUE
(* udp_input: a connected pcb takes datagrams of its peer only.            *)
Accepts(p) == peer \in {NONE, p}

Reading == At("RX_READY") /\ ring # << >>

(* eth_driver_read comes upon a datagram that udp_input drops ...          *)
ReadForeign ==
  /\ Reading /\ Head(ring).kind = "udp" /\ ~Accepts(Head(ring).from)
  /\ ring' = Tail(ring) /\ burst' = burst + 1
  /\ UNCHANGED <<irq, queue, tableQ, nText, pc, ev, from, netVars, shown, status>>

(* ... or hands to udp_rx_handler, which publishes it ...                  *)
ReadDatagram ==
  LET p == Head(ring).from IN
  /\ Reading /\ Head(ring).kind = "udp" /\ Accepts(p)
  /\ PublishText(Evt("DISPLAY_UDP", p),
                 /\ ring' = Tail(ring) /\ burst' = burst + 1
                 /\ pc' = "connect" /\ from' = p
                 /\ UNCHANGED <<irq, queue, ev, netVars, shown>>)

(* ... and then connects to the sender.                                    *)
Connect ==
  /\ At("connect")
  /\ nText' = Collected
  /\ peer' = from /\ from' = NONE
  /\ pc' = "RX_READY"
  /\ UNCHANGED <<ring, irq, queue, tableQ, ev, burst, ip_addr, netifIp, dhcpTmr, shown, status>>

(* A request for /display.cgi with a text: cgi_display publishes it.       *)
ReadCgi ==
  /\ Reading /\ Head(ring).kind = "cgi"
  /\ PublishText(Evt("DISPLAY_CGI", NONE),
                 /\ ring' = Tail(ring)
                 /\ pc' = "published"
                 /\ UNCHANGED <<irq, queue, ev, from, burst, netVars, shown>>)

Published ==
  /\ At("published")
  /\ nText' = Collected
  /\ pc' = IF ev.sig = "RX_READY" THEN "RX_READY" ELSE "timers"
  /\ UNCHANGED <<ring, irq, queue, tableQ, ev, from, burst, netVars, shown, status>>

(* Any other frame; an answer of the DHCP server sets the address.         *)
ReadDhcp ==
  /\ Reading /\ Head(ring).kind = "dhcp"
  /\ ring' = Tail(ring)
  /\ netifIp' \in IpAddr \cup {netifIp}
  /\ UNCHANGED <<irq, queue, tableQ, nText, pc, ev, from, burst, peer, ip_addr, dhcpTmr, shown, status>>

(* The ring is empty and the receive interrupt is enabled again.           *)
ReadEnd ==
  /\ At("RX_READY") /\ ring = << >>
  /\ irq' = [irq EXCEPT !.IE = 1]
  /\ burst' = 0 /\ pc' = "idle" /\ ev' = NoEvt
  /\ UNCHANGED <<ring, queue, tableQ, nText, from, netVars, shown, status>>

(* Mutant: only the first address is shown.                                *)
HasChangedNever == ip_addr = NO_ADDR
HasChanged == ip_addr # netifIp

(* SLOW_TICK: publish the address if it has changed ...                    *)
ShowAddress ==
  /\ At("SLOW_TICK")
  /\ \/ /\ HasChanged
        /\ PublishText(Evt("DISPLAY_IPADDR", netifIp),
                       /\ ip_addr' = netifIp
                       /\ pc' = "published"
                       /\ UNCHANGED <<ring, irq, queue, ev, from, burst, peer, netifIp, dhcpTmr, shown>>)
     \/ /\ ~HasChanged
        /\ pc' = "timers"
        /\ UNCHANGED <<ring, irq, queue, tableQ, nText, ev, from, burst, netVars, shown, status>>

(* ... and run the timers of the stack that are due; those of DHCP may     *)
(* give the address up.                                                    *)
Timers ==
  /\ At("timers")
  /\ \/ /\ dhcpTmr + 1 >= DHCP_TICKS
        /\ dhcpTmr' = 0
        /\ netifIp' \in {netifIp, ZERO}
     \/ /\ dhcpTmr + 1 < DHCP_TICKS
        /\ dhcpTmr' = dhcpTmr + 1
        /\ UNCHANGED netifIp
  /\ pc' = "idle" /\ ev' = NoEvt
  /\ UNCHANGED <<ring, irq, queue, tableQ, nText, from, burst, peer, ip_addr, shown, status>>

(* SEND_UDP: send the text to the peer if there is one and a pbuf for it.  *)
(* QK_sched_ then collects the event.                                      *)
SendUdp ==
  /\ At("SEND_UDP")
  /\ nText' = nText + 1
  /\ pc' = "idle" /\ ev' = NoEvt
  /\ UNCHANGED <<ring, irq, queue, tableQ, from, burst, netVars, shown, status>>

----------------------------------------------------------------------------
(* Table.                                                                  *)

TableDisplay ==
  LET e == Head(tableQ) IN
  /\ status = "running" /\ tableQ # << >>
  /\ \/ /\ e.sig = "DISPLAY_IPADDR"
        /\ shown' = e.text
        /\ tableQ' = Tail(tableQ)
        /\ UNCHANGED <<queue, nText, status>>
     \/ /\ e.sig = "DISPLAY_CGI"
        /\ tableQ' = Tail(tableQ)
        /\ UNCHANGED <<queue, nText, shown, status>>
  /\ UNCHANGED <<ring, irq, pc, ev, from, burst, netVars>>

(* DISPLAY_UDP: the datagram is answered.                                  *)
TableDisplayUdp ==
  LET e == Head(tableQ) IN
  /\ status = "running" /\ tableQ # << >> /\ e.sig = "DISPLAY_UDP"
  /\ \/ nText = 0 /\ Halt("empty")
     \/ /\ nText > 0
        /\ Posting(<<Evt("SEND_UDP", e.text)>>,
                   /\ nText' = nText - 1
                   /\ tableQ' = Tail(tableQ)
                   /\ UNCHANGED <<ring, irq, pc, ev, from, burst, netVars, shown>>)

----------------------------------------------------------------------------
Run ==
  \/ Dispatch
  \/ ReadForeign \/ ReadDatagram \/ Connect \/ ReadCgi \/ ReadDhcp \/ ReadEnd
  \/ ShowAddress \/ Published \/ Timers
  \/ SendUdp
  \/ TableDisplay \/ TableDisplayUdp

Next == Run \/ (\E f \in Frame : FrameArrives(f)) \/ ETH_IRQHandler \/ SlowTick

Spec == Init /\ [][Next]_vars

(* The processor and SysTick do not stop.                                  *)
FairSpec == Spec /\ WF_vars(Run) /\ WF_vars(ETH_IRQHandler) /\ WF_vars(SlowTick)

----------------------------------------------------------------------------
(* Properties.                                                             *)

Text   == Host \cup IpAddr \cup {ZERO}
MgrSig == {"RX_READY", "RX_OVERRUN", "SLOW_TICK", "SEND_UDP"}

TypeOK ==
  /\ ring \in Seq(Frame) /\ irq \in [R : {0, 1}, RO : {0, 1}, IE : {0, 1}]
  /\ queue \in Seq([sig : MgrSig, text : Host])
  /\ tableQ \in Seq([sig : {"DISPLAY_UDP", "DISPLAY_CGI", "DISPLAY_IPADDR"}, text : Text])
  /\ nText \in 0 .. N_TEXT
  /\ pc \in {"idle", "RX_READY", "SLOW_TICK", "SEND_UDP", "connect", "published", "timers"}
  /\ ev \in [sig : MgrSig \cup {"NONE"}, text : Host]
  /\ from \in Host /\ burst \in 0 .. BURST /\ peer \in Host
  /\ ip_addr \in IpAddr \cup {ZERO, NO_ADDR} /\ netifIp \in IpAddr \cup {ZERO}
  /\ shown \in IpAddr \cup {ZERO, NO_ADDR}
  /\ dhcpTmr \in 0 .. DHCP_TICKS - 1
  /\ status \in {"running", "empty", "overflow"}

Answers == {i \in 1 .. Len(queue) : queue[i].sig = "SEND_UDP"}

(* No text event leaks or is collected twice: the blocks in use are those  *)
(* of the answers that wait or are being sent and of the one text that     *)
(* LwIPMgr is publishing.                                                  *)
TextEvtsAccounted ==
  N_TEXT - nText =
    Cardinality(Answers) + (IF pc = "SEND_UDP" THEN 1 ELSE 0)
    + (IF pc \in {"connect", "published"} THEN 1 ELSE 0)

(* No assertion fails while an eth_driver_read comes upon at most BURST    *)
(* datagrams: for BURST = N_TEXT - 1 the pool suffices for the answers,    *)
(* the datagram on display and its answer, and the queue for the answers,  *)
(* the interrupts' events and the slow tick.                               *)
TextPoolSuffices == status = "running"

(* "Pool must not run out of events", the assertion of QF_new_, for what   *)
(* the receive ring can hold.                                              *)
PoolNotEmpty == status # "empty"

(* An answer goes to the host that sent the datagram, although the address *)
(* is taken from upcb when it is sent and upcb is connected only after the *)
(* datagram was published.                                                 *)
AnswersToSender ==
  /\ pc = "SEND_UDP" => peer = ev.text
  /\ pc = "idle" => \A i \in Answers : queue[i].text = peer

(* The display shows the current IP address once it has settled, if the    *)
(* wire is not so busy that an eth_driver_read goes on for ever.           *)
AddressShown ==
  \A a \in IpAddr \cup {ZERO} :
    []<>(pc = "idle") /\ <>[](netifIp = a) => <>[](shown = a)
============================================================================
