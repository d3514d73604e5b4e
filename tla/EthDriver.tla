----------------------------- MODULE EthDriver -----------------------------
(***************************************************************************)
(* The Ethernet driver: ETH_IRQHandler, eth_driver_read, eth_driver_write, *)
(* low_level_receive and low_level_transmit (eth_driver.c), the scan of    *)
(* the receive descriptors and the preparation of transmit descriptors     *)
(* (stm32f2x7_eth.c), and the MAC's two DMA engines, which work on the     *)
(* descriptor rings at the same time.  LwIPMgr runs the driver; its other  *)
(* work appears as the frames the stack sends.                             *)
(*                                                                         *)
(* ethernetif_init replaces the linkoutput that eth_driver_init has set,   *)
(* ethernetif_output, by low_level_transmit.  So the queue l_txq is always *)
(* empty, PbufQueue_get returns NULL and eth_driver_write does nothing.    *)
(* ethernet_input always returns ERR_OK.  Nobody sets the IC bit of a      *)
(* transmit descriptor, so the DMA never raises the T flag: its branch of  *)
(* the interrupt handler and LWIP_TX_READY_SIG do not occur.               *)
(***************************************************************************)
EXTENDS Integers, Sequences, FiniteSets

CONSTANTS
  Frame,    (* the frames on the wire                                      *)
  NONE,     (* no frame                                                    *)
  N_RX,     (* ETH_RXBUFNB                                                 *)
  N_TX,     (* ETH_TXBUFNB                                                 *)
  MAX_SEG,  (* bound: receive buffers one frame may need                   *)
  NO_MEM    (* 1 when pbuf_alloc may fail                                  *)

ASSUME EthAssumption ==
  /\ NONE \notin Frame
  /\ N_RX \in Nat \ {0} /\ N_TX \in Nat \ {0} /\ MAX_SEG \in 1 .. N_RX
  /\ NO_MEM \in {0, 1}

RxDesc == 0 .. N_RX - 1
TxDesc == 0 .. N_TX - 1
NextRx(d) == (d + 1) % N_RX
NextTx(d) == (d + 1) % N_TX

VARIABLES
  rx,       (* the receive descriptors: own, fs, ls, es bits and the frame *)
  rxDma,    (* the descriptor the receive DMA is at                        *)
  rxSegs,   (* segments of the frame being received that are written       *)
  rxGet,    (* DMARxDescToGet                                              *)
  segCount, (* DMA_RX_FRAME_infos->Seg_Count                               *)
  fsDesc,   (* DMA_RX_FRAME_infos->FS_Rx_Desc                              *)
  tx,       (* the transmit descriptors: own bit and the frame in buffer 1 *)
  txDma,    (* the descriptor the transmit DMA is at                       *)
  txSet,    (* DMATxDescToSet                                              *)
  flag,     (* the R, RO, RBUS and TBUS bits of DMASR                      *)
  rxIE,     (* the receive interrupt enable bit of DMAIER                  *)
  queue,    (* the event queue of LwIPMgr                                  *)
  pc,       (* where LwIPMgr is in its run-to-completion step              *)
  hand,     (* frame.descriptor, or the next descriptor to release         *)
  count,    (* descriptor_scan_counter, or the descriptors released        *)
  pbuf,     (* the frame LwIPMgr is receiving or sending                   *)
  reading   (* 1 while eth_driver_read is on the stack                     *)

rxVars   == <<rx, rxDma, rxSegs>>
scanVars == <<rxGet, segCount, fsDesc>>
txVars   == <<tx, txDma, txSet>>
mgrVars  == <<pc, hand, count, pbuf, reading>>
vars == <<rxVars, scanVars, txVars, flag, rxIE, queue, mgrVars>>

Flags == {"R", "RO", "RBUS", "TBUS"}

(* low_level_init: the DMA owns every receive descriptor, the CPU every    *)
(* transmit descriptor.  The receive interrupt is enabled.                 *)
Init ==
  /\ rx = [d \in RxDesc |-> [own |-> "DMA", fs |-> 0, ls |-> 0, es |-> 0, frame |-> NONE]]
  /\ rxDma = 0 /\ rxSegs = 0
  /\ rxGet = 0 /\ segCount = 0 /\ fsDesc = 0
  /\ tx = [d \in TxDesc |-> [own |-> "CPU", frame |-> NONE]]
  /\ txDma = 0 /\ txSet = 0
  /\ flag = [f \in Flags |-> 0]
  /\ rxIE = 1
  /\ queue = << >>
  /\ pc = "idle" /\ hand = 0 /\ count = 0 /\ pbuf = NONE /\ reading = 0

----------------------------------------------------------------------------
(* The DMA engines.                                                        *)

(* The segment at rxDma is written.  A frame that needs another descriptor *)
(* which the DMA does not own is truncated and marked as an error.         *)
RxSegment(f, last) ==
  LET cut == ~last /\ rx[NextRx(rxDma)].own = "CPU"
      ends == last \/ cut
  IN
  /\ flag["RBUS"] = 0
  /\ rx[rxDma].own = "DMA"
  /\ ~last => rxSegs + 1 < MAX_SEG
  /\ rxSegs > 0 => f = rx[(rxDma + N_RX - 1) % N_RX].frame
  /\ rx' = [rx EXCEPT ![rxDma] =
              [own |-> "CPU", fs |-> IF rxSegs = 0 THEN 1 ELSE 0,
               ls |-> IF ends THEN 1 ELSE 0, es |-> IF cut THEN 1 ELSE 0, frame |-> f]]
  /\ rxDma' = NextRx(rxDma)
  /\ rxSegs' = IF ends THEN 0 ELSE rxSegs + 1
  /\ flag' = IF ends THEN [flag EXCEPT !["R"] = 1] ELSE flag
  /\ UNCHANGED <<scanVars, txVars, rxIE, queue, mgrVars>>

(* A frame arrives and finds no descriptor: reception is suspended.        *)
RxSuspend ==
  /\ flag["RBUS"] = 0
  /\ rx[rxDma].own = "CPU"
  /\ \E ro \in {flag["RO"], 1} : flag' = [flag EXCEPT !["RBUS"] = 1, !["RO"] = ro]
  /\ UNCHANGED <<rxVars, scanVars, txVars, rxIE, queue, mgrVars>>

TxSend ==
  /\ flag["TBUS"] = 0
  /\ tx[txDma].own = "DMA"
  /\ tx' = [tx EXCEPT ![txDma] = [own |-> "CPU", frame |-> NONE]]
  /\ txDma' = NextTx(txDma)
  /\ UNCHANGED <<rxVars, scanVars, txSet, flag, rxIE, queue, mgrVars>>

TxSuspend ==
  /\ flag["TBUS"] = 0
  /\ tx[txDma].own = "CPU"
  /\ flag' = [flag EXCEPT !["TBUS"] = 1]
  /\ UNCHANGED <<rxVars, scanVars, txVars, rxIE, queue, mgrVars>>

----------------------------------------------------------------------------
(* Interrupts.                                                             *)

(* Mutant: the receive interrupt is left enabled.                          *)
MaskRxNever == rxIE
(* A receive interrupt stays disabled until eth_driver_read has run.       *)
MaskRx == 0

(* The interrupt is only raised for R; the RO flag is tested with it but   *)
(* never cleared.                                                          *)
ETH_IRQHandler ==
  /\ flag["R"] = 1 /\ rxIE = 1
  /\ queue' = queue \o <<"RX_READY">> \o (IF flag["RO"] = 1 THEN <<"RX_OVERRUN">> ELSE << >>)
  /\ flag' = [flag EXCEPT !["R"] = 0, !["RBUS"] = 0]
  /\ rxIE' = MaskRx
  /\ UNCHANGED <<rxVars, scanVars, txVars, mgrVars>>

(* LwIPMgr's time event, not again before the last one is processed.       *)
SlowTick ==
  /\ \A i \in 1 .. Len(queue) : queue[i] # "SLOW_TICK"
  /\ queue' = Append(queue, "SLOW_TICK")
  /\ UNCHANGED <<rxVars, scanVars, txVars, flag, rxIE, mgrVars>>

----------------------------------------------------------------------------
(* LwIPMgr and the driver.                                                 *)

At(l) == pc = l

(* RX_READY starts eth_driver_read, SLOW_TICK runs the timers of the       *)
(* stack; RX_OVERRUN is only counted.                                      *)
Dispatch ==
  LET e == Head(queue) IN
  /\ At("idle") /\ queue # << >>
  /\ queue' = Tail(queue)
  /\ \/ e = "RX_READY" /\ pc' = "scan" /\ reading' = 1 /\ count' = 0
     \/ e = "SLOW_TICK" /\ pc' = "stack" /\ UNCHANGED <<reading, count>>
     \/ e = "RX_OVERRUN" /\ UNCHANGED <<pc, reading, count>>
  /\ UNCHANGED <<rxVars, scanVars, txVars, flag, rxIE, hand, pbuf>>

Scanning == At("scan") /\ rx[rxGet].own = "CPU" /\ count < N_RX

(* ETH_Get_Received_Frame_interrupt: a segment that is not the last ...    *)
ScanSegment ==
  /\ Scanning /\ rx[rxGet].ls = 0
  /\ count' = count + 1
  /\ rxGet' = NextRx(rxGet)
  /\ \/ rx[rxGet].fs = 1 /\ fsDesc' = rxGet /\ segCount' = 1
     \/ rx[rxGet].fs = 0 /\ segCount' = segCount + 1 /\ UNCHANGED fsDesc
  /\ UNCHANGED <<rxVars, txVars, flag, rxIE, queue, pc, hand, pbuf, reading>>

(* ... the last one ...                                                    *)
ScanLast ==
  /\ Scanning /\ rx[rxGet].ls = 1
  /\ segCount' = segCount + 1
  /\ fsDesc' = IF segCount' = 1 THEN rxGet ELSE fsDesc
  /\ rxGet' = NextRx(rxGet)
  /\ hand' = rxGet
  /\ pc' = "copy"
  /\ UNCHANGED <<rxVars, txVars, flag, rxIE, queue, count, pbuf, reading>>

(* ... or none: low_level_receive returns NULL.                            *)
ScanNone ==
  /\ At("scan") /\ ~Scanning
  /\ pc' = "enable"
  /\ UNCHANGED <<rxVars, scanVars, txVars, flag, rxIE, queue, hand, count, pbuf, reading>>

(* Mutant: the last segment is released in place of the first.             *)
FirstOfLast == hand

(* The first descriptor of the frame.                                      *)
First == IF segCount > 1 THEN fsDesc ELSE hand

(* low_level_receive copies the frame, unless it has an error or no pbuf   *)
(* can be allocated, and goes back to its first descriptor.                *)
CopyFrame ==
  /\ At("copy")
  /\ \/ rx[hand].es = 0 /\ pbuf' = rx[hand].frame
     \/ (rx[hand].es = 1 \/ NO_MEM = 1) /\ pbuf' = NONE
  /\ hand' = First /\ count' = 0
  /\ pc' = "release"
  /\ UNCHANGED <<rxVars, scanVars, txVars, flag, rxIE, queue, reading>>

Release ==
  /\ At("release") /\ count < segCount
  /\ rx' = [rx EXCEPT ![hand] = [own |-> "DMA", fs |-> 0, ls |-> 0, es |-> 0, frame |-> NONE]]
  /\ hand' = NextRx(hand) /\ count' = count + 1
  /\ UNCHANGED <<rxDma, rxSegs, scanVars, txVars, flag, rxIE, queue, pc, pbuf, reading>>

(* Mutants: reception is not resumed; the count of segments is kept.       *)
ResumeRxNot == flag
KeepCount == segCount

ResumeRx == [flag EXCEPT !["RBUS"] = 0]
ClearCount == 0

(* Reception is resumed; the frame goes to the stack.  With no frame       *)
(* eth_driver_read leaves its loop.  With Seg_Count 0 the stale FS_Rx_Desc *)
(* is not read before the next first segment sets it: it is forgotten.     *)
Released ==
  /\ At("release") /\ count >= segCount
  /\ segCount' = ClearCount /\ fsDesc' = 0
  /\ flag' = ResumeRx
  /\ pc' = IF pbuf = NONE THEN "enable" ELSE "stack"
  /\ hand' = 0 /\ count' = 0 /\ pbuf' = NONE
  /\ UNCHANGED <<rxVars, rxGet, txVars, rxIE, queue, reading>>

EnableRx ==
  /\ At("enable")
  /\ rxIE' = 1
  /\ pc' = "idle" /\ reading' = 0 /\ count' = 0
  /\ UNCHANGED <<rxVars, scanVars, txVars, flag, queue, hand, pbuf>>

(* The stack sends f: low_level_transmit copies it to the buffer ...       *)
Output(f) ==
  /\ At("stack")
  /\ tx' = [tx EXCEPT ![txSet].frame = f]
  /\ pbuf' = f
  /\ pc' = "prepare"
  /\ UNCHANGED <<rxVars, scanVars, txDma, txSet, flag, rxIE, queue, hand, count, reading>>

(* ... and ETH_Prepare_Transmit_Descriptors gives it to the DMA, or fails  *)
(* when that still owns the descriptor.  The error goes no further:        *)
(* low_level_transmit returns no value.                                    *)
PrepareBusy ==
  /\ At("prepare") /\ tx[txSet].own = "DMA"
  /\ pc' = "stack" /\ pbuf' = NONE
  /\ UNCHANGED <<rxVars, scanVars, txVars, flag, rxIE, queue, hand, count, reading>>

(* Mutant: the own bit is not tested.                                      *)
PrepareUntested ==
  /\ At("prepare")
  /\ tx' = [tx EXCEPT ![txSet].own = "DMA"]
  /\ txSet' = NextTx(txSet)
  /\ pc' = "resume"
  /\ UNCHANGED <<rxVars, scanVars, txDma, flag, rxIE, queue, hand, count, pbuf, reading>>

Prepare ==
  /\ At("prepare") /\ tx[txSet].own = "CPU"
  /\ tx' = [tx EXCEPT ![txSet].own = "DMA"]
  /\ txSet' = NextTx(txSet)
  /\ pc' = "resume"
  /\ UNCHANGED <<rxVars, scanVars, txDma, flag, rxIE, queue, hand, count, pbuf, reading>>

(* Mutant: transmission is not resumed.                                    *)
ResumeTxNot == flag
ResumeTx == [flag EXCEPT !["TBUS"] = 0]

Prepared ==
  /\ At("resume")
  /\ flag' = ResumeTx
  /\ pc' = "stack" /\ pbuf' = NONE
  /\ UNCHANGED <<rxVars, scanVars, txVars, rxIE, queue, hand, count, reading>>

(* The stack returns, to the loop of eth_driver_read or to the kernel.     *)
StackDone ==
  /\ At("stack")
  /\ pc' = IF reading = 1 THEN "scan" ELSE "idle"
  /\ UNCHANGED <<rxVars, scanVars, txVars, flag, rxIE, queue, hand, count, pbuf, reading>>

----------------------------------------------------------------------------
Receive == ScanSegment \/ ScanLast \/ ScanNone \/ CopyFrame \/ Release \/ Released \/ EnableRx
Transmit == (\E f \in Frame : Output(f)) \/ PrepareBusy \/ Prepare \/ Prepared

DMA ==
  \/ \E f \in Frame, last \in BOOLEAN : RxSegment(f, last)
  \/ RxSuspend \/ TxSend \/ TxSuspend

Next == Dispatch \/ Receive \/ Transmit \/ StackDone \/ DMA \/ ETH_IRQHandler \/ SlowTick

Spec == Init /\ [][Next]_vars

(* The processor and the transmit DMA do not stop while they have work,    *)
(* and lwIP's processing of a frame or a timer ends.                       *)
FairSpec ==
  /\ Spec
  /\ WF_vars(Dispatch \/ Receive \/ PrepareBusy \/ Prepare \/ Prepared)
  /\ SF_vars(StackDone)
  /\ WF_vars(ETH_IRQHandler)
  /\ WF_vars(TxSend)

----------------------------------------------------------------------------
(* Properties.                                                             *)

TypeOK ==
  /\ rx \in [RxDesc -> [own : {"DMA", "CPU"}, fs : {0, 1}, ls : {0, 1}, es : {0, 1},
                        frame : Frame \cup {NONE}]]
  /\ rxDma \in RxDesc /\ rxSegs \in 0 .. MAX_SEG - 1
  /\ rxGet \in RxDesc /\ segCount \in 0 .. N_RX /\ fsDesc \in RxDesc
  /\ tx \in [TxDesc -> [own : {"DMA", "CPU"}, frame : Frame \cup {NONE}]]
  /\ txDma \in TxDesc /\ txSet \in TxDesc
  /\ flag \in [Flags -> {0, 1}] /\ rxIE \in {0, 1}
  /\ queue \in Seq({"RX_READY", "RX_OVERRUN", "SLOW_TICK"})
  /\ pc \in {"idle", "scan", "copy", "release", "enable", "stack", "prepare", "resume"}
  /\ hand \in RxDesc /\ count \in 0 .. N_RX /\ pbuf \in Frame \cup {NONE} /\ reading \in {0, 1}

(* The k receive descriptors before d.                                     *)
Before(d, k) == {(d + N_RX - i) % N_RX : i \in 1 .. k}
CpuOwned == {d \in RxDesc : rx[d].own = "CPU"}

(* Segments scanned and not released.                                      *)
Scanned == IF pc = "release" THEN segCount - count ELSE segCount

(* The driver and the DMA agree on the receive ring: the CPU owns a run of *)
(* descriptors that ends where the DMA is, the scanned ones first, and the *)
(* scan goes on behind those.                                              *)
RxRingAligned ==
  LET c == Cardinality(CpuOwned) IN
  /\ Scanned \in 0 .. c
  /\ CpuOwned = Before(rxDma, c)
  /\ rxGet = (rxDma + N_RX - (c - Scanned)) % N_RX

(* Frames are not mixed up, even when the scan meets a frame of which the  *)
(* DMA has written only the first segments: what low_level_receive copies  *)
(* and releases is one frame from its first to its last segment.           *)
WholeFrames ==
  pc = "copy" =>
    LET seg(k) == rx[(First + k) % N_RX] IN
    /\ (First + segCount - 1) % N_RX = hand
    /\ \A k \in 0 .. segCount - 1 :
         /\ seg(k).own = "CPU" /\ seg(k).frame = rx[hand].frame
         /\ seg(k).fs = 1 <=> k = 0
         /\ seg(k).ls = 1 <=> k = segCount - 1

(* Masking the receive interrupt bounds what the interrupt handler adds to *)
(* LwIPMgr's queue: one RX_READY, and two RX_OVERRUN of the flag that is   *)
(* never cleared, however many frames arrive.  The queue has 11 places.    *)
IrqEventsBounded ==
  LET n(e) == Cardinality({i \in 1 .. Len(queue) : queue[i] = e}) IN
  n("RX_READY") <= 1 /\ n("RX_OVERRUN") <= 2

CompleteFrame == \E d \in CpuOwned : rx[d].ls = 1 /\ d \in Before(rxDma, Cardinality(CpuOwned) - Scanned)

(* No packet is left sitting in the DMA buffers: a complete frame is being *)
(* read, or an event or an interrupt that makes eth_driver_read get it is  *)
(* pending.                                                                *)
NoFrameSits ==
  CompleteFrame =>
    \/ flag["R"] = 1
    \/ reading = 1
    \/ \E i \in 1 .. Len(queue) : queue[i] = "RX_READY"

(* A suspended reception is always resumed, by the interrupt handler or by *)
(* low_level_receive, also when frames are dropped.                        *)
ReceptionResumes == flag["RBUS"] = 1 ~> flag["RBUS"] = 0

(* A frame given to the transmit DMA goes out as the stack has built it,   *)
(* unless the stack sends another while the DMA owns all descriptors: only *)
(* then does low_level_transmit, which copies before anyone tests the own  *)
(* bit, write into the buffer of a frame that is still to be sent.         *)
FramesIntact ==
  [][pc = "stack" /\ pc' = "prepare" /\ tx[txSet].own = "DMA" =>
       \A d \in TxDesc : tx[d].own = "DMA"]_vars

(* Every frame given to the transmit DMA is sent: the order of setting the *)
(* own bit and testing TBUS leaves no frame behind a suspended DMA.        *)
HandedOverSent ==
  \A d \in TxDesc : tx[d].own = "DMA" ~> tx[d].own = "CPU"
============================================================================
