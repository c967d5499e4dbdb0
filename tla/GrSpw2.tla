------------------------------- MODULE GrSpw2 -------------------------------
(***************************************************************************)
(* The SpaceWire driver of the example programs (leon/grspw2.c), which     *)
(* stands behind rmap_tx and rmap_rx, and the DMA hardware it shares its   *)
(* descriptor tables with.  The driver keeps the descriptors in a free and *)
(* in a used list; the hardware walks through the tables on its own and    *)
(* knows nothing of the lists.  Either side may move between any two       *)
(* accesses of the other, and the handler of DMA errors interrupts the     *)
(* driver between reading and writing the control register.                *)
(*                                                                         *)
(* Packet routing between two cores (__SPW_ROUTING__) is not compiled.     *)
(***************************************************************************)
EXTENDS Integers, Sequences, FiniteSets

CONSTANTS NTx,      \* GRSPW2_TX_DESCRIPTORS
          NRx,      \* GRSPW2_RX_DESCRIPTORS
          Line,     \* packets a direction of the link holds
          Ids, Skips, \* packets to send: contents, bytes left out of the CRC
          Answers,  \* packets to receive
          Modes     \* the kinds of traffic considered

ASSUME SpwAssumption ==
  /\ NTx \in Nat \ {0} /\ NRx \in Nat \ {0} /\ Line \in Nat \ {0}
  /\ Ids # {} /\ 0 \in Skips /\ Answers # {}
  /\ Modes \subseteq {"tx", "paths", "rx", "both", "errors"}

TxDesc == 1 .. NTx
RxDesc == 1 .. NRx
Pkts   == [id: Ids, skip: Skips]

(* The traffic of a behaviour.  Packets are told apart in one direction at *)
(* a time: "tx": packets to send over paths of several lengths; "paths":   *)
(* packets with a path and without one; "rx": received packets; "both":    *)
(* one kind of packet each way; "errors": the same, and the bus of the DMA *)
(* may fail.                                                               *)
Some(S) == CHOOSE x \in S : TRUE
Sent(m) == CASE m = "tx"    -> {p \in Pkts : p.skip # 0}
             [] m = "paths" -> {p \in Pkts : p.id = Some(Ids)}
             [] m = "rx"    -> {}
             [] OTHER       -> {[id |-> Some(Ids), skip |-> 0]}
Arriving(m) == IF m = "rx" THEN Answers
               ELSE IF m \in {"tx", "paths"} THEN {} ELSE {Some(Answers)}

(* Bits of the DMA control register.  The error bits are cleared by        *)
(* writing a one.                                                          *)
ErrorBits == {"RA", "TA"}

VARIABLES mode,     \* the traffic
          up,       \* the core is started
          txFree, txUsed, rxFree, rxUsed,  \* the lists
          txEn, rxEn,   \* enable bits of the descriptors
          txBuf, rxBuf, \* their packets
          asked,    \* the bytes to leave out an enabled TX descriptor was filled for
          ctrl,     \* DMA control register
          rmw,      \* access to it in progress: bits to set, bits read
          txPtr, rxPtr, \* where the hardware is in its tables
          irq,      \* a DMA error interrupt is pending
          out, in,  \* packets on the link
          peeked,   \* the packet whose size the caller was told
          refused   \* the last call of the driver refused a packet

lists == <<txFree, txUsed, rxFree, rxUsed>>
vars == <<mode, up, lists, txEn, rxEn, txBuf, rxBuf, asked, ctrl, rmw, txPtr,
          rxPtr, irq, out, in, peeked, refused>>

Tables(n) == [i \in 1 .. n |-> i]
NoAccess == [set |-> {}, read |-> {}, at |-> "none"]

(* spw_alloc, grspw2_core_init and the two table initialisations.          *)
Init ==
  /\ mode \in Modes /\ up = FALSE
  /\ txFree = Tables(NTx) /\ txUsed = <<>>
  /\ rxFree = Tables(NRx) /\ rxUsed = <<>>
  /\ txEn = [d \in TxDesc |-> FALSE] /\ rxEn = [d \in RxDesc |-> FALSE]
  /\ txBuf = [d \in TxDesc |-> [id |-> Some(Ids), skip |-> 0]]
  /\ asked = [d \in TxDesc |-> 0]
  /\ rxBuf = [d \in RxDesc |-> Some(Answers)]
  /\ ctrl = {"AI", "NS"} /\ rmw = NoAccess /\ irq = FALSE
  /\ txPtr = 1 /\ rxPtr = 1
  /\ out = <<>> /\ in = <<>> /\ peeked = <<>>
  /\ refused = FALSE
-----------------------------------------------------------------------------
(* The driver.  It is not reentrant: one call at a time.                   *)
Ready == up /\ rmw = NoAccess

grspw2_tx_desc_new_avail == {"TE"}

(* Mutant: the hardware is not told that a descriptor is available.        *)
grspw2_rx_desc_new_avail_EnableOnly == {"RE"}

grspw2_rx_desc_new_avail == {"RD", "RE"}

Notify(bits) == rmw' = [set |-> bits, read |-> {}, at |-> "read"]

(* grspw2_core_start: every receive descriptor is activated before the     *)
(* link is started.                                                        *)
grspw2_core_start ==
  /\ ~up
  /\ up' = TRUE
  /\ rxUsed' = rxUsed \o rxFree /\ rxFree' = <<>>
  /\ rxEn' = [d \in RxDesc |-> TRUE]
  /\ ctrl' = ctrl \cup grspw2_rx_desc_new_avail
  /\ UNCHANGED <<mode, txFree, txUsed, txEn, txBuf, rxBuf, asked, rmw, txPtr,
                 rxPtr, irq, out, in, peeked, refused>>

(* Descriptors at the head of a list the hardware is done with.            *)
Served(used, en) ==
  CHOOSE n \in 0 .. Len(used) :
    /\ \A i \in 1 .. n : ~en[used[i]]
    /\ n < Len(used) => en[used[n + 1]]

(* Mutant: whether the hardware is done with a descriptor is not asked.    *)
Done_Unasked == Len(txUsed)

(* The walk through the used list that frees descriptors ends at the first *)
(* one that is still enabled.                                              *)
Done == Served(txUsed, txEn)

(* Mutant: freed descriptors are used again in the opposite order.         *)
grspw2_tx_desc_move_free_all_Lifo ==
  [free |-> SubSeq(txUsed, 1, Done) \o txFree,
   used |-> SubSeq(txUsed, Done + 1, Len(txUsed))]

(* The lists once the descriptors the hardware is done with are free.      *)
grspw2_tx_desc_move_free_all ==
  [free |-> txFree \o SubSeq(txUsed, 1, Done),
   used |-> SubSeq(txUsed, Done + 1, Len(txUsed))]

(* The control word of a descriptor is never cleared: the count of bytes   *)
(* left out of the CRC is only written if it is not 0.  The two bits that  *)
(* ask for a CRC are set, and stay set, in the same way.                   *)
Filled(d, p) ==
  [id |-> p.id, skip |-> IF p.skip # 0 THEN p.skip ELSE txBuf[d].skip]

(* grspw2_add_pkt: descriptors are freed, one is filled, enabled and put   *)
(* into the used list.  The hardware does not touch it before.             *)
grspw2_add_pkt(p) ==
  /\ Ready
  /\ \E l \in {grspw2_tx_desc_move_free_all} :
       IF l.free = <<>>
       THEN /\ txFree' = l.free /\ txUsed' = l.used
            /\ refused' = TRUE
            /\ UNCHANGED <<txEn, txBuf, asked, rmw>>
       ELSE /\ txFree' = Tail(l.free)
            /\ txUsed' = Append(l.used, Head(l.free))
            /\ txBuf' = [txBuf EXCEPT ![Head(l.free)] = Filled(Head(l.free), p)]
            /\ asked' = [asked EXCEPT ![Head(l.free)] = p.skip]
            /\ txEn' = [txEn EXCEPT ![Head(l.free)] = TRUE]
            /\ refused' = FALSE
            /\ Notify(grspw2_tx_desc_new_avail)
  /\ UNCHANGED <<mode, up, rxFree, rxUsed, rxEn, rxBuf, ctrl, txPtr, rxPtr, irq,
                 out, in, peeked>>

(* Mutant: whether the hardware is done with the descriptor is not asked.  *)
PacketReady_Used == rxUsed # <<>>

(* grspw2_rx_desc_get_next_used, and the hardware is done with it.         *)
PacketReady == rxUsed # <<>> /\ ~rxEn[Head(rxUsed)]

(* grspw2_get_pkt without a buffer, grspw2_get_next_pkt_size.              *)
Peek ==
  /\ Ready
  /\ IF PacketReady
     THEN peeked' = <<rxBuf[Head(rxUsed)]>>
     ELSE UNCHANGED peeked
  /\ refused' = FALSE
  /\ UNCHANGED <<mode, up, lists, txEn, rxEn, txBuf, rxBuf, asked, ctrl, rmw,
                 txPtr, rxPtr, irq, out, in>>

(* grspw2_rx_desc_readd: to the end of the free list, then the first free  *)
(* descriptor to the end of the used list.                                 *)
grspw2_rx_desc_readd ==
  LET free == Append(rxFree, Head(rxUsed))
  IN /\ rxFree' = Tail(free)
     /\ rxUsed' = Append(Tail(rxUsed), Head(free))
     /\ rxEn' = [rxEn EXCEPT ![Head(free)] = TRUE]
     /\ Notify(grspw2_rx_desc_new_avail)

(* grspw2_get_pkt and grspw2_drop_pkt.                                     *)
Fetch ==
  /\ Ready /\ PacketReady
  /\ peeked' = <<>>
  /\ grspw2_rx_desc_readd
  /\ refused' = FALSE
  /\ UNCHANGED <<mode, up, txFree, txUsed, txEn, txBuf, rxBuf, asked, ctrl,
                 txPtr, rxPtr, irq, out, in>>

(* ioread32be and iowrite32be of the control register.                     *)
Written(w) == (w \ ErrorBits) \cup ((ctrl \cap ErrorBits) \ w)

ReadControl ==
  /\ rmw.at = "read"
  /\ rmw' = [rmw EXCEPT !.read = ctrl, !.at = "write"]
  /\ UNCHANGED <<mode, up, lists, txEn, rxEn, txBuf, rxBuf, asked, ctrl, txPtr,
                 rxPtr, irq, out, in, peeked, refused>>

WriteControl ==
  /\ rmw.at = "write"
  /\ ctrl' = Written(rmw.read \cup rmw.set)
  /\ rmw' = NoAccess
  /\ UNCHANGED <<mode, up, lists, txEn, rxEn, txBuf, rxBuf, asked, txPtr, rxPtr,
                 irq, out, in, peeked, refused>>

(* The interrupt handler: an error bit it finds is all that it writes      *)
(* back, so everything else in the register is switched off.  All the      *)
(* hardware could do between its read and its write is set or clear bits   *)
(* that the write overrides, or raise an error bit only the handler reads. *)
grspw2_dma_error ==
  LET r == IF "RA" \in ctrl THEN {"RA"} ELSE ctrl
      t == IF "TA" \in r THEN {"TA"} ELSE r
  IN /\ irq
     /\ irq' = FALSE
     /\ ctrl' = Written(t)
     /\ UNCHANGED <<mode, up, lists, txEn, rxEn, txBuf, rxBuf, asked, rmw, txPtr,
                    rxPtr, out, in, peeked, refused>>
-----------------------------------------------------------------------------
(* External: the hardware, as the driver expects it.                       *)
After(ptr, n) == IF ptr = n THEN 1 ELSE ptr + 1

HwSend ==
  /\ "TE" \in ctrl /\ txEn[txPtr] /\ Len(out) < Line
  /\ out' = Append(out, txBuf[txPtr])
  /\ txEn' = [txEn EXCEPT ![txPtr] = FALSE]
  /\ asked' = [asked EXCEPT ![txPtr] = 0]
  /\ txPtr' = After(txPtr, NTx)
  /\ UNCHANGED <<mode, up, lists, rxEn, txBuf, rxBuf, ctrl, rmw, rxPtr,
                 irq, in, peeked, refused>>

(* A descriptor that is not enabled ends the walk until it is notified.    *)
HwTxIdle ==
  /\ "TE" \in ctrl /\ ~txEn[txPtr]
  /\ ctrl' = ctrl \ {"TE"}
  /\ UNCHANGED <<mode, up, lists, txEn, rxEn, txBuf, rxBuf, asked, rmw, txPtr,
                 rxPtr, irq, out, in, peeked, refused>>

HwReceive ==
  /\ in # <<>> /\ {"RE", "RD"} \subseteq ctrl /\ rxEn[rxPtr]
  /\ rxBuf' = [rxBuf EXCEPT ![rxPtr] = Head(in)]
  /\ rxEn' = [rxEn EXCEPT ![rxPtr] = FALSE]
  /\ rxPtr' = After(rxPtr, NRx)
  /\ in' = Tail(in)
  /\ UNCHANGED <<mode, up, lists, txEn, txBuf, asked, ctrl, rmw, txPtr, irq, out,
                 peeked, refused>>

HwRxIdle ==
  /\ {"RE", "RD"} \subseteq ctrl /\ ~rxEn[rxPtr]
  /\ ctrl' = ctrl \ {"RD"}
  /\ UNCHANGED <<mode, up, lists, txEn, rxEn, txBuf, rxBuf, asked, rmw, txPtr,
                 rxPtr, irq, out, in, peeked, refused>>

(* Without NS a packet that finds no descriptor is spilled; so is every    *)
(* packet while the receiver is off.                                       *)
HwSpill ==
  /\ in # <<>>
  /\ "RE" \notin ctrl \/ ctrl \cap {"RD", "NS"} = {}
  /\ in' = Tail(in)
  /\ UNCHANGED <<mode, up, lists, txEn, rxEn, txBuf, rxBuf, asked, ctrl, rmw,
                 txPtr, rxPtr, irq, out, peeked, refused>>

(* The bus answers an access with an error: the direction stops.           *)
HwError ==
  /\ mode = "errors"
  /\ \/ "TE" \in ctrl /\ txEn[txPtr] /\ ctrl' = (ctrl \ {"TE"}) \cup {"TA"}
     \/ /\ in # <<>> /\ {"RE", "RD"} \subseteq ctrl
        /\ ctrl' = (ctrl \ {"RE"}) \cup {"RA"}
  /\ irq' = (irq \/ "AI" \in ctrl)
  /\ UNCHANGED <<mode, up, lists, txEn, rxEn, txBuf, rxBuf, asked, rmw, txPtr,
                 rxPtr, out, in, peeked, refused>>

PeerSends(a) ==
  /\ up /\ Len(in) < Line
  /\ in' = Append(in, a)
  /\ UNCHANGED <<mode, up, lists, txEn, rxEn, txBuf, rxBuf, asked, ctrl, rmw,
                 txPtr, rxPtr, irq, out, peeked, refused>>

PeerTakes ==
  /\ out # <<>>
  /\ out' = Tail(out)
  /\ UNCHANGED <<mode, up, lists, txEn, rxEn, txBuf, rxBuf, asked, ctrl, rmw,
                 txPtr, rxPtr, irq, in, peeked, refused>>

Hardware == HwSend \/ HwTxIdle \/ HwReceive \/ HwRxIdle \/ HwSpill \/ HwError
Access == ReadControl \/ WriteControl

Next ==
  \/ grspw2_core_start
  \/ \E p \in Sent(mode) : grspw2_add_pkt(p)
  \/ Peek \/ Fetch
  \/ Access \/ grspw2_dma_error
  \/ Hardware
  \/ \E a \in Arriving(mode) : PeerSends(a)
  \/ PeerTakes

(* The processor finishes the call it is in; the hardware serves its       *)
(* directions independently.                                               *)
Fairness ==
  /\ WF_vars(Access)
  /\ WF_vars(HwSend) /\ WF_vars(HwReceive)

Spec == Init /\ [][Next]_vars /\ Fairness
-----------------------------------------------------------------------------
(* Properties follow.                                                      *)
Sending  == SubSeq(txUsed, Served(txUsed, txEn) + 1, Len(txUsed))
Fetching == SubSeq(rxUsed, 1, Served(rxUsed, rxEn))

TxQueue == [i \in 1 .. Len(Sending) |->
              [id |-> txBuf[Sending[i]].id, skip |-> asked[Sending[i]]]]
RxQueue == [i \in 1 .. Len(Fetching) |-> rxBuf[Fetching[i]]]

Fifo == INSTANCE SpwFifo WITH txq <- TxQueue, rxq <- RxQueue


(* In all other traffic the driver and the hardware do what AlwaysFifo     *)
(* says: nothing is lost, changed, reordered or refused without need, for  *)
(* every interleaving of the driver's and the hardware's walks.            *)
Sound == mode \in {"tx", "rx", "both"}
ImplementsFifo ==
  Fifo!Init /\ [][Sound => [Fifo!Next]_Fifo!fifo]_vars

(* The lists and the hardware agree on the order of the descriptors: what  *)
(* the hardware looks at next is the oldest descriptor that is enabled, or *)
(* the one that will be enabled next, and no descriptor is in two lists or *)
(* in none (grspw2_tx_desc_add_pkt, grspw2_rx_desc_readd).                 *)
InStep(used, free, en, ptr, n) ==
  /\ \A k \in 1 .. n - 1 : LET ring == used \o free
                           IN ring[k + 1] = After(ring[k], n)
  /\ Len(used \o free) = n
  /\ \A i, j \in 1 .. Len(used) : i < j /\ en[used[i]] => en[used[j]]
  /\ \A i \in 1 .. Len(free) : ~en[free[i]]
  /\ \A i \in 1 .. Len(used) :
       (en[used[i]] /\ \A j \in 1 .. i - 1 : ~en[used[j]]) => ptr = used[i]
  /\ (\A i \in 1 .. Len(used) : ~en[used[i]]) =>
       ptr = IF free # <<>> THEN Head(free) ELSE Head(used)
RingsInStep ==
  /\ InStep(txUsed, txFree, txEn, txPtr, NTx)
  /\ up => InStep(rxUsed, rxFree, rxEn, rxPtr, NRx)

(* A caller asks for the size, gets memory for it and then fetches the     *)
(* packet (rdcu_process_rx): what it fetches is the packet it was told     *)
(* about, whatever arrives in between.                                     *)
PeekedStays ==
  peeked # <<>> => PacketReady /\ rxBuf[Head(rxUsed)] = peeked[1]

(* Neither direction comes to rest with work to do, however the driver's   *)
(* and the hardware's accesses to the control register and the descriptors *)
(* interleave, in traffic without DMA errors, whose handler switches both  *)
(* directions off.                                                         *)
Flows ==
  /\ []<>(mode = "errors" \/ Sending = <<>> \/ out # <<>>)
  /\ []<>(mode = "errors" \/ in = <<>> \/ Len(Fetching) = NRx)
=============================================================================
