------------------------------ MODULE SpwFifo ------------------------------
(***************************************************************************)
(* What the SpaceWire driver promises to the libraries above it: a queue   *)
(* of packets to send and a queue of received packets, both bounded, in    *)
(* order, without loss and without change.  A packet to send says how many *)
(* bytes of its header the hardware leaves out of the CRC.                 *)
(***************************************************************************)
EXTENDS Integers, Sequences

CONSTANTS NTx, NRx,  \* descriptors
          Line,      \* packets a direction of the link holds
          Pkts,      \* packets to send
          Answers    \* packets to receive

VARIABLES txq, rxq,   \* accepted and not sent, received and not fetched
          out, in,    \* packets on the link
          refused     \* the last call refused a packet

fifo == <<txq, rxq, out, in, refused>>

Init ==
  /\ txq = <<>> /\ rxq = <<>> /\ out = <<>> /\ in = <<>> /\ refused = FALSE

Accept(p) ==
  /\ Len(txq) < NTx
  /\ txq' = Append(txq, p)
  /\ refused' = FALSE
  /\ UNCHANGED <<rxq, out, in>>

(* A packet is refused only if the queue is full.                          *)
Refuse ==
  /\ Len(txq) = NTx
  /\ refused' = TRUE
  /\ UNCHANGED <<txq, rxq, out, in>>

(* The packet goes out as it was accepted.                                *)
Send ==
  /\ txq # <<>> /\ Len(out) < Line
  /\ out' = Append(out, Head(txq)) /\ txq' = Tail(txq)
  /\ UNCHANGED <<rxq, in, refused>>

Receive ==
  /\ in # <<>> /\ Len(rxq) < NRx
  /\ rxq' = Append(rxq, Head(in)) /\ in' = Tail(in)
  /\ UNCHANGED <<txq, out, refused>>

Fetch ==
  /\ rxq # <<>>
  /\ rxq' = Tail(rxq)
  /\ refused' = FALSE
  /\ UNCHANGED <<txq, out, in>>

Look ==
  /\ refused' = FALSE
  /\ UNCHANGED <<txq, rxq, out, in>>

PeerSends(a) ==
  /\ Len(in) < Line
  /\ in' = Append(in, a)
  /\ UNCHANGED <<txq, rxq, out, refused>>

PeerTakes ==
  /\ out # <<>>
  /\ out' = Tail(out)
  /\ UNCHANGED <<txq, rxq, in, refused>>

Next ==
  \/ \E p \in Pkts : Accept(p)
  \/ Refuse \/ Send \/ Receive \/ Fetch \/ Look
  \/ \E a \in Answers : PeerSends(a)
  \/ PeerTakes

Spec == Init /\ [][Next]_fifo
=============================================================================
