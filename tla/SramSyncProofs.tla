--------------------------- MODULE SramSyncProofs ---------------------------
(***************************************************************************)
(* The SRAM transfers cut every block into pieces that tile it.            *)
(***************************************************************************)
EXTENDS SramSync, TLAPS

(* Sums, differences and quotients of multiples of four.                   *)
LEMMA MultiplesOf4 ==
  ASSUME NEW a \in Nat, NEW b \in Nat, a % 4 = 0, b % 4 = 0
  PROVE  /\ (a + b) % 4 = 0
         /\ a >= b => (a - b) % 4 = 0
         /\ 4 * (a \div 4) = a
         /\ 4 * ((a + b) \div 4) = a + b
BY SMT

(* The invariant of the transfer loops.                                    *)
XInv == XTypeOK /\ XferAligned /\ XferInBlock

(* The point the loops are at and the piece of a well-formed transfer.     *)
LEMMA PieceFits ==
  ASSUME XInv, xfer.at # "idle"
  PROVE  /\ Piece \in Nat /\ Piece % 4 = 0 /\ Piece <= xfer.left
         /\ 4 * (Piece \div 4) = Piece
         /\ 4 * ((xfer.addr + xfer.done) \div 4) = xfer.addr + xfer.done
<1>1. /\ xfer.addr \in Nat /\ xfer.mtu \in Nat /\ xfer.done \in Nat
      /\ xfer.left \in Nat
  BY DEF XInv, XTypeOK
<1>2. /\ xfer.addr % 4 = 0 /\ xfer.mtu % 4 = 0 /\ xfer.done % 4 = 0
      /\ xfer.left % 4 = 0
  BY DEF XInv, XferAligned
<1>3. Piece \in Nat /\ Piece % 4 = 0 /\ Piece <= xfer.left
  BY <1>1, <1>2 DEF Piece, FullPiece
<1> QED
  BY <1>1, <1>2, <1>3, MultiplesOf4

(* A transfer that ends.                                                   *)
LEMMA EndedXInv ==
  ASSUME XTypeOK, NEW v \in Int,
         xfer' = [xfer EXCEPT !.at = "idle", !.ret = v]
  PROVE  XInv'
<1> DEFINE y == [xfer EXCEPT !.at = "idle"]
<1>1. /\ y \in [at: XferPoint, kind: Kind, addr: Nat, mtu: Nat, done: Nat,
                left: Nat, size: Nat, sub: Int, ret: Int]
      /\ y.at = "idle"
  BY DEF XTypeOK, XferPoint
<1>2. xfer' = [y EXCEPT !.ret = v]
  OBVIOUS
<1> HIDE DEF y
<1>3. XTypeOK' /\ xfer'.at = "idle"
  BY <1>1, <1>2 DEF XTypeOK
<1>4. XferAligned' /\ XferInBlock'
  BY <1>3 DEF XferAligned, XferInBlock
<1> QED
  BY <1>3, <1>4 DEF XInv

(* The initial state.                                                      *)
LEMMA XInvInit == ASSUME XInit PROVE XInv
BY DEF XInit, NoXfer, XInv, XTypeOK, XferAligned, XferInBlock, XferPoint, Kind

(* A new transfer: the arguments that are accepted.                        *)
LEMMA BeginXInv ==
  ASSUME XInv, NEW kind \in Kind, NEW a \in Nat, NEW n \in Nat, NEW m \in Nat,
         sync_begin(kind, a, n, m)
  PROVE  XInv'
<1>1. CASE BadArguments(a, n, m)
  BY <1>1 DEF sync_begin, NoXfer, XInv, XTypeOK, XferAligned, XferInBlock,
              XferPoint, Kind
<1>2. CASE ~BadArguments(a, n, m)
  <2>1. /\ a % 4 = 0 /\ m % 4 = 0 /\ n % 4 = 0
        /\ a + n <= SramBytes
    BY <1>2, MemAssumption DEF BadArguments, SramBytes
  <2>2. xfer' = [NoXfer EXCEPT !.at = "loop", !.kind = kind, !.addr = a,
                               !.mtu = m, !.size = n, !.left = n]
    BY <1>2 DEF sync_begin
  <2>3. xfer' = [at |-> "loop", kind |-> kind, addr |-> a, mtu |-> m,
                 done |-> 0, left |-> n, size |-> n, sub |-> 0, ret |-> 0]
    BY <2>2 DEF NoXfer
  <2>4. XTypeOK'
    BY <2>3 DEF XTypeOK, XferPoint
  <2>5. XferAligned'
    BY <2>1, <2>3 DEF XferAligned
  <2>6. XferInBlock'
    BY <2>1, <2>3 DEF XferInBlock, SramBytes
  <2> QED
    BY <2>4, <2>5, <2>6 DEF XInv
<1> QED
  BY <1>1, <1>2

(* What the loops make of a result keeps the invariant.                    *)
LEMMA EvaluatedXInv ==
  ASSUME XInv, xfer.at # "idle", NEW r \in Int, xfer' = Evaluated(r)
  PROVE  XInv'
<1> DEFINE p == Piece
<1>0. p \in Nat /\ p % 4 = 0 /\ p <= xfer.left
  BY PieceFits
<1>1. CASE r > 0
  <2>1. xfer' = [xfer EXCEPT !.at = "loop"]
    BY <1>1 DEF Evaluated
  <2>2. XTypeOK'
    BY <2>1 DEF XInv, XTypeOK, XferPoint
  <2>3. /\ xfer'.at = "loop"
        /\ xfer'.addr = xfer.addr /\ xfer'.mtu = xfer.mtu
        /\ xfer'.done = xfer.done /\ xfer'.left = xfer.left
        /\ xfer'.size = xfer.size
    BY <2>1 DEF XInv, XTypeOK
  <2>4. XferAligned'
    BY <2>3 DEF XInv, XferAligned
  <2>5. XferInBlock'
    BY <2>3 DEF XInv, XferInBlock, SramBytes
  <2> QED
    BY <2>2, <2>4, <2>5 DEF XInv
<1>2. CASE r < 0
  <2>1. xfer' = [xfer EXCEPT !.at = "idle", !.ret = -1]
    BY <1>2 DEF Evaluated
  <2>2. -1 \in Int
    OBVIOUS
  <2> QED
    BY <2>1, <2>2, EndedXInv DEF XInv
<1>3. CASE r = 0
  <2>1. xfer' = [xfer EXCEPT !.at = "loop", !.done = xfer.done + p,
                             !.left = xfer.left - p]
    BY <1>3 DEF Evaluated, XInv, XTypeOK
  <2>2. /\ xfer.done \in Nat /\ xfer.left \in Nat /\ xfer.size \in Nat
        /\ xfer.done % 4 = 0 /\ xfer.left % 4 = 0
        /\ xfer.done + xfer.left = xfer.size
    BY DEF XInv, XTypeOK, XferAligned, XferInBlock
  <2>3. /\ xfer.done + p \in Nat /\ xfer.left - p \in Nat
        /\ (xfer.done + p) % 4 = 0 /\ (xfer.left - p) % 4 = 0
        /\ (xfer.done + p) + (xfer.left - p) = xfer.size
    BY <1>0, <2>2, MultiplesOf4
  <2> HIDE DEF p
  <2>4. XTypeOK'
    BY <2>1, <2>3 DEF XInv, XTypeOK, XferPoint
  <2>5. /\ xfer'.at = "loop"
        /\ xfer'.addr = xfer.addr /\ xfer'.mtu = xfer.mtu
        /\ xfer'.done = xfer.done + p /\ xfer'.left = xfer.left - p
        /\ xfer'.size = xfer.size
    BY <2>1 DEF XInv, XTypeOK
  <2>6. XferAligned'
    BY <2>3, <2>5 DEF XInv, XferAligned
  <2>7. XferInBlock'
    BY <2>3, <2>5 DEF XInv, XferInBlock, SramBytes
  <2> QED
    BY <2>4, <2>6, <2>7 DEF XInv
<1> QED
  BY <1>1, <1>2, <1>3

(* Inside a call the RMAP layer keeps the address and the length it was    *)
(* given.                                                                  *)
LEMMA CallKeepsPiece ==
  ASSUME LibStep
  PROVE  /\ call # "none"
         /\ call' = "none" \/ (cmd'.addr = cmd.addr /\ cmd'.len = cmd.len)
<1>1. CASE rdcu_process_rx
  BY <1>1 DEF rdcu_process_rx, RxSkip, RxDropTransaction, RxAccept, RxEmpty,
              RxAllocFail, RxLoop, lib, log
<1>2. CASE SyncDataGrab
  BY <1>2 DEF SyncDataGrab, Prepare, Return
<1>3. CASE rdcu_submit_tx
  BY <1>3 DEF rdcu_submit_tx, Return
<1>4. CASE SyncStatusReturn
  BY <1>4 DEF SyncStatusReturn, Return
<1> QED
  BY <1>1, <1>2, <1>3, <1>4 DEF LibStep

(* Steps of the layer below and of the environment.                        *)
LEMMA BelowXInv ==
  ASSUME XInv, UNCHANGED xfer,
         LibStep \/ UNCHANGED <<call, cmd>>
  PROVE  XInv'
<1>1. /\ call' # "none" => call # "none"
      /\ call' = "none" \/ (cmd'.addr = cmd.addr /\ cmd'.len = cmd.len)
  BY CallKeepsPiece
<1>2. XferInBlock'
  BY <1>1 DEF XInv, XferInBlock, Piece, FullPiece, SramBytes
<1> QED
  BY <1>2 DEF XInv, XTypeOK, XferAligned

(* The points of a call that transfers data, and of one that asks for the  *)
(* status.                                                                 *)
DataCalls   == {"rx_data", "grab", "rx_submit", "tx"}
StatusCalls == {"rx_status", "status"}

(* What the RMAP layer does inside a call.                                 *)
LEMMA LibCalls ==
  ASSUME LibStep
  PROVE  \/ call' = "none"
         \/ call \in DataCalls /\ call' \in DataCalls /\ cmd'.kind = cmd.kind
         \/ call \in StatusCalls /\ call' \in StatusCalls
<1>1. CASE RxSkip \/ RxAccept
  BY <1>1 DEF RxSkip, RxAccept, RxLoop, DataCalls, StatusCalls, lib
<1>2. CASE RxDropTransaction \/ RxEmpty \/ RxAllocFail
  <2>1. call \in RxLoop /\ call' = AfterRx /\ cmd' = cmd
    BY <1>2 DEF RxDropTransaction, RxEmpty, RxAllocFail
  <2> QED
    BY <2>1 DEF AfterRx, RxLoop, DataCalls, StatusCalls
<1>3. CASE SyncDataGrab
  BY <1>3 DEF SyncDataGrab, Prepare, Return, DataCalls
<1>4. CASE rdcu_submit_tx \/ SyncStatusReturn
  BY <1>4 DEF rdcu_submit_tx, SyncStatusReturn, Return
<1> QED
  BY <1>1, <1>2, <1>3, <1>4 DEF LibStep, rdcu_process_rx

(* What the loops rely on of the RMAP layer: the fields of its command and *)
(* results that are numbers.                                               *)
LibShape ==
  /\ cmd \in [kind: Kind, tid: Slots, addr: Int, len: Int, data: {<<>>}]
  /\ ret \in Int
  /\ pending \in Int

(* The command of no call has that shape.                                  *)
LEMMA NoCmdShape ==
  NoCmd \in [kind: Kind, tid: Slots, addr: Int, len: Int, data: {<<>>}]
BY LogAssumption DEF NoCmd, Kind, Slots

(* Every step of a call keeps it.                                          *)
LEMMA LibShapeStep == ASSUME LibShape, LibStep PROVE LibShape'
<1>1. CASE rdcu_process_rx
  BY <1>1 DEF LibShape, rdcu_process_rx, RxSkip, RxDropTransaction, RxAccept,
              RxEmpty, RxAllocFail, trans_log_release_slot, lib, log
<1>2. CASE SyncDataGrab
  <2>1. CASE Prepare(cmd.kind, cmd.addr, cmd.len)
    <3>1. PICK s \in Slots :
            /\ trans_log_grab_slot(s, cmd.addr)
            /\ \/ /\ cmd' = [kind |-> cmd.kind, tid |-> s, addr |-> cmd.addr,
                             len |-> cmd.len, data |-> <<>>]
                  /\ UNCHANGED ret
               \/ Return(-1)
      BY <2>1 DEF Prepare
    <3>2. pending' \in Int
      BY <3>1 DEF trans_log_grab_slot, LibShape
    <3> QED
      BY <3>1, <3>2, NoCmdShape DEF LibShape, Return
  <2>2. CASE FreeSlots = {} /\ Return(1) /\ UNCHANGED log
    BY <2>2, NoCmdShape DEF LibShape, Return, log
  <2> QED
    BY <1>2, <2>1, <2>2 DEF SyncDataGrab
<1>3. CASE rdcu_submit_tx
  BY <1>3, NoCmdShape DEF LibShape, rdcu_submit_tx, Return, log
<1>4. CASE SyncStatusReturn
  BY <1>4, NoCmdShape DEF LibShape, SyncStatusReturn, Return, log
<1> QED
  BY <1>1, <1>2, <1>3, <1>4 DEF LibStep

(* One step of the loops.                                                  *)
LEMMA XferStepXInv ==
  ASSUME XInv, LibShape, XferStep
  PROVE  XInv' /\ LibShape'
<1>0. xfer.at # "idle" /\ XTypeOK
  BY DEF XferStep, SubmitPiece, PieceReturned, PollPending, PollReturned,
         AllSubmitted, XInv
<1>1. CASE SubmitPiece
  <2> DEFINE a == (xfer.addr + xfer.done) \div 4
             n == Piece \div 4
  <2>1. /\ xfer' = [xfer EXCEPT !.at = "sync"]
        /\ cmd' = [cmd EXCEPT !.kind = xfer.kind, !.addr = a, !.len = n]
        /\ UNCHANGED <<ret, pending>>
    BY <1>1 DEF SubmitPiece, rdcu_sync_data, log
  <2>2. /\ a \in Int /\ n \in Int
        /\ 4 * n = Piece /\ 4 * a = xfer.addr + xfer.done
    BY <1>0, PieceFits DEF XTypeOK
  <2>3. xfer.kind \in Kind
    BY <1>0 DEF XTypeOK
  <2> HIDE DEF a, n
  <2>4. cmd'.addr = a /\ cmd'.len = n /\ LibShape'
    BY <2>1, <2>2, <2>3 DEF LibShape
  <2>5. XTypeOK'
    BY <1>0, <2>1 DEF XTypeOK, XferPoint
  <2>6. /\ xfer'.at = "sync"
        /\ xfer'.addr = xfer.addr /\ xfer'.mtu = xfer.mtu
        /\ xfer'.done = xfer.done /\ xfer'.left = xfer.left
        /\ xfer'.size = xfer.size
    BY <1>0, <2>1 DEF XTypeOK
  <2>7. XferAligned'
    BY <1>0, <2>6 DEF XInv, XferAligned
  <2>8. Piece' = Piece
    BY <2>6 DEF Piece, FullPiece
  <2>9. XferInBlock'
    BY <1>0, <2>2, <2>4, <2>6, <2>8 DEF XInv, XferInBlock, SramBytes
  <2> QED
    BY <2>4, <2>5, <2>7, <2>9 DEF XInv
<1>2. ASSUME NEW p \in {"wait", "polled"}, UNCHANGED <<ret, pending, cmd>>,
             \/ xfer' = [xfer EXCEPT !.at = p]
             \/ xfer' = [xfer EXCEPT !.at = p, !.sub = ret]
      PROVE  XInv' /\ LibShape'
  <2>1. XTypeOK'
    BY <1>0, <1>2 DEF XTypeOK, XferPoint, LibShape
  <2>2. /\ xfer'.at = p
        /\ xfer'.addr = xfer.addr /\ xfer'.mtu = xfer.mtu
        /\ xfer'.done = xfer.done /\ xfer'.left = xfer.left
        /\ xfer'.size = xfer.size
    BY <1>0, <1>2 DEF XTypeOK
  <2>3. XferAligned'
    BY <1>0, <2>2 DEF XInv, XferAligned
  <2>4. XferInBlock'
    BY <1>0, <1>2, <2>2 DEF XInv, XferInBlock, SramBytes
  <2> QED
    BY <1>2, <2>1, <2>3, <2>4 DEF XInv, LibShape
<1>3. CASE PieceReturned
  <2>1. UNCHANGED <<ret, pending, cmd>>
    BY <1>3 DEF PieceReturned, vars, lib, log
  <2>2. CASE xfer' = [xfer EXCEPT !.at = "wait", !.sub = ret]
    BY <1>2, <2>1, <2>2
  <2>3. CASE xfer' = Evaluated(ret)
    BY <1>0, <2>1, <2>3, EvaluatedXInv DEF LibShape
  <2> QED
    BY <1>3, <2>2, <2>3 DEF PieceReturned
<1>4. CASE PollPending
  BY <1>2, <1>4 DEF PollPending, rdcu_rmap_sync_status, log
<1>5. CASE PollReturned
  <2>1. UNCHANGED <<ret, pending, cmd>>
    BY <1>5 DEF PollReturned, vars, lib, log
  <2>2. CASE xfer' = [xfer EXCEPT !.at = "wait"]
    BY <1>2, <2>1, <2>2
  <2>3. CASE xfer' = Evaluated(xfer.sub)
    <3>1. xfer.sub \in Int
      BY <1>0 DEF XTypeOK
    <3> QED
      BY <1>0, <2>1, <2>3, <3>1, EvaluatedXInv DEF LibShape
  <2> QED
    BY <1>5, <2>2, <2>3 DEF PollReturned
<1>6. CASE AllSubmitted
  <2>1. xfer' = [xfer EXCEPT !.at = "idle", !.ret = 0]
    BY <1>6 DEF AllSubmitted
  <2>2. LibShape'
    BY <1>6 DEF AllSubmitted, LibShape, vars, lib, log
  <2>3. 0 \in Int
    OBVIOUS
  <2> QED
    BY <1>0, <2>1, <2>2, <2>3, EndedXInv
<1> QED
  BY <1>1, <1>3, <1>4, <1>5, <1>6 DEF XferStep

(* One step of the application, the driver or the link.                    *)
LEMMA XInvStep ==
  ASSUME XInv, LibShape, [XNext]_xvars
  PROVE  XInv' /\ LibShape'
<1>1. CASE XApplication
  <2>1. ASSUME NEW a \in Addrs, NEW n \in Sizes, NEW m \in Mtus,
               \/ rdcu_sync_mirror_to_sram(a, n, m)
               \/ rdcu_sync_sram_to_mirror(a, n, m)
        PROVE  XInv' /\ LibShape'
    <3>1. a \in Nat /\ n \in Nat /\ m \in Nat
      BY ArgAssumption
    <3>2. PICK k \in Kind : sync_begin(k, a, n, m)
      BY <2>1 DEF rdcu_sync_mirror_to_sram, rdcu_sync_sram_to_mirror, Kind
    <3>3. LibShape'
      BY <3>2 DEF sync_begin, LibShape, vars, lib, log
    <3> QED
      BY <3>1, <3>2, <3>3, BeginXInv
  <2>2. CASE rdcu_rmap_sync_status /\ UNCHANGED xfer /\ xfer.at = "idle"
    <3>1. LibShape'
      BY <2>2 DEF rdcu_rmap_sync_status, LibShape, log
    <3>2. XTypeOK' /\ xfer'.at = "idle"
      BY <2>2 DEF XInv, XTypeOK
    <3>3. XferAligned' /\ XferInBlock'
      BY <3>2 DEF XferAligned, XferInBlock
    <3> QED
      BY <3>1, <3>2, <3>3 DEF XInv
  <2>3. ASSUME NEW w \in Sram, NEW v \in Value, SetMirror(w, v),
               UNCHANGED xfer
        PROVE  XInv' /\ LibShape'
    <3>1. UNCHANGED <<call, cmd, ret, pending>>
      BY <2>3 DEF SetMirror, lib, log
    <3> QED
      BY <2>3, <3>1, BelowXInv DEF LibShape
  <2> QED
    BY <1>1, <2>1, <2>2, <2>3 DEF XApplication
<1>2. CASE XferStep
  BY <1>2, XferStepXInv
<1>3. CASE LibStep /\ UNCHANGED xfer
  BY <1>3, BelowXInv, LibShapeStep
<1>4. CASE (Environment \/ UNCHANGED vars) /\ UNCHANGED xfer
  <2>1. UNCHANGED <<call, cmd, ret, pending>>
    BY <1>4 DEF Environment, TargetExecute, TargetReject, LoseCommand,
                LoseReply, DamageReply, RemoteUpdate, vars, lib, log
  <2> QED
    BY <1>4, <2>1, BelowXInv DEF LibShape
<1> QED
  BY <1>1, <1>2, <1>3, <1>4 DEF XNext, xvars

(* The invariant holds in every state of the transfers.                    *)
LEMMA XInvAlways == XSpec => [](XInv /\ LibShape)
<1>1. XInit => XInv /\ LibShape
  <2>1. ASSUME XInit PROVE LibShape
    BY <2>1, NoCmdShape DEF XInit, Init, LibShape
  <2> QED
    BY <2>1, XInvInit
<1>2. XInv /\ LibShape /\ [XNext]_xvars => (XInv /\ LibShape)'
  BY XInvStep
<1> QED
  BY <1>1, <1>2, PTL DEF XSpec

(* The counters of the transfer loops never go below zero: what is left is *)
(* never smaller than the piece taken off it.                              *)
THEOREM XTypeCorrect == XSpec => []XTypeOK
<1>1. XInv => XTypeOK
  BY DEF XInv
<1> QED
  BY <1>1, XInvAlways, PTL

(* For every size of SRAM and every address, size and mtu that             *)
(* rdcu_sync_mirror_to_sram and rdcu_sync_sram_to_mirror accept, whatever  *)
(* the link does and however often a piece is refused, the pieces tile the *)
(* block.                                                                  *)
THEOREM PiecesTileBlock == XSpec => []XferInBlock
<1>1. XInv => XferInBlock
  BY DEF XInv
<1> QED
  BY <1>1, XInvAlways, PTL
=============================================================================
