-------------------------- MODULE SramBlockProofs --------------------------
(***************************************************************************)
(* A transfer to or from the SRAM moves its block and nothing else         *)
(* (MCSramSync), for every size of the memories and of the log, all        *)
(* arguments and every combination of faults.                              *)
(***************************************************************************)
EXTENDS MCSramSync, SramSyncProofs, RdcuRmapProofs

(* The sizes the loops work with: no transfer begins behind the SRAM, and  *)
(* an mtu of 0 never gets anywhere.                                        *)
XArgs ==
  xfer.at # "idle" => xfer.addr < SramBytes /\ (xfer.mtu = 0 => xfer.done = 0)

(* A call to transfer data is made for the piece of a transfer; the status *)
(* is asked for between transfers or while one waits.                      *)
CallInv ==
  /\ call \in {"rx_data", "grab", "rx_submit", "tx"} =>
       xfer.at = "sync" /\ cmd.kind = xfer.kind
  /\ call \in {"rx_status", "status"} => xfer.at \in {"idle", "polled"}

(* Word w is one of the n words from a on; data d for the words from a on  *)
(* is what memory m holds there; the n words from a on are in set B.       *)
Covered(a, n, w) == a <= w /\ w < a + n
Holds(a, d, m)   == \A w \in Addr : Covered(a, Len(d), w) => d[w - a + 1] = m[w]
Inside(a, n, B)  == \A w \in Addr : Covered(a, n, w) => w \in B

(* Everything on the link belongs to transfer x and carries what the goal  *)
(* g asks for; the side the block is taken from does not change.           *)
CmdFits(c, x, g) ==
  /\ c.kind = x.kind /\ Inside(c.addr, c.len, Block(x))
  /\ c.kind = "write" => Len(c.data) = c.len /\ Holds(c.addr, c.data, g.remote)
ReplyFits(r, x, g) ==
  /\ Inside(r.addr, Len(r.data), Block(x)) /\ Holds(r.addr, r.data, g.mirror)
  /\ x.kind = "write" => Len(r.data) = 0
Busy == xfer.at # "idle" \/ cmds # <<>> \/ replies # <<>>
LinkInv ==
  /\ goal \in [mirror: [Addr -> Value], remote: [Addr -> Value], ok: BOOLEAN]
  /\ \A i \in 1 .. Len(cmds) : CmdFits(cmds[i], xfer, goal)
  /\ \A i \in 1 .. Len(replies) : ReplyFits(replies[i], xfer, goal)
  /\ Busy => \A w \in Block(xfer) : goal.mirror[w] = goal.remote[w]
  /\ xfer.kind = "write" => mirror = goal.mirror
  /\ xfer.kind = "read" => \A w \in Addr \ RdRegs : remote[w] = goal.remote[w]
  /\ NothingBeside

(* The words of the block that were submitted: those of the pieces the     *)
(* loops have counted and of the one that was accepted last.               *)
PieceSent ==
  \/ xfer.at = "sync" /\ call = "none" /\ ret = 0
  \/ xfer.at \in {"wait", "polled"} /\ xfer.sub = 0
SentWord(w) ==
  /\ w \in Block(xfer)
  /\ \/ 4 * w < xfer.addr + xfer.done
     \/ PieceSent /\ 4 * w < xfer.addr + xfer.done + Piece

(* They have arrived or are on their way, unless a packet was lost, not    *)
(* understood or answered with an error.                                   *)
Arrived(w) == mirror[w] = goal.mirror[w] /\ remote[w] = goal.remote[w]
CmdsCover(q, w)    == \E i \in 1 .. Len(q) : Covered(q[i].addr, q[i].len, w)
RepliesCover(q, w) == \E i \in 1 .. Len(q) : Covered(q[i].addr, Len(q[i].data), w)
OnWay(w) == CmdsCover(cmds, w) \/ RepliesCover(replies, w)
MoveInv ==
  /\ xfer.at = "idle" /\ xfer.ret = 0 => xfer.done = xfer.size
  /\ goal.ok => \A i \in 1 .. Len(replies) : replies[i].form \in {"ok", "garbled"}
  /\ goal.ok /\ NoSlotLeak => \A w \in Addr : SentWord(w) => Arrived(w) \/ OnWay(w)
-----------------------------------------------------------------------------
(* The parts that do not depend on the goal.                               *)
BaseInv ==
  /\ XInv /\ LibShape /\ XArgs /\ CallInv
  /\ TypeOK /\ PendingCountsSlots /\ LogInv

(* The steps of the transfer loops: what they leave alone, and how far     *)
(* they get.                                                               *)
LEMMA XferMoves ==
  ASSUME XTypeOK, LibShape, CallInv, TypeOK, XferStep
  PROVE  /\ xfer.at # "idle"
         /\ xfer'.addr = xfer.addr /\ xfer'.size = xfer.size
         /\ xfer'.mtu = xfer.mtu /\ xfer'.kind = xfer.kind
         /\ \/ SubmitPiece /\ xfer'.at = "sync" /\ xfer'.done = xfer.done
            \/ /\ PollPending /\ xfer.at = "wait" /\ xfer'.at = "polled"
               /\ xfer'.done = xfer.done /\ xfer'.left = xfer.left
               /\ xfer'.sub = xfer.sub
            \/ /\ UNCHANGED vars /\ call = "none"
               /\ \/ /\ xfer.at = "sync" /\ xfer'.at = "wait" /\ xfer'.sub = ret
                     /\ xfer'.done = xfer.done /\ xfer'.left = xfer.left
                  \/ /\ xfer.at = "polled" /\ xfer'.at = "wait"
                     /\ xfer'.sub = xfer.sub
                     /\ xfer'.done = xfer.done /\ xfer'.left = xfer.left
                  \/ xfer'.at = "loop" /\ xfer'.done = xfer.done
                  \/ xfer'.at = "loop" /\ xfer'.done = xfer.done + Piece /\ PieceSent
                  \/ xfer'.at = "idle" /\ xfer'.ret = -1 /\ xfer'.done = xfer.done
                  \/ /\ xfer'.at = "idle" /\ xfer'.ret = 0
                     /\ xfer'.done = xfer.done /\ xfer.left = 0
<1>1. CASE SubmitPiece
  <2>1. xfer.at = "loop" /\ xfer' = [xfer EXCEPT !.at = "sync"]
    BY <1>1 DEF SubmitPiece
  <2> QED
    BY <1>1, <2>1 DEF XTypeOK
<1>2. CASE PollPending
  BY <1>2 DEF PollPending, XTypeOK
<1>3. CASE AllSubmitted
  <2>1. /\ UNCHANGED vars /\ xfer.at = "loop" /\ xfer.left = 0
        /\ xfer' = [xfer EXCEPT !.at = "idle", !.ret = 0]
    BY <1>3 DEF AllSubmitted
  <2>2. call = "none"
    BY <2>1 DEF CallInv, TypeOK, CallPoint, RxLoop
  <2> QED
    BY <2>1, <2>2 DEF XTypeOK
<1>4. ASSUME NEW r \in Int, xfer' = Evaluated(r), xfer.at # "idle", UNCHANGED vars,
             call = "none",
             r = 0 => PieceSent
      PROVE  /\ xfer.at # "idle"
             /\ xfer'.addr = xfer.addr /\ xfer'.size = xfer.size
             /\ xfer'.mtu = xfer.mtu /\ xfer'.kind = xfer.kind
             /\ UNCHANGED vars /\ call = "none"
             /\ \/ xfer'.at = "loop" /\ xfer'.done = xfer.done
                \/ xfer'.at = "loop" /\ xfer'.done = xfer.done + Piece /\ PieceSent
                \/ xfer'.at = "idle" /\ xfer'.ret = -1 /\ xfer'.done = xfer.done
  <2>1. CASE r > 0
    <3>1. xfer' = [xfer EXCEPT !.at = "loop"]
      BY <1>4, <2>1 DEF Evaluated
    <3> QED
      BY <1>4, <3>1 DEF XTypeOK
  <2>2. CASE r < 0
    <3>1. xfer' = [xfer EXCEPT !.at = "idle", !.ret = -1]
      BY <1>4, <2>2 DEF Evaluated
    <3> QED
      BY <1>4, <3>1 DEF XTypeOK
  <2>3. CASE r = 0
    <3>1. xfer' = [xfer EXCEPT !.at = "loop", !.done = xfer.done + Piece,
                               !.left = xfer.left - Piece]
      BY <1>4, <2>3 DEF Evaluated, XTypeOK
    <3> HIDE DEF Piece
    <3> QED
      BY <1>4, <2>3, <3>1 DEF XTypeOK
  <2> QED
    BY <2>1, <2>2, <2>3
<1>5. CASE PieceReturned
  <2>1. /\ UNCHANGED vars /\ call = "none" /\ xfer.at = "sync"
        /\ xfer' = [xfer EXCEPT !.at = "wait", !.sub = ret] \/ xfer' = Evaluated(ret)
    BY <1>5 DEF PieceReturned
  <2>2. CASE xfer' = [xfer EXCEPT !.at = "wait", !.sub = ret]
    BY <2>1, <2>2 DEF XTypeOK
  <2>3. CASE xfer' = Evaluated(ret)
    <3>1. ret \in Int
      BY DEF LibShape
    <3> QED
      BY <1>4, <2>1, <2>3, <3>1 DEF PieceSent
  <2> QED
    BY <2>1, <2>2, <2>3
<1>6. CASE PollReturned
  <2>1. /\ UNCHANGED vars /\ call = "none" /\ xfer.at = "polled"
        /\ xfer' = [xfer EXCEPT !.at = "wait"] \/ xfer' = Evaluated(xfer.sub)
    BY <1>6 DEF PollReturned
  <2>2. CASE xfer' = [xfer EXCEPT !.at = "wait"]
    BY <2>1, <2>2 DEF XTypeOK
  <2>3. CASE xfer' = Evaluated(xfer.sub)
    <3>1. xfer.sub \in Int
      BY DEF XTypeOK
    <3> QED
      BY <1>4, <2>1, <2>3, <3>1 DEF PieceSent
  <2> QED
    BY <2>1, <2>2, <2>3
<1> QED
  BY <1>1, <1>2, <1>3, <1>5, <1>6 DEF XferStep

(* The next piece lies in the SRAM.                                        *)
LEMMA PieceInSram ==
  ASSUME XInv, XArgs, xfer.at # "idle", FullPiece \/ xfer.left > 0,
         NEW a, a = (xfer.addr + xfer.done) \div 4, NEW n, n = Piece \div 4
  PROVE  a \in Addr /\ n \in Nat /\ a + n <= MemWords
<1>1. /\ xfer.addr \in Nat /\ xfer.mtu \in Nat /\ xfer.done \in Nat
      /\ xfer.left \in Nat /\ xfer.size \in Nat
  BY DEF XInv, XTypeOK
<1>2. /\ Piece \in Nat /\ Piece <= xfer.left /\ 4 * n = Piece
      /\ 4 * a = xfer.addr + xfer.done
  BY PieceFits
<1>3. xfer.done + xfer.left = xfer.size /\ xfer.addr + xfer.size <= 4 * SramWords
  BY DEF XInv, XferInBlock, SramBytes
<1>4. a \in Nat /\ n \in Nat
  BY <1>1, <1>2
<1>5. a + n <= SramWords
  BY <1>1, <1>2, <1>3, <1>4, MemAssumption
<1>6. Piece = 0 => xfer.mtu = 0
  BY <1>1 DEF Piece, FullPiece
<1>7. Piece = 0 => 4 * a < 4 * SramWords
  BY <1>1, <1>2, <1>6 DEF XArgs, SramBytes
<1>8. a < SramWords
  BY <1>2, <1>4, <1>5, <1>7, MemAssumption
<1> QED
  BY <1>4, <1>5, <1>8, MemAssumption DEF Addr

(* Submitting a piece only begins a call.                                  *)
LEMMA SubmitPieceBase ==
  ASSUME BaseInv, SubmitPiece
  PROVE  TypeOK' /\ PendingCountsSlots' /\ LogInv' /\ (NoSlotLeak' => NoSlotLeak)
<1> DEFINE a == (xfer.addr + xfer.done) \div 4
           n == Piece \div 4
<1>1. /\ xfer.at = "loop"
      /\ FullPiece \/ xfer.left > 0
      /\ call = "none" /\ call' = "rx_data"
      /\ cmd' = [cmd EXCEPT !.kind = xfer.kind, !.addr = a, !.len = n]
      /\ UNCHANGED <<in_use, local_addr, pending, ret, mirror, cmds, replies, remote>>
  BY DEF SubmitPiece, rdcu_sync_data, log, link
<1>2. a \in Addr /\ n \in Nat /\ a + n <= MemWords
  <2>1. XInv /\ XArgs /\ xfer.at # "idle"
    BY <1>1 DEF BaseInv
  <2>2. FullPiece \/ xfer.left > 0
    BY <1>1
  <2> HIDE DEF a, n
  <2>3. PICK b : b = a
    OBVIOUS
  <2>4. PICK m : m = n
    OBVIOUS
  <2> QED
    BY <2>1, <2>2, <2>3, <2>4, PieceInSram DEF a, n
<1> HIDE DEF a, n
<1>3. xfer.kind \in Kind
  BY DEF BaseInv, XInv, XTypeOK
<1>4. cmd' \in Command
  BY <1>1, <1>2, <1>3 DEF BaseInv, TypeOK, Command
<1>5. TypeOK'
  BY <1>1, <1>4 DEF BaseInv, TypeOK, CallPoint, RxLoop
<1>6. ~Submitting /\ ~Submitting'
  BY <1>1 DEF Submitting
<1>7. LogInv'
  BY <1>1, <1>6, Unmoved DEF BaseInv
<1>8. PendingCountsSlots'
  BY <1>1 DEF BaseInv, PendingCountsSlots
<1>9. NoSlotLeak' => NoSlotLeak
  BY <1>1, <1>6 DEF NoSlotLeak, InFlight
<1> QED
  BY <1>5, <1>7, <1>8, <1>9

(* The steps, seen from the RMAP layer: all but the submission of a piece  *)
(* are steps an application of RdcuRmap may take.                          *)
LEMMA XSteps ==
  ASSUME XNext
  PROVE  \/ /\ UNCHANGED xfer
            /\ \/ LibStep
               \/ Environment
               \/ xfer.at = "idle" /\ rdcu_rmap_sync_status
               \/ xfer.at = "idle" /\ \E w \in Sram, v \in Value : SetMirror(w, v)
         \/ /\ xfer.at = "idle" /\ UNCHANGED vars /\ call = "none"
            /\ \E k \in Kind, a \in Nat, n \in Nat, m \in Nat : sync_begin(k, a, n, m)
         \/ XferStep
<1>1. ASSUME NEW a \in Addrs, NEW n \in Sizes, NEW m \in Mtus,
             \/ rdcu_sync_mirror_to_sram(a, n, m)
             \/ rdcu_sync_sram_to_mirror(a, n, m)
      PROVE  /\ xfer.at = "idle" /\ UNCHANGED vars /\ call = "none"
             /\ \E k \in Kind, b \in Nat, i \in Nat, j \in Nat : sync_begin(k, b, i, j)
  <2>1. PICK k \in Kind : sync_begin(k, a, n, m)
    BY <1>1 DEF rdcu_sync_mirror_to_sram, rdcu_sync_sram_to_mirror, Kind
  <2>2. xfer.at = "idle" /\ UNCHANGED vars /\ call = "none"
    BY <2>1 DEF sync_begin
  <2>3. a \in Nat /\ n \in Nat /\ m \in Nat
    BY ArgAssumption
  <2> QED
    BY <2>1, <2>2, <2>3
<1> QED
  BY <1>1 DEF XNext, XApplication

(* Steps of the layer below are steps of RdcuRmap.                         *)
LEMMA BelowBase ==
  ASSUME BaseInv,
         LibStep \/ Environment \/ rdcu_rmap_sync_status
           \/ \E w \in Sram, v \in Value : SetMirror(w, v)
  PROVE  TypeOK' /\ PendingCountsSlots' /\ LogInv' /\ (NoSlotLeak' => NoSlotLeak)
<1>1. Next
  BY DEF Next, Application
<1> QED
  BY <1>1, TypeStep, PendingStep, LogInvStep, LeakStays DEF BaseInv, AnyStep

(* What the loops count and which call is made when.                       *)
LEMMA ArgsStep ==
  ASSUME BaseInv, XNext
  PROVE  XArgs' /\ CallInv'
<1>1. ASSUME UNCHANGED xfer,
             \/ LibStep \/ Environment
             \/ xfer.at = "idle" /\ rdcu_rmap_sync_status
             \/ \E w \in Sram, v \in Value : SetMirror(w, v)
      PROVE  XArgs' /\ CallInv'
  <2>1. XArgs'
    BY <1>1 DEF BaseInv, XArgs, SramBytes
  <2>2. CASE LibStep
    BY <1>1, <2>1, <2>2, LibCalls DEF BaseInv, CallInv, DataCalls, StatusCalls
  <2>3. CASE xfer.at = "idle" /\ rdcu_rmap_sync_status
    BY <1>1, <2>1, <2>3 DEF CallInv, rdcu_rmap_sync_status
  <2>4. CASE Environment \/ \E w \in Sram, v \in Value : SetMirror(w, v)
    <3>1. UNCHANGED <<call, cmd>>
      BY <2>4 DEF Environment, TargetExecute, TargetReject, LoseCommand,
                  LoseReply, DamageReply, RemoteUpdate, SetMirror, vars, lib
    <3> QED
      BY <1>1, <2>1, <3>1 DEF BaseInv, CallInv
  <2> QED
    BY <1>1, <2>2, <2>3, <2>4
<1>2. ASSUME NEW k \in Kind, NEW a \in Nat, NEW n \in Nat, NEW m \in Nat,
             sync_begin(k, a, n, m)
      PROVE  XArgs' /\ CallInv'
  <2>1. call' = "none"
    BY <1>2 DEF sync_begin, vars, lib
  <2>2. CASE BadArguments(a, n, m)
    BY <1>2, <2>1, <2>2 DEF sync_begin, NoXfer, XArgs, CallInv
  <2>3. CASE ~BadArguments(a, n, m)
    <3>1. xfer' = [at |-> "loop", kind |-> k, addr |-> a, mtu |-> m,
                   done |-> 0, left |-> n, size |-> n, sub |-> 0, ret |-> 0]
      BY <1>2, <2>3 DEF sync_begin, NoXfer
    <3>2. a < SramBytes
      BY <2>3, MemAssumption DEF BadArguments, SramBytes
    <3> QED
      BY <2>1, <3>1, <3>2 DEF XArgs, CallInv, SramBytes
  <2> QED
    BY <2>2, <2>3
<1>3. CASE XferStep
  <2>1. XTypeOK /\ LibShape /\ CallInv /\ TypeOK
    BY DEF BaseInv, XInv
  <2>2. xfer.mtu = 0 => Piece = 0
    BY <2>1 DEF XTypeOK, Piece, FullPiece
  <2>3. /\ xfer.at # "idle" /\ xfer'.addr = xfer.addr /\ xfer'.mtu = xfer.mtu
        /\ xfer'.done = xfer.done \/ xfer'.done = xfer.done + Piece
    BY <1>3, <2>1, XferMoves
  <2>4. XArgs'
    BY <2>1, <2>2, <2>3 DEF BaseInv, XArgs, SramBytes, XTypeOK
  <2>5. CASE SubmitPiece
    <3>1. /\ call' = "rx_data"
          /\ xfer' = [xfer EXCEPT !.at = "sync"]
          /\ cmd' = [cmd EXCEPT !.kind = xfer.kind,
                       !.addr = (xfer.addr + xfer.done) \div 4, !.len = Piece \div 4]
      BY <2>5 DEF SubmitPiece, rdcu_sync_data
    <3>2. xfer'.at = "sync" /\ xfer'.kind = xfer.kind
      BY <2>1, <3>1 DEF XTypeOK
    <3>3. cmd'.kind = xfer.kind
      BY <2>1, <3>1 DEF LibShape
    <3> QED
      BY <2>4, <3>1, <3>2, <3>3 DEF CallInv
  <2>6. CASE PollPending
    <3>1. call' = "rx_status" /\ xfer' = [xfer EXCEPT !.at = "polled"]
      BY <2>6 DEF PollPending, rdcu_rmap_sync_status
    <3> QED
      BY <2>1, <2>4, <3>1 DEF CallInv, XTypeOK
  <2>7. CASE UNCHANGED vars /\ call = "none"
    BY <2>4, <2>7 DEF CallInv, vars, lib
  <2> QED
    BY <1>3, <2>1, <2>5, <2>6, <2>7, XferMoves
<1> QED
  BY <1>1, <1>2, <1>3, XSteps

(* The base of the proof is an invariant by itself.                        *)
LEMMA BaseStep ==
  ASSUME BaseInv, [XNext]_xvars
  PROVE  BaseInv' /\ (NoSlotLeak' => NoSlotLeak)
<1>1. XInv' /\ LibShape'
  BY XInvStep DEF BaseInv
<1>2. CASE UNCHANGED xvars
  BY <1>2 DEF BaseInv, XInv, XTypeOK, XferAligned, XferInBlock, Piece, FullPiece,
     SramBytes, LibShape, XArgs, CallInv, TypeOK, PendingCountsSlots, LogInv,
     AllHoldSlots, NoSharedSlot, HoldsSlot, Submitting, NoSlotLeak, InFlight,
     xvars, vars, lib, log, link
<1>3. CASE XNext
  <2>1. XArgs' /\ CallInv'
    BY <1>3, ArgsStep
  <2>2. CASE UNCHANGED vars
    BY <1>1, <2>1, <2>2
       DEF BaseInv, TypeOK, PendingCountsSlots, LogInv, AllHoldSlots,
           NoSharedSlot, HoldsSlot, Submitting, NoSlotLeak, InFlight,
           vars, lib, log, link
  <2>3. CASE XferStep
    <3>1. SubmitPiece \/ rdcu_rmap_sync_status \/ UNCHANGED vars
      BY <2>3 DEF XferStep, PieceReturned, PollPending, PollReturned, AllSubmitted
    <3> QED
      BY <1>1, <2>1, <2>2, <3>1, SubmitPieceBase, BelowBase DEF BaseInv
  <2> QED
    BY <1>1, <1>3, <2>1, <2>2, <2>3, XSteps, BelowBase DEF BaseInv
<1> QED
  BY <1>2, <1>3
-----------------------------------------------------------------------------
(* A step of the specification with the history variable.                  *)
GoalStep == XNext /\ (AppStep => pending = 0) /\ goal' = NextGoal

(* Only a new transfer or a write to the mirror sets a new goal.           *)
SameGoal ==
  /\ goal' \in [mirror: [Addr -> Value], remote: [Addr -> Value], ok: BOOLEAN]
  /\ goal'.mirror = goal.mirror /\ goal'.remote = goal.remote
  /\ goal'.ok = (goal.ok /\ ~ErrorAnswer)
  /\ xfer'.addr = xfer.addr /\ xfer'.size = xfer.size /\ xfer'.kind = xfer.kind
  /\ Block(xfer') = Block(xfer)

(* The steps of the application set a new goal, the others keep it.        *)
LEMMA GoalSteps ==
  ASSUME BaseInv, LinkInv, GoalStep
  PROVE  \/ /\ AppStep /\ pending = 0 /\ xfer.at = "idle"
            /\ \/ \E k \in Kind, a \in Nat, n \in Nat, m \in Nat : sync_begin(k, a, n, m)
               \/ UNCHANGED xfer /\ \E w \in Sram, v \in Value : SetMirror(w, v)
         \/ /\ SameGoal
            /\ \/ LibStep /\ UNCHANGED xfer
               \/ Environment /\ UNCHANGED xfer
               \/ XferStep
               \/ UNCHANGED <<xfer, cmds, replies, mirror, remote, in_use>> /\ xfer.at = "idle"
<1>1. ASSUME ~AppStep, xfer'.addr = xfer.addr, xfer'.size = xfer.size,
             xfer'.kind = xfer.kind
      PROVE  SameGoal
  <2>1. goal' = [goal EXCEPT !.ok = goal.ok /\ ~ErrorAnswer]
    BY <1>1 DEF GoalStep, NextGoal, LinkInv
  <2>2. Block(xfer') = Block(xfer)
    BY <1>1 DEF Block
  <2>3. (goal.ok /\ ~ErrorAnswer) \in BOOLEAN
    OBVIOUS
  <2> QED
    BY <1>1, <2>1, <2>2, <2>3, Zenon DEF SameGoal, LinkInv
<1>2. CASE LibStep /\ UNCHANGED xfer
  <2>1. call # "none"
    BY <1>2, CallKeepsPiece
  <2> QED
    BY <1>1, <1>2, <2>1 DEF AppStep
<1>3. CASE Environment /\ UNCHANGED xfer
  <2>1. mirror' = mirror
    BY <1>3 DEF Environment, TargetExecute, TargetReject, LoseCommand,
                LoseReply, DamageReply, RemoteUpdate
  <2> QED
    BY <1>1, <1>3, <2>1 DEF AppStep
<1>4. CASE XferStep
  <2>1. XTypeOK /\ LibShape /\ CallInv /\ TypeOK
    BY DEF BaseInv, XInv
  <2>2. /\ xfer.at # "idle" /\ xfer'.addr = xfer.addr /\ xfer'.size = xfer.size
        /\ xfer'.kind = xfer.kind
    BY <1>4, <2>1, XferMoves
  <2> QED
    BY <1>1, <1>4, <2>2 DEF AppStep
<1>5. CASE UNCHANGED xfer /\ xfer.at = "idle" /\ rdcu_rmap_sync_status
  <2>1. UNCHANGED <<xfer, cmds, replies, mirror, remote, in_use>>
    BY <1>5 DEF rdcu_rmap_sync_status, link, log
  <2> QED
    BY <1>1, <1>5, <2>1 DEF AppStep
<1>6. CASE /\ UNCHANGED xfer /\ xfer.at = "idle"
           /\ \E w \in Sram, v \in Value : SetMirror(w, v)
  <2>1. UNCHANGED <<cmds, replies, remote, in_use>>
    BY <1>6 DEF SetMirror, link, lib, log
  <2>2. CASE mirror' = mirror
    BY <1>1, <1>6, <2>1, <2>2 DEF AppStep
  <2>3. CASE mirror' # mirror
    <3>1. AppStep
      BY <1>6, <2>3 DEF AppStep, SetMirror
    <3> QED
      BY <1>6, <3>1 DEF GoalStep
  <2> QED
    BY <2>2, <2>3
<1>7. CASE /\ xfer.at = "idle" /\ UNCHANGED vars /\ call = "none"
           /\ \E k \in Kind, a \in Nat, n \in Nat, m \in Nat : sync_begin(k, a, n, m)
  <2>1. UNCHANGED <<cmds, replies, mirror, remote, in_use>>
    BY <1>7 DEF vars, link, lib, log
  <2>2. CASE xfer' = xfer
    BY <1>1, <1>7, <2>1, <2>2 DEF AppStep
  <2>3. CASE xfer' # xfer
    <3>1. AppStep
      BY <1>7, <2>3 DEF AppStep
    <3> QED
      BY <1>7, <3>1 DEF GoalStep
  <2> QED
    BY <2>2, <2>3
<1> QED
  BY <1>2, <1>3, <1>4, <1>5, <1>6, <1>7, XSteps DEF GoalStep

(* Copying a block from a memory to another.                               *)
LEMMA CopyIs ==
  ASSUME NEW x, NEW to \in [Addr -> Value], NEW from \in [Addr -> Value]
  PROVE  /\ Copy(x, to, from) \in [Addr -> Value]
         /\ \A w \in Addr : Copy(x, to, from)[w] =
                              IF w \in Block(x) THEN from[w] ELSE to[w]
BY DEF Copy

(* A new goal is set when nothing is on the link.                          *)
LEMMA NewGoal ==
  ASSUME BaseInv, BaseInv', LinkInv, MoveInv, GoalStep, AppStep, pending = 0,
         xfer.at = "idle",
         \/ \E k \in Kind, a \in Nat, n \in Nat, m \in Nat : sync_begin(k, a, n, m)
         \/ UNCHANGED xfer /\ \E w \in Sram, v \in Value : SetMirror(w, v)
  PROVE  LinkInv' /\ MoveInv'
<1>1. cmds' = <<>> /\ replies' = <<>> /\ Len(cmds') = 0 /\ Len(replies') = 0
  <2>1. cmds = <<>> /\ replies = <<>> /\ Len(cmds) = 0 /\ Len(replies) = 0
    BY QuietLink DEF BaseInv
  <2>2. UNCHANGED <<cmds, replies>>
    BY DEF sync_begin, SetMirror, vars, link
  <2> QED
    BY <2>1, <2>2
<1>2. remote' = remote
  BY DEF sync_begin, SetMirror, vars
<1>3. /\ mirror \in [Addr -> Value] /\ mirror' \in [Addr -> Value]
      /\ remote \in [Addr -> Value] /\ Block(xfer') \subseteq Addr
  BY MemAssumption DEF BaseInv, TypeOK, Block, Sram, Addr
<1>4. CASE xfer'.at = "idle"
  <2>1. goal' = [mirror |-> mirror', remote |-> remote', ok |-> TRUE]
    BY <1>2, <1>4 DEF GoalStep, NextGoal
  <2>2. LinkInv'
    BY <1>1, <1>2, <1>3, <1>4, <2>1 DEF LinkInv, Busy, NothingBeside
  <2>3. \A w \in Addr : Arrived(w)'
    BY <2>1 DEF Arrived
  <2>4. xfer'.ret = 0 => xfer'.done = xfer'.size
    <3>1. CASE UNCHANGED xfer
      BY <3>1 DEF MoveInv
    <3>2. ASSUME NEW k \in Kind, NEW a \in Nat, NEW n \in Nat, NEW m \in Nat,
                 sync_begin(k, a, n, m)
          PROVE  xfer'.ret = -1
      BY <1>4, <3>2 DEF sync_begin, NoXfer
    <3> QED
      BY <3>1, <3>2
  <2> QED
    BY <1>1, <2>2, <2>3, <2>4 DEF MoveInv
<1>5. CASE xfer'.at # "idle"
  <2>1. PICK k \in Kind, a \in Nat, n \in Nat, m \in Nat : sync_begin(k, a, n, m)
    BY <1>5
  <2>2. xfer' = [at |-> "loop", kind |-> k, addr |-> a, mtu |-> m,
                 done |-> 0, left |-> n, size |-> n, sub |-> 0, ret |-> 0]
    BY <1>5, <2>1 DEF sync_begin, NoXfer
  <2>3. mirror' = mirror
    BY <2>1 DEF sync_begin, vars
  <2>4. \/ /\ xfer'.kind = "read"
           /\ goal' = [mirror |-> Copy(xfer', mirror, remote), remote |-> remote,
                       ok |-> TRUE]
        \/ /\ xfer'.kind = "write"
           /\ goal' = [mirror |-> mirror, remote |-> Copy(xfer', remote, mirror),
                       ok |-> TRUE]
    BY <1>5, <2>2 DEF GoalStep, NextGoal, Kind
  <2>5. LinkInv'
    <3>1. goal' \in [mirror: [Addr -> Value], remote: [Addr -> Value], ok: BOOLEAN]
      <4>1. /\ Copy(xfer', mirror, remote) \in [Addr -> Value]
            /\ Copy(xfer', remote, mirror) \in [Addr -> Value]
        BY <1>3, CopyIs
      <4> QED
        <5>1. CASE goal' = [mirror |-> Copy(xfer', mirror, remote),
                            remote |-> remote, ok |-> TRUE]
          BY <1>3, <4>1, <5>1
        <5>2. CASE goal' = [mirror |-> mirror,
                            remote |-> Copy(xfer', remote, mirror), ok |-> TRUE]
          BY <1>3, <4>1, <5>2
        <5> QED
          BY <2>4, <5>1, <5>2
    <3>2. \A w \in Block(xfer') : goal'.mirror[w] = goal'.remote[w]
      BY <1>3, <2>4, CopyIs
    <3>3. NothingBeside'
      BY <1>2, <1>3, <2>3, <2>4, CopyIs DEF NothingBeside
    <3>4. xfer'.kind = "write" => mirror' = goal'.mirror
      BY <2>3, <2>4
    <3>5. xfer'.kind = "read" => \A w \in Addr \ RdRegs : remote'[w] = goal'.remote[w]
      BY <1>2, <2>4
    <3> QED
      <4>1. /\ \A i \in 1 .. Len(cmds') : CmdFits(cmds'[i], xfer', goal')
            /\ \A i \in 1 .. Len(replies') : ReplyFits(replies'[i], xfer', goal')
        BY <1>1
      <4> QED
        BY <3>1, <3>2, <3>3, <3>4, <3>5, <4>1 DEF LinkInv
  <2>6. \A w \in Addr : ~SentWord(w)'
    <3>1. ~PieceSent'
      BY <2>2 DEF PieceSent
    <3>2. ASSUME NEW w \in Addr, w \in Block(xfer')
          PROVE  ~(4 * w < xfer'.addr + xfer'.done)
      BY <2>2, <3>2, MemAssumption DEF Block, Addr
    <3> QED
      BY <3>1, <3>2 DEF SentWord
  <2> QED
    BY <1>1, <1>5, <2>5, <2>6 DEF MoveInv
<1> QED
  BY <1>4, <1>5

(* Packets that fit the goal still do.                                     *)
LEMMA StillFits ==
  ASSUME SameGoal
  PROVE  /\ \A c : CmdFits(c, xfer, goal) => CmdFits(c, xfer', goal')
         /\ \A r : ReplyFits(r, xfer, goal) => ReplyFits(r, xfer', goal')
BY DEF SameGoal, CmdFits, ReplyFits

(* A step that moves no data, and no packet or only the oldest ones.       *)
LEMMA NoDataMoved ==
  ASSUME LinkInv, SameGoal, Busy' => Busy,
         \A i \in 1 .. Len(cmds') : \E j \in 1 .. Len(cmds) : cmds'[i] = cmds[j],
         \A i \in 1 .. Len(replies') :
           \/ \E j \in 1 .. Len(replies) : replies'[i] = replies[j]
           \/ ReplyFits(replies'[i], xfer, goal),
         mirror' = mirror, \A w \in Addr \ RdRegs : remote'[w] = remote[w]
  PROVE  LinkInv'
<1>1. \A i \in 1 .. Len(cmds') : CmdFits(cmds'[i], xfer', goal')
  BY StillFits DEF LinkInv
<1>2. \A i \in 1 .. Len(replies') : ReplyFits(replies'[i], xfer', goal')
  BY StillFits DEF LinkInv
<1>3. NothingBeside'
  BY DEF NothingBeside, LinkInv, SameGoal
<1>4. Busy' => \A w \in Block(xfer') : goal'.mirror[w] = goal'.remote[w]
  BY DEF LinkInv, SameGoal
<1> QED
  BY <1>1, <1>2, <1>3, <1>4 DEF LinkInv, SameGoal

(* Words read from a memory are the memory's; words stored in it replace   *)
(* the words they cover.                                                   *)
LEMMA WordsHold ==
  ASSUME NEW m \in [Addr -> Value], NEW a \in Addr, NEW n \in Nat
  PROVE  /\ Len(WordsAt(m, a, n)) = n
         /\ \A w \in Addr : Covered(a, n, w) => WordsAt(m, a, n)[w - a + 1] = m[w]
<1>1. Len(WordsAt(m, a, n)) = n
  BY WordsCount
<1>2. ASSUME NEW w \in Addr, Covered(a, n, w)
      PROVE  WordsAt(m, a, n)[w - a + 1] = m[w]
  <2>1. w \in Int /\ a \in Int
    BY MemAssumption DEF Addr
  <2>2. w - a + 1 \in 1 .. n /\ a + (w - a + 1) - 1 = w
    BY <1>2, <2>1 DEF Covered
  <2> QED
    BY <2>2 DEF WordsAt
<1> QED
  BY <1>1, <1>2

(* The words of a command that is being submitted are those of the piece.  *)
LEMMA CmdInside ==
  ASSUME BaseInv, call \in DataCalls
  PROVE  /\ xfer.at = "sync" /\ cmd.kind = xfer.kind
         /\ Inside(cmd.addr, cmd.len, Block(xfer))
         /\ \A w \in Addr :
              /\ w \in Block(xfer) /\ ~(4 * w < xfer.addr + xfer.done)
              /\ 4 * w < xfer.addr + xfer.done + Piece
              => Covered(cmd.addr, cmd.len, w)
<1>1. xfer.at = "sync" /\ cmd.kind = xfer.kind /\ call # "none"
  BY DEF BaseInv, CallInv, DataCalls
<1>2. /\ xfer.addr \in Nat /\ xfer.done \in Nat /\ xfer.left \in Nat
      /\ xfer.size \in Nat /\ cmd.addr \in Nat /\ cmd.len \in Nat
  BY MemAssumption DEF BaseInv, XInv, XTypeOK, TypeOK, Command, Addr
<1>3. /\ xfer.done + xfer.left = xfer.size /\ xfer.addr + xfer.size <= 4 * SramWords
      /\ 4 * cmd.addr = xfer.addr + xfer.done /\ 4 * cmd.len = Piece
  BY <1>1 DEF BaseInv, XInv, XferInBlock, SramBytes
<1>4. Piece \in Nat /\ Piece <= xfer.left
  BY <1>1, PieceFits DEF BaseInv
<1>5. ASSUME NEW w \in Addr, Covered(cmd.addr, cmd.len, w)
      PROVE  w \in Block(xfer)
  <2>1. w \in Nat /\ cmd.addr <= w /\ w < cmd.addr + cmd.len
    BY <1>5, MemAssumption DEF Addr, Covered
  <2>2. xfer.addr <= 4 * w /\ 4 * w < xfer.addr + xfer.size
    BY <1>2, <1>3, <1>4, <2>1
  <2>3. w < SramWords
    BY <1>2, <1>3, <2>1, <2>2, MemAssumption
  <2> QED
    BY <2>1, <2>2, <2>3, MemAssumption DEF Block, Sram
<1>6. ASSUME NEW w \in Addr, ~(4 * w < xfer.addr + xfer.done),
             4 * w < xfer.addr + xfer.done + Piece
      PROVE  Covered(cmd.addr, cmd.len, w)
  <2>1. w \in Nat
    BY MemAssumption DEF Addr
  <2> QED
    BY <1>2, <1>3, <1>4, <1>6, <2>1 DEF Covered
<1> QED
  BY <1>1, <1>5, <1>6 DEF Inside

(* A command that is submitted for a piece.                                *)
LEMMA SubmitLink ==
  ASSUME BaseInv, LinkInv, SameGoal, UNCHANGED xfer, rdcu_submit_tx
  PROVE  LinkInv'
<1> DEFINE c == [cmd EXCEPT !.data = IF cmd.kind = "write"
                   THEN WordsAt(mirror, cmd.addr, cmd.len) ELSE <<>>]
<1>1. UNCHANGED <<replies, mirror, remote>> /\ (cmds' = cmds \/ cmds' = Append(cmds, c))
  BY DEF rdcu_submit_tx
<1>2. call \in DataCalls
  BY DEF rdcu_submit_tx, DataCalls
<1>3. /\ xfer.at = "sync" /\ cmd.kind = xfer.kind
      /\ Inside(cmd.addr, cmd.len, Block(xfer))
  BY <1>2, CmdInside
<1>4. Busy
  BY <1>3 DEF Busy
<1>5. CmdFits(c, xfer, goal) /\ c \in Command
  <2>1. /\ cmd \in Command /\ cmd.addr \in Addr /\ cmd.len \in Nat
        /\ cmd.addr + cmd.len <= MemWords
        /\ mirror \in [Addr -> Value]
    BY DEF BaseInv, TypeOK, Command
  <2>2. /\ Len(WordsAt(mirror, cmd.addr, cmd.len)) = cmd.len
        /\ \A w \in Addr : Covered(cmd.addr, cmd.len, w) =>
             WordsAt(mirror, cmd.addr, cmd.len)[w - cmd.addr + 1] = mirror[w]
    BY <2>1, WordsHold
  <2>3. /\ c.kind = cmd.kind /\ c.addr = cmd.addr /\ c.len = cmd.len
        /\ c.kind = "write" => c.data = WordsAt(mirror, cmd.addr, cmd.len)
    BY <2>1 DEF Command
  <2>4. c \in Command
    <3>1. WordsAt(mirror, cmd.addr, cmd.len) \in Seq(Value)
      BY <2>1, WordsAreValues
    <3>2. <<>> \in Seq(Value)
      BY EmptySeq
    <3> QED
      BY <2>1, <3>1, <3>2 DEF Command
  <2> HIDE DEF c
  <2>5. ASSUME c.kind = "write" PROVE Holds(c.addr, c.data, goal.remote)
    <3>1. ASSUME NEW w \in Addr, Covered(cmd.addr, cmd.len, w)
          PROVE  mirror[w] = goal.remote[w]
      BY <1>3, <1>4, <2>3, <2>5, <3>1 DEF LinkInv, Inside
    <3> QED
      BY <2>2, <2>3, <2>5, <3>1 DEF Holds
  <2> QED
    BY <1>3, <2>2, <2>3, <2>4, <2>5 DEF CmdFits
<1> HIDE DEF c
<1>6. ASSUME NEW i \in 1 .. Len(cmds') PROVE CmdFits(cmds'[i], xfer, goal)
  <2>1. (i \in 1 .. Len(cmds) /\ cmds'[i] = cmds[i]) \/ cmds'[i] = c
    <3>1. cmds \in Seq(Command)
      BY DEF BaseInv, TypeOK
    <3> QED
      BY <1>1, <1>5, <3>1, AppendProperties, LenProperties
  <2> QED
    BY <1>5, <2>1 DEF LinkInv
<1>7. \A i \in 1 .. Len(cmds') : CmdFits(cmds'[i], xfer', goal')
  BY <1>6, StillFits
<1>8. \A i \in 1 .. Len(replies') : ReplyFits(replies'[i], xfer', goal')
  BY <1>1, StillFits DEF LinkInv
<1>9. NothingBeside'
  BY <1>1 DEF NothingBeside, LinkInv, SameGoal
<1> QED
  BY <1>1, <1>4, <1>7, <1>8, <1>9 DEF LinkInv, SameGoal

(* What is left of a queue when its head is taken.                         *)
LEMMA TailElements ==
  ASSUME NEW S, NEW q \in Seq(S), q # <<>>
  PROVE  /\ 1 \in 1 .. Len(q) /\ Head(q) = q[1] /\ Head(q) \in S
         /\ \A i \in 1 .. Len(Tail(q)) : \E j \in 1 .. Len(q) : Tail(q)[i] = q[j]
         /\ \A j \in 1 .. Len(q) : j = 1 \/ \E i \in 1 .. Len(Tail(q)) : Tail(q)[i] = q[j]
<1>1. PICK n \in Nat : Len(q) = n
  BY LenProperties
<1>2. /\ 1 \in 1 .. n /\ Head(q) = q[1] /\ Head(q) \in S /\ Len(Tail(q)) = n - 1
      /\ \A i \in 1 .. n - 1 : Tail(q)[i] = q[i + 1]
  BY <1>1, HeadAndTail
<1>3. ASSUME NEW i \in 1 .. n - 1 PROVE i + 1 \in 1 .. n
  OBVIOUS
<1>4. ASSUME NEW j \in 1 .. n, j # 1
      PROVE  \E i \in 1 .. n - 1 : Tail(q)[i] = q[j]
  <2>1. j - 1 \in 1 .. n - 1 /\ (j - 1) + 1 = j
    BY <1>4
  <2> QED
    BY <1>2, <2>1
<1> QED
  BY <1>1, <1>2, <1>3, <1>4

(* The elements of a queue that grew.                                      *)
LEMMA AppendElements ==
  ASSUME NEW S, NEW q \in Seq(S), NEW e \in S
  PROVE  /\ \A i \in 1 .. Len(Append(q, e)) :
              Append(q, e)[i] = e \/ \E j \in 1 .. Len(q) : Append(q, e)[i] = q[j]
         /\ \E i \in 1 .. Len(Append(q, e)) : Append(q, e)[i] = e
         /\ \A j \in 1 .. Len(q) :
              \E i \in 1 .. Len(Append(q, e)) : Append(q, e)[i] = q[j]
<1>1. PICK n \in Nat : Len(q) = n
  BY LenProperties
<1>2. /\ Len(Append(q, e)) = n + 1 /\ Append(q, e)[n + 1] = e
      /\ \A i \in 1 .. n : Append(q, e)[i] = q[i]
  BY <1>1, Appended
<1>3. \A i \in 1 .. n + 1 : i \in 1 .. n \/ i = n + 1
  OBVIOUS
<1>4. n + 1 \in 1 .. n + 1 /\ \A i \in 1 .. n : i \in 1 .. n + 1
  OBVIOUS
<1> QED
  BY <1>1, <1>2, <1>3, <1>4

(* The words of a memory after data was stored.                            *)
LEMMA StoredIs ==
  ASSUME NEW m, NEW a, NEW d, NEW w \in Addr
  PROVE  Stored(m, a, d)[w] =
           IF Covered(a, Len(d), w) THEN d[w - a + 1] ELSE m[w]
BY DEF Stored, Covered

(* No word of the block is a register.                                     *)
LEMMA BlockIsSram == ASSUME NEW x PROVE Block(x) \subseteq Addr \ RdRegs
BY MemAssumption DEF Block, Sram, Addr

(* The RDCU performs a command.                                            *)
LEMMA ExecuteLink ==
  ASSUME BaseInv, LinkInv, SameGoal, UNCHANGED xfer, TargetExecute
  PROVE  LinkInv'
<1> DEFINE c == Head(cmds)
<1>1. cmds # <<>> /\ cmds' = Tail(cmds) /\ mirror' = mirror
  BY DEF TargetExecute
<1>2. cmds \in Seq(Command) /\ replies \in Seq(Reply) /\ remote \in [Addr -> Value]
  BY DEF BaseInv, TypeOK
<1>3. /\ c \in Command /\ CmdFits(c, xfer, goal)
      /\ \A i \in 1 .. Len(cmds') : \E j \in 1 .. Len(cmds) : cmds'[i] = cmds[j]
  BY <1>1, <1>2, TailElements DEF LinkInv
<1>4. Busy
  BY <1>1 DEF Busy
<1> HIDE DEF c
<1>5. CASE /\ c.kind = "write" /\ remote' = Stored(remote, c.addr, c.data)
           /\ replies' = Append(replies, Answer(c, "ok", <<>>))
  <2> DEFINE e == Answer(c, "ok", <<>>)
  <2>1. e \in Reply /\ Len(e.data) = 0 /\ e.addr \in Int
    <3>1. <<>> \in Seq(Value) /\ "ok" \in Form
      BY EmptySeq DEF Form
    <3>2. e \in Reply
      BY <1>3, <3>1, AnswerType
    <3>3. e.data = <<>>
      BY DEF Answer
    <3>4. e.addr \in Int
      BY <3>2, MemAssumption DEF Reply, Addr
    <3> QED
      BY <3>2, <3>3, <3>4
  <2>2. ReplyFits(e, xfer, goal)
    <3>1. \A w \in Addr : ~Covered(e.addr, Len(e.data), w)
      BY <2>1, MemAssumption DEF Covered, Addr
    <3> QED
      BY <2>1, <3>1 DEF ReplyFits, Inside, Holds
  <2> HIDE DEF e
  <2>3. ASSUME NEW i \in 1 .. Len(replies') PROVE ReplyFits(replies'[i], xfer', goal')
    <3>1. replies'[i] = e \/ \E j \in 1 .. Len(replies) : replies'[i] = replies[j]
      <4>1. replies' = Append(replies, e)
        BY <1>5 DEF e
      <4> QED
        BY <1>2, <2>1, <4>1, AppendElements
    <3> QED
      BY <2>2, <3>1, StillFits DEF LinkInv
  <2>4. \A i \in 1 .. Len(cmds') : CmdFits(cmds'[i], xfer', goal')
    BY <1>3, StillFits DEF LinkInv
  <2>5. ASSUME NEW w \in Addr \ Block(xfer) PROVE remote'[w] = remote[w]
    <3>1. ~Covered(c.addr, Len(c.data), w)
      BY <1>3, <1>5 DEF CmdFits, Inside
    <3> QED
      BY <1>5, <3>1, StoredIs
  <2>6. NothingBeside'
    BY <1>1, <2>5 DEF NothingBeside, LinkInv, SameGoal
  <2>7. xfer'.kind = "write"
    BY <1>3, <1>5 DEF CmdFits, SameGoal
  <2> QED
    BY <1>1, <1>4, <2>3, <2>4, <2>6, <2>7 DEF LinkInv, SameGoal
<1>6. CASE /\ c.kind = "read" /\ remote' = remote
           /\ replies' = Append(replies,
                           Answer(c, "ok", WordsAt(remote, c.addr, c.len)))
  <2> DEFINE d == WordsAt(remote, c.addr, c.len)
             e == Answer(c, "ok", d)
  <2>1. c.addr \in Addr /\ c.len \in Nat /\ c.addr + c.len <= MemWords
    BY <1>3 DEF Command
  <2>2. /\ d \in Seq(Value) /\ Len(d) = c.len
        /\ \A w \in Addr : Covered(c.addr, c.len, w) => d[w - c.addr + 1] = remote[w]
    BY <1>2, <2>1, WordsHold, WordsAreValues
  <2> HIDE DEF d
  <2>3. e \in Reply /\ e.addr = c.addr /\ e.data = d
    <3>1. "ok" \in Form
      BY DEF Form
    <3> QED
      BY <1>3, <2>2, <3>1, AnswerType DEF Answer
  <2> HIDE DEF e
  <2>4. ReplyFits(e, xfer, goal)
    <3>1. xfer.kind = "read" /\ Inside(c.addr, c.len, Block(xfer))
      BY <1>3, <1>6 DEF CmdFits
    <3>2. ASSUME NEW w \in Addr, Covered(c.addr, c.len, w)
          PROVE  d[w - c.addr + 1] = goal.mirror[w]
      <4>1. w \in Block(xfer) /\ w \in Addr \ RdRegs
        BY <3>1, <3>2, BlockIsSram DEF Inside
      <4>2. remote[w] = goal.remote[w] /\ goal.mirror[w] = goal.remote[w]
        BY <1>4, <3>1, <4>1 DEF LinkInv
      <4> QED
        BY <2>2, <3>2, <4>2
    <3> QED
      BY <2>2, <2>3, <3>1, <3>2 DEF ReplyFits, Holds
  <2>5. ASSUME NEW i \in 1 .. Len(replies')
        PROVE  \/ \E j \in 1 .. Len(replies) : replies'[i] = replies[j]
               \/ ReplyFits(replies'[i], xfer, goal)
    <3>1. replies'[i] = e \/ \E j \in 1 .. Len(replies) : replies'[i] = replies[j]
      BY <1>2, <1>6, <2>3, AppendElements DEF e, d
    <3> QED
      BY <2>4, <3>1
  <2> QED
    BY <1>1, <1>3, <1>4, <1>6, <2>5, NoDataMoved
<1> QED
  BY <1>5, <1>6 DEF TargetExecute, c

(* The driver takes a reply.                                               *)
LEMMA AcceptLink ==
  ASSUME BaseInv, BaseInv', LinkInv, SameGoal, UNCHANGED xfer, RxAccept
  PROVE  /\ LinkInv' /\ replies # <<>>
         /\ \A w \in Addr : mirror'[w] =
              IF Covered(Head(replies).addr, Len(Head(replies).data), w)
              THEN goal.mirror[w] ELSE mirror[w]
<1> DEFINE r == Head(replies)
<1>1. /\ replies # <<>> /\ replies' = Tail(replies) /\ UNCHANGED <<cmds, remote>>
      /\ mirror' = Stored(mirror, trans_log_get_addr(r.tid), r.data)
  BY DEF RxAccept
<1>2. /\ r \in Reply /\ ReplyFits(r, xfer, goal) /\ HoldsSlot(r)
      /\ \A i \in 1 .. Len(replies') : \E j \in 1 .. Len(replies) : replies'[i] = replies[j]
  BY <1>1, TailElements DEF LinkInv, BaseInv, TypeOK, LogInv, AllHoldSlots
<1>3. Busy
  BY <1>1 DEF Busy
<1>4. trans_log_get_addr(r.tid) = r.addr
  BY <1>2 DEF HoldsSlot, trans_log_get_addr
<1> HIDE DEF r
<1>5. ASSUME NEW w \in Addr
      PROVE  mirror'[w] = IF Covered(r.addr, Len(r.data), w) THEN goal.mirror[w]
                                                             ELSE mirror[w]
  <2>1. mirror'[w] = IF Covered(r.addr, Len(r.data), w) THEN r.data[w - r.addr + 1]
                                                        ELSE mirror[w]
    BY <1>1, <1>4, StoredIs
  <2> QED
    BY <1>2, <2>1 DEF ReplyFits, Holds
<1>6. NothingBeside'
  BY <1>1, <1>2, <1>5 DEF NothingBeside, LinkInv, SameGoal, ReplyFits, Inside
<1>7. ASSUME xfer'.kind = "write" PROVE mirror' = goal'.mirror
  <2>1. Len(r.data) = 0 /\ r.addr \in Int /\ mirror = goal.mirror
    BY <1>2, <1>7, MemAssumption DEF ReplyFits, SameGoal, LinkInv, Reply, Addr
  <2>2. \A w \in Addr : mirror'[w] = mirror[w]
    BY <1>5, <2>1
  <2>3. mirror' \in [Addr -> Value] /\ mirror \in [Addr -> Value]
    BY DEF BaseInv, TypeOK
  <2> QED
    BY <2>1, <2>2, <2>3 DEF SameGoal
<1>8. \A i \in 1 .. Len(cmds') : CmdFits(cmds'[i], xfer', goal')
  BY <1>1, StillFits DEF LinkInv
<1>9. \A i \in 1 .. Len(replies') : ReplyFits(replies'[i], xfer', goal')
  BY <1>2, StillFits DEF LinkInv
<1>10. LinkInv'
  BY <1>1, <1>3, <1>6, <1>7, <1>8, <1>9 DEF LinkInv, SameGoal
<1> QED
  BY <1>1, <1>5, <1>10 DEF r

(* An empty answer fits every goal.                                        *)
LEMMA EmptyFits ==
  ASSUME NEW e, Len(e.data) = 0, e.addr \in Int
  PROVE  ReplyFits(e, xfer, goal)
<1>1. \A w \in Addr : ~Covered(e.addr, Len(e.data), w)
  BY MemAssumption DEF Covered, Addr
<1> QED
  BY <1>1 DEF ReplyFits, Inside, Holds

(* Damage to a reply leaves its address and its data.                      *)
LEMMA DamageKeeps ==
  ASSUME TypeOK, DamageReply
  PROVE  /\ Len(replies') = Len(replies)
         /\ \A j \in 1 .. Len(replies) :
              replies'[j].addr = replies[j].addr /\ replies'[j].data = replies[j].data
<1>1. PICK i \in 1 .. Len(replies), f \in Form :
        replies' = [replies EXCEPT ![i].form = f]
  BY DEF DamageReply
<1>2. /\ \A j \in 1 .. Len(replies) : replies[j] \in Reply
      /\ DOMAIN replies = 1 .. Len(replies)
      /\ Len(replies') = Len(replies)
  BY <1>1, ElementOfSeq, LenProperties DEF TypeOK
<1>3. ASSUME NEW j \in 1 .. Len(replies)
      PROVE  replies'[j].addr = replies[j].addr /\ replies'[j].data = replies[j].data
  <2>1. replies'[j] = IF j = i THEN [replies[j] EXCEPT !.form = f]
                               ELSE replies[j]
    BY <1>1, <1>2
  <2> QED
    BY <1>2, <2>1 DEF Reply
<1> QED
  BY <1>2, <1>3

(* The link and the RDCU.                                                  *)
LEMMA EnvironmentLink ==
  ASSUME BaseInv, LinkInv, SameGoal, UNCHANGED xfer, Environment
  PROVE  LinkInv'
<1>0. cmds \in Seq(Command) /\ replies \in Seq(Reply) /\ TypeOK
  BY DEF BaseInv, TypeOK
<1>1. CASE TargetReject \/ LoseCommand
  <2> DEFINE e == Answer(Head(cmds), "rejected", <<>>)
  <2>1. /\ cmds # <<>> /\ cmds' = Tail(cmds) /\ UNCHANGED <<mirror, remote>>
        /\ replies' = replies \/ replies' = Append(replies, e)
    BY <1>1 DEF TargetReject, LoseCommand
  <2>2. /\ Head(cmds) \in Command
        /\ \A i \in 1 .. Len(cmds') : \E j \in 1 .. Len(cmds) : cmds'[i] = cmds[j]
    BY <1>0, <2>1, TailElements
  <2>3. e \in Reply
    <3>1. <<>> \in Seq(Value) /\ "rejected" \in Form
      BY EmptySeq DEF Form
    <3> QED
      BY <2>2, <3>1, AnswerType
  <2>4. Len(e.data) = 0 /\ e.addr \in Int
    <3>1. e.data = <<>>
      BY DEF Answer
    <3>2. e.addr \in Int
      BY <2>3, MemAssumption DEF Reply, Addr
    <3> QED
      BY <3>1, <3>2
  <2> HIDE DEF e
  <2>5. ReplyFits(e, xfer, goal)
    BY <2>4, EmptyFits
  <2>6. ASSUME NEW i \in 1 .. Len(replies')
        PROVE  \/ \E j \in 1 .. Len(replies) : replies'[i] = replies[j]
               \/ ReplyFits(replies'[i], xfer, goal)
    BY <1>0, <2>1, <2>3, <2>5, AppendElements
  <2>7. Busy
    BY <2>1 DEF Busy
  <2> QED
    BY <2>1, <2>2, <2>6, <2>7, NoDataMoved
<1>2. CASE LoseReply
  <2>1. /\ replies # <<>> /\ replies' = Tail(replies)
        /\ UNCHANGED <<cmds, mirror, remote>>
    BY <1>2 DEF LoseReply
  <2>2. \A i \in 1 .. Len(replies') : \E j \in 1 .. Len(replies) : replies'[i] = replies[j]
    BY <1>0, <2>1, TailElements
  <2>3. Busy
    BY <2>1 DEF Busy
  <2> QED
    BY <2>1, <2>2, <2>3, NoDataMoved
<1>3. CASE DamageReply
  <2>1. UNCHANGED <<cmds, mirror, remote>>
    BY <1>3 DEF DamageReply
  <2>2. /\ Len(replies') = Len(replies)
        /\ \A j \in 1 .. Len(replies) :
              replies'[j].addr = replies[j].addr /\ replies'[j].data = replies[j].data
    BY <1>0, <1>3, DamageKeeps
  <2>3. \A i \in 1 .. Len(replies') : ReplyFits(replies'[i], xfer, goal)
    BY <2>2 DEF LinkInv, ReplyFits
  <2>4. Busy
    <3>1. PICK i \in 1 .. Len(replies) : TRUE
      BY <1>3 DEF DamageReply
    <3>2. replies # <<>>
      BY <3>1
    <3> QED
      BY <3>2 DEF Busy
  <2> QED
    BY <2>1, <2>3, <2>4, NoDataMoved
<1>4. CASE RemoteUpdate
  <2>1. PICK r \in RdRegs, v \in Value : remote' = [remote EXCEPT ![r] = v]
    BY <1>4 DEF RemoteUpdate
  <2>2. UNCHANGED <<cmds, replies, mirror>>
    BY <1>4 DEF RemoteUpdate, link
  <2>3. \A w \in Addr \ RdRegs : remote'[w] = remote[w]
    BY <2>1 DEF BaseInv, TypeOK
  <2>4. Busy' = Busy
    BY <2>2 DEF Busy
  <2> QED
    BY <2>2, <2>3, <2>4, NoDataMoved
<1> QED
  BY <1>1, <1>2, <1>3, <1>4, ExecuteLink DEF Environment

(* The driver.                                                             *)
LEMMA LibLink ==
  ASSUME BaseInv, BaseInv', LinkInv, SameGoal, UNCHANGED xfer, LibStep
  PROVE  LinkInv'
<1>1. CASE RxSkip \/ RxDropTransaction
  <2>1. /\ replies # <<>> /\ replies' = Tail(replies)
        /\ UNCHANGED <<cmds, mirror, remote>>
    BY <1>1 DEF RxSkip, RxDropTransaction
  <2>2. \A i \in 1 .. Len(replies') : \E j \in 1 .. Len(replies) : replies'[i] = replies[j]
    BY <2>1, TailElements DEF BaseInv, TypeOK
  <2>3. Busy
    BY <2>1 DEF Busy
  <2> QED
    BY <2>1, <2>2, <2>3, NoDataMoved
<1>2. CASE RxEmpty \/ RxAllocFail \/ SyncDataGrab \/ SyncStatusReturn
  <2>1. UNCHANGED <<cmds, replies, mirror, remote>>
    BY <1>2 DEF RxEmpty, RxAllocFail, SyncDataGrab, SyncStatusReturn, link
  <2>2. Busy' = Busy
    BY <2>1 DEF Busy
  <2> QED
    BY <2>1, <2>2, NoDataMoved
<1> QED
  BY <1>1, <1>2, AcceptLink, SubmitLink DEF LibStep, rdcu_process_rx
-----------------------------------------------------------------------------
(* A word that waits in a queue waits in the tail, or its packet was the   *)
(* head; it still waits when the queue grows.                              *)
LEMMA CoverTail ==
  ASSUME NEW S, NEW q \in Seq(S), q # <<>>, NEW w
  PROVE  /\ CmdsCover(q, w) =>
              CmdsCover(Tail(q), w) \/ Covered(Head(q).addr, Head(q).len, w)
         /\ RepliesCover(q, w) =>
              RepliesCover(Tail(q), w) \/ Covered(Head(q).addr, Len(Head(q).data), w)
<1>1. /\ Head(q) = q[1]
      /\ \A j \in 1 .. Len(q) : j = 1 \/ \E i \in 1 .. Len(Tail(q)) : Tail(q)[i] = q[j]
  BY TailElements
<1> QED
  BY <1>1 DEF CmdsCover, RepliesCover

(* The same for a queue that grows.                                        *)
LEMMA CoverAppend ==
  ASSUME NEW S, NEW q \in Seq(S), NEW e \in S, NEW w
  PROVE  /\ CmdsCover(q, w) \/ Covered(e.addr, e.len, w) => CmdsCover(Append(q, e), w)
         /\ RepliesCover(q, w) \/ Covered(e.addr, Len(e.data), w) =>
              RepliesCover(Append(q, e), w)
<1>1. /\ \E i \in 1 .. Len(Append(q, e)) : Append(q, e)[i] = e
      /\ \A j \in 1 .. Len(q) :
           \E i \in 1 .. Len(Append(q, e)) : Append(q, e)[i] = q[j]
  BY AppendElements
<1> QED
  BY <1>1 DEF CmdsCover, RepliesCover

(* A piece is only counted as sent when its command was handed over.       *)
LEMMA SentBySubmit ==
  ASSUME BaseInv, UNCHANGED xfer, LibStep \/ Environment, NEW w \in Addr,
         SentWord(w)', ~SentWord(w)
  PROVE  rdcu_submit_tx /\ CmdsCover(cmds', w)
<1>1. /\ w \in Block(xfer) /\ ~(4 * w < xfer.addr + xfer.done)
      /\ PieceSent' /\ ~PieceSent /\ 4 * w < xfer.addr + xfer.done + Piece
  BY DEF SentWord, Piece, FullPiece
<1>2. xfer.at = "sync" /\ call' = "none" /\ ret' = 0 /\ ~(call = "none" /\ ret = 0)
  BY <1>1 DEF PieceSent
<1>3. ~Environment
  BY <1>2 DEF Environment, TargetExecute, TargetReject, LoseCommand,
              LoseReply, DamageReply, RemoteUpdate, lib
<1>4. ~rdcu_process_rx
  <2>1. call \in RxLoop => "none" # AfterRx /\ call # "none"
    BY DEF RxLoop, AfterRx
  <2> QED
    BY <1>2, <2>1 DEF rdcu_process_rx, RxSkip, RxDropTransaction, RxAccept,
                      RxEmpty, RxAllocFail, lib
<1>5. ~SyncDataGrab
  BY <1>2 DEF SyncDataGrab, Prepare, Return
<1>6. ~SyncStatusReturn
  BY <1>2 DEF SyncStatusReturn, BaseInv, CallInv
<1>7. rdcu_submit_tx
  BY <1>3, <1>4, <1>5, <1>6 DEF LibStep
<1> DEFINE c == [cmd EXCEPT !.data = IF cmd.kind = "write"
                   THEN WordsAt(mirror, cmd.addr, cmd.len) ELSE <<>>]
<1>8. cmds' = Append(cmds, c)
  BY <1>2, <1>7 DEF rdcu_submit_tx, Return
<1>9. c.addr = cmd.addr /\ c.len = cmd.len
  BY DEF BaseInv, TypeOK, Command
<1> HIDE DEF c
<1>10. Covered(cmd.addr, cmd.len, w)
  <2>1. call \in DataCalls
    BY <1>7 DEF rdcu_submit_tx, DataCalls
  <2> QED
    BY <1>1, <2>1, CmdInside
<1>11. cmds \in Seq(Command \cup {c})
  <2>1. cmds \in Seq(Command)
    BY DEF BaseInv, TypeOK
  <2>2. \A i \in 1 .. Len(cmds) : cmds[i] \in Command \cup {c}
    BY <2>1, ElementOfSeq
  <2>3. cmds = [i \in 1 .. Len(cmds) |-> cmds[i]] /\ Len(cmds) \in Nat
    BY <2>1, SeqDef, LenProperties
  <2> QED
    BY <2>2, <2>3, SeqDef
<1> QED
  BY <1>7, <1>8, <1>9, <1>10, <1>11, CoverAppend

(* The loops count a piece once it was sent.                               *)
LEMMA SentByLoops ==
  ASSUME BaseInv, XferStep, NEW w \in Addr, SentWord(w)'
  PROVE  SentWord(w)
<1>1. XTypeOK /\ LibShape /\ CallInv /\ TypeOK
  BY DEF BaseInv, XInv
<1>2. /\ xfer'.addr = xfer.addr /\ Block(xfer') = Block(xfer)
      /\ xfer'.mtu = xfer.mtu
  BY <1>1, XferMoves DEF Block
<1>3. /\ w \in Block(xfer)
      /\ \/ 4 * w < xfer.addr + xfer'.done
         \/ PieceSent' /\ 4 * w < xfer.addr + xfer'.done + Piece'
  BY <1>2 DEF SentWord
<1>4. CASE PieceSent'
  <2>1. xfer'.done = xfer.done /\ xfer'.left = xfer.left /\ PieceSent
    <3>1. xfer'.at \in {"sync", "wait", "polled"}
      BY <1>4 DEF PieceSent
    <3>2. CASE SubmitPiece
      <4>1. xfer'.at = "sync" /\ call' = "rx_data"
        BY <1>1, <3>2 DEF SubmitPiece, rdcu_sync_data, XTypeOK
      <4> QED
        BY <1>4, <4>1 DEF PieceSent
    <3>3. CASE ~SubmitPiece
      <4>1. \/ /\ xfer.at \in {"wait", "polled"} /\ xfer'.at \in {"wait", "polled"}
               /\ xfer'.done = xfer.done /\ xfer'.left = xfer.left
               /\ xfer'.sub = xfer.sub
            \/ /\ xfer.at = "sync" /\ xfer'.at = "wait" /\ xfer'.sub = ret
               /\ call = "none"
               /\ xfer'.done = xfer.done /\ xfer'.left = xfer.left
        BY <1>1, <3>1, <3>3, XferMoves
      <4> QED
        BY <1>4, <4>1 DEF PieceSent
    <3> QED
      BY <3>2, <3>3
  <2>2. Piece' = Piece
    BY <1>2, <2>1 DEF Piece, FullPiece
  <2> QED
    BY <1>3, <2>1, <2>2 DEF SentWord
<1>5. CASE ~PieceSent'
  <2>1. \/ xfer'.done = xfer.done
        \/ xfer'.done = xfer.done + Piece /\ PieceSent
    BY <1>1, XferMoves
  <2>2. xfer.addr + (xfer.done + Piece) = xfer.addr + xfer.done + Piece
    BY <1>1, PieceFits, XferMoves DEF BaseInv, XTypeOK
  <2> QED
    BY <1>3, <1>5, <2>1, <2>2 DEF SentWord
<1> QED
  BY <1>4, <1>5
-----------------------------------------------------------------------------
(* The link keeps fitting the goal.                                        *)
LEMMA LinkStep ==
  ASSUME BaseInv, BaseInv', LinkInv, SameGoal,
         \/ LibStep /\ UNCHANGED xfer
         \/ Environment /\ UNCHANGED xfer
         \/ XferStep
         \/ UNCHANGED <<xfer, cmds, replies, mirror, remote, in_use>> /\ xfer.at = "idle"
  PROVE  LinkInv'
<1>1. ASSUME UNCHANGED <<cmds, replies, mirror, remote>>, Busy' => Busy
      PROVE  LinkInv'
  BY <1>1, NoDataMoved
<1>2. CASE XferStep
  <2>1. XTypeOK /\ LibShape /\ CallInv /\ TypeOK
    BY DEF BaseInv, XInv
  <2>2. Busy /\ (SubmitPiece \/ PollPending \/ UNCHANGED vars)
    BY <1>2, <2>1, XferMoves DEF Busy
  <2>3. UNCHANGED <<cmds, replies, mirror, remote>>
    BY <2>2 DEF SubmitPiece, PollPending, rdcu_sync_data, rdcu_rmap_sync_status,
                vars, link
  <2> QED
    BY <1>1, <2>2, <2>3
<1>3. CASE UNCHANGED <<xfer, cmds, replies, mirror, remote>>
  <2>1. Busy' = Busy
    BY <1>3 DEF Busy
  <2> QED
    BY <1>1, <1>3, <2>1
<1> QED
  BY <1>2, <1>3, LibLink, EnvironmentLink

(* A word that was sent stays arrived or on its way while a packet moves.  *)
LEMMA WordStays ==
  ASSUME BaseInv, BaseInv', LinkInv, MoveInv, SameGoal, UNCHANGED xfer,
         LibStep \/ Environment, goal'.ok, NoSlotLeak',
         NEW w \in Block(xfer), Arrived(w) \/ OnWay(w)
  PROVE  (Arrived(w) \/ OnWay(w))'
<1>1. /\ w \in Addr /\ w \notin RdRegs /\ goal'.mirror = goal.mirror
      /\ goal'.remote = goal.remote /\ goal.ok /\ ~ErrorAnswer
  BY BlockIsSram DEF SameGoal
<1>2. /\ TypeOK /\ LogInv /\ cmds \in Seq(Command) /\ replies \in Seq(Reply)
      /\ mirror \in [Addr -> Value] /\ remote \in [Addr -> Value]
  BY DEF BaseInv, TypeOK
<1>3. ~LoseCommand /\ ~LoseReply /\ ~RxSkip
  BY <1>2, LossLeaks
<1>4. ASSUME UNCHANGED <<cmds, replies, mirror>>, remote'[w] = remote[w]
      PROVE  (Arrived(w) \/ OnWay(w))'
  BY <1>1, <1>4 DEF Arrived, OnWay
<1>5. CASE rdcu_submit_tx
  <2> DEFINE c == [cmd EXCEPT !.data = IF cmd.kind = "write"
                     THEN WordsAt(mirror, cmd.addr, cmd.len) ELSE <<>>]
  <2>1. UNCHANGED <<replies, mirror, remote>> /\ (cmds' = cmds \/ cmds' = Append(cmds, c))
    BY <1>5 DEF rdcu_submit_tx
  <2>2. c \in Command
    <3>1. /\ cmd \in Command /\ cmd.addr \in Addr /\ cmd.len \in Nat
          /\ cmd.addr + cmd.len <= MemWords
      BY <1>2 DEF TypeOK, Command
    <3>2. WordsAt(mirror, cmd.addr, cmd.len) \in Seq(Value) /\ <<>> \in Seq(Value)
      BY <1>2, <3>1, WordsAreValues, EmptySeq
    <3> QED
      BY <3>1, <3>2 DEF Command
  <2> HIDE DEF c
  <2>3. CmdsCover(cmds, w) => CmdsCover(cmds', w)
    BY <1>2, <2>1, <2>2, CoverAppend
  <2> QED
    BY <1>1, <2>1, <2>3 DEF Arrived, OnWay
<1>6. CASE RxEmpty \/ RxAllocFail \/ SyncDataGrab \/ SyncStatusReturn
  <2>1. UNCHANGED <<cmds, replies, mirror, remote>>
    BY <1>6 DEF RxEmpty, RxAllocFail, SyncDataGrab, SyncStatusReturn, link
  <2> QED
    BY <1>4, <2>1
<1>7. CASE RxDropTransaction
  <2>1. replies # <<>> /\ Head(replies).form \in {"bad_len", "bad_crc"}
    BY <1>7 DEF RxDropTransaction
  <2>2. Head(replies) = replies[1] /\ 1 \in 1 .. Len(replies)
    BY <1>2, <2>1, TailElements
  <2>3. replies[1].form \in {"ok", "garbled"}
    BY <1>1, <2>2 DEF MoveInv
  <2> QED
    BY <2>1, <2>2, <2>3
<1>8. CASE RxAccept
  <2> DEFINE r == Head(replies)
  <2>1. /\ replies # <<>> /\ replies' = Tail(replies) /\ UNCHANGED <<cmds, remote>>
        /\ mirror'[w] = IF Covered(r.addr, Len(r.data), w) THEN goal.mirror[w]
                                                           ELSE mirror[w]
    BY <1>1, <1>8, AcceptLink DEF RxAccept
  <2>2. r \in Reply /\ ReplyFits(r, xfer, goal)
    BY <1>2, <2>1, TailElements DEF LinkInv
  <2>3. RepliesCover(replies, w) =>
          RepliesCover(replies', w) \/ Covered(r.addr, Len(r.data), w)
    BY <1>2, <2>1, CoverTail
  <2> HIDE DEF r
  <2>4. CASE Covered(r.addr, Len(r.data), w)
    <3>1. Len(r.data) # 0
      BY <2>2, <2>4, <1>1, MemAssumption DEF Covered, Reply, Addr
    <3>2. xfer.kind = "read"
      BY <2>2, <3>1 DEF ReplyFits, BaseInv, XInv, XTypeOK, Kind
    <3>3. remote[w] = goal.remote[w]
      BY <1>1, <3>2 DEF LinkInv
    <3> QED
      BY <1>1, <2>1, <2>4, <3>3 DEF Arrived
  <2>5. CASE ~Covered(r.addr, Len(r.data), w)
    BY <1>1, <2>1, <2>3, <2>5 DEF Arrived, OnWay
  <2> QED
    BY <2>4, <2>5
<1>9. CASE TargetExecute
  <2> DEFINE c == Head(cmds)
  <2>1. cmds # <<>> /\ cmds' = Tail(cmds) /\ mirror' = mirror
    BY <1>9 DEF TargetExecute
  <2>2. c \in Command /\ CmdFits(c, xfer, goal)
    BY <1>2, <2>1, TailElements DEF LinkInv
  <2>3. CmdsCover(cmds, w) => CmdsCover(cmds', w) \/ Covered(c.addr, c.len, w)
    BY <1>2, <2>1, CoverTail
  <2>4. Busy
    BY <2>1 DEF Busy
  <2>5. /\ c.addr \in Addr /\ c.len \in Nat /\ c.addr + c.len <= MemWords
        /\ "ok" \in Form /\ <<>> \in Seq(Value)
    BY <2>2, EmptySeq DEF Command, Form
  <2>6. CASE /\ c.kind = "write" /\ remote' = Stored(remote, c.addr, c.data)
             /\ replies' = Append(replies, Answer(c, "ok", <<>>))
    <3>1. Answer(c, "ok", <<>>) \in Reply
      BY <2>2, <2>5, AnswerType
    <3>2. RepliesCover(replies, w) => RepliesCover(replies', w)
      BY <1>2, <2>6, <3>1, CoverAppend
    <3> HIDE DEF c
    <3>3. /\ Len(c.data) = c.len /\ Holds(c.addr, c.data, goal.remote)
          /\ mirror = goal.mirror
      BY <2>2, <2>6 DEF CmdFits, LinkInv
    <3>4. remote'[w] = IF Covered(c.addr, c.len, w) THEN goal.remote[w] ELSE remote[w]
      BY <1>1, <2>6, <3>3, StoredIs DEF Holds
    <3> QED
      BY <1>1, <2>1, <2>3, <3>2, <3>3, <3>4 DEF Arrived, OnWay
  <2>7. CASE /\ c.kind = "read" /\ remote' = remote
             /\ replies' = Append(replies,
                             Answer(c, "ok", WordsAt(remote, c.addr, c.len)))
    <3> DEFINE d == WordsAt(remote, c.addr, c.len)
               e == Answer(c, "ok", d)
    <3>1. d \in Seq(Value) /\ Len(d) = c.len
      BY <1>2, <2>5, WordsHold, WordsAreValues
    <3> HIDE DEF d
    <3>2. e \in Reply /\ e.addr = c.addr /\ e.data = d
      BY <2>2, <2>5, <3>1, AnswerType DEF Answer
    <3> HIDE DEF e
    <3>3. RepliesCover(replies, w) \/ Covered(c.addr, c.len, w) =>
            RepliesCover(replies', w)
      <4>1. replies' = Append(replies, e)
        BY <2>7 DEF e, d
      <4> QED
        BY <1>2, <3>1, <3>2, <4>1, CoverAppend
    <3> QED
      BY <1>1, <2>1, <2>3, <2>7, <3>3 DEF Arrived, OnWay
  <2> QED
    BY <1>9, <2>6, <2>7 DEF TargetExecute
<1>10. CASE TargetReject
  <2>1. replies' = Append(replies, Answer(Head(cmds), "rejected", <<>>)) /\ cmds # <<>>
    BY <1>10 DEF TargetReject
  <2> DEFINE e == Answer(Head(cmds), "rejected", <<>>)
  <2>2. e \in Reply
    <3>1. <<>> \in Seq(Value) /\ "rejected" \in Form /\ Head(cmds) \in Command
      BY <1>2, <2>1, EmptySeq, TailElements DEF Form
    <3> QED
      BY <3>1, AnswerType
  <2>3. e.form = "rejected"
    BY DEF Answer
  <2> HIDE DEF e
  <2>4. \E i \in 1 .. Len(replies') : replies'[i] = e
    <3>1. replies' = Append(replies, e)
      BY <2>1 DEF e
    <3>2. \E i \in 1 .. Len(Append(replies, e)) : Append(replies, e)[i] = e
      BY <1>2, <2>2, AppendElements
    <3> QED
      BY <3>1, <3>2, Zenon
  <2> QED
    BY <1>1, <2>3, <2>4 DEF ErrorAnswer
<1>11. CASE DamageReply
  <2>1. UNCHANGED <<cmds, mirror, remote>>
    BY <1>11 DEF DamageReply
  <2>2. RepliesCover(replies, w) => RepliesCover(replies', w)
    BY <1>2, <1>11, DamageKeeps DEF RepliesCover
  <2> QED
    BY <1>1, <2>1, <2>2 DEF Arrived, OnWay
<1>12. CASE RemoteUpdate
  <2>1. /\ UNCHANGED <<cmds, replies, mirror>>
        /\ \E r \in RdRegs, v \in Value : remote' = [remote EXCEPT ![r] = v]
    BY <1>12 DEF RemoteUpdate, link
  <2>2. remote'[w] = remote[w]
    BY <1>1, <1>2, <2>1
  <2> QED
    BY <1>4, <2>1, <2>2
<1> QED
  BY <1>3, <1>5, <1>6, <1>7, <1>8, <1>9, <1>10, <1>11, <1>12
     DEF LibStep, Environment, rdcu_process_rx
(* The step from one goal's state to the next.                             *)
LEMMA MoveStep ==
  ASSUME BaseInv, BaseInv', NoSlotLeak' => NoSlotLeak, LinkInv, MoveInv, SameGoal,
         \/ LibStep /\ UNCHANGED xfer
         \/ Environment /\ UNCHANGED xfer
         \/ XferStep
         \/ UNCHANGED <<xfer, cmds, replies, mirror, remote, in_use>> /\ xfer.at = "idle"
  PROVE  MoveInv'
<1>1. XTypeOK /\ LibShape /\ CallInv /\ TypeOK /\ TypeOK'
  BY DEF BaseInv, XInv
<1>2. xfer'.at = "idle" /\ xfer'.ret = 0 => xfer'.done = xfer'.size
  <2>1. CASE XferStep
    <3>1. ASSUME xfer'.at = "idle", xfer'.ret = 0
          PROVE  /\ xfer'.done = xfer.done /\ xfer.left = 0
                 /\ xfer.at # "idle" /\ xfer'.size = xfer.size
      BY <1>1, <2>1, <3>1, XferMoves
    <3>2. xfer.at # "idle" => xfer.done + xfer.left = xfer.size
      BY DEF BaseInv, XInv, XferInBlock
    <3> QED
      BY <1>1, <3>1, <3>2 DEF XTypeOK
  <2>2. CASE UNCHANGED xfer
    BY <2>2 DEF MoveInv
  <2> QED
    BY <2>1, <2>2
<1>3. ASSUME goal'.ok, NEW i \in 1 .. Len(replies')
      PROVE  replies'[i].form \in {"ok", "garbled"}
  <2>1. ~ErrorAnswer
    BY <1>3 DEF SameGoal
  <2>2. replies'[i].form \in Form
    <3>1. replies'[i] \in Reply
      BY <1>1, ElementOfSeq DEF TypeOK
    <3> QED
      BY <3>1 DEF Reply
  <2> QED
    BY <2>1, <2>2 DEF ErrorAnswer, Form
<1>4. ASSUME goal'.ok, NoSlotLeak', NEW w \in Addr, SentWord(w)'
      PROVE  (Arrived(w) \/ OnWay(w))'
  <2>1. goal.ok /\ NoSlotLeak /\ w \in Block(xfer)
    BY <1>4 DEF SameGoal, SentWord
  <2>2. SentWord(w) => Arrived(w) \/ OnWay(w)
    BY <2>1 DEF MoveInv
  <2>3. CASE UNCHANGED xfer /\ (LibStep \/ Environment)
    <3>1. CASE SentWord(w)
      BY <1>4, <2>1, <2>2, <2>3, <3>1, WordStays
    <3>2. CASE ~SentWord(w)
      BY <1>4, <2>3, <3>2, SentBySubmit DEF OnWay
    <3> QED
      BY <3>1, <3>2
  <2>4. ASSUME SentWord(w), UNCHANGED <<cmds, replies, mirror, remote>>
        PROVE  (Arrived(w) \/ OnWay(w))'
    BY <2>2, <2>4 DEF Arrived, OnWay, SameGoal
  <2>5. CASE XferStep
    <3>1. SentWord(w)
      BY <1>4, <2>5, SentByLoops
    <3>2. SubmitPiece \/ PollPending \/ UNCHANGED vars
      BY <1>1, <2>5, XferMoves
    <3>3. UNCHANGED <<cmds, replies, mirror, remote>>
      BY <3>2 DEF SubmitPiece, PollPending, rdcu_sync_data, rdcu_rmap_sync_status,
                  vars, link
    <3> QED
      BY <2>4, <3>1, <3>3
  <2>6. CASE UNCHANGED <<xfer, cmds, replies, mirror, remote>> /\ xfer.at = "idle"
    <3>1. SentWord(w)
      BY <1>4, <2>6 DEF SentWord, PieceSent
    <3> QED
      BY <2>4, <2>6, <3>1
  <2> QED
    BY <2>3, <2>5, <2>6
<1> QED
  BY <1>2, <1>3, <1>4 DEF MoveInv

(* The whole invariant of a transfer.                                      *)
BlockInv == BaseInv /\ LinkInv /\ MoveInv

(* It holds initially: nothing was transferred.                            *)
LEMMA BlockInvInit == ASSUME GoalInit PROVE BlockInv
<1>1. Init /\ XInit /\ xfer = NoXfer
  BY DEF GoalInit, XInit
<1>2. Len(cmds) = 0 /\ Len(replies) = 0 /\ cmds = <<>> /\ replies = <<>>
  BY <1>1 DEF Init
<1>3. /\ goal = [mirror |-> mirror, remote |-> remote, ok |-> TRUE]
      /\ mirror \in [Addr -> Value] /\ remote \in [Addr -> Value]
  BY <1>1, ValueAssumption DEF GoalInit, Init
<1>4. BaseInv
  <2>1. LibShape
    BY <1>1, NoCmdShape DEF Init, LibShape
  <2>2. XArgs /\ CallInv
    BY <1>1 DEF XArgs, CallInv, NoXfer, Init
  <2> QED
    BY <1>1, <2>1, <2>2, XInvInit, TypeInit, PendingInit, LogInvInit DEF BaseInv
<1>5. LinkInv
  BY <1>1, <1>2, <1>3 DEF LinkInv, Busy, NothingBeside, NoXfer
<1>6. MoveInv
  <2>1. \A w \in Addr : Arrived(w)
    BY <1>3 DEF Arrived
  <2> QED
    BY <1>1, <1>2, <2>1 DEF MoveInv, NoXfer
<1> QED
  BY <1>4, <1>5, <1>6 DEF BlockInv

(* Every step keeps it.                                                    *)
LEMMA BlockInvStep ==
  ASSUME BlockInv,
         [/\ XNext
          /\ AppStep => pending = 0
          /\ goal' = NextGoal]_<<xvars, goal>>
  PROVE  BlockInv'
<1>1. CASE UNCHANGED <<xvars, goal>>
  <2>1. BaseInv'
    BY <1>1, BaseStep DEF BlockInv, xvars
  <2>2. /\ UNCHANGED <<goal, xfer, cmds, replies, mirror, remote, in_use, call, cmd, ret>>
    BY <1>1 DEF xvars, vars, lib, log, link
  <2>3. LinkInv'
    BY <2>2 DEF BlockInv, LinkInv, Busy, NothingBeside
  <2>4. MoveInv'
    BY <2>2 DEF BlockInv, MoveInv, NoSlotLeak, InFlight, Submitting, SentWord,
                PieceSent, Piece, FullPiece, Arrived, OnWay
  <2> QED
    BY <2>1, <2>3, <2>4 DEF BlockInv
<1>2. CASE GoalStep
  <2>1. BaseInv /\ LinkInv /\ MoveInv
    BY DEF BlockInv
  <2>2. BaseInv' /\ (NoSlotLeak' => NoSlotLeak)
    BY <1>2, <2>1, BaseStep DEF GoalStep
  <2>3. CASE SameGoal /\ (\/ LibStep /\ UNCHANGED xfer
                          \/ Environment /\ UNCHANGED xfer
                          \/ XferStep
                          \/ /\ UNCHANGED <<xfer, cmds, replies, mirror, remote, in_use>>
                             /\ xfer.at = "idle")
    BY <2>1, <2>2, <2>3, LinkStep, MoveStep DEF BlockInv
  <2> QED
    <3>1. CASE /\ AppStep /\ pending = 0 /\ xfer.at = "idle"
               /\ \/ \E k \in Kind, a \in Nat, n \in Nat, m \in Nat : sync_begin(k, a, n, m)
                  \/ UNCHANGED xfer /\ \E w \in Sram, v \in Value : SetMirror(w, v)
      BY <1>2, <2>1, <2>2, <3>1, NewGoal DEF BlockInv
    <3> QED
      BY <1>2, <2>1, <2>3, <3>1, GoalSteps
<1> QED
  BY <1>1, <1>2 DEF GoalStep

(* It holds throughout.                                                    *)
LEMMA BlockInvAlways == GoalSpec => []BlockInv
<1>1. GoalInit => BlockInv
  BY BlockInvInit
<1>2. BlockInv /\ [/\ XNext
                   /\ AppStep => pending = 0
                   /\ goal' = NextGoal]_<<xvars, goal>> => BlockInv'
  BY BlockInvStep
<1> QED
  BY <1>1, <1>2, PTL DEF GoalSpec

(* Whatever the link loses, damages or refuses, and whether it succeeds or *)
(* not, a call of rdcu_sync_mirror_to_sram or rdcu_sync_sram_to_mirror     *)
(* (rdcu_ctrl.c) that begins on a quiet link leaves every word outside its *)
(* block as it was, in the mirror and in the SRAM.                         *)
THEOREM BesideCorrect == GoalSpec => []NothingBeside
<1>1. BlockInv => NothingBeside
  BY DEF BlockInv, LinkInv
<1> QED
  BY <1>1, BlockInvAlways, PTL

(* When such a call has returned 0 and rdcu_rmap_sync_status would find    *)
(* nothing pending, every word of the block is on the other side: no piece *)
(* was left out or sent twice to the wrong place, however often the log    *)
(* was full and in whichever order the steps of the driver and of the RDCU *)
(* fell, unless an answer was an error or damaged.                         *)
THEOREM BlockCorrect == GoalSpec => []BlockMoved
<1>1. ASSUME BlockInv, xfer.at = "idle", xfer.ret = 0, pending = 0, goal.ok
      PROVE  /\ mirror = goal.mirror
             /\ \A w \in Addr \ RdRegs : remote[w] = goal.remote[w]
  <2>1. /\ NoSlotLeak /\ cmds = <<>> /\ Len(cmds) = 0
        /\ replies = <<>> /\ Len(replies) = 0
    BY <1>1, QuietLink DEF BlockInv, BaseInv
  <2>2. xfer.done = xfer.size
    BY <1>1 DEF BlockInv, MoveInv
  <2>3. ASSUME NEW w \in Addr, w \in Block(xfer)
        PROVE  Arrived(w)
    <3>1. SentWord(w)
      BY <2>2, <2>3 DEF SentWord, Block
    <3>2. ~OnWay(w)
      BY <2>1 DEF OnWay, CmdsCover, RepliesCover
    <3> QED
      BY <1>1, <2>1, <3>1, <3>2 DEF BlockInv, MoveInv
  <2>4. NothingBeside
    BY <1>1 DEF BlockInv, LinkInv
  <2>5. \A w \in Addr : mirror[w] = goal.mirror[w]
    BY <2>3, <2>4 DEF Arrived, NothingBeside
  <2>6. \A w \in Addr \ RdRegs : remote[w] = goal.remote[w]
    BY <2>3, <2>4 DEF Arrived, NothingBeside
  <2>7. mirror \in [Addr -> Value] /\ goal.mirror \in [Addr -> Value]
    BY <1>1 DEF BlockInv, BaseInv, TypeOK, LinkInv
  <2> QED
    BY <2>5, <2>6, <2>7
<1>2. BlockInv => BlockMoved
  BY <1>1 DEF BlockMoved
<1> QED
  BY <1>2, BlockInvAlways, PTL
=============================================================================
