------------------------------ MODULE SramSync ------------------------------
(***************************************************************************)
(* The SRAM transfers of the RDCU driver, rdcu_sync_mirror_to_sram and     *)
(* rdcu_sync_sram_to_mirror (lib/rdcu_compress/rdcu_ctrl.c), on top of the *)
(* RMAP layer: a block is cut into pieces of mtu bytes and a rest, a piece *)
(* is submitted again while the transaction log is full, and the read      *)
(* direction waits after each full piece until few answers are missing.    *)
(* Addresses, sizes and the mtu are in bytes, as in the code.              *)
(***************************************************************************)
EXTENDS RdcuRmap

CONSTANTS
  Addrs, Sizes, Mtus,  \* the arguments an application passes, in bytes
  MaxReadPending       \* transactions a read leaves unanswered (3)

ASSUME ArgAssumption  == Addrs \subseteq Nat /\ Sizes \subseteq Nat
                           /\ Mtus \subseteq Nat
ASSUME WaitAssumption == MaxReadPending \in Nat

VARIABLE
  xfer    \* the transfer: arguments, progress and the point it has reached

xvars == <<vars, xfer>>

SramBytes == 4 * SramWords

NoXfer == [at |-> "idle", kind |-> "read", addr |-> 0, mtu |-> 0,
           done |-> 0, left |-> 0, size |-> 0, sub |-> 0, ret |-> 0]

XInit == Init /\ xfer = NoXfer

(* The arguments the functions refuse. In the code the sums cannot         *)
(* overflow: both terms are at most the size of the SRAM by then.          *)
BadArguments(addr, size, mtu) ==
  \/ mtu % 4 # 0
  \/ addr % 4 # 0
  \/ size % 4 # 0
  \/ addr >= SramBytes
  \/ size > SramBytes
  \/ addr + size > SramBytes

(* rdcu_sync_mirror_to_sram and rdcu_sync_sram_to_mirror, up to the loop.  *)
sync_begin(kind, addr, size, mtu) ==
  /\ call = "none"
  /\ xfer.at = "idle"
  /\ xfer' = IF BadArguments(addr, size, mtu)
             THEN [NoXfer EXCEPT !.ret = -1]
             ELSE [NoXfer EXCEPT !.at = "loop", !.kind = kind, !.addr = addr,
                                 !.mtu = mtu, !.size = size, !.left = size]
  /\ UNCHANGED vars

rdcu_sync_mirror_to_sram(addr, size, mtu) == sync_begin("write", addr, size, mtu)
rdcu_sync_sram_to_mirror(addr, size, mtu) == sync_begin("read", addr, size, mtu)

FullPiece == xfer.left >= xfer.mtu

(* Mutant: the rest is sent as if it were a full piece.                    *)
Piece_AlwaysMtu == xfer.mtu

Piece     == IF FullPiece THEN xfer.mtu ELSE xfer.left

(* Mutant: the rest of the block is transferred with the length of a full  *)
(* piece.                                                                  *)
SubmitPiece_RestAsMtu ==
  /\ xfer.at = "loop"
  /\ FullPiece \/ xfer.left > 0
  /\ rdcu_sync_data(xfer.kind, (xfer.addr + xfer.done) \div 4, xfer.mtu \div 4)
  /\ xfer' = [xfer EXCEPT !.at = "sync"]

(* The next piece is passed to rdcu_sync_data.                             *)
SubmitPiece ==
  /\ xfer.at = "loop"
  /\ FullPiece \/ xfer.left > 0
  /\ rdcu_sync_data(xfer.kind, (xfer.addr + xfer.done) \div 4, Piece \div 4)
  /\ xfer' = [xfer EXCEPT !.at = "sync"]

(* Mutants: a piece the full log refused counts as sent; the address of    *)
(* the next piece is not advanced; the rest is never taken off.            *)
Evaluated_RetryIgnored(r) ==
  IF r < 0 THEN [xfer EXCEPT !.at = "idle", !.ret = -1]
           ELSE [xfer EXCEPT !.at = "loop", !.done = @ + Piece,
                             !.left = @ - Piece]

Evaluated_DoneKept(r) ==
  CASE r > 0 -> [xfer EXCEPT !.at = "loop"]
    [] r < 0 -> [xfer EXCEPT !.at = "idle", !.ret = -1]
    [] r = 0 -> [xfer EXCEPT !.at = "loop", !.left = @ - Piece]

Evaluated_RestKept(r) ==
  IF r = 0 /\ FullPiece
    THEN [xfer EXCEPT !.at = "loop", !.done = @ + Piece, !.left = @ - Piece]
  ELSE IF r < 0 THEN [xfer EXCEPT !.at = "idle", !.ret = -1]
  ELSE [xfer EXCEPT !.at = "loop"]

(* What the loops do with the result r of rdcu_sync_data: retry, fail, or  *)
(* go on behind the piece.                                                 *)
Evaluated(r) ==
  CASE r > 0 -> [xfer EXCEPT !.at = "loop"]
    [] r < 0 -> [xfer EXCEPT !.at = "idle", !.ret = -1]
    [] r = 0 -> [xfer EXCEPT !.at = "loop", !.done = @ + Piece,
                             !.left = @ - Piece]

(* rdcu_sync_data has returned. A read first waits for earlier answers,    *)
(* whatever the result; not so for the rest of the block.                  *)
PieceReturned ==
  /\ xfer.at = "sync"
  /\ call = "none"
  /\ xfer' = IF xfer.kind = "read" /\ FullPiece
             THEN [xfer EXCEPT !.at = "wait", !.sub = ret]
             ELSE Evaluated(ret)
  /\ UNCHANGED vars

(* while (rdcu_rmap_sync_status() > 3);                                    *)
PollPending ==
  /\ xfer.at = "wait"
  /\ rdcu_rmap_sync_status
  /\ xfer' = [xfer EXCEPT !.at = "polled"]

PollReturned ==
  /\ xfer.at = "polled"
  /\ call = "none"
  /\ xfer' = IF ret > MaxReadPending THEN [xfer EXCEPT !.at = "wait"]
                                     ELSE Evaluated(xfer.sub)
  /\ UNCHANGED vars

AllSubmitted ==
  /\ xfer.at = "loop"
  /\ ~FullPiece /\ xfer.left = 0
  /\ xfer' = [xfer EXCEPT !.at = "idle", !.ret = 0]
  /\ UNCHANGED vars

XferStep ==
  SubmitPiece \/ PieceReturned \/ PollPending \/ PollReturned \/ AllSubmitted

(* The application starts a transfer when none runs, polls the status and  *)
(* writes to the mirror in between.                                        *)
XApplication ==
  \/ \E a \in Addrs, n \in Sizes, m \in Mtus :
       \/ rdcu_sync_mirror_to_sram(a, n, m)
       \/ rdcu_sync_sram_to_mirror(a, n, m)
  \/ /\ xfer.at = "idle"
     /\ \/ rdcu_rmap_sync_status
        \/ \E w \in Sram, v \in Value : SetMirror(w, v)
     /\ UNCHANGED xfer

XNext ==
  \/ XApplication
  \/ XferStep
  \/ (LibStep \/ Environment) /\ UNCHANGED xfer

XSpec == XInit /\ [][XNext]_xvars

(* The thread of the driver runs and the RDCU answers.                     *)
XFairness ==
  /\ WF_xvars(LibStep /\ UNCHANGED xfer)
  /\ WF_xvars(XferStep)
  /\ WF_xvars(TargetExecute /\ UNCHANGED xfer)

XFairSpec == XSpec /\ XFairness
-----------------------------------------------------------------------------
(* Properties.                                                             *)

XferPoint == {"idle", "loop", "sync", "wait", "polled"}

XTypeOK ==
  xfer \in [at: XferPoint, kind: Kind, addr: Nat, mtu: Nat, done: Nat,
            left: Nat, size: Nat, sub: Int, ret: Int]

(* A transfer that has begun returns: the submission is retried until the  *)
(* log has room and the wait for earlier answers ends                      *)
(* (rdcu_ctrl.c, "returns 0 on success, otherwise error").                 *)
TransferReturns == xfer.at # "idle" ~> xfer.at = "idle"

(* The pieces tile the block that was asked for: what was submitted and    *)
(* what is left add up to it, it ends inside the SRAM, and the piece being *)
(* submitted begins where the one before ended, for every address, size    *)
(* and mtu the functions accept.                                           *)
XferInBlock ==
  xfer.at # "idle" =>
    /\ xfer.done + xfer.left = xfer.size
    /\ xfer.addr + xfer.size <= SramBytes
    /\ xfer.at = "sync" /\ call # "none" =>
         /\ 4 * cmd.addr = xfer.addr + xfer.done
         /\ 4 * cmd.len = Piece

(* What makes XferInBlock inductive: the loops keep everything aligned.    *)
XferAligned ==
  xfer.at # "idle" =>
    \A n \in {xfer.addr, xfer.mtu, xfer.done, xfer.left} : n % 4 = 0
=============================================================================
