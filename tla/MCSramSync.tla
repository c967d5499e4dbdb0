----------------------------- MODULE MCSramSync -----------------------------
(***************************************************************************)
(* SramSync with a history variable: the contents that mirror and SRAM     *)
(* must have when a transfer that started on a quiet link is complete, and *)
(* whether an answer was an error or damaged, which the driver does not    *)
(* tell from success (rdcu_process_rx, lines 302 to 314).                  *)
(***************************************************************************)
EXTENDS SramSync

VARIABLE goal

Block(x)   == {w \in Sram : x.addr <= 4 * w /\ 4 * w < x.addr + x.size}
Copy(x, to, from) == [w \in Addr |-> IF w \in Block(x) THEN from[w] ELSE to[w]]

AppStep == xfer.at = "idle" /\ call = "none"
             /\ (xfer' # xfer \/ mirror' # mirror)

ErrorAnswer == \E i \in 1 .. Len(replies') :
                 replies'[i].form \in {"rejected", "bad_len", "bad_crc"}

(* What an application's step (a write to the mirror or a new transfer)    *)
(* makes the goal.                                                         *)
NextGoal ==
  IF ~AppStep THEN [goal EXCEPT !.ok = @ /\ ~ErrorAnswer]
  ELSE IF xfer'.at = "idle"
    THEN [mirror |-> mirror', remote |-> remote, ok |-> TRUE]
  ELSE IF xfer'.kind = "read"
    THEN [mirror |-> Copy(xfer', mirror, remote), remote |-> remote,
          ok |-> TRUE]
    ELSE [mirror |-> mirror, remote |-> Copy(xfer', remote, mirror),
          ok |-> TRUE]

GoalInit ==
  XInit /\ goal = [mirror |-> mirror, remote |-> remote, ok |-> TRUE]

(* The application waits for "synchronised" before it writes to the mirror *)
(* or starts a transfer.                                                   *)
GoalSpec ==
  /\ GoalInit
  /\ [][/\ XNext
        /\ AppStep => pending = 0
        /\ goal' = NextGoal]_<<xvars, goal>>
  /\ XFairness

(* A transfer that returned 0 has, once nothing is pending, moved exactly  *)
(* the block: every word of it, through refusals of a full log and waits,  *)
(* and no word beside it, if no answer was an error. The registers in      *)
(* RdRegs are the hardware's: it changes them on its own.                  *)
BlockMoved ==
  xfer.at = "idle" /\ xfer.ret = 0 /\ call = "none" /\ pending = 0
  /\ goal.ok
    => mirror = goal.mirror /\ \A w \in Addr \ RdRegs : remote[w] = goal.remote[w]

(* A transfer that has begun returns: the submission is retried until the  *)
(* log has room and the wait for earlier answers ends, unless a slot is    *)
(* taken by a transaction that is no longer on the link, never was sent or *)
(* was not understood (see TransferReturns). Refusals, errors and damaged  *)
(* data do not keep it from returning (rdcu_ctrl.c, lines 2261 to 2305 and *)
(* 2324 to 2381).                                                          *)
ReturnsUnlessLeaked ==
  xfer.at # "idle" ~> xfer.at = "idle" \/ ~NoSlotLeak

(* Complete or not, failed or not, a transfer touches nothing but its      *)
(* block.                                                                  *)
NothingBeside ==
  \A w \in Addr \ Block(xfer) :
    /\ mirror[w] = goal.mirror[w]
    /\ w \notin RdRegs => remote[w] = goal.remote[w]
=============================================================================
