----------------------------- MODULE MCSramLive -----------------------------
(***************************************************************************)
(* MCSramSync with a history of the transactions the driver cannot         *)
(* complete, because their packets were never sent or got lost.            *)
(***************************************************************************)
EXTENDS MCSramSync

(* The slots of transactions whose own command or reply is gone: the       *)
(* packet was not generated or rmap_tx refused it, the link lost it, or    *)
(* damage makes it no RMAP packet.                                         *)
VARIABLE lost

NotSent == {s \in Slots : /\ ~in_use[s] \/ (call = "tx" /\ s = cmd.tid)
                          /\ in_use'[s]
                          /\ call' = "none" /\ ret' = -1}

LostNow ==
  NotSent
    \cup (IF LoseCommand THEN {Head(cmds).tid} ELSE {})
    \cup (IF LoseReply THEN {Head(replies).tid} ELSE {})
    \cup {replies'[i].tid :
            i \in {j \in 1 .. Len(replies') : replies'[j].form = "garbled"}}

LiveInit == GoalInit /\ lost = {}

(* The application keeps polling the status between transfers, as          *)
(* rdcu_ctrl.c, lines 33 to 46, asks it to.                                *)
LiveSpec ==
  /\ LiveInit
  /\ [][/\ XNext
        /\ AppStep => pending = 0
        /\ goal' = NextGoal
        /\ lost' = lost \cup LostNow]_<<xvars, goal, lost>>
  /\ XFairness
  /\ SF_xvars(xfer.at = "idle" /\ rdcu_rmap_sync_status /\ UNCHANGED xfer)

(* Every transaction ends: a slot that is taken is given back, if the RDCU *)
(* answers and the application polls, unless its own packet was lost or    *)
(* never sent.  Refused commands, damaged data and early exits from the rx *)
(* loop do not matter, nor does what happens to the packets of other slots *)
(* or that a transfer hangs because of these (rdcu_process_rx: every path  *)
(* behind trans_log_get_addr releases).                                    *)
SlotsComeBack == \A s \in Slots : in_use[s] ~> ~in_use[s] \/ s \in lost
=============================================================================
