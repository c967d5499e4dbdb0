----------------------------- MODULE MCRdcuRmap -----------------------------
(***************************************************************************)
(* RdcuRmap as its users see it: the refinement mapping under which the    *)
(* transaction log and the rx loop implement SyncChannel, and a history    *)
(* variable that records what a completed synchronisation must have        *)
(* produced.                                                               *)
(***************************************************************************)
EXTENDS RdcuRmap

(* Requests and answers as the users see them: without transaction ids.    *)
Requests == [i \in 1 .. Len(cmds) |->
               [kind |-> cmds[i].kind, addr |-> cmds[i].addr,
                len |-> cmds[i].len, data |-> cmds[i].data]]
Answers  == [i \in 1 .. Len(replies) |->
               [addr |-> replies[i].addr, data |-> replies[i].data]]

Chan == INSTANCE SyncChannel WITH requests <- Requests, answers <- Answers

(* due[a]: the value the last synchronisation of register a must have      *)
(* moved: what was transmitted for a written register, what the RDCU held  *)
(* when the read was its turn for a read register. NULL when the RDCU      *)
(* refused the transaction or its answer was damaged: the driver treats    *)
(* these as completed (rdcu_process_rx, lines 302 to 314). A reset of the  *)
(* log gives up what was never answered: nothing is due after it.          *)
VARIABLE due

Covers(c, a) == c.addr <= a /\ a < c.addr + c.len

Submitted == Len(cmds') > Len(cmds)
Performed == Len(cmds') < Len(cmds)
Refused   == /\ Performed
             /\ Len(replies') > Len(replies)
             /\ replies'[Len(replies')].form = "rejected"
Damaged   == {replies'[i].addr : i \in {j \in 1 .. Len(replies') :
                /\ Len(replies') = Len(replies)
                /\ replies[j].form = "ok"
                /\ replies'[j].form \in {"bad_len", "bad_crc"}}}

NextDue ==
  [a \in RdRegs \cup WrRegs |->
     IF a \in Damaged \/ (Refused /\ Covers(Head(cmds), a)) THEN NULL
     ELSE IF Submitted /\ cmd.kind = "write" /\ Covers(cmd, a) THEN mirror[a]
     ELSE IF Performed /\ Head(cmds).kind = "read" /\ Covers(Head(cmds), a)
       THEN remote[a]
     ELSE due[a]]

NothingDue ==
  [a \in RdRegs \cup WrRegs |-> IF a \in RdRegs THEN mirror[a] ELSE remote[a]]

HistoryInit == Init /\ due = [a \in RdRegs \cup WrRegs |-> Value0]

HistorySpec ==
  /\ HistoryInit
  /\ [][\/ Next /\ due' = NextDue
        \/ QuietReset /\ due' = NothingDue]_<<vars, due>>

(* Every behaviour of the transaction log and the rx loop is one of the    *)
(* channel: replies are stored at the address they were asked for, in the  *)
(* order of the commands, whatever is lost, damaged or refused.            *)
ImplementsChannel == Chan!Spec

(* rdcu_rmap.c, lines 117 to 121: if "pending" is not set, the local data  *)
(* may be read and the remote data has been written. Losses and failed     *)
(* submissions leave transactions pending for ever, they never make an     *)
(* unfinished synchronisation look complete.                               *)
SyncComplete ==
  pending = 0 =>
    /\ \A r \in RdRegs : due[r] # NULL => mirror[r] = due[r]
    /\ \A w \in WrRegs : due[w] # NULL => remote[w] = due[w]
=============================================================================
