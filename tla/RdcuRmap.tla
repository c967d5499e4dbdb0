------------------------------ MODULE RdcuRmap ------------------------------
(***************************************************************************)
(* The RMAP link layer of the RDCU driver (lib/rdcu_compress/rdcu_rmap.c): *)
(* a transaction log of TRANS_LOG_SIZE slots, the rx loop that matches     *)
(* replies with slots, and the calls that submit commands.  The library is *)
(* single-threaded: `call' is the point its one thread has reached inside  *)
(* a call, "none" when no call is active.  The SpaceWire link and the RDCU *)
(* run concurrently with it.                                               *)
(*                                                                         *)
(* Memory is counted in 32-bit words.  Word w of the mirror corresponds to *)
(* word w of the RDCU: words below SramWords are the SRAM, RdRegs are the  *)
(* registers the driver reads, WrRegs the registers it writes.  The build  *)
(* modelled is the flight one (big endian): the payload of a write is the  *)
(* mirror memory itself, read when the packet is handed to the SpW core.   *)
(***************************************************************************)
EXTENDS Integers, Sequences, FiniteSets

CONSTANTS
  TRANS_LOG_SIZE, \* number of slots of the transaction log
  SramWords,      \* words of SRAM that are mirrored
  RdRegs,         \* registers synchronised from the RDCU (read only)
  WrRegs,         \* registers synchronised to the RDCU (write only)
  MemWords,       \* words of the whole mirror
  TxDescriptors,  \* packets the SpW core can hold for transmission
  RxDescriptors,  \* packets it can hold after reception
  MaxBlock,       \* longest data transfer an application asks for, in words
  Value,          \* the values of a word
  Value0,         \* the value of a word after rdcu_ctrl_init (calloc, memset)
  NULL,           \* no local address
  Faults          \* the faults that occur, a subset of FaultKinds

(* The faults of the environment. Those of LeakFaults leave a transaction  *)
(* without an answer the driver can use; those of AnswerFaults answer it   *)
(* without performing it or without usable data.                           *)
LeakFaults   == {"create", "tx", "lose_cmd", "lose_reply", "garble"}
AnswerFaults == {"reject", "bad_len", "bad_crc"}
FaultKinds   == LeakFaults \cup AnswerFaults \cup {"rx_alloc"}

Slots == 0 .. (TRANS_LOG_SIZE - 1)
Addr  == 0 .. (MemWords - 1)
Sram  == 0 .. (SramWords - 1)

ASSUME LogAssumption    == TRANS_LOG_SIZE \in Nat \ {0}
ASSUME MemAssumption    == /\ MemWords \in Nat \ {0}
                           /\ SramWords \in 0 .. MemWords
                           /\ RdRegs \subseteq SramWords .. (MemWords - 1)
                           /\ WrRegs \subseteq SramWords .. (MemWords - 1)
                           /\ RdRegs \cap WrRegs = {}
ASSUME BlockAssumption  == MaxBlock \in Nat
(* The log has as many slots as the core has transmit descriptors (l. 137) *)
ASSUME DescAssumption   == /\ TxDescriptors \in Nat
                           /\ TxDescriptors >= TRANS_LOG_SIZE
                           /\ RxDescriptors \in Nat \ {0}
ASSUME ValueAssumption  == Value0 \in Value
ASSUME NullAssumption   == NULL \notin Addr
ASSUME FaultsAssumption == Faults \subseteq FaultKinds

VARIABLES
  in_use, local_addr, pending,  \* trans_log
  call,      \* where the library's thread is
  cmd,       \* the command of the call in progress
  ret,       \* what the last call returned
  mirror,    \* the local mirror of registers and SRAM
  cmds,      \* commands on their way to the RDCU
  replies,   \* packets the SpW core has received and rmap_rx will return
  remote     \* the registers and SRAM of the RDCU

log   == <<in_use, local_addr, pending>>
lib   == <<log, call, cmd, ret>>
link  == <<cmds, replies>>
vars  == <<lib, mirror, link, remote>>

Kind    == {"read", "write"}
Form    == {"ok", "rejected", "bad_len", "bad_crc", "garbled"}
Command == {c \in [kind: Kind, tid: Slots, addr: Addr, len: Nat,
                   data: Seq(Value)] : c.addr + c.len <= MemWords}
Reply   == [kind: Kind, tid: Slots, addr: Addr, form: Form, data: Seq(Value)]
RxLoop  == {"rx_status", "rx_data", "rx_submit"}
CallPoint == RxLoop \cup {"none", "status", "grab", "tx"}

(* The command of no call.                                                 *)
NoCmd == [kind |-> "read", tid |-> 0, addr |-> 0, len |-> 0, data |-> <<>>]

(* n words of memory m from word a on, and m with the words d stored at a. *)
WordsAt(m, a, n) == [i \in 1 .. n |-> m[a + i - 1]]
Stored(m, a, d)  ==
  [w \in Addr |-> IF a <= w /\ w < a + Len(d) THEN d[w - a + 1] ELSE m[w]]

Init ==
  /\ in_use = [s \in Slots |-> FALSE]
  /\ local_addr = [s \in Slots |-> NULL]
  /\ pending = 0
  /\ call = "none"
  /\ cmd = NoCmd
  /\ ret = 0
  /\ mirror = [w \in Addr |-> Value0]
  /\ cmds = <<>>
  /\ replies = <<>>
  /\ remote = [w \in Addr |-> Value0]

-----------------------------------------------------------------------------
(* The transaction log.                                                    *)

FreeSlots == {s \in Slots : ~in_use[s]}

(* Mutant: a slot is taken whether or not it is in use.                    *)
trans_log_grab_slot_InUseIgnored(slot, addr) ==
  /\ slot = 0
  /\ in_use' = [in_use EXCEPT ![slot] = TRUE]
  /\ local_addr' = [local_addr EXCEPT ![slot] = addr]
  /\ pending' = pending + 1

(* The first free slot is taken and becomes the transaction id.            *)
trans_log_grab_slot(slot, addr) ==
  /\ slot \in FreeSlots
  /\ \A s \in FreeSlots : slot <= s
  /\ in_use' = [in_use EXCEPT ![slot] = TRUE]
  /\ local_addr' = [local_addr EXCEPT ![slot] = addr]
  /\ pending' = pending + 1

trans_log_release_slot(slot) ==
  /\ in_use' = [in_use EXCEPT ![slot] = FALSE]
  /\ pending' = IF in_use[slot] THEN pending - 1 ELSE pending
  /\ UNCHANGED local_addr

trans_log_get_addr(slot) == IF in_use[slot] THEN local_addr[slot] ELSE NULL

(* Mutant: the reset forgets the counter.                                  *)
rdcu_rmap_reset_log_CounterKept ==
  /\ call = "none"
  /\ in_use' = [s \in Slots |-> FALSE]
  /\ UNCHANGED <<pending, local_addr, call, cmd, ret, mirror, link, remote>>

rdcu_rmap_reset_log ==
  /\ call = "none"
  /\ in_use' = [s \in Slots |-> FALSE]
  /\ pending' = 0
  /\ UNCHANGED <<local_addr, call, cmd, ret, mirror, link, remote>>

-----------------------------------------------------------------------------
(* rdcu_process_rx: one step per packet. Every caller ignores its result,  *)
(* so leaving the loop early only leaves packets in the receiver.          *)

AfterRx == CASE call = "rx_status" -> "status"
             [] call = "rx_data"   -> "grab"
             [] call = "rx_submit" -> "tx"

Usable(p)  == p.form # "garbled" /\ trans_log_get_addr(p.tid) # NULL

(* Mutant: a damaged packet also ends its transaction.                     *)
RxSkip_Release ==
  /\ call \in RxLoop
  /\ replies # <<>>
  /\ ~Usable(Head(replies))
  /\ trans_log_release_slot(Head(replies).tid)
  /\ replies' = Tail(replies)
  /\ UNCHANGED <<call, cmd, ret, mirror, cmds, remote>>

(* A packet that is no RMAP packet or that no slot waits for is skipped.   *)
RxSkip ==
  /\ call \in RxLoop
  /\ replies # <<>>
  /\ ~Usable(Head(replies))
  /\ replies' = Tail(replies)
  /\ UNCHANGED <<lib, mirror, cmds, remote>>

(* Mutant: the slot is not released.                                       *)
RxDropTransaction_SlotKept ==
  /\ call \in RxLoop
  /\ replies # <<>>
  /\ Usable(Head(replies))
  /\ Head(replies).form \in {"bad_len", "bad_crc"}
  /\ call' = AfterRx
  /\ replies' = Tail(replies)
  /\ UNCHANGED <<log, cmd, ret, mirror, cmds, remote>>

(* Data of a wrong length or with a wrong CRC: transaction dropped, loop   *)
(* left.                                                                   *)
RxDropTransaction ==
  /\ call \in RxLoop
  /\ replies # <<>>
  /\ Usable(Head(replies))
  /\ Head(replies).form \in {"bad_len", "bad_crc"}
  /\ trans_log_release_slot(Head(replies).tid)
  /\ call' = AfterRx
  /\ replies' = Tail(replies)
  /\ UNCHANGED <<cmd, ret, mirror, cmds, remote>>

(* A reply is taken for a success whatever its status; its data, if any,   *)
(* is stored at the slot's address.                                        *)
RxAccept ==
  /\ call \in RxLoop
  /\ replies # <<>>
  /\ Usable(Head(replies))
  /\ Head(replies).form \in {"ok", "rejected"}
  /\ mirror' = Stored(mirror, trans_log_get_addr(Head(replies).tid),
                      Head(replies).data)
  /\ trans_log_release_slot(Head(replies).tid)
  /\ replies' = Tail(replies)
  /\ UNCHANGED <<call, cmd, ret, cmds, remote>>

RxEmpty ==
  /\ call \in RxLoop
  /\ replies = <<>>
  /\ call' = AfterRx
  /\ UNCHANGED <<log, cmd, ret, mirror, link, remote>>

(* No memory for the packet, or rmap_rx fails to return it: it stays.      *)
RxAllocFail ==
  /\ "rx_alloc" \in Faults
  /\ call \in RxLoop
  /\ replies # <<>>
  /\ call' = AfterRx
  /\ UNCHANGED <<log, cmd, ret, mirror, link, remote>>

rdcu_process_rx ==
  RxSkip \/ RxDropTransaction \/ RxAccept \/ RxEmpty \/ RxAllocFail

-----------------------------------------------------------------------------
(* The calls of the library.                                               *)

Return(r) == call' = "none" /\ ret' = r /\ cmd' = NoCmd

(* Mutant: the result of trans_log_grab_slot is not tested for -1.         *)
Prepare_SlotUnchecked(kind, a, n) ==
  /\ \/ \E s \in Slots :
          /\ trans_log_grab_slot(s, a)
          /\ cmd' = [kind |-> kind, tid |-> s, addr |-> a, len |-> n,
                     data |-> <<>>]
     \/ /\ FreeSlots = {}
        /\ cmd' = [kind |-> kind, tid |-> -1, addr |-> a, len |-> n,
                   data |-> <<>>]
        /\ UNCHANGED log
  /\ call' = "rx_submit"
  /\ UNCHANGED ret

(* Slot taken; the command packet is generated (rdcu_gen_cmd, malloc). If  *)
(* that fails the call returns and the slot stays taken.                   *)
Prepare(kind, a, n) ==
  \E s \in Slots :
    /\ trans_log_grab_slot(s, a)
    /\ \/ /\ cmd' = [kind |-> kind, tid |-> s, addr |-> a, len |-> n,
                     data |-> <<>>]
          /\ call' = "rx_submit"
          /\ UNCHANGED ret
       \/ "create" \in Faults /\ Return(-1)

(* rdcu_sync of one register. It does not look at the receiver before it   *)
(* takes a slot.                                                           *)
rdcu_sync(kind, a) ==
  /\ call = "none"
  /\ \/ Prepare(kind, a, 1)
     \/ FreeSlots = {} /\ Return(-1) /\ UNCHANGED log
  /\ UNCHANGED <<mirror, link, remote>>

rdcu_sync_data(kind, a, n) ==
  /\ call = "none"
  /\ call' = "rx_data"
  /\ cmd' = [cmd EXCEPT !.kind = kind, !.addr = a, !.len = n]
  /\ UNCHANGED <<log, ret, mirror, link, remote>>

(* rdcu_sync_data after the receiver was served: 1 asks for a retry.       *)
SyncDataGrab ==
  /\ call = "grab"
  /\ \/ Prepare(cmd.kind, cmd.addr, cmd.len)
     \/ FreeSlots = {} /\ Return(1) /\ UNCHANGED log
  /\ UNCHANGED <<mirror, link, remote>>

(* The end of rdcu_submit_tx: the packet goes to the SpW core, or rmap_tx  *)
(* refuses it and the slot stays taken.                                    *)
rdcu_submit_tx ==
  /\ call = "tx"
  /\ \/ /\ Len(cmds) < TxDescriptors
        /\ cmds' = Append(cmds, [cmd EXCEPT !.data =
                     IF cmd.kind = "write"
                     THEN WordsAt(mirror, cmd.addr, cmd.len) ELSE <<>>])
        /\ Return(0)
     \/ /\ Len(cmds) >= TxDescriptors \/ "tx" \in Faults
        /\ Return(-1)
        /\ UNCHANGED cmds
  /\ UNCHANGED <<log, mirror, replies, remote>>

rdcu_rmap_sync_status ==
  /\ call = "none"
  /\ call' = "rx_status"
  /\ UNCHANGED <<log, cmd, ret, mirror, link, remote>>

SyncStatusReturn ==
  /\ call = "status"
  /\ Return(pending)
  /\ UNCHANGED <<log, mirror, link, remote>>

(* The steps by which a call that has begun gets to its end.               *)
LibStep ==
  rdcu_process_rx \/ SyncDataGrab \/ rdcu_submit_tx \/ SyncStatusReturn

-----------------------------------------------------------------------------
(* The application: register setters and the local SRAM access.            *)

SetMirror(a, v) ==
  /\ call = "none"
  /\ mirror' = [mirror EXCEPT ![a] = v]
  /\ UNCHANGED <<lib, link, remote>>

-----------------------------------------------------------------------------
(* The link and the RDCU. Commands and replies keep their order; without a *)
(* free receive descriptor the link blocks.                                *)

Answer(c, form, data) ==
  [kind |-> c.kind, tid |-> c.tid, addr |-> c.addr, form |-> form,
   data |-> data]

(* The oldest command is performed and answered.                           *)
TargetExecute ==
  /\ cmds # <<>>
  /\ Len(replies) < RxDescriptors
  /\ LET c == Head(cmds) IN
       \/ /\ c.kind = "write"
          /\ remote' = Stored(remote, c.addr, c.data)
          /\ replies' = Append(replies, Answer(c, "ok", <<>>))
       \/ /\ c.kind = "read"
          /\ replies' = Append(replies,
                          Answer(c, "ok", WordsAt(remote, c.addr, c.len)))
          /\ UNCHANGED remote
  /\ cmds' = Tail(cmds)
  /\ UNCHANGED <<lib, mirror>>

(* The RDCU answers with an error status and no data.                      *)
TargetReject ==
  /\ "reject" \in Faults
  /\ cmds # <<>>
  /\ Len(replies) < RxDescriptors
  /\ replies' = Append(replies, Answer(Head(cmds), "rejected", <<>>))
  /\ cmds' = Tail(cmds)
  /\ UNCHANGED <<lib, mirror, remote>>

LoseCommand ==
  /\ "lose_cmd" \in Faults
  /\ cmds # <<>>
  /\ cmds' = Tail(cmds)
  /\ UNCHANGED <<lib, mirror, replies, remote>>

LoseReply ==
  /\ "lose_reply" \in Faults
  /\ replies # <<>>
  /\ replies' = Tail(replies)
  /\ UNCHANGED <<lib, mirror, cmds, remote>>

(* A reply is damaged before the driver looks at it: its data (reads only) *)
(* or so that it is no RMAP packet any more.                               *)
DamageReply ==
  /\ \E i \in 1 .. Len(replies) : \E f \in Form :
       /\ replies[i].form = "ok"
       /\ \/ f \in {"bad_len", "bad_crc"} \cap Faults /\ replies[i].data # <<>>
          \/ f = "garbled" /\ "garble" \in Faults
       /\ replies' = [replies EXCEPT ![i].form = f]
  /\ UNCHANGED <<lib, mirror, cmds, remote>>

(* The hardware changes a status register.                                 *)
RemoteUpdate ==
  /\ \E r \in RdRegs, v \in Value : remote' = [remote EXCEPT ![r] = v]
  /\ UNCHANGED <<lib, mirror, link>>

Environment ==
  \/ TargetExecute \/ TargetReject \/ LoseCommand \/ LoseReply
  \/ DamageReply \/ RemoteUpdate

-----------------------------------------------------------------------------
(* An application that makes any call at any time.                         *)

Blocks == {b \in Sram \X (1 .. MaxBlock) : b[1] + b[2] <= SramWords}

Application ==
  \/ \E r \in RdRegs : rdcu_sync("read", r)
  \/ \E r \in WrRegs : rdcu_sync("write", r)
  \/ \E k \in Kind, b \in Blocks : rdcu_sync_data(k, b[1], b[2])
  \/ rdcu_rmap_sync_status
  \/ \E a \in WrRegs \cup Sram, v \in Value : SetMirror(a, v)

Next == Application \/ LibStep \/ Environment

(* The log is reset while nothing is on the link: the transactions that    *)
(* are still in it will never be answered.                                 *)
QuietReset == link = <<<<>>, <<>>>> /\ rdcu_rmap_reset_log

(* The library as it is used in the repository, and with the log reset the *)
(* interface also offers.                                                  *)
Spec      == Init /\ [][Next]_vars
ResetSpec == Init /\ [][Next \/ rdcu_rmap_reset_log]_vars

-----------------------------------------------------------------------------
(* Properties.                                                             *)

TypeOK ==
  /\ in_use \in [Slots -> BOOLEAN]
  /\ local_addr \in [Slots -> Addr \cup {NULL}]
  /\ pending \in Int
  /\ call \in CallPoint
  /\ cmd \in Command
  /\ ret \in Int
  /\ mirror \in [Addr -> Value]
  /\ cmds \in Seq(Command)
  /\ replies \in Seq(Reply)
  /\ remote \in [Addr -> Value]

(* The fast counter rdcu_rmap_sync_status returns is the number of slots   *)
(* in use, through every error return of rdcu_process_rx and rdcu_sync,    *)
(* repeated replies and log resets.                                        *)
PendingCountsSlots == pending = Cardinality({s \in Slots : in_use[s]})

(* The transactions that are on the link or about to be handed to it.      *)
Submitting == call \in {"rx_submit", "tx"}
InFlight ==
  {cmds[i].tid : i \in 1 .. Len(cmds)}
    \cup {replies[i].tid : i \in 1 .. Len(replies)}
    \cup (IF Submitting THEN {cmd.tid} ELSE {})

(* A reply that arrives still finds its transaction in the log, with the   *)
(* local address its command was issued for: no slot is given to a second  *)
(* command while the first is on the link (rdcu_process_rx, line 276).     *)
ReplyIsExpected ==
  \A i \in 1 .. Len(replies) :
    trans_log_get_addr(replies[i].tid) = replies[i].addr

(* A slot is in use only while its transaction is on the link: "pending"   *)
(* means that operations are pending (rdcu_rmap.c, line 765).              *)
NoSlotLeak == \A s \in Slots : in_use[s] => s \in InFlight

(* The inductive invariant behind ReplyIsExpected: every transaction on    *)
(* the link holds its slot, with its own address, and no two transactions  *)
(* share a slot.                                                           *)
HoldsSlot(t) == in_use[t.tid] /\ local_addr[t.tid] = t.addr

AllHoldSlots ==
  /\ \A i \in 1 .. Len(cmds) : HoldsSlot(cmds[i])
  /\ \A i \in 1 .. Len(replies) : HoldsSlot(replies[i])
  /\ Submitting => HoldsSlot(cmd)

NoSharedSlot ==
  /\ \A i, j \in 1 .. Len(cmds) : i # j => cmds[i].tid # cmds[j].tid
  /\ \A i, j \in 1 .. Len(replies) : i # j => replies[i].tid # replies[j].tid
  /\ \A i \in 1 .. Len(cmds), j \in 1 .. Len(replies) :
       cmds[i].tid # replies[j].tid
  /\ Submitting =>
       /\ \A i \in 1 .. Len(cmds) : cmds[i].tid # cmd.tid
       /\ \A j \in 1 .. Len(replies) : replies[j].tid # cmd.tid

LogInv == AllHoldSlots /\ NoSharedSlot
=============================================================================
