--------------------------- MODULE RdcuRmapProofs ---------------------------
(***************************************************************************)
(* Proofs about RdcuRmap for every size of the log, every memory and every *)
(* set of faults.                                                          *)
(***************************************************************************)
EXTENDS RdcuRmap, TLAPS, FiniteSetTheorems, SequenceTheorems

(* The head and the tail of a non-empty sequence.                          *)
LEMMA HeadAndTail ==
  ASSUME NEW S, NEW q \in Seq(S), q # <<>>
  PROVE  /\ Head(q) \in S
         /\ Tail(q) \in Seq(S)
         /\ Len(q) \in Nat \ {0}
         /\ Len(Tail(q)) = Len(q) - 1
         /\ Head(q) = q[1]
         /\ \A i \in 1 .. Len(Tail(q)) : Tail(q)[i] = q[i + 1]
BY HeadTailProperties, EmptySeq

(* An element appended to a sequence.                                      *)
LEMMA Appended ==
  ASSUME NEW S, NEW q \in Seq(S), NEW e \in S
  PROVE  /\ Append(q, e) \in Seq(S)
         /\ Len(Append(q, e)) = Len(q) + 1
         /\ Append(q, e)[Len(q) + 1] = e
         /\ \A i \in 1 .. Len(q) : Append(q, e)[i] = q[i]
BY AppendProperties

(* Words read from a memory are words (WordsAt).                           *)
LEMMA WordsAreValues ==
  ASSUME NEW m \in [Addr -> Value], NEW a \in Addr, NEW n \in Nat,
         a + n <= MemWords
  PROVE  WordsAt(m, a, n) \in Seq(Value)
<1>1. \A i \in 1 .. n : a + i - 1 \in Addr
  BY MemAssumption DEF Addr
<1>2. WordsAt(m, a, n) \in [1 .. n -> Value]
  BY <1>1 DEF WordsAt
<1> QED
  BY <1>2, IsASeq DEF WordsAt

(* A memory with words stored into it is a memory (Stored).                *)
LEMMA StoredIsMemory ==
  ASSUME NEW m \in [Addr -> Value], NEW a \in Addr, NEW d \in Seq(Value)
  PROVE  Stored(m, a, d) \in [Addr -> Value]
<1>1. ASSUME NEW w \in Addr, a <= w, w < a + Len(d)
      PROVE  d[w - a + 1] \in Value
  <2>1. w - a + 1 \in 1 .. Len(d)
    BY <1>1, MemAssumption, LenProperties DEF Addr
  <2> QED  BY <2>1, ElementOfSeq
<1> QED  BY <1>1 DEF Stored
-----------------------------------------------------------------------------
(* Type correctness.                                                       *)

(* The steps of the system, with the log reset.                            *)
AnyStep == Next \/ rdcu_rmap_reset_log

(* Taking and releasing a slot keep the log well typed.                    *)
LEMMA GrabType ==
  ASSUME TypeOK, NEW slot \in Slots, NEW a \in Addr,
         trans_log_grab_slot(slot, a)
  PROVE  /\ in_use' \in [Slots -> BOOLEAN]
         /\ local_addr' \in [Slots -> Addr \cup {NULL}]
         /\ pending' \in Int
BY DEF TypeOK, trans_log_grab_slot

(* Releasing a slot keeps the log well typed, whether or not it was taken. *)
LEMMA ReleaseType ==
  ASSUME TypeOK, NEW slot \in Slots, trans_log_release_slot(slot)
  PROVE  /\ in_use' \in [Slots -> BOOLEAN]
         /\ local_addr' \in [Slots -> Addr \cup {NULL}]
         /\ pending' \in Int
BY DEF TypeOK, trans_log_release_slot

(* The command of no call is a command of the smallest log and memory.     *)
LEMMA NoCmdType == NoCmd \in Command
<1>1. <<>> \in Seq(Value)
  BY EmptySeq
<1>2. 0 \in Slots /\ 0 \in Addr
  BY LogAssumption, MemAssumption DEF Slots, Addr
<1> QED
  BY <1>1, <1>2, MemAssumption DEF NoCmd, Command, Kind

(* Preparing a command keeps the types, whether or not it succeeds.        *)
LEMMA PrepareType ==
  ASSUME TypeOK, NEW k \in Kind, NEW a \in Addr, NEW n \in Nat,
         a + n <= MemWords, Prepare(k, a, n)
  PROVE  /\ in_use' \in [Slots -> BOOLEAN]
         /\ local_addr' \in [Slots -> Addr \cup {NULL}]
         /\ pending' \in Int
         /\ call' \in CallPoint
         /\ cmd' \in Command
         /\ ret' \in Int
<1>1. PICK s \in Slots :
        /\ trans_log_grab_slot(s, a)
        /\ \/ /\ cmd' = [kind |-> k, tid |-> s, addr |-> a, len |-> n,
                         data |-> <<>>]
              /\ call' = "rx_submit"
              /\ UNCHANGED ret
           \/ "create" \in Faults /\ Return(-1)
  BY DEF Prepare
<1>2. <<>> \in Seq(Value)
  BY EmptySeq
<1>3. /\ call' \in CallPoint
      /\ cmd' \in Command
      /\ ret' \in Int
  <2>1. CASE call' = "none"
    BY <1>1, <2>1, NoCmdType DEF Return, CallPoint
  <2>2. CASE call' = "rx_submit"
    <3>1. [kind |-> k, tid |-> s, addr |-> a, len |-> n, data |-> <<>>]
            \in Command
      BY <1>2 DEF Command
    <3> QED
      BY <1>1, <2>2, <3>1 DEF Return, CallPoint, RxLoop, TypeOK
  <2> QED
    BY <1>1, <2>1, <2>2 DEF Return
<1> QED
  BY <1>1, <1>3, GrabType

(* The state after rdcu_ctrl_init and rdcu_rmap_init is well typed.        *)
LEMMA TypeInit == Init => TypeOK
<1> SUFFICES ASSUME Init PROVE TypeOK
  OBVIOUS
<1>1. <<>> \in Seq(Command) /\ <<>> \in Seq(Reply)
  BY EmptySeq
<1> QED
  BY <1>1, NoCmdType, ValueAssumption
  DEF Init, TypeOK, CallPoint

(* The rx loop.                                                            *)
LEMMA RxType == ASSUME TypeOK, rdcu_process_rx PROVE TypeOK'
<1>0. AfterRx \in CallPoint \/ call \notin RxLoop
  BY DEF AfterRx, CallPoint, RxLoop
<1>1. ASSUME replies # <<>>
      PROVE  /\ Head(replies) \in Reply
             /\ Tail(replies) \in Seq(Reply)
  BY <1>1, HeadAndTail DEF TypeOK
<1>2. CASE RxSkip
  BY <1>1, <1>2 DEF RxSkip, TypeOK, lib, log
<1>3. CASE RxDropTransaction
  <2>1. /\ in_use' \in [Slots -> BOOLEAN]
        /\ local_addr' \in [Slots -> Addr \cup {NULL}]
        /\ pending' \in Int
    BY <1>1, <1>3, ReleaseType DEF RxDropTransaction, Reply
  <2> QED
    BY <1>0, <1>1, <1>3, <2>1 DEF RxDropTransaction, TypeOK
<1>4. CASE RxAccept
  <2>1. /\ in_use' \in [Slots -> BOOLEAN]
        /\ local_addr' \in [Slots -> Addr \cup {NULL}]
        /\ pending' \in Int
    BY <1>1, <1>4, ReleaseType DEF RxAccept, Reply
  <2>2. trans_log_get_addr(Head(replies).tid) \in Addr
    BY <1>1, <1>4 DEF RxAccept, Usable, trans_log_get_addr, TypeOK, Reply
  <2>3. mirror' \in [Addr -> Value]
    BY <1>1, <1>4, <2>2, StoredIsMemory DEF RxAccept, TypeOK, Reply
  <2> QED
    BY <1>1, <1>4, <2>1, <2>3 DEF RxAccept, TypeOK
<1>5. CASE RxEmpty
  BY <1>0, <1>5 DEF RxEmpty, TypeOK, log, link
<1>6. CASE RxAllocFail
  BY <1>0, <1>6 DEF RxAllocFail, TypeOK, log, link
<1> QED
  BY <1>2, <1>3, <1>4, <1>5, <1>6 DEF rdcu_process_rx

(* The packet rdcu_submit_tx hands to the SpW core carries words of the    *)
(* mirror.                                                                 *)
LEMMA SubmitType == ASSUME TypeOK, rdcu_submit_tx PROVE TypeOK'
<1> DEFINE c == [cmd EXCEPT !.data = IF cmd.kind = "write"
                   THEN WordsAt(mirror, cmd.addr, cmd.len) ELSE <<>>]
<1>1. c \in Command
  <2>1. WordsAt(mirror, cmd.addr, cmd.len) \in Seq(Value)
    BY WordsAreValues DEF TypeOK, Command
  <2>2. <<>> \in Seq(Value)
    BY EmptySeq
  <2> QED
    BY <2>1, <2>2 DEF TypeOK, Command
<1>2. cmds' \in Seq(Command)
  <2>1. cmds \in Seq(Command)
    BY DEF TypeOK
  <2>2. Append(cmds, c) \in Seq(Command)
    BY <1>1, <2>1, Appended
  <2>3. cmds' = Append(cmds, c) \/ cmds' = cmds
    BY DEF rdcu_submit_tx
  <2> QED
    BY <2>1, <2>2, <2>3
<1> QED
  BY <1>2, NoCmdType DEF rdcu_submit_tx, Return, TypeOK, CallPoint, log

(* The packets the RDCU sends back.                                        *)
LEMMA AnswerType ==
  ASSUME NEW c \in Command, NEW f \in Form, NEW d \in Seq(Value)
  PROVE  Answer(c, f, d) \in Reply
BY DEF Answer, Command, Reply

(* What the link and the RDCU do keeps the types.                          *)
LEMMA EnvironmentType == ASSUME TypeOK, Environment PROVE TypeOK'
<1>0. <<>> \in Seq(Value) /\ {"ok", "rejected"} \subseteq Form
  BY EmptySeq DEF Form
<1>1. ASSUME cmds # <<>>
      PROVE  Head(cmds) \in Command /\ Tail(cmds) \in Seq(Command)
  BY <1>1, HeadAndTail DEF TypeOK
<1>2. CASE TargetExecute
  <2> DEFINE c == Head(cmds)
  <2>1. c \in Command /\ cmds' \in Seq(Command)
    BY <1>1, <1>2 DEF TargetExecute
  <2>2. CASE c.kind = "write"
    <3>1. Stored(remote, c.addr, c.data) \in [Addr -> Value]
      BY <2>1, StoredIsMemory DEF TypeOK, Command
    <3>2. Append(replies, Answer(c, "ok", <<>>)) \in Seq(Reply)
      BY <1>0, <2>1, AnswerType, Appended DEF TypeOK
    <3> QED
      BY <1>2, <2>1, <2>2, <3>1, <3>2 DEF TargetExecute, TypeOK, lib, log
  <2>3. CASE c.kind = "read"
    <3>1. WordsAt(remote, c.addr, c.len) \in Seq(Value)
      BY <2>1, WordsAreValues DEF TypeOK, Command
    <3>2. Append(replies, Answer(c, "ok", WordsAt(remote, c.addr, c.len)))
            \in Seq(Reply)
      BY <1>0, <2>1, <3>1, AnswerType, Appended DEF TypeOK
    <3> QED
      BY <1>2, <2>1, <2>3, <3>2 DEF TargetExecute, TypeOK, lib, log
  <2> QED
    BY <1>2, <2>2, <2>3 DEF TargetExecute
<1>3. CASE TargetReject
  <2>1. Append(replies, Answer(Head(cmds), "rejected", <<>>)) \in Seq(Reply)
    BY <1>0, <1>1, <1>3, AnswerType, Appended DEF TargetReject, TypeOK
  <2> QED
    BY <1>1, <1>3, <2>1 DEF TargetReject, TypeOK, lib, log
<1>4. CASE LoseCommand
  BY <1>1, <1>4 DEF LoseCommand, TypeOK, lib, log
<1>5. CASE LoseReply
  BY <1>5, HeadAndTail DEF LoseReply, TypeOK, lib, log
<1>6. CASE DamageReply
  <2>1. PICK i \in 1 .. Len(replies), f \in Form :
          replies' = [replies EXCEPT ![i].form = f]
    BY <1>6 DEF DamageReply
  <2>a. replies[i] \in Reply
    BY ElementOfSeq DEF TypeOK
  <2>2. [replies[i] EXCEPT !.form = f] \in Reply
    BY <2>a DEF Reply
  <2>3. replies' \in Seq(Reply)
    BY <2>1, <2>2, ExceptSeq DEF TypeOK
  <2> QED
    BY <1>6, <2>3 DEF DamageReply, TypeOK, lib, log
<1>7. CASE RemoteUpdate
  BY <1>7, MemAssumption DEF RemoteUpdate, TypeOK, lib, log, link, Addr
<1> QED
  BY <1>2, <1>3, <1>4, <1>5, <1>6, <1>7 DEF Environment

(* The calls an application makes keep the types.                          *)
LEMMA ApplicationType == ASSUME TypeOK, Application PROVE TypeOK'
<1>0. RdRegs \cup WrRegs \subseteq Addr
  BY MemAssumption DEF Addr
<1>1. ASSUME NEW k \in Kind, NEW r \in RdRegs \cup WrRegs, rdcu_sync(k, r)
      PROVE  TypeOK'
  <2>1. r \in Addr /\ r + 1 <= MemWords
    BY MemAssumption DEF Addr
  <2>2. CASE Prepare(k, r, 1)
    BY <1>1, <2>1, <2>2, PrepareType DEF rdcu_sync, TypeOK, link
  <2>3. CASE Return(-1) /\ UNCHANGED log
    BY <1>1, <2>3, NoCmdType DEF rdcu_sync, Return, TypeOK, link, log, CallPoint
  <2> QED
    BY <1>1, <2>2, <2>3 DEF rdcu_sync
<1>2. ASSUME NEW k \in Kind, NEW b \in Blocks, rdcu_sync_data(k, b[1], b[2])
      PROVE  TypeOK'
  <2>1. b[1] \in Addr /\ b[2] \in Nat /\ b[1] + b[2] <= MemWords
    BY MemAssumption, BlockAssumption DEF Blocks, Sram, Addr
  <2>2. cmd' \in Command
    BY <1>2, <2>1 DEF rdcu_sync_data, TypeOK, Command
  <2> QED
    BY <1>2, <2>2 DEF rdcu_sync_data, TypeOK, CallPoint, RxLoop, log, link
<1>3. CASE rdcu_rmap_sync_status
  BY <1>3 DEF rdcu_rmap_sync_status, TypeOK, CallPoint, RxLoop, log, link
<1>4. ASSUME NEW a \in WrRegs \cup Sram, NEW v \in Value, SetMirror(a, v)
      PROVE  TypeOK'
  <2>1. a \in Addr
    BY MemAssumption DEF Addr, Sram
  <2> QED
    BY <1>4, <2>1 DEF SetMirror, TypeOK, lib, log, link
<1> QED
  BY <1>1, <1>2, <1>3, <1>4 DEF Application, Kind

(* Every step, a log reset too, keeps the types.                           *)
LEMMA TypeStep == TypeOK /\ [AnyStep]_vars => TypeOK'
<1> SUFFICES ASSUME TypeOK, [AnyStep]_vars PROVE TypeOK'
  OBVIOUS
<1>1. CASE Application
  BY <1>1, ApplicationType
<1>2. CASE LibStep
  <2>1. CASE SyncDataGrab
    <3>1. CASE Prepare(cmd.kind, cmd.addr, cmd.len)
      BY <2>1, <3>1, PrepareType DEF SyncDataGrab, TypeOK, link, Command
    <3>2. CASE Return(1) /\ UNCHANGED log
      BY <2>1, <3>2, NoCmdType
      DEF SyncDataGrab, Return, TypeOK, link, log, CallPoint
    <3> QED
      BY <2>1, <3>1, <3>2 DEF SyncDataGrab
  <2>2. CASE SyncStatusReturn
    BY <2>2, NoCmdType
    DEF SyncStatusReturn, Return, TypeOK, log, link, CallPoint
  <2> QED
    BY <1>2, <2>1, <2>2, RxType, SubmitType DEF LibStep
<1>3. CASE Environment
  BY <1>3, EnvironmentType
<1>4. CASE rdcu_rmap_reset_log
  BY <1>4 DEF rdcu_rmap_reset_log, TypeOK, link
<1>5. CASE UNCHANGED vars
  BY <1>5 DEF vars, lib, log, link, TypeOK
<1> QED
  BY <1>1, <1>2, <1>3, <1>4, <1>5 DEF AnyStep, Next

(* The library's state keeps its types through every call, fault and       *)
(* reset: transaction ids stay inside the log, data stays inside the       *)
(* mirror, commands stay inside the memory of the RDCU.                    *)
THEOREM TypeCorrect == ResetSpec => []TypeOK
<1> QED
  BY TypeInit, TypeStep, PTL DEF ResetSpec, AnyStep

-----------------------------------------------------------------------------
(* The pending counter.                                                    *)

(* Every step that touches the log takes one slot, releases one slot or    *)
(* resets the log.                                                         *)
LEMMA LogSteps ==
  ASSUME TypeOK, AnyStep
  PROVE  \/ UNCHANGED <<in_use, pending>>
         \/ \E s \in Slots, a \in Addr : trans_log_grab_slot(s, a)
         \/ \E s \in Slots : trans_log_release_slot(s)
         \/ in_use' = [s \in Slots |-> FALSE] /\ pending' = 0
<1>1. CASE Application
  <2>1. RdRegs \subseteq Addr /\ WrRegs \subseteq Addr
    BY MemAssumption DEF Addr
  <2> QED
    BY <1>1, <2>1 DEF Application, rdcu_sync, Prepare, rdcu_sync_data,
      rdcu_rmap_sync_status, SetMirror, lib, log
<1>2. CASE rdcu_process_rx
  <2>1. replies # <<>> => Head(replies).tid \in Slots
    <3>1. replies # <<>> => Head(replies) \in Reply
      BY HeadAndTail DEF TypeOK
    <3> QED  BY <3>1 DEF Reply
  <2> QED
    BY <1>2, <2>1 DEF rdcu_process_rx, RxSkip, RxDropTransaction, RxAccept,
      RxEmpty, RxAllocFail, lib, log
<1>3. CASE SyncDataGrab
  <2>1. cmd.addr \in Addr
    BY DEF TypeOK, Command
  <2> QED
    BY <1>3, <2>1 DEF SyncDataGrab, Prepare, log
<1>4. CASE rdcu_submit_tx \/ SyncStatusReturn
  BY <1>4 DEF rdcu_submit_tx, SyncStatusReturn, log
<1>5. CASE Environment
  BY <1>5 DEF Environment, TargetExecute, TargetReject, LoseCommand,
    LoseReply, DamageReply, RemoteUpdate, lib, log
<1>6. CASE rdcu_rmap_reset_log
  BY <1>6 DEF rdcu_rmap_reset_log
<1> QED
  BY <1>1, <1>2, <1>3, <1>4, <1>5, <1>6 DEF AnyStep, Next, LibStep

(* Before the first call no slot is in use.                                *)
LEMMA PendingInit == Init => PendingCountsSlots
<1> SUFFICES ASSUME Init PROVE PendingCountsSlots
  OBVIOUS
<1>1. {s \in Slots : in_use[s]} = {}
  BY DEF Init
<1> QED
  BY <1>1, FS_EmptySet DEF Init, PendingCountsSlots

(* Every step moves the counter with the number of slots in use.           *)
LEMMA PendingStep ==
  TypeOK /\ PendingCountsSlots /\ [AnyStep]_vars => PendingCountsSlots'
<1> SUFFICES ASSUME TypeOK, PendingCountsSlots, [AnyStep]_vars
             PROVE  PendingCountsSlots'
  OBVIOUS
<1> DEFINE U == {s \in Slots : in_use[s]}
<1>0. IsFiniteSet(U) /\ Cardinality(U) = pending
  <2>1. IsFiniteSet(Slots)
    BY FS_Interval, LogAssumption DEF Slots
  <2> QED
    BY <2>1, FS_Subset DEF PendingCountsSlots
<1>1. CASE UNCHANGED <<in_use, pending>>
  BY <1>1 DEF PendingCountsSlots
<1>2. ASSUME NEW s \in Slots, NEW a \in Addr, trans_log_grab_slot(s, a)
      PROVE  PendingCountsSlots'
  <2>1. U' = U \cup {s} /\ s \notin U /\ pending' = pending + 1
    BY <1>2 DEF trans_log_grab_slot, FreeSlots, TypeOK
  <2>2. Cardinality(U \cup {s}) = Cardinality(U) + 1
    BY <1>0, <2>1, FS_AddElement
  <2> QED
    BY <1>0, <2>1, <2>2 DEF PendingCountsSlots
<1>3. ASSUME NEW s \in Slots, trans_log_release_slot(s)
      PROVE  PendingCountsSlots'
  <2>1. U' = U \ {s}
    BY <1>3 DEF trans_log_release_slot, TypeOK
  <2>2. pending' = IF s \in U THEN pending - 1 ELSE pending
    BY <1>3 DEF trans_log_release_slot
  <2>3. Cardinality(U \ {s})
          = IF s \in U THEN Cardinality(U) - 1 ELSE Cardinality(U)
    BY <1>0, FS_RemoveElement
  <2> QED
    BY <1>0, <2>1, <2>2, <2>3 DEF PendingCountsSlots
<1>4. CASE in_use' = [s \in Slots |-> FALSE] /\ pending' = 0
  <2>1. U' = {}
    BY <1>4
  <2> QED
    BY <1>4, <2>1, FS_EmptySet DEF PendingCountsSlots
<1>5. CASE UNCHANGED vars
  BY <1>1, <1>5 DEF vars, lib, log
<1> QED
  BY <1>1, <1>2, <1>3, <1>4, <1>5, LogSteps

(* rdcu_rmap_sync_status returns the number of slots in use, whatever      *)
(* error returns, stray replies and log resets came before.                *)
THEOREM PendingCorrect == ResetSpec => []PendingCountsSlots
<1>1. PendingCountsSlots /\ TypeOK /\ [AnyStep]_vars => PendingCountsSlots'
  BY PendingStep
<1> QED
  BY <1>1, PendingInit, TypeCorrect, PTL DEF ResetSpec, AnyStep

-----------------------------------------------------------------------------
(* Replies find their transaction.                                         *)

(* A step that moves no packet and hands no slot to the call in progress.  *)
LEMMA Unmoved ==
  ASSUME LogInv, UNCHANGED <<in_use, local_addr, cmds, replies>>,
         Submitting' => Submitting /\ cmd' = cmd
  PROVE  LogInv'
BY DEF LogInv, AllHoldSlots, NoSharedSlot, HoldsSlot

(* A free slot is given to the call in progress.                           *)
LEMMA PrepareLogInv ==
  ASSUME TypeOK, LogInv, ~Submitting, NEW k, NEW a \in Addr, NEW n,
         Prepare(k, a, n), UNCHANGED link
  PROVE  LogInv'
<1>1. PICK s \in Slots :
        /\ trans_log_grab_slot(s, a)
        /\ \/ /\ cmd' = [kind |-> k, tid |-> s, addr |-> a, len |-> n,
                         data |-> <<>>]
              /\ call' = "rx_submit"
           \/ call' = "none"
  BY DEF Prepare, Return
<1>2. /\ ~in_use[s]
      /\ in_use' = [in_use EXCEPT ![s] = TRUE]
      /\ local_addr' = [local_addr EXCEPT ![s] = a]
  BY <1>1 DEF trans_log_grab_slot, FreeSlots
<1>3. /\ \A i \in 1 .. Len(cmds) : cmds[i].tid \in Slots
      /\ \A i \in 1 .. Len(replies) : replies[i].tid \in Slots
  <2>1. /\ \A i \in 1 .. Len(cmds) : cmds[i] \in Command
        /\ \A i \in 1 .. Len(replies) : replies[i] \in Reply
    BY ElementOfSeq DEF TypeOK
  <2> QED  BY <2>1 DEF Command, Reply
<1>4. /\ \A i \in 1 .. Len(cmds) : cmds[i].tid # s /\ HoldsSlot(cmds[i])'
      /\ \A i \in 1 .. Len(replies) :
           replies[i].tid # s /\ HoldsSlot(replies[i])'
  BY <1>2, <1>3 DEF LogInv, AllHoldSlots, HoldsSlot, TypeOK, link
<1>5. Submitting' => cmd'.tid = s /\ cmd'.addr = a
  BY <1>1 DEF Submitting
<1>6. AllHoldSlots'
  BY <1>2, <1>4, <1>5 DEF AllHoldSlots, HoldsSlot, link, TypeOK
<1>7. NoSharedSlot'
  BY <1>4, <1>5 DEF LogInv, NoSharedSlot, link
<1> QED
  BY <1>6, <1>7 DEF LogInv

(* The oldest reply is taken; its slot may be released.                    *)
LEMMA ReplyTakenLogInv ==
  ASSUME TypeOK, LogInv, replies # <<>>, replies' = Tail(replies),
         UNCHANGED <<local_addr, cmds, cmd>>, Submitting' => Submitting,
         \/ UNCHANGED in_use
         \/ in_use' = [in_use EXCEPT ![Head(replies).tid] = FALSE]
  PROVE  LogInv'
<1>1. /\ Len(replies) \in Nat \ {0}
      /\ Len(replies') = Len(replies) - 1
      /\ Head(replies) = replies[1]
      /\ \A i \in 1 .. Len(replies') : replies'[i] = replies[i + 1]
  BY HeadAndTail DEF TypeOK
<1>2. \A i \in 1 .. Len(replies') :
        /\ i + 1 \in 1 .. Len(replies)
        /\ replies'[i] = replies[i + 1]
        /\ i + 1 # 1
  BY <1>1
<1>3. 1 \in 1 .. Len(replies)
  BY <1>1
<1>4. /\ \A i \in 1 .. Len(replies') : replies'[i].tid # Head(replies).tid
      /\ \A i \in 1 .. Len(cmds) : cmds[i].tid # Head(replies).tid
      /\ Submitting => cmd.tid # Head(replies).tid
  BY <1>1, <1>2, <1>3 DEF LogInv, NoSharedSlot
<1>5. \A t \in Slots : t # Head(replies).tid => in_use'[t] = in_use[t]
  BY DEF TypeOK
<1>6. /\ \A i \in 1 .. Len(cmds) : cmds[i].tid \in Slots
      /\ \A i \in 1 .. Len(replies) : replies[i].tid \in Slots
      /\ cmd.tid \in Slots
  <2>1. /\ \A i \in 1 .. Len(cmds) : cmds[i] \in Command
        /\ \A i \in 1 .. Len(replies) : replies[i] \in Reply
        /\ cmd \in Command
    BY ElementOfSeq DEF TypeOK
  <2> QED  BY <2>1 DEF Command, Reply
<1>7. AllHoldSlots'
  BY <1>2, <1>4, <1>5, <1>6 DEF LogInv, AllHoldSlots, HoldsSlot
<1>8. NoSharedSlot'
  <2>1. \A i, j \in 1 .. Len(replies') :
          i # j => replies'[i].tid # replies'[j].tid
    <3> SUFFICES ASSUME NEW i \in 1 .. Len(replies'),
                        NEW j \in 1 .. Len(replies'), i # j
                 PROVE  replies'[i].tid # replies'[j].tid
      OBVIOUS
    <3>1. i + 1 # j + 1
      OBVIOUS
    <3> QED
      BY <1>2, <3>1 DEF LogInv, NoSharedSlot
  <2> QED
    BY <1>2, <2>1 DEF LogInv, NoSharedSlot
<1> QED
  BY <1>7, <1>8 DEF LogInv

(* The command of the call in progress is put on the link.                 *)
LEMMA SubmitLogInv ==
  ASSUME TypeOK, LogInv, rdcu_submit_tx
  PROVE  LogInv'
<1>1. CASE UNCHANGED cmds
  BY <1>1, Unmoved DEF rdcu_submit_tx, Return, Submitting, log
<1>2. CASE ~UNCHANGED cmds
  <2> DEFINE c == [cmd EXCEPT !.data = IF cmd.kind = "write"
                     THEN WordsAt(mirror, cmd.addr, cmd.len) ELSE <<>>]
  <2>1. /\ cmds' = Append(cmds, c)
        /\ UNCHANGED <<in_use, local_addr, replies>>
        /\ ~Submitting' /\ Submitting
    BY <1>2 DEF rdcu_submit_tx, Return, Submitting, log
  <2>2. c.tid = cmd.tid /\ c.addr = cmd.addr
    BY DEF TypeOK, Command
  <2>3. /\ Len(cmds) \in Nat
        /\ Len(cmds') = Len(cmds) + 1
        /\ cmds'[Len(cmds) + 1] = c
        /\ \A i \in 1 .. Len(cmds) : cmds'[i] = cmds[i]
    BY <2>1, AppendProperties, LenProperties DEF TypeOK
  <2>4. \A i \in 1 .. Len(cmds') :
          \/ i \in 1 .. Len(cmds) /\ cmds'[i] = cmds[i]
          \/ i = Len(cmds) + 1 /\ cmds'[i] = c
    BY <2>3
  <2>5. AllHoldSlots'
    <3> HIDE DEF c
    <3> QED
      BY <2>1, <2>2, <2>4 DEF LogInv, AllHoldSlots, HoldsSlot
  <2>6. NoSharedSlot'
    <3> HIDE DEF c
    <3> QED
      BY <2>1, <2>2, <2>4 DEF LogInv, NoSharedSlot
  <2> QED
    BY <2>5, <2>6 DEF LogInv
<1> QED
  BY <1>1, <1>2

(* The oldest command leaves the link, answered or not.                    *)
LEMMA CommandTakenLogInv ==
  ASSUME TypeOK, LogInv, cmds # <<>>, cmds' = Tail(cmds),
         UNCHANGED <<in_use, local_addr, call, cmd>>,
         NEW f, NEW d,
         \/ UNCHANGED replies
         \/ replies' = Append(replies, Answer(Head(cmds), f, d))
  PROVE  LogInv'
<1> DEFINE r == Answer(Head(cmds), f, d)
<1>1. /\ Len(cmds) \in Nat \ {0}
      /\ Len(cmds') = Len(cmds) - 1
      /\ Head(cmds) = cmds[1]
      /\ \A i \in 1 .. Len(cmds') : cmds'[i] = cmds[i + 1]
  BY HeadAndTail DEF TypeOK
<1>2. /\ 1 \in 1 .. Len(cmds)
      /\ \A i \in 1 .. Len(cmds') :
           i + 1 \in 1 .. Len(cmds) /\ cmds'[i] = cmds[i + 1] /\ i + 1 # 1
      /\ \A i, j \in 1 .. Len(cmds') : i # j => i + 1 # j + 1
  BY <1>1
<1>3. r.tid = cmds[1].tid /\ r.addr = cmds[1].addr
  BY <1>1 DEF Answer
<1>4. \A i \in 1 .. Len(replies') :
        \/ i \in 1 .. Len(replies) /\ replies'[i] = replies[i]
        \/ i = Len(replies) + 1 /\ replies'[i] = r
  BY AppendProperties, LenProperties DEF TypeOK
<1> HIDE DEF r
<1>5. AllHoldSlots'
  BY <1>2, <1>3, <1>4 DEF LogInv, AllHoldSlots, HoldsSlot, Submitting
<1>6. NoSharedSlot'
  <2>1. \A i, j \in 1 .. Len(cmds') : i # j => cmds'[i].tid # cmds'[j].tid
    BY <1>2 DEF LogInv, NoSharedSlot
  <2>2. \A i \in 1 .. Len(cmds') : cmds'[i].tid # r.tid
    BY <1>2, <1>3 DEF LogInv, NoSharedSlot
  <2>3. \A i \in 1 .. Len(replies) : replies[i].tid # r.tid
    BY <1>2, <1>3 DEF LogInv, NoSharedSlot
  <2>4. \A i, j \in 1 .. Len(replies') :
          i # j => replies'[i].tid # replies'[j].tid
    BY <1>4, <2>3 DEF LogInv, NoSharedSlot
  <2>5. \A i \in 1 .. Len(cmds'), j \in 1 .. Len(replies') :
          cmds'[i].tid # replies'[j].tid
    BY <1>2, <1>4, <2>2 DEF LogInv, NoSharedSlot
  <2>6. Submitting' =>
          /\ \A i \in 1 .. Len(cmds') : cmds'[i].tid # cmd'.tid
          /\ \A j \in 1 .. Len(replies') : replies'[j].tid # cmd'.tid
    BY <1>2, <1>3, <1>4 DEF LogInv, NoSharedSlot, Submitting
  <2> QED
    BY <2>1, <2>4, <2>5, <2>6 DEF NoSharedSlot
<1> QED
  BY <1>5, <1>6 DEF LogInv

(* With nothing on the link the inductive invariant holds.                 *)
LEMMA LogInvInit == Init => LogInv
<1> SUFFICES ASSUME Init PROVE LogInv
  OBVIOUS
<1>1. Len(cmds) = 0 /\ Len(replies) = 0 /\ ~Submitting
  BY EmptySeq DEF Init, Submitting
<1> QED
  BY <1>1 DEF LogInv, AllHoldSlots, NoSharedSlot

(* The steps of the rx loop keep the inductive invariant.                  *)
LEMMA RxLogInv == ASSUME TypeOK, LogInv, rdcu_process_rx PROVE LogInv'
<1>0. call \in RxLoop => (call' = AfterRx => (Submitting' => Submitting))
  BY DEF AfterRx, RxLoop, Submitting
<1>1. CASE RxSkip
  BY <1>1, ReplyTakenLogInv DEF RxSkip, Submitting, lib, log
<1>2. CASE RxDropTransaction
  BY <1>0, <1>2, ReplyTakenLogInv
  DEF RxDropTransaction, trans_log_release_slot
<1>3. CASE RxAccept
  BY <1>3, ReplyTakenLogInv DEF RxAccept, trans_log_release_slot, Submitting
<1>4. CASE RxEmpty \/ RxAllocFail
  BY <1>0, <1>4, Unmoved DEF RxEmpty, RxAllocFail, log, link
<1> QED
  BY <1>1, <1>2, <1>3, <1>4 DEF rdcu_process_rx

(* Performing, refusing, losing and damaging packets keeps it.             *)
LEMMA EnvironmentLogInv == ASSUME TypeOK, LogInv, Environment PROVE LogInv'
<1>1. CASE TargetExecute
  BY <1>1, CommandTakenLogInv DEF TargetExecute, lib, log
<1>2. CASE TargetReject
  BY <1>2, CommandTakenLogInv DEF TargetReject, lib, log
<1>3. CASE LoseCommand
  BY <1>3, CommandTakenLogInv DEF LoseCommand, lib, log
<1>4. CASE LoseReply
  BY <1>4, ReplyTakenLogInv DEF LoseReply, Submitting, lib, log
<1>5. CASE DamageReply
  <2>1. PICK i \in 1 .. Len(replies), f \in Form :
          replies' = [replies EXCEPT ![i].form = f]
    BY <1>5 DEF DamageReply
  <2>2. /\ Len(replies') = Len(replies)
        /\ \A j \in 1 .. Len(replies) : /\ replies'[j].tid = replies[j].tid
                                        /\ replies'[j].addr = replies[j].addr
    <3>1. \A j \in 1 .. Len(replies) : replies[j] \in Reply
      BY ElementOfSeq DEF TypeOK
    <3>2. Len(replies') = Len(replies)
      BY <2>1, LenProperties DEF TypeOK
    <3>3. ASSUME NEW j \in 1 .. Len(replies)
          PROVE  /\ replies'[j].tid = replies[j].tid
                 /\ replies'[j].addr = replies[j].addr
      <4>1. DOMAIN replies = 1 .. Len(replies)
        BY LenProperties DEF TypeOK
      <4>2. replies'[j] = IF j = i THEN [replies[j] EXCEPT !.form = f]
                                   ELSE replies[j]
        BY <2>1, <4>1 DEF TypeOK
      <4> QED
        BY <3>1, <4>2 DEF Reply
    <3> QED
      BY <3>2, <3>3
  <2>3. UNCHANGED <<in_use, local_addr, cmds, call, cmd>>
    BY <1>5 DEF DamageReply, lib, log
  <2>4. AllHoldSlots'
    BY <2>2, <2>3 DEF LogInv, AllHoldSlots, HoldsSlot, Submitting
  <2>5. NoSharedSlot'
    BY <2>2, <2>3 DEF LogInv, NoSharedSlot, Submitting
  <2> QED
    BY <2>4, <2>5 DEF LogInv
<1>6. CASE RemoteUpdate
  BY <1>6, Unmoved DEF RemoteUpdate, Submitting, lib, log, link
<1> QED
  BY <1>1, <1>2, <1>3, <1>4, <1>5, <1>6 DEF Environment

(* Every step of the library as the repository uses it keeps it.           *)
LEMMA LogInvStep == TypeOK /\ LogInv /\ [Next]_vars => LogInv'
<1> SUFFICES ASSUME TypeOK, LogInv, [Next]_vars PROVE LogInv'
  OBVIOUS
<1>1. ASSUME NEW k, NEW r \in Addr, rdcu_sync(k, r) PROVE LogInv'
  <2>1. CASE Prepare(k, r, 1)
    BY <1>1, <2>1, PrepareLogInv DEF rdcu_sync, Submitting
  <2>2. CASE Return(-1) /\ UNCHANGED log
    BY <1>1, <2>2, Unmoved DEF rdcu_sync, Return, Submitting, log, link
  <2> QED
    BY <1>1, <2>1, <2>2 DEF rdcu_sync
<1>2. CASE Application
  <2>1. RdRegs \subseteq Addr /\ WrRegs \subseteq Addr
    BY MemAssumption DEF Addr
  <2>2. ASSUME NEW k, NEW a, NEW n, rdcu_sync_data(k, a, n) PROVE LogInv'
    BY <2>2, Unmoved DEF rdcu_sync_data, Submitting, log, link
  <2>3. CASE rdcu_rmap_sync_status
    BY <2>3, Unmoved DEF rdcu_rmap_sync_status, Submitting, log, link
  <2>4. ASSUME NEW a, NEW v, SetMirror(a, v) PROVE LogInv'
    BY <2>4, Unmoved DEF SetMirror, Submitting, lib, log, link
  <2> QED
    BY <1>1, <1>2, <2>1, <2>2, <2>3, <2>4 DEF Application
<1>3. CASE SyncDataGrab
  <2>1. CASE Prepare(cmd.kind, cmd.addr, cmd.len)
    <3>1. cmd.addr \in Addr
      BY DEF TypeOK, Command
    <3> QED
      BY <1>3, <2>1, <3>1, PrepareLogInv DEF SyncDataGrab, Submitting
  <2>2. CASE Return(1) /\ UNCHANGED log
    BY <1>3, <2>2, Unmoved DEF SyncDataGrab, Return, Submitting, log, link
  <2> QED
    BY <1>3, <2>1, <2>2 DEF SyncDataGrab
<1>4. CASE SyncStatusReturn
  BY <1>4, Unmoved DEF SyncStatusReturn, Return, Submitting, log, link
<1>5. CASE UNCHANGED vars
  BY <1>5, Unmoved DEF vars, lib, log, link, Submitting
<1> QED
  BY <1>2, <1>3, <1>4, <1>5, RxLogInv, SubmitLogInv, EnvironmentLogInv
  DEF Next, LibStep

(* Without the log reset the types hold as well.                           *)
LEMMA SpecTypeOK == Spec => []TypeOK
<1>1. TypeOK /\ [Next]_vars => TypeOK'
  BY TypeStep DEF AnyStep
<1> QED
  BY <1>1, TypeInit, PTL DEF Spec

(* Without log resets every transaction on the link holds its own slot,    *)
(* whatever is lost, damaged, refused or not even sent.                    *)
THEOREM LogInvCorrect == Spec => []LogInv
<1> QED
  BY LogInvInit, LogInvStep, SpecTypeOK, PTL DEF Spec

(* A reply that arrives is looked up under the address its command was     *)
(* issued for: rdcu_process_rx never stores data at a foreign address and  *)
(* never drops a good reply as unknown.                                    *)
THEOREM ReplyCorrect == Spec => []ReplyIsExpected
<1>1. LogInv => ReplyIsExpected
  BY DEF LogInv, AllHoldSlots, HoldsSlot, ReplyIsExpected, trans_log_get_addr
<1> QED
  BY <1>1, LogInvCorrect, PTL
-----------------------------------------------------------------------------
(* No slot leaks on a link that loses nothing.                             *)

(* The inductive invariant behind NoSlotLeak: every packet on the link can *)
(* be told from garbage, so that rdcu_process_rx ends its transaction.     *)
LeakInv ==
  /\ NoSlotLeak
  /\ \A i \in 1 .. Len(replies) : replies[i].form # "garbled"

(* A transaction is on the link if a command, a reply or the call in       *)
(* progress has its id.                                                    *)
LEMMA InFlightMeans ==
  ASSUME NEW s
  PROVE  s \in InFlight <=>
           \/ \E i \in 1 .. Len(cmds) : cmds[i].tid = s
           \/ \E i \in 1 .. Len(replies) : replies[i].tid = s
           \/ Submitting /\ cmd.tid = s
BY DEF InFlight

(* The call that holds a slot finds a transmit descriptor: the commands on *)
(* the link hold other slots, and there are as many descriptors as slots.  *)
LEMMA RoomToSend ==
  ASSUME TypeOK, LogInv, Submitting
  PROVE  Len(cmds) < TxDescriptors
<1> SUFFICES ASSUME Len(cmds) >= TRANS_LOG_SIZE PROVE FALSE
  BY LenProperties, DescAssumption, LogAssumption DEF TypeOK
<1> DEFINE T == Slots \ {cmd.tid}
           f == [i \in 1 .. Len(cmds) |-> cmds[i].tid]
<1>1. Len(cmds) \in Nat /\ cmd.tid \in Slots
  BY LenProperties DEF TypeOK, Command
<1>2. IsFiniteSet(1 .. Len(cmds)) /\ Cardinality(1 .. Len(cmds)) = Len(cmds)
  BY SMTT(30), <1>1, FS_Interval
<1>3. IsFiniteSet(Slots) /\ Cardinality(Slots) = TRANS_LOG_SIZE
  BY LogAssumption, FS_Interval DEF Slots
<1>4. IsFiniteSet(T) /\ Cardinality(T) = TRANS_LOG_SIZE - 1
  BY <1>1, <1>3, FS_RemoveElement
<1>5. f \in [1 .. Len(cmds) -> T]
  <2>1. \A i \in 1 .. Len(cmds) : cmds[i] \in Command
    BY ElementOfSeq DEF TypeOK
  <2>2. \A i \in 1 .. Len(cmds) : cmds[i].tid \in T
    BY <2>1 DEF LogInv, NoSharedSlot, Command
  <2> QED
    BY <2>2
<1>6. Cardinality(T) < Cardinality(1 .. Len(cmds))
  BY <1>1, <1>2, <1>4, LogAssumption
<1> HIDE DEF T, f
<1>7. \E i, j \in 1 .. Len(cmds) : i # j /\ f[i] = f[j]
  BY <1>2, <1>4, <1>5, <1>6, FS_PigeonHole
<1> QED
  BY <1>7 DEF f, LogInv, NoSharedSlot

(* A step that moves no packet and keeps the call's hold on its slot.      *)
LEMMA LeakUnmoved ==
  ASSUME LeakInv, UNCHANGED <<in_use, cmds, replies>>,
         Submitting => Submitting' /\ cmd' = cmd
  PROVE  LeakInv'
BY DEF LeakInv, NoSlotLeak, InFlight

(* The slot that is taken belongs to the call in progress.                 *)
LEMMA PrepareLeakInv ==
  ASSUME TypeOK, LeakInv, ~Submitting, "create" \notin Faults,
         NEW k, NEW a, NEW n, Prepare(k, a, n), UNCHANGED link
  PROVE  LeakInv'
<1>1. PICK s \in Slots :
        /\ trans_log_grab_slot(s, a)
        /\ cmd' = [kind |-> k, tid |-> s, addr |-> a, len |-> n, data |-> <<>>]
        /\ call' = "rx_submit"
  BY DEF Prepare
<1>2. Submitting' /\ cmd'.tid = s
  BY <1>1 DEF Submitting
<1>3. \A t \in Slots : in_use'[t] => in_use[t] \/ t = s
  BY <1>1 DEF trans_log_grab_slot, TypeOK
<1>4. UNCHANGED <<cmds, replies>>
  BY DEF link
<1> QED
  BY <1>2, <1>3, <1>4 DEF LeakInv, NoSlotLeak, InFlight

(* The reply that is taken is the only packet of the slot it releases.     *)
LEMMA ReplyTakenLeakInv ==
  ASSUME TypeOK, LogInv, LeakInv, replies # <<>>, replies' = Tail(replies),
         in_use' = [in_use EXCEPT ![Head(replies).tid] = FALSE],
         UNCHANGED <<cmds, cmd>>, Submitting => Submitting'
  PROVE  LeakInv'
<1>1. /\ Len(replies) \in Nat \ {0}
      /\ Len(replies') = Len(replies) - 1
      /\ Head(replies) = replies[1]
      /\ \A i \in 1 .. Len(replies') : replies'[i] = replies[i + 1]
  BY HeadAndTail DEF TypeOK
<1>2. /\ \A i \in 1 .. Len(replies') :
           i + 1 \in 1 .. Len(replies) /\ replies'[i] = replies[i + 1]
      /\ \A i \in 1 .. Len(replies) :
           i = 1 \/ (i - 1 \in 1 .. Len(replies') /\ replies'[i - 1] = replies[i])
  BY <1>1
<1>3. \A s \in Slots : in_use'[s] => in_use[s] /\ s # replies[1].tid
  BY <1>1 DEF TypeOK
<1>4. ASSUME NEW s \in Slots, in_use'[s]
      PROVE  \/ \E i \in 1 .. Len(cmds') : cmds'[i].tid = s
             \/ \E i \in 1 .. Len(replies') : replies'[i].tid = s
             \/ Submitting' /\ cmd'.tid = s
  <2>1. in_use[s] /\ s # replies[1].tid
    BY <1>3, <1>4
  <2>2. \/ \E i \in 1 .. Len(cmds) : cmds[i].tid = s
        \/ \E i \in 1 .. Len(replies) : replies[i].tid = s
        \/ Submitting /\ cmd.tid = s
    BY <2>1, InFlightMeans DEF LeakInv, NoSlotLeak
  <2>3. ASSUME NEW i \in 1 .. Len(replies), replies[i].tid = s
        PROVE  \E j \in 1 .. Len(replies') : replies'[j].tid = s
    BY <1>2, <2>1, <2>3
  <2> QED
    BY <2>2, <2>3
<1> QED
  BY <1>2, <1>4 DEF LeakInv, NoSlotLeak, InFlight

(* The command of the call goes on the link and keeps its slot there.      *)
LEMMA SubmitLeakInv ==
  ASSUME TypeOK, LogInv, LeakInv, "tx" \notin Faults, rdcu_submit_tx
  PROVE  LeakInv'
<1> DEFINE c == [cmd EXCEPT !.data = IF cmd.kind = "write"
                   THEN WordsAt(mirror, cmd.addr, cmd.len) ELSE <<>>]
<1>1. Submitting
  BY DEF rdcu_submit_tx, Submitting
<1>2. Len(cmds) < TxDescriptors /\ Len(cmds) \in Nat
  BY <1>1, RoomToSend, LenProperties DEF TypeOK
<1>3. /\ cmds' = Append(cmds, c)
      /\ UNCHANGED <<in_use, replies>>
  BY <1>2, DescAssumption DEF rdcu_submit_tx, log
<1>4. c.tid = cmd.tid
  BY DEF TypeOK, Command
<1>5. /\ Len(cmds') = Len(cmds) + 1
      /\ cmds'[Len(cmds) + 1] = c
      /\ \A i \in 1 .. Len(cmds) : cmds'[i] = cmds[i]
  BY <1>3, AppendProperties, LenProperties DEF TypeOK
<1> HIDE DEF c
<1>6. /\ \E i \in 1 .. Len(cmds') : cmds'[i].tid = cmd.tid
      /\ \A i \in 1 .. Len(cmds) : i \in 1 .. Len(cmds') /\ cmds'[i] = cmds[i]
  <2>1. Len(cmds) + 1 \in 1 .. Len(cmds')
    BY <1>2, <1>5
  <2>2. \A i \in 1 .. Len(cmds) : i \in 1 .. Len(cmds')
    BY <1>2, <1>5
  <2> QED
    BY <1>4, <1>5, <2>1, <2>2
<1> QED
  BY <1>3, <1>6 DEF LeakInv, NoSlotLeak, InFlight

(* The oldest command is answered with a packet the driver understands.    *)
LEMMA CommandAnsweredLeakInv ==
  ASSUME TypeOK, LeakInv, cmds # <<>>, cmds' = Tail(cmds),
         NEW f, NEW d, f # "garbled",
         replies' = Append(replies, Answer(Head(cmds), f, d)),
         UNCHANGED <<in_use, call, cmd>>
  PROVE  LeakInv'
<1> DEFINE r == Answer(Head(cmds), f, d)
<1>1. /\ Len(cmds) \in Nat \ {0}
      /\ Len(cmds') = Len(cmds) - 1
      /\ Head(cmds) = cmds[1]
      /\ \A i \in 1 .. Len(cmds') : cmds'[i] = cmds[i + 1]
  BY HeadAndTail DEF TypeOK
<1>2. \A i \in 1 .. Len(cmds) :
        i = 1 \/ (i - 1 \in 1 .. Len(cmds') /\ cmds'[i - 1] = cmds[i])
  BY <1>1
<1>3. r.tid = cmds[1].tid /\ r.form # "garbled"
  BY <1>1 DEF Answer
<1>4. /\ Len(replies) \in Nat
      /\ Len(replies') = Len(replies) + 1
      /\ replies'[Len(replies) + 1] = r
      /\ \A i \in 1 .. Len(replies) : replies'[i] = replies[i]
  BY AppendProperties, LenProperties DEF TypeOK
<1> HIDE DEF r
<1>5. /\ \A i \in 1 .. Len(replies) :
           i \in 1 .. Len(replies') /\ replies'[i] = replies[i]
      /\ \E i \in 1 .. Len(replies') : replies'[i].tid = cmds[1].tid
      /\ \A i \in 1 .. Len(replies') : replies'[i].form # "garbled"
  BY <1>3, <1>4 DEF LeakInv
<1>6. ASSUME NEW s \in Slots, in_use'[s]
      PROVE  \/ \E i \in 1 .. Len(cmds') : cmds'[i].tid = s
             \/ \E i \in 1 .. Len(replies') : replies'[i].tid = s
             \/ Submitting' /\ cmd'.tid = s
  <2>1. \/ \E i \in 1 .. Len(cmds) : cmds[i].tid = s
        \/ \E i \in 1 .. Len(replies) : replies[i].tid = s
        \/ Submitting /\ cmd.tid = s
    BY <1>6, InFlightMeans DEF LeakInv, NoSlotLeak
  <2> QED
    BY <1>2, <1>5, <2>1 DEF Submitting
<1> QED
  BY <1>5, <1>6 DEF LeakInv, NoSlotLeak, InFlight

(* The rx loop skips no packet: each one ends its transaction.             *)
LEMMA RxLeakInv ==
  ASSUME TypeOK, LogInv, LeakInv, rdcu_process_rx
  PROVE  LeakInv'
<1>0. call \in RxLoop => (call' = AfterRx => (Submitting => Submitting'))
  BY DEF AfterRx, RxLoop, Submitting
<1>1. replies # <<>> => Usable(Head(replies))
  <2> SUFFICES ASSUME replies # <<>> PROVE Usable(Head(replies))
    OBVIOUS
  <2>1. /\ Head(replies) = replies[1] /\ 1 \in 1 .. Len(replies)
        /\ replies[1] \in Reply
    BY HeadAndTail DEF TypeOK
  <2>2. replies[1].addr # NULL
    BY <2>1, NullAssumption DEF Reply
  <2> QED
    BY <2>1, <2>2 DEF LeakInv, LogInv, AllHoldSlots, HoldsSlot, Usable,
      trans_log_get_addr
<1>2. CASE RxDropTransaction
  BY <1>0, <1>2, ReplyTakenLeakInv DEF RxDropTransaction, trans_log_release_slot
<1>3. CASE RxAccept
  BY <1>3, ReplyTakenLeakInv DEF RxAccept, trans_log_release_slot, Submitting
<1>4. CASE RxEmpty \/ RxAllocFail
  BY <1>0, <1>4, LeakUnmoved DEF RxEmpty, RxAllocFail, log, link
<1> QED
  BY <1>1, <1>2, <1>3, <1>4 DEF rdcu_process_rx, RxSkip

(* Damaged data does not make a packet garbage.                            *)
LEMMA DamageLeakInv ==
  ASSUME TypeOK, LeakInv, "garble" \notin Faults, DamageReply
  PROVE  LeakInv'
<1>1. PICK i \in 1 .. Len(replies), f \in Form :
        replies' = [replies EXCEPT ![i].form = f] /\ f # "garbled"
  BY DEF DamageReply
<1>2. /\ Len(replies') = Len(replies)
      /\ \A j \in 1 .. Len(replies) :
           replies'[j].tid = replies[j].tid /\ replies'[j].form # "garbled"
  <2>1. /\ \A j \in 1 .. Len(replies) : replies[j] \in Reply
        /\ DOMAIN replies = 1 .. Len(replies)
    BY ElementOfSeq, LenProperties DEF TypeOK
  <2>2. Len(replies') = Len(replies)
    BY <1>1, LenProperties DEF TypeOK
  <2>3. ASSUME NEW j \in 1 .. Len(replies)
        PROVE  replies'[j].tid = replies[j].tid /\ replies'[j].form # "garbled"
    <3>1. replies'[j] = IF j = i THEN [replies[j] EXCEPT !.form = f]
                                 ELSE replies[j]
      BY <1>1, <2>1
    <3> QED
      BY <1>1, <2>1, <3>1 DEF Reply, LeakInv
  <2> QED
    BY <2>2, <2>3
<1>3. UNCHANGED <<in_use, cmds, call, cmd>>
  BY DEF DamageReply, lib, log
<1> QED
  BY <1>2, <1>3 DEF LeakInv, NoSlotLeak, InFlight, Submitting

(* Every step keeps the transactions in the log on the link.               *)
LEMMA LeakInvStep ==
  ASSUME Faults \cap LeakFaults = {}
  PROVE  TypeOK /\ LogInv /\ LeakInv /\ [Next]_vars => LeakInv'
<1> SUFFICES ASSUME TypeOK, LogInv, LeakInv, [Next]_vars PROVE LeakInv'
  OBVIOUS
<1>0. {"create", "tx", "lose_cmd", "lose_reply", "garble"} \cap Faults = {}
  BY DEF LeakFaults
<1>1. ASSUME NEW k, NEW r, rdcu_sync(k, r) PROVE LeakInv'
  BY <1>0, <1>1, PrepareLeakInv, LeakUnmoved
     DEF rdcu_sync, Return, Submitting, log, link
<1>2. CASE Application
  <2>1. ASSUME NEW k, NEW a, NEW n, rdcu_sync_data(k, a, n) PROVE LeakInv'
    BY <2>1, LeakUnmoved DEF rdcu_sync_data, Submitting, log, link
  <2>2. CASE rdcu_rmap_sync_status
    BY <2>2, LeakUnmoved DEF rdcu_rmap_sync_status, Submitting, log, link
  <2>3. ASSUME NEW a, NEW v, SetMirror(a, v) PROVE LeakInv'
    BY <2>3, LeakUnmoved DEF SetMirror, Submitting, lib, log, link
  <2> QED
    BY <1>1, <1>2, <2>1, <2>2, <2>3 DEF Application
<1>3. CASE SyncDataGrab
  BY <1>0, <1>3, PrepareLeakInv, LeakUnmoved
     DEF SyncDataGrab, Return, Submitting, log, link
<1>4. CASE SyncStatusReturn
  BY <1>4, LeakUnmoved DEF SyncStatusReturn, Return, Submitting, log, link
<1>5. CASE Environment
  <2>1. CASE TargetExecute
    BY <2>1, CommandAnsweredLeakInv DEF TargetExecute, lib, log
  <2>2. CASE TargetReject
    BY <2>2, CommandAnsweredLeakInv DEF TargetReject, lib, log
  <2>3. CASE DamageReply
    BY <1>0, <2>3, DamageLeakInv
  <2>4. CASE RemoteUpdate
    BY <2>4, LeakUnmoved DEF RemoteUpdate, Submitting, lib, log, link
  <2> QED
    BY <1>0, <1>5, <2>1, <2>2, <2>3, <2>4
       DEF Environment, LoseCommand, LoseReply
<1>6. CASE UNCHANGED vars
  BY <1>6, LeakUnmoved DEF vars, lib, log, link, Submitting
<1>7. CASE rdcu_submit_tx
  BY <1>0, <1>7, SubmitLeakInv
<1> QED
  BY <1>2, <1>3, <1>4, <1>5, <1>6, <1>7, RxLeakInv DEF Next, LibStep

(* Unless packets are lost, garbled or never sent, every slot in use       *)
(* belongs to a transaction on the link: refusals, damaged data, a full    *)
(* log and failing allocations in rdcu_process_rx leak none, and rmap_tx   *)
(* never runs out of descriptors (rdcu_rmap.c).                            *)
THEOREM NoLeakWithoutLoss ==
  ASSUME Faults \cap LeakFaults = {}
  PROVE  Spec => []NoSlotLeak
<1>1. Init => LeakInv
  <2> SUFFICES ASSUME Init PROVE LeakInv
    OBVIOUS
  <2>1. Len(replies) = 0 /\ \A s \in Slots : ~in_use[s]
    BY EmptySeq DEF Init
  <2> QED
    BY <2>1 DEF LeakInv, NoSlotLeak
<1>2. TypeOK /\ LogInv /\ LeakInv /\ [Next]_vars => LeakInv'
  BY LeakInvStep
<1>3. LeakInv => NoSlotLeak
  BY DEF LeakInv
<1> QED
  BY <1>1, <1>2, <1>3, SpecTypeOK, LogInvCorrect, PTL DEF Spec
-----------------------------------------------------------------------------
(* A slot whose transaction is no longer on the link stays in use.         *)
LEMMA LeakStays ==
  ASSUME TypeOK, LogInv, Next, NoSlotLeak'
  PROVE  NoSlotLeak
<1> SUFFICES ASSUME NEW s \in Slots, in_use[s], s \notin InFlight
             PROVE  in_use'[s] /\ s \notin InFlight'
  BY DEF NoSlotLeak
<1>1. /\ \A i \in 1 .. Len(cmds) : cmds[i].tid # s
      /\ \A i \in 1 .. Len(replies) : replies[i].tid # s
      /\ Submitting => cmd.tid # s
  BY InFlightMeans
<1>2. ASSUME in_use'[s],
             \A i \in 1 .. Len(cmds') : cmds'[i].tid # s,
             \A i \in 1 .. Len(replies') : replies'[i].tid # s,
             Submitting' => cmd'.tid # s
      PROVE  in_use'[s] /\ s \notin InFlight'
  BY <1>2 DEF InFlight
<1>3. ASSUME UNCHANGED <<in_use, cmds, replies>>,
             Submitting' => Submitting /\ cmd' = cmd
      PROVE  in_use'[s] /\ s \notin InFlight'
  BY <1>1, <1>2, <1>3
<1>4. ASSUME NEW k, NEW a, NEW n, Prepare(k, a, n), UNCHANGED link
      PROVE  in_use'[s] /\ s \notin InFlight'
  <2>1. PICK t \in Slots :
          /\ trans_log_grab_slot(t, a)
          /\ \/ /\ cmd' = [kind |-> k, tid |-> t, addr |-> a, len |-> n,
                           data |-> <<>>]
                /\ call' = "rx_submit"
             \/ call' = "none"
    BY <1>4 DEF Prepare, Return
  <2>2. t # s /\ in_use'[s]
    BY <2>1 DEF trans_log_grab_slot, FreeSlots, TypeOK
  <2>3. Submitting' => cmd'.tid = t
    BY <2>1 DEF Submitting
  <2>4. UNCHANGED <<cmds, replies>>
    BY <1>4 DEF link
  <2> QED
    BY <1>1, <1>2, <2>2, <2>3, <2>4
<1>5. ASSUME replies # <<>>, replies' = Tail(replies), UNCHANGED <<cmds, cmd>>,
             Submitting' => Submitting,
             \/ UNCHANGED in_use
             \/ in_use' = [in_use EXCEPT ![Head(replies).tid] = FALSE]
      PROVE  in_use'[s] /\ s \notin InFlight'
  <2>1. /\ Head(replies) = replies[1] /\ 1 \in 1 .. Len(replies)
        /\ \A i \in 1 .. Len(replies') :
             i + 1 \in 1 .. Len(replies) /\ replies'[i] = replies[i + 1]
    BY <1>5, HeadAndTail DEF TypeOK
  <2>2. in_use'[s]
    BY <1>1, <1>5, <2>1 DEF TypeOK
  <2> QED
    BY <1>1, <1>2, <1>5, <2>1, <2>2
<1>6. CASE rdcu_submit_tx
  <2> DEFINE c == [cmd EXCEPT !.data = IF cmd.kind = "write"
                     THEN WordsAt(mirror, cmd.addr, cmd.len) ELSE <<>>]
  <2>1. UNCHANGED <<in_use, replies>> /\ ~Submitting' /\ Submitting
    BY <1>6 DEF rdcu_submit_tx, Return, Submitting, log
  <2>2. c.tid = cmd.tid
    BY DEF TypeOK, Command
  <2>3. ASSUME NEW i \in 1 .. Len(cmds') PROVE cmds'[i].tid # s
    <3>1. CASE cmds' = cmds
      BY <1>1, <2>3, <3>1
    <3>2. CASE cmds' = Append(cmds, c)
      <4>1. (i \in 1 .. Len(cmds) /\ cmds'[i] = cmds[i]) \/ cmds'[i] = c
        BY <3>2, AppendProperties, LenProperties DEF TypeOK
      <4> QED
        BY <1>1, <2>1, <2>2, <4>1
    <3> QED
      BY <1>6, <3>1, <3>2 DEF rdcu_submit_tx
  <2> QED
    BY <1>1, <1>2, <2>1, <2>3
<1>7. ASSUME cmds # <<>>, cmds' = Tail(cmds), UNCHANGED <<in_use, call, cmd>>,
             NEW f, NEW d,
             \/ UNCHANGED replies
             \/ replies' = Append(replies, Answer(Head(cmds), f, d))
      PROVE  in_use'[s] /\ s \notin InFlight'
  <2>1. /\ Head(cmds) = cmds[1] /\ 1 \in 1 .. Len(cmds)
        /\ \A i \in 1 .. Len(cmds') :
             i + 1 \in 1 .. Len(cmds) /\ cmds'[i] = cmds[i + 1]
    BY <1>7, HeadAndTail DEF TypeOK
  <2>2. \A i \in 1 .. Len(replies') :
          \/ i \in 1 .. Len(replies) /\ replies'[i] = replies[i]
          \/ replies'[i] = Answer(Head(cmds), f, d)
    BY <1>7, AppendProperties, LenProperties DEF TypeOK
  <2>3. Answer(Head(cmds), f, d).tid # s
    BY <1>1, <2>1 DEF Answer
  <2> QED
    BY <1>1, <1>2, <1>7, <2>1, <2>2, <2>3 DEF Submitting
<1>8. CASE Application
  BY <1>3, <1>4, <1>8 DEF Application, rdcu_sync, Return, rdcu_sync_data,
    rdcu_rmap_sync_status, SetMirror, Submitting, lib, log, link
<1>9. CASE rdcu_process_rx
  <2>1. call \in RxLoop => (call' = AfterRx => (Submitting' => Submitting))
    BY DEF AfterRx, RxLoop, Submitting
  <2>2. CASE RxSkip
    BY <1>5, <2>2 DEF RxSkip, Submitting, lib, log
  <2>3. CASE RxDropTransaction
    BY <1>5, <2>1, <2>3 DEF RxDropTransaction, trans_log_release_slot
  <2>4. CASE RxAccept
    BY <1>5, <2>4 DEF RxAccept, trans_log_release_slot, Submitting
  <2>5. CASE RxEmpty \/ RxAllocFail
    BY <1>3, <2>1, <2>5 DEF RxEmpty, RxAllocFail, log, link
  <2> QED
    BY <1>9, <2>2, <2>3, <2>4, <2>5 DEF rdcu_process_rx
<1>10. CASE SyncDataGrab \/ SyncStatusReturn
  BY <1>3, <1>4, <1>10
     DEF SyncDataGrab, SyncStatusReturn, Return, Submitting, log, link
<1>11. CASE Environment
  <2>1. CASE TargetExecute
    BY <1>7, <2>1 DEF TargetExecute, lib, log
  <2>2. CASE TargetReject \/ LoseCommand
    BY <1>7, <2>2 DEF TargetReject, LoseCommand, lib, log
  <2>3. CASE LoseReply
    BY <1>5, <2>3 DEF LoseReply, Submitting, lib, log
  <2>4. CASE DamageReply
    <3>1. PICK i \in 1 .. Len(replies), f \in Form :
            replies' = [replies EXCEPT ![i].form = f]
      BY <2>4 DEF DamageReply
    <3>2. /\ \A j \in 1 .. Len(replies) : replies[j] \in Reply
          /\ DOMAIN replies = 1 .. Len(replies)
          /\ Len(replies') = Len(replies)
      BY <3>1, ElementOfSeq, LenProperties DEF TypeOK
    <3>3. ASSUME NEW j \in 1 .. Len(replies)
          PROVE  replies'[j].tid = replies[j].tid
      <4>1. replies'[j] = IF j = i THEN [replies[j] EXCEPT !.form = f]
                                   ELSE replies[j]
        BY <3>1, <3>2
      <4> QED
        BY <3>2, <4>1 DEF Reply
    <3> QED
      BY <1>1, <1>2, <2>4, <3>2, <3>3 DEF DamageReply, Submitting, lib, log
  <2>5. CASE RemoteUpdate
    BY <1>3, <2>5 DEF RemoteUpdate, Submitting, lib, log, link
  <2> QED
    BY <1>11, <2>1, <2>2, <2>3, <2>4, <2>5 DEF Environment
<1> QED
  BY <1>6, <1>8, <1>9, <1>10, <1>11 DEF Next, LibStep

(* A packet that is lost or skipped leaves its slot in use.                *)
LEMMA LossLeaks ==
  ASSUME TypeOK, LogInv, LoseCommand \/ LoseReply \/ RxSkip
  PROVE  ~NoSlotLeak'
<1>1. UNCHANGED <<in_use, call, cmd>> /\ Submitting' = Submitting
  BY DEF LoseCommand, LoseReply, RxSkip, lib, log, Submitting
<1>2. CASE LoseCommand
  <2>1. /\ cmds[1] \in Command /\ 1 \in 1 .. Len(cmds)
        /\ \A i \in 1 .. Len(cmds') : /\ i + 1 \in 1 .. Len(cmds) /\ i + 1 # 1
                                      /\ cmds'[i] = cmds[i + 1]
    BY <1>2, HeadAndTail DEF TypeOK, LoseCommand
  <2>2. /\ \A i \in 1 .. Len(cmds') : cmds'[i].tid # cmds[1].tid
        /\ \A i \in 1 .. Len(replies') : replies'[i].tid # cmds[1].tid
        /\ Submitting' => cmd'.tid # cmds[1].tid
    BY <1>1, <1>2, <2>1 DEF LogInv, NoSharedSlot, LoseCommand
  <2>3. in_use'[cmds[1].tid] /\ cmds[1].tid \in Slots
    BY <1>1, <2>1 DEF LogInv, AllHoldSlots, HoldsSlot, Command
  <2> QED
    BY <2>2, <2>3 DEF NoSlotLeak, InFlight
<1>3. CASE LoseReply \/ RxSkip
  <2>1. /\ replies[1] \in Reply /\ 1 \in 1 .. Len(replies)
        /\ \A i \in 1 .. Len(replies') : /\ i + 1 \in 1 .. Len(replies) /\ i + 1 # 1
                                         /\ replies'[i] = replies[i + 1]
    <3>1. replies # <<>> /\ replies' = Tail(replies)
      BY <1>3 DEF LoseReply, RxSkip
    <3> QED
      BY <3>1, HeadAndTail DEF TypeOK
  <2>2. /\ \A i \in 1 .. Len(replies') : replies'[i].tid # replies[1].tid
        /\ \A i \in 1 .. Len(cmds') : cmds'[i].tid # replies[1].tid
        /\ Submitting' => cmd'.tid # replies[1].tid
    <3>1. cmds' = cmds
      BY <1>3 DEF LoseReply, RxSkip
    <3> QED
      BY <1>1, <2>1, <3>1 DEF LogInv, NoSharedSlot
  <2>3. in_use'[replies[1].tid] /\ replies[1].tid \in Slots
    BY <1>1, <2>1 DEF LogInv, AllHoldSlots, HoldsSlot, Reply
  <2> QED
    BY <2>2, <2>3 DEF NoSlotLeak, InFlight
<1> QED
  BY <1>2, <1>3

(* Every element of a tail or of a longer queue is an element of the queue *)
(* or the new one.                                                         *)
LEMMA QueueElements ==
  ASSUME NEW S, NEW q \in Seq(S)
  PROVE  /\ Len(q) \in Nat
         /\ q # <<>> =>
              /\ 1 \in 1 .. Len(q) /\ Head(q) = q[1] /\ q[1] \in S
              /\ Len(Tail(q)) = Len(q) - 1
              /\ \A i \in 1 .. Len(Tail(q)) :
                   i + 1 \in 1 .. Len(q) /\ Tail(q)[i] = q[i + 1]
         /\ \A e \in S :
              /\ Len(Append(q, e)) = Len(q) + 1
              /\ Append(q, e)[Len(q) + 1] = e
              /\ \A i \in 1 .. Len(q) : Append(q, e)[i] = q[i]
<1>1. q # <<>> =>
        /\ Len(q) \in Nat \ {0} /\ Head(q) = q[1] /\ Head(q) \in S
        /\ Len(Tail(q)) = Len(q) - 1
        /\ \A i \in 1 .. Len(Tail(q)) : Tail(q)[i] = q[i + 1]
  BY HeadAndTail
<1>2. \A e \in S :
        /\ Len(Append(q, e)) = Len(q) + 1
        /\ Append(q, e)[Len(q) + 1] = e
        /\ \A i \in 1 .. Len(q) : Append(q, e)[i] = q[i]
  BY Appended
<1>3. Len(q) \in Nat
  BY LenProperties
<1> QED
  BY <1>1, <1>2, <1>3

(* Words read from a memory are as many as were asked for.                 *)
LEMMA WordsCount ==
  ASSUME NEW m, NEW a, NEW n \in Nat
  PROVE  Len(WordsAt(m, a, n)) = n
BY DEF WordsAt

(* When no slot is in use nothing is on the link.                          *)
LEMMA QuietLink ==
  ASSUME TypeOK, PendingCountsSlots, LogInv, pending = 0
  PROVE  /\ NoSlotLeak
         /\ cmds = <<>> /\ Len(cmds) = 0
         /\ replies = <<>> /\ Len(replies) = 0
<1>1. \A s \in Slots : ~in_use[s]
  <2>1. IsFiniteSet(Slots)
    BY FS_Interval, LogAssumption DEF Slots
  <2>2. IsFiniteSet({s \in Slots : in_use[s]})
    BY <2>1, FS_Subset
  <2>3. {s \in Slots : in_use[s]} = {}
    BY <2>2, FS_EmptySet DEF PendingCountsSlots
  <2> QED
    BY <2>3
<1>2. Len(cmds) \in Nat /\ Len(replies) \in Nat
  BY LenProperties DEF TypeOK
<1>3. \A i \in 1 .. Len(cmds) : FALSE
  <2>1. \A i \in 1 .. Len(cmds) : cmds[i].tid \in Slots
    BY ElementOfSeq DEF TypeOK, Command
  <2> QED
    BY <1>1, <2>1 DEF LogInv, AllHoldSlots, HoldsSlot
<1>4. \A i \in 1 .. Len(replies) : FALSE
  <2>0. \A i \in 1 .. Len(replies) : replies[i] \in Reply
    BY ElementOfSeq DEF TypeOK
  <2>1. \A i \in 1 .. Len(replies) : replies[i].tid \in Slots
    BY <2>0 DEF Reply
  <2> QED
    BY <1>1, <2>1 DEF LogInv, AllHoldSlots, HoldsSlot
<1>5. Len(cmds) = 0 /\ Len(replies) = 0
  BY <1>2, <1>3, <1>4
<1>6. cmds = <<>> /\ replies = <<>>
  BY <1>5, EmptySeq DEF TypeOK
<1> QED
  BY <1>1, <1>5, <1>6 DEF NoSlotLeak
=============================================================================
