-------------------------- MODULE CmpPromptProofs --------------------------
(***************************************************************************)
(* The control of the hardware compressor (CmpRdcu), second part: on a     *)
(* prompt link that loses nothing, the compressor runs with what the call  *)
(* configured, is not driven into its deadlock, and what the application   *)
(* reads at the end is the result of its own call, for every number of     *)
(* registers, every log and every set of configurations.                   *)
(***************************************************************************)
EXTENDS CmpRdcuProofs

(* What is on the link, in the memories and in the compressor.             *)
UsesModel   == model_mode_is_used(rcfg.regs[1])
Active      == fpga.state = "active"
Idle        == fpga.state = "idle"
Quiet       == cmds = <<>> /\ replies = <<>>
Configured  == \A i \in 1 .. N : remote[ConfigRegs[i]] = rcfg.regs[i]
DataThere   == remote[DataWord] = input.data
ModelThere  == UsesModel => remote[ModelWord] = input.model
Placed      == Configured /\ DataThere /\ ModelThere
Finished    == /\ Idle /\ remote[STATUS] = READY
               /\ remote[CmpWord] = Output(rcfg.regs[1], input.data, input.model)
               /\ UsesModel => remote[NewWord] = Updated(input.data, input.model)
               /\ \A i \in 1 .. InfoCount : remote[InfoRegs[i]] = rcfg.regs[i]
Started     == (Active /\ Placed /\ remote[STATUS] # READY) \/ Finished
Ready       == Idle /\ ~fpga.after_raw /\ Placed
HasData(w)  == \E r \in Replies : r.addr = w /\ r.data # <<>>
Reading(w)  == \E c \in Cmds : c.kind = "read" /\ c.addr = w
Writing(w)  == \E c \in Cmds : c.kind = "write" /\ c.addr = w
Fresh(w)    == mirror[w] = remote[w]
Coming(w)   == Fresh(w) \/ HasData(w) \/ Reading(w)
Arriving(w) == Fresh(w) \/ Writing(w)
HasInt      == \E c \in Cmds : c.addr = CTRL /\ HasBit(c.data[1], INTERRUPT)
NoControl   == \A c \in Cmds : c.addr # CTRL
Up(b)       == HasBit(mirror[CTRL], b)

(* The word of the operation next has been handed to the link.             *)
XferSent ==
  \/ xfer.at = "sync" /\ call = "none" /\ ret = 0
  \/ xfer.at \in {"wait", "polled"} /\ xfer.sub = 0
  \/ xfer.at = "loop" /\ xfer.done = 4
  \/ xfer.at = "idle" /\ xfer.ret = 0
Gone ==
  busy /\ \/ next.op \in Kind /\ call = "none" /\ ret = 0
          \/ next.op \in {"send", "fetch"} /\ XferSent

(* The control register is on its way, or about to be written; the updated *)
(* model is read.                                                          *)
StartGoes == prog = "compress" /\ (left = 2 \/ (left = 3 /\ Gone))
IntGoes   == prog = "interrupt" /\ (left = 2 \/ (left = 3 /\ Gone))
WorkGoes  == prog = "work" /\ (left = N + 15 \/ (left = N + 16 /\ Gone))
IntWaits  == prog = "interrupt" /\ (left = 4 \/ (left = 3 /\ ~Gone))
ModelRead == prog = "model" /\ (left = 1 \/ (left = 2 /\ Gone))

(* The points at which nothing is on the link, so that a register is not   *)
(* refused there.                                                          *)
QuietAt ==
  \/ prog = "none"
  \/ prog = "compress" /\ left \in {1, 4, 5, 10, N + 12, N + 13}
  \/ prog = "compress" /\ left = 3 /\ ~Gone
  \/ prog = "work" /\ left \in {N + 13, N + 14, N + 17}
  \/ At("work", N + 16) /\ ~Gone
  \/ At("status", 2) /\ ~Gone
  \/ At("interrupt", 1)
  \/ left = 0 /\ result = 0
SureAt == At("compress", 3) \/ At("work", N + 16) \/ At("status", 2)
QuietInv ==
  /\ QuietAt => Quiet
  /\ SureAt /\ busy => Submitting \/ Gone
  /\ polls = 0
  /\ left > 0 \/ prog \in {"none", "status"} => result = 0

(* Answers carry what the RDCU holds; while it compresses only the control *)
(* register and the status are used.                                       *)
ReplyInv ==
  \A r \in Replies :
    /\ r.form \in {"ok", "rejected"}
    /\ r.data # <<>> /\ r.addr # STATUS => r.data[1] = remote[r.addr]
    /\ r.data # <<>> /\ r.addr = STATUS => prog = "status"
    /\ r.data # <<>> /\ r.addr = NewWord => ModelRead
    /\ r.data # <<>> /\ r.addr = STATUS /\ r.data[1] = READY => Finished
    /\ r.data # <<>> /\ Active => r.addr = STATUS
CmdInv ==
  \A c \in Cmds : /\ Active => c.addr \in {CTRL, STATUS}
                  /\ c.addr = STATUS <=> prog = "status"
                  /\ c.kind = "read" /\ c.addr = NewWord => ModelRead

(* The points at which the compressor is idle, and has been started.       *)
IdleAt ==
  \/ prog \in {"none", "work", "bitstream", "model"} \cup Infos
  \/ /\ prog = "compress"
     /\ left > 3 \/ (left = 3 /\ ~Gone) \/ (left = 0 /\ result # 0)
  \/ prog = "interrupt" /\ left < 2
StartedAt == \/ prog = "status" \/ At("compress", 1)
             \/ At("compress", 0) /\ result = 0
CleanAt   == \/ prog = "compress" /\ left \in 4 .. (N + 12)
             \/ prog = "work" /\ left < N + 15
FpgaInv ==
  /\ fpga.state \in {"idle", "active"}
  /\ fpga.after_raw => remote[InfoRegs[1]] = CMP_MODE_RAW
  /\ IdleAt => Idle
  /\ IntWaits => Idle \/ Quiet
  /\ IntGoes => Idle \/ HasInt
  /\ StartedAt => Started
  /\ prog \in {"info", "bitstream", "model"} => Finished
  /\ prog = "model" => UsesModel
  /\ WorkGoes => ~fpga.after_raw \/ HasInt
  /\ CleanAt => ~fpga.after_raw

(* Which writes of the control register are on the link, and when the      *)
(* start bit is set in its mirror.                                         *)
ControlInv ==
  /\ ~(StartGoes \/ IntGoes \/ WorkGoes) => NoControl
  /\ prog \in {"interrupt", "work"} =>
       \A c \in Cmds : c.addr = CTRL => ~HasBit(c.data[1], START)
  /\ Up(START) => prog = "compress" /\ left \in 1 .. 3
  /\ At("compress", 3) => Up(START)
  /\ At("interrupt", 3) \/ At("work", N + 16) => Up(INTERRUPT)
  /\ At("compress", 3) /\ ~Gone => Ready
  /\ StartGoes =>
       /\ Len(cmds) <= 1
       /\ \A c \in Cmds : c.addr = CTRL /\ HasBit(c.data[1], START)
       /\ \A r \in Replies : r.data = <<>>
       /\ IF cmds = <<>> THEN Started ELSE Ready

(* What is compressed: the buffers of the call, or what the SRAM holds,    *)
(* which only the transfers of the call change.                            *)
InputInv ==
  /\ prog \in {"compress", "work"} =>
       /\ rcfg.data # NULL => input.data = rcfg.data
       /\ rcfg.model # NULL => input.model = rcfg.model
       /\ left > 5 => /\ rcfg.data = NULL => DataThere
                      /\ rcfg.model = NULL => ModelThere
  /\ Writing(DataWord) => /\ prog = "compress" /\ left \in 6 .. 9
                          /\ Given(DataAddr) /\ Mtu % 4 = 0
  /\ Writing(ModelWord) => /\ prog = "compress" /\ left \in 6 .. 7
                           /\ Given(ModelAddr) /\ Mtu % 4 = 0

(* The mode of the last compression is read; the configuration, the data   *)
(* and the model reach the compressor.                                     *)
CompressInv ==
  prog = "compress" =>
    /\ left = N + 14 \/ (left = N + 15 /\ Gone) => Coming(InfoRegs[1])
    /\ left = N + 13 => Fresh(InfoRegs[1])
    /\ left \in 11 .. (N + 11) =>
         \A i \in 1 .. N :
           /\ mirror[ConfigRegs[i]] = rcfg.regs[i]
           /\ i < N + 12 - left \/ (i = N + 12 - left /\ Gone) =>
                Arriving(ConfigRegs[i])
    /\ left \in 6 .. (N + 11) =>
         \A c \in Cmds : c.kind = "write" => c.data[1] = mirror[c.addr]
    /\ left \in 4 .. 10 =>
         Configured /\ \A c \in Cmds : c.addr \in {DataWord, ModelWord}
    /\ Given(DataAddr) =>
         /\ left \in 6 .. 9 => mirror[DataWord] = rcfg.data
         /\ left \in 6 .. 8 \/ (left = 9 /\ Gone) => Arriving(DataWord)
    /\ Given(ModelAddr) =>
         /\ left \in 6 .. 7 => mirror[ModelWord] = rcfg.model
         /\ left = 6 \/ (left = 7 /\ Gone) => Arriving(ModelWord)
    /\ left \in {4, 5} => DataThere /\ ModelThere

(* Status, information, bitstream and updated model reach the application. *)
StatusTold == (mirror[STATUS] = READY => Finished) \/ HasData(STATUS) \/ Reading(STATUS)
InfoFresh  == \A i \in 1 .. InfoCount : Fresh(InfoRegs[i])
ResultInv ==
  /\ At("status", 1) \/ (At("status", 2) /\ Gone) => StatusTold
  /\ At("status", 0) /\ mirror[STATUS] = READY => Finished
  /\ prog = "info" /\ left > 0 =>
       \A i \in 1 .. InfoCount :
         i < InfoCount + 2 - left \/ (i = InfoCount + 2 - left /\ Gone) =>
           Coming(InfoRegs[i])
  /\ (At("info", 0) /\ result = 0) \/ prog \in {"bitstream", "model"} => InfoFresh
  /\ At("bitstream", 1) \/ (At("bitstream", 2) /\ Gone) => Coming(CmpWord)
  /\ (At("bitstream", 0) /\ result = 0) \/ prog = "model" => Fresh(CmpWord)
  /\ ModelRead => Coming(NewWord)
  /\ At("model", 0) /\ result = 0 => Fresh(NewWord)

(* A register is refused by a full log only, a transfer because of the mtu *)
(* only.                                                                   *)
RefusedFull ==
  busy /\ next.op \in Kind /\ call = "none" /\ ret # 0 => FreeSlots = {}
SendSure ==
  busy /\ next.op \in {"send", "fetch"} =>
    /\ IF xfer.at = "idle" THEN xfer.ret = 0 \/ Mtu % 4 # 0 ELSE Mtu % 4 = 0
    /\ xfer.at = "sync" /\ call = "none" => ret >= 0
    /\ xfer.at \in {"wait", "polled"} => xfer.sub >= 0
    /\ next.op = "send" => Given(next.reg)

LossFree == LeakInv /\ RefusedFull /\ SendSure
PBase    == CInv /\ LossFree /\ scenario.prompt
PInv     == QuietInv /\ ReplyInv /\ CmdInv /\ FpgaInv /\ ControlInv /\ InputInv
              /\ CompressInv /\ ResultInv

(* When nothing is on the link and nothing is being submitted, the log is  *)
(* empty.                                                                  *)
LEMMA QuietLog ==
  ASSUME PBase, Quiet, ~Submitting
  PROVE  pending = 0 /\ FreeSlots # {}
<1>1. InFlight = {}
  <2>1. Len(<<>>) = 0
    BY EmptySeq
  <2> QED
    BY <2>1 DEF InFlight, Quiet
<1>2. \A s \in Slots : ~in_use[s]
  BY <1>1 DEF PBase, LossFree, LeakInv, NoSlotLeak
<1>3. {s \in Slots : in_use[s]} = {} /\ Cardinality({}) = 0
  BY <1>2, FS_EmptySet
<1>4. 0 \in Slots
  BY LogAssumption DEF Slots
<1> QED
  BY <1>2, <1>3, <1>4 DEF PBase, CInv, CBase, MemInv, PendingCountsSlots, FreeSlots

(* An empty queue has no elements.                                         *)
LEMMA QuietSets ==
  ASSUME CInv
  PROVE  /\ cmds = <<>> <=> Cmds = {}
         /\ replies = <<>> <=> Replies = {}
         /\ Quiet => Cmds = {} /\ Replies = {}
<1>1. cmds \in Seq(Command) /\ replies \in Seq(Reply)
  BY DEF CInv, CBase, MemInv, TypeOK
<1>2. ASSUME NEW S, NEW q \in Seq(S) PROVE q = <<>> <=> Elems(q) = {}
  <2>1. Len(q) \in Nat /\ (q = <<>> <=> Len(q) = 0)
    BY EmptySeq, LenProperties
  <2>2. Len(q) # 0 => q[1] \in Elems(q)
    BY <2>1 DEF Elems
  <2>3. Len(q) = 0 => Elems(q) = {}
    BY <2>1 DEF Elems
  <2> QED
    BY <2>1, <2>2, <2>3
<1>3. (cmds = <<>> <=> Cmds = {}) /\ (replies = <<>> <=> Replies = {})
  BY <1>1, <1>2 DEF Cmds, Replies
<1> QED
  BY <1>3 DEF Quiet

(* A transfer of one of the areas is refused because of the mtu only.      *)
LEMMA BadMtu ==
  ASSUME NEW a \in Areas
  PROVE  BadArguments(a, 4, Mtu) <=> Mtu % 4 # 0
<1>1. a \in Nat /\ a % 4 = 0 /\ a + 4 <= SramBytes /\ SramBytes \in Nat
  BY AreaAssumption, MemAssumption DEF SramBytes
<1> QED
  BY <1>1 DEF BadArguments

(* The area a transfer is about.                                           *)
LEMMA AreaOf ==
  ASSUME CtlInv, left > 0, next.op \in {"send", "fetch"}
  PROVE  next.reg \in Areas
BY OpTable DEF Areas

(* Without failing submissions a register is refused by a full log only.   *)
LEMMA RefusedFullStep ==
  ASSUME Faults \cap {"create", "tx"} = {}, CInv, RefusedFull, CMove
  PROVE  RefusedFull'
<1>0. TypeOK /\ LogInv /\ ClientOK /\ Calls
  BY DEF CInv, CBase, MemInv
<1>1. CASE (\E p \in Functions : Begun(p)) \/ LocalMove
  BY <1>1 DEF Begun, LocalMove, Adv, Aborted, RefusedFull
<1>2. CASE Returning
  <2>1. busy' = FALSE
    BY <1>2 DEF Returning, Adv, Aborted, WorkBegun, PollAgain
  <2> QED
    BY <2>1 DEF RefusedFull
<1>3. ASSUME Kept, UNCHANGED <<lib, busy>> PROVE RefusedFull'
  BY <1>3 DEF RefusedFull, Kept, lib, log, FreeSlots
<1>4. CASE Toggled \/ RdcuMove
  <2>1. UNCHANGED lib
    BY <1>4 DEF Toggled, RdcuMove, Rdcu, FpgaExecute, FpgaRefuse, FpgaControl, FpgaFinish,
                LinkFault, TargetExecute, TargetReject, LoseCommand, LoseReply,
                DamageReply, xvars, vars
  <2> QED
    BY <1>3, <1>4, <2>1 DEF Toggled, RdcuMove, ClientStays, client
<1>5. CASE Calling
  <2>1. CASE next.op \in Kind /\ rdcu_sync(next.op, next.reg)
    <3>1. call' = "rx_submit" \/ (FreeSlots = {} /\ UNCHANGED log)
      BY <2>1 DEF rdcu_sync, Prepare
    <3> QED
      BY <3>1 DEF RefusedFull, log, FreeSlots
  <2>2. CASE next.op \notin Kind
    BY <1>5, <2>2 DEF Calling, Kept, RefusedFull
  <2> QED
    BY <1>5, <2>1, <2>2 DEF Calling, Kind
<1>6. CASE Polling
  <2>1. ~busy' /\ left = 0
    BY <1>0, <1>6 DEF Polling, client, ClientOK
  <2> QED
    BY <2>1 DEF RefusedFull
<1>7. CASE BelowMove
  <2>1. next' = next /\ busy' = busy
    BY <1>7 DEF BelowMove, ClientStays, Kept, client
  <2>2. CASE LibStep /\ next.op \in Kind /\ busy
    <3>1. call \in {"rx_submit", "tx"}
      BY <1>0, <2>2, LibCalls DEF Calls, LibStep, rdcu_process_rx, RxSkip, RxDropTransaction,
         RxAccept, RxEmpty, RxAllocFail, SyncDataGrab, rdcu_submit_tx, SyncStatusReturn, RxLoop
    <3>2. ~NotSent
      BY AlwaysSent
    <3>3. call' = "none" => ret' = 0
      <4>1. CASE call = "tx"
        BY <2>2, <3>2, <4>1, LibViews DEF Sent, Accepted, Skipped, Inner, RxLoop
      <4>2. CASE call = "rx_submit"
        BY <2>2, <4>2, LibExact
      <4> QED
        BY <3>1, <4>1, <4>2
    <3> QED
      BY <3>3 DEF RefusedFull
  <2>3. CASE XferStep /\ next.op \in Kind /\ busy
    BY <1>0, <2>3 DEF Calls, XferStep, SubmitPiece, PieceReturned, PollPending,
                      PollReturned, AllSubmitted
  <2> QED
    BY <1>7, <2>1, <2>2, <2>3 DEF BelowMove, RefusedFull
<1> QED
  BY <1>1, <1>2, <1>4, <1>5, <1>6, <1>7 DEF CMove

(* rdcu_sync_data then returns 0, or asks for a retry.                     *)
LEMMA DataReturns ==
  ASSUME Faults \cap {"create", "tx"} = {}, CInv, LibStep, call \in DataCalls, call' = "none"
  PROVE  \/ call = "tx" /\ ret' = 0
         \/ call = "grab" /\ ret' = 1
<1>1. ~NotSent
  BY AlwaysSent
<1>2. CASE call = "tx"
  BY <1>1, <1>2, LibViews DEF Sent, Accepted, Skipped, Inner, RxLoop
<1>3. CASE call # "tx"
  <2>1. call = "grab"
    BY <1>3, LibExact DEF DataCalls
  <2>2. SyncDataGrab
    BY <2>1 DEF LibStep, rdcu_process_rx, RxSkip, RxDropTransaction, RxAccept, RxEmpty,
                RxAllocFail, rdcu_submit_tx, SyncStatusReturn, RxLoop
  <2> QED
    BY <2>1, <2>2 DEF SyncDataGrab, Prepare, Return
<1> QED
  BY <1>2, <1>3

(* So a transfer that has begun is completed.                              *)
LEMMA SendSureStep ==
  ASSUME Faults \cap {"create", "tx"} = {}, CInv, SendSure, CMove
  PROVE  SendSure'
<1>0. /\ TypeOK /\ LogInv /\ ClientOK /\ Calls /\ CtlInv /\ XInv /\ LibShape
      /\ ret \in Int
  BY DEF CInv, CBase, MemInv, ClientOK, LibShape
<1>1. CASE (\E p \in Functions : Begun(p)) \/ LocalMove
  BY <1>1 DEF Begun, LocalMove, Adv, Aborted, SendSure
<1>2. CASE Returning
  <2>1. busy' = FALSE
    BY <1>2 DEF Returning, Adv, Aborted, WorkBegun, PollAgain
  <2> QED
    BY <2>1 DEF SendSure
<1>k. ASSUME Kept PROVE next' = next /\ (Given(next.reg)' <=> Given(next.reg))
  BY <1>k DEF Kept, Given
<1>3. ASSUME Kept, UNCHANGED <<call, ret, xfer, busy>> PROVE SendSure'
  BY <1>3, <1>k DEF SendSure
<1>4. CASE Toggled \/ RdcuMove
  <2>1. UNCHANGED <<call, ret, xfer>>
    BY <1>4 DEF Toggled, RdcuMove, Rdcu, FpgaExecute, FpgaRefuse, FpgaControl, FpgaFinish,
                LinkFault, TargetExecute, TargetReject, LoseCommand, LoseReply,
                DamageReply, xvars, vars, lib
  <2> QED
    BY <1>3, <1>4, <2>1 DEF Toggled, RdcuMove, ClientStays, client
<1>5. CASE Calling
  <2>1. next' = next /\ left > 0 /\ (Given(next.reg)' <=> Given(next.reg))
    BY <1>5, <1>k DEF Calling
  <2>2. CASE next.op \notin {"send", "fetch"}
    BY <2>1, <2>2 DEF SendSure
  <2>3. CASE next.op \in {"send", "fetch"}
    <3>1. PICK k \in Kind : sync_begin(k, next.reg, 4, Mtu)
      BY <1>5, <2>3 DEF Calling, Kind
    <3>2. BadArguments(next.reg, 4, Mtu) <=> Mtu % 4 # 0
      BY <1>0, <2>1, <2>3, AreaOf, BadMtu
    <3>3. \/ xfer'.at = "idle" /\ Mtu % 4 # 0
          \/ xfer'.at = "loop" /\ Mtu % 4 = 0
      BY <3>1, <3>2 DEF sync_begin, NoXfer
    <3>4. next.op = "send" => Given(next.reg)
      BY <1>5 DEF Calling, Kind
    <3> QED
      BY <2>1, <3>3, <3>4 DEF SendSure
  <2> QED
    BY <2>2, <2>3
<1>6. CASE Polling
  <2>1. ~busy'
    BY <1>0, <1>6 DEF Polling, client, ClientOK
  <2> QED
    BY <2>1 DEF SendSure
<1>7. CASE BelowMove
  <2>1. next' = next /\ busy' = busy /\ (Given(next.reg)' <=> Given(next.reg))
    BY <1>7, <1>k DEF BelowMove, ClientStays, client
  <2> SUFFICES ASSUME busy, next.op \in {"send", "fetch"} PROVE SendSure'
    BY <2>1 DEF SendSure
  <2>g. next.op = "send" => Given(next.reg)
    BY DEF SendSure
  <2>2. PICK k \in Kind : OneWord(k, next.reg)
    BY <1>0 DEF Calls, Kind
  <2>3. CASE LibStep /\ UNCHANGED xfer
    <3>1. xfer.at = "sync" /\ call' = "none" => ret' >= 0
      <4>1. xfer.at = "sync" => call \in DataCalls
        <5>1. call \in CallPoint /\ call # "none"
          BY <1>0, <2>3, LibExact DEF TypeOK, RxLoop
        <5>2. call \in DataCalls \cup StatusCalls
          BY <5>1 DEF CallPoint, DataCalls, StatusCalls, RxLoop
        <5> QED
          BY <2>2, <5>2 DEF OneWord
      <4> QED
        BY <2>3, <4>1, DataReturns
    <3> QED
      BY <2>1, <2>3, <3>1 DEF SendSure
  <2>4. CASE XferStep
    <3>1. OneStep(k, next.reg)
      BY <1>0, <2>2, <2>4, OneWordStep
    <3>2. /\ xfer \in [at: XferPoint, kind: Kind, addr: Nat, mtu: Nat, done: Nat,
                     left: Nat, size: Nat, sub: Int, ret: Int]
          /\ xfer.at # "idle"
      BY <1>0, <3>1 DEF XInv, XTypeOK, OneStep, Submits, Waits, Polls, WaitsOn, Ends, Goes
    <3>3. Mtu % 4 = 0
      BY <3>2 DEF SendSure
    <3>4. xfer'.at = "idle" => xfer'.ret = 0
      <4>1. CASE Submits(k, next.reg) \/ Waits \/ Polls \/ WaitsOn \/ Ends
        BY <3>2, <4>1 DEF Submits, Waits, Polls, WaitsOn, Ends
      <4>2. CASE xfer.at = "sync" /\ Goes(ret)
        <5>1. ret >= 0
          BY <4>2 DEF SendSure, Goes
        <5> QED
          BY <1>0, <3>2, <4>2, <5>1 DEF Goes
      <4>3. CASE xfer.at = "polled" /\ Goes(xfer.sub)
        <5>1. xfer.sub >= 0
          BY <4>3 DEF SendSure
        <5> QED
          BY <3>2, <4>3, <5>1 DEF Goes
      <4> QED
        BY <3>1, <4>1, <4>2, <4>3 DEF OneStep
    <3>g. \A r \in Int : Goes(r) => xfer'.at \in {"loop", "idle"}
      <4> SUFFICES ASSUME NEW r \in Int, Goes(r) PROVE xfer'.at \in {"loop", "idle"}
        OBVIOUS
      <4>1. CASE r > 0
        BY <3>2, <4>1 DEF Goes
      <4>2. CASE r < 0
        BY <3>2, <4>2 DEF Goes
      <4>3. CASE r = 0
        BY <3>2, <4>3 DEF Goes
      <4> QED
        BY <4>1, <4>2, <4>3
    <3>5. xfer'.at = "sync" => call' # "none"
      <4>1. CASE Submits(k, next.reg)
        BY <4>1 DEF Submits
      <4>2. CASE Waits \/ Polls \/ WaitsOn \/ Ends
        BY <3>2, <4>2 DEF Waits, Polls, WaitsOn, Ends
      <4> QED
        BY <1>0, <3>1, <3>2, <3>g, <4>1, <4>2 DEF OneStep
    <3>6. xfer'.at \in {"wait", "polled"} => xfer'.sub >= 0
      <4>1. CASE Waits
        BY <3>2, <4>1 DEF Waits, SendSure
      <4>2. CASE Polls \/ WaitsOn
        BY <3>2, <4>2 DEF Polls, WaitsOn, SendSure
      <4>3. CASE Submits(k, next.reg) \/ Ends
        BY <3>2, <4>3 DEF Submits, Ends
      <4>4. CASE (xfer.at = "sync" /\ Goes(ret)) \/ (xfer.at = "polled" /\ Goes(xfer.sub))
        BY <1>0, <3>2, <3>g, <4>4
      <4> QED
        BY <3>1, <4>1, <4>2, <4>3, <4>4 DEF OneStep
    <3> QED
      BY <2>1, <2>g, <3>3, <3>4, <3>5, <3>6 DEF SendSure
  <2> QED
    BY <1>7, <2>3, <2>4 DEF BelowMove
<1> QED
  BY <1>1, <1>2, <1>4, <1>5, <1>6, <1>7 DEF CMove
-----------------------------------------------------------------------------
(* The steps on a prompt link that loses nothing.                          *)
Same == UNCHANGED <<mirror, cmds, replies, remote, fpga>>
Hands == next.op \in Kind \cup {"send", "fetch"}
VStay   == Same /\ Kept /\ (Gone' <=> Gone) /\ polls' = 0
             /\ (SureAt /\ busy' => Submitting' \/ Gone)
VAdv    == /\ left > 0 /\ Same /\ Adv /\ ~Gone'
           /\ \/ next.op \in {"check", "end"}
              \/ next.op = "send" /\ ~Given(next.reg)
              \/ next.op = "after_raw" /\ mirror[InfoRegs[1]] # CMP_MODE_RAW
              \/ Hands /\ Gone
              \/ next.op = "syncing" /\ Quiet
VAbort  == /\ left > 0 /\ Same /\ Aborted /\ ~Gone'
           /\ next.op = "check" \/ (Hands /\ busy /\ ~Submitting /\ ~Gone)
           /\ next.op \in Kind => ~Quiet
           /\ next.op \in {"send", "fetch"} => Mtu % 4 # 0
VWork   == /\ left > 0 /\ Same /\ WorkBegun /\ ~Gone'
           /\ next.op = "after_raw" /\ mirror[InfoRegs[1]] = CMP_MODE_RAW
VLocal  == /\ left > 0 /\ UNCHANGED <<cmds, replies, remote, fpga>> /\ Adv /\ ~Gone'
           /\ mirror' = LocalValue(mirror) /\ Head(todo) = next
           /\ next.op \in {"set", "clear", "irq", "store"}
VLoad   == /\ left > 0 /\ UNCHANGED <<cmds, replies, remote, fpga>> /\ ~Gone'
           /\ next.op = "load" /\ mirror' = LoadedMirror
           /\ IF rcfg.refused = 0 THEN Adv ELSE Aborted
Lives   == /\ Kept /\ polls' = 0 /\ busy' = busy
           /\ Submitting' <=> Submitting
           /\ Gone' <=> Gone
VSend(c) ==
  /\ Kept /\ polls' = 0 /\ Hands /\ left > 0 /\ busy /\ call = "tx" /\ ~Gone /\ Gone'
  /\ c.kind = SubKind /\ c.addr = SubAddr
  /\ c.kind = "write" => c.data[1] = mirror[c.addr]
  /\ next.op = "send" => Mtu % 4 = 0 /\ Given(next.reg)
  /\ cmds' = Append(cmds, c) /\ Cmds' = Cmds \cup {c} /\ Replies' = Replies
  /\ UNCHANGED <<mirror, replies, remote, fpga>>
VTake(r) ==
  /\ Lives /\ r \in Replies /\ Replies = Replies' \cup {r} /\ replies # <<>>
  /\ mirror' = IF r.data = <<>> THEN mirror ELSE [mirror EXCEPT ![r.addr] = r.data[1]]
  /\ UNCHANGED <<cmds, remote, fpga>>
VExec(c)       == Lives /\ Executed(c)
VControl(c, v) == Lives /\ Controlled(c, v)
VFinish        == Lives /\ FpgaFinish

(* A call into the layers below has not handed its word over yet.          *)
LEMMA CallingStays ==
  ASSUME "create" \notin Faults, PBase, QuietInv, Calling
  PROVE  VStay
<1>0. ClientOK /\ Kept /\ ~busy /\ AtRest /\ left > 0 /\ next' = next /\ polls' = 0
  BY DEF Calling, PBase, CInv, CBase, QuietInv, Kept
<1>1. ~Gone /\ call = "none"
  BY <1>0 DEF Gone, AtRest
<1>2. Same
  BY DEF Calling, rdcu_sync, rdcu_rmap_sync_status, sync_begin, vars, link, Same
<1>3. CASE next.op \in Kind
  <2>1. rdcu_sync(next.op, next.reg)
    BY <1>3 DEF Calling, Kind
  <2>2. \/ call' = "rx_submit"
        \/ FreeSlots = {} /\ call' = "none" /\ ret' = -1
    BY <2>1 DEF rdcu_sync, Prepare, Return
  <2>3. ~Gone'
    BY <1>0, <1>3, <2>2 DEF Gone, Kind
  <2>4. SureAt => FreeSlots # {}
    <3>1. SureAt => QuietAt
      BY <1>1 DEF SureAt, QuietAt, At
    <3>2. ~Submitting
      BY <1>1 DEF Submitting
    <3> QED
      BY <3>1, <3>2, QuietLog DEF QuietInv
  <2> QED
    BY <1>0, <1>1, <1>2, <2>2, <2>3, <2>4 DEF VStay, Submitting
<1>4. CASE next.op = "syncing"
  <2>1. ~Gone' /\ ~SureAt
    BY <1>0, <1>4, OpTable DEF Gone, Kind, SureAt, At, ClientOK
  <2> QED
    BY <1>0, <1>1, <1>2, <2>1 DEF VStay
<1>5. CASE next.op \in {"send", "fetch"}
  <2>1. PICK k : sync_begin(k, next.reg, 4, Mtu)
    BY <1>5 DEF Calling, Kind
  <2>2. \/ xfer'.at = "idle" /\ xfer'.ret = -1
        \/ xfer'.at = "loop" /\ xfer'.done = 0
    BY <2>1 DEF sync_begin, NoXfer
  <2>3. ~Gone'
    BY <1>0, <1>5, <2>2 DEF Gone, Kind, XferSent
  <2>4. ~SureAt
    BY <1>0, <1>5, OpTable, Registers DEF SureAt, At, ClientOK, CtlInv
  <2> QED
    BY <1>0, <1>1, <1>2, <2>3, <2>4 DEF VStay
<1> QED
  BY <1>3, <1>4, <1>5 DEF Calling, Kind

(* Nor has the application itself, which asks for the status.              *)
LEMMA PollingStays ==
  ASSUME PBase, QuietInv, Polling
  PROVE  VStay
<1>0. /\ ClientOK /\ Kept /\ left = 0 /\ busy' = busy /\ polls' = 0
  BY DEF Polling, PBase, CInv, CBase, QuietInv, client
<1>1. ~busy /\ ~Gone /\ ~Gone'
  BY <1>0 DEF ClientOK, Gone
<1>2. Same
  BY DEF Polling, rdcu_rmap_sync_status, link, Same
<1>3. ~SureAt
  BY <1>0, Registers DEF SureAt, At
<1> QED
  BY <1>0, <1>1, <1>2, <1>3 DEF VStay

(* The loops of the transfers.                                             *)
LEMMA XferStays ==
  ASSUME PBase, QuietInv, ClientStays, fpga' = fpga, XferStep
  PROVE  VStay
<1>0. /\ ClientOK /\ Calls /\ XInv /\ LibShape /\ TypeOK /\ Kept /\ busy' = busy
      /\ next' = next /\ polls' = 0
  BY DEF PBase, CInv, CBase, MemInv, ClientStays, Kept, client, QuietInv
<1>1. xfer.at # "idle"
  BY DEF XferStep, SubmitPiece, PieceReturned, PollPending, PollReturned, AllSubmitted
<1>2. busy /\ left > 0 /\ next.op \in {"send", "fetch"}
  BY <1>0, <1>1 DEF Calls, ClientOK
<1>3. PICK k, a : k \in Kind /\ OneWord(k, a)
  BY <1>0, <1>2 DEF Calls, Kind
<1>4. OneStep(k, a)
  BY <1>0, <1>3, OneWordStep
<1>5. Same
  BY <1>4 DEF OneStep, Submits, Waits, Polls, WaitsOn, Ends, Goes, rdcu_rmap_sync_status,
              vars, link, Same
<1>6. xfer \in [at: XferPoint, kind: Kind, addr: Nat, mtu: Nat, done: Nat,
                left: Nat, size: Nat, sub: Int, ret: Int] /\ ret \in Int
  BY <1>0 DEF XInv, XTypeOK, LibShape
<1>7. XferSent' <=> XferSent
  <2>1. CASE Submits(k, a)
    BY <1>6, <2>1 DEF Submits, XferSent
  <2>2. CASE Waits
    BY <1>6, <2>2 DEF Waits, XferSent, vars, lib
  <2>3. CASE Polls \/ WaitsOn \/ Ends
    BY <1>6, <2>3 DEF Polls, WaitsOn, Ends, XferSent
  <2>4. CASE xfer.at = "sync" /\ Goes(ret)
    BY <1>6, <2>4 DEF Goes, XferSent
  <2>5. CASE xfer.at = "polled" /\ Goes(xfer.sub)
    BY <1>6, <2>5 DEF Goes, XferSent
  <2> QED
    BY <1>4, <2>1, <2>2, <2>3, <2>4, <2>5 DEF OneStep
<1>8. Gone' <=> Gone
  BY <1>0, <1>2, <1>7 DEF Gone, Kind
<1>9. ~SureAt
  BY <1>0, <1>2, OpTable, Registers DEF SureAt, At, ClientOK
<1> QED
  BY <1>0, <1>5, <1>8, <1>9 DEF VStay

(* The steps of the RMAP layer.                                            *)
LEMMA LibMoves ==
  ASSUME Faults \cap LeakFaults = {}, PBase, QuietInv, ReplyInv,
         ClientStays, fpga' = fpga, LibStep, UNCHANGED xfer
  PROVE  VStay \/ (\E c : VSend(c)) \/ (\E r : VTake(r))
<1>0. /\ CInv /\ CBase /\ ClientOK /\ Calls /\ LogInv /\ TypeOK /\ Kept /\ busy' = busy
      /\ next' = next /\ polls' = 0 /\ "create" \notin Faults /\ "tx" \notin Faults
  BY DEF PBase, CInv, CBase, MemInv, ClientStays, Kept, client, QuietInv, LeakFaults
<1>1. call # "none" /\ (busy => left > 0)
  BY <1>0, LibExact DEF RxLoop, ClientOK
<1>2. ASSUME NEW c, Sent(c) PROVE VSend(c)
  <2>1. call = "tx" /\ call' = "none" /\ ret' = 0 /\ Submitting
    BY <1>2 DEF Sent, Submitting
  <2>b. busy /\ left > 0
    BY <1>0, <1>1, <2>1 DEF ClientOK
  <2>2. Hands /\ cmd.kind = SubKind /\ cmd.addr = SubAddr
    BY <1>0, <2>1, SubmitsWord DEF Hands
  <2>3. CASE next.op \in Kind
    BY <1>0, <2>b, <1>2, <2>1, <2>2, <2>3 DEF Gone, Sent, VSend, Kind
  <2>4. CASE next.op \in {"send", "fetch"}
    <3>1. xfer.at = "sync"
      BY <1>0, <2>b, <2>1, <2>4 DEF Calls, OneWord, DataCalls
    <3>2. ~Gone /\ Gone'
      BY <1>0, <2>b, <2>1, <2>4, <3>1 DEF Gone, XferSent, Kind
    <3>3. Mtu % 4 = 0 /\ (next.op = "send" => Given(next.reg))
      BY <2>b, <2>4, <3>1 DEF PBase, LossFree, SendSure
    <3> QED
      BY <1>0, <2>b, <1>2, <2>1, <2>2, <3>2, <3>3 DEF Sent, VSend
  <2> QED
    BY <2>2, <2>3, <2>4 DEF Hands
<1>3. ~NotSent
  BY <1>0, AlwaysSent
<1>4. ASSUME NEW r, Accepted(r) PROVE VTake(r)
  <2>1. Lives
    BY <1>0, <1>4 DEF Accepted, Lives, Gone, XferSent, Submitting
  <2>2. replies # <<>>
    BY <1>0, <1>4, QuietSets DEF Accepted
  <2> QED
    BY <1>4, <2>1, <2>2 DEF Accepted, VTake
<1>5. ASSUME NEW r PROVE ~Skipped(r)
  BY DEF Skipped, ReplyInv
<1>6. ASSUME Inner PROVE VStay
  <2>1. Same /\ call \notin {"none", "tx"}
    BY <1>6 DEF Inner, Same, link
  <2>5. CASE ~busy
    <3>1. left = 0 /\ ~Gone /\ ~Gone'
      BY <1>0, <1>1, <2>5 DEF ClientOK, Gone
    <3> QED
      BY <1>0, <2>1, <2>5, <3>1 DEF VStay
  <2> SUFFICES ASSUME busy PROVE VStay
    BY <2>5
  <2>2. CASE next.op \in Kind
    <3>1. call = "rx_submit"
      BY <1>0, <1>1, <2>1, <2>2 DEF Calls
    <3>2. call' \in {"rx_submit", "tx"}
      BY <3>1, LibExact
    <3> QED
      BY <1>0, <2>1, <2>2, <3>1, <3>2 DEF VStay, Gone, Submitting, Kind
  <2>3. CASE next.op = "syncing"
    <3>1. ~Gone' /\ ~Gone /\ ~SureAt
      BY <1>0, <1>1, <2>3, OpTable DEF Gone, Kind, SureAt, At, ClientOK
    <3> QED
      BY <1>0, <2>1, <3>1 DEF VStay
  <2>4. CASE next.op \in {"send", "fetch"}
    <3>1. ~SureAt
      BY <1>0, <1>1, <2>4, OpTable, Registers DEF SureAt, At, ClientOK
    <3>2. XferSent' <=> XferSent
      <4>1. call' = "none" /\ xfer.at = "sync" => ret' # 0
        <5>1. call \in DataCalls \ {"tx"} \/ call \in StatusCalls
          BY <1>0, <2>1 DEF TypeOK, CallPoint, RxLoop, DataCalls, StatusCalls
        <5>2. xfer.at = "sync" => call \in DataCalls \ {"tx"}
          BY <1>0, <1>1, <2>4, <5>1 DEF Calls, OneWord
        <5>3. call' = "none" /\ xfer.at = "sync" => call = "grab"
          BY <5>2, LibExact DEF DataCalls
        <5>4. call = "grab" => SyncDataGrab
          BY DEF LibStep, rdcu_process_rx, RxSkip, RxDropTransaction, RxAccept, RxEmpty,
                 RxAllocFail, rdcu_submit_tx, SyncStatusReturn, RxLoop
        <5>5. SyncDataGrab => call' = "rx_submit" \/ ret' = 1
          BY <1>0 DEF SyncDataGrab, Prepare, Return
        <5> QED
          BY <5>3, <5>4, <5>5
      <4> QED
        BY <2>1, <4>1 DEF XferSent
    <3>3. Gone' <=> Gone
      BY <1>0, <2>4, <3>2 DEF Gone, Kind
    <3> QED
      BY <1>0, <2>1, <3>1, <3>3 DEF VStay
  <2> QED
    BY <1>0, <1>1, <2>2, <2>3, <2>4 DEF ClientOK
<1> QED
  BY <1>0, <1>2, <1>3, <1>4, <1>5, <1>6, LibViews

(* The steps of the RDCU.                                                  *)
LEMMA RdcuMoves ==
  ASSUME Faults \cap LeakFaults = {}, PBase, QuietInv, CmdInv, RdcuMove
  PROVE  (\E c : VExec(c)) \/ (\E c, v : VControl(c, v)) \/ VFinish
<1>0. CInv /\ Kept /\ busy' = busy /\ polls' = 0 /\ next' = next
  BY DEF PBase, RdcuMove, ClientStays, Kept, client, QuietInv
<1>1. ASSUME UNCHANGED <<lib, xfer>> PROVE Lives
  BY <1>0, <1>1 DEF Lives, Gone, XferSent, Submitting, lib
<1>2. CASE FpgaExecute
  <2>1. PICK c : Executed(c)
    BY <1>0, <1>2, RdcuViews
  <2>2. Lives
    BY <1>1, <2>1 DEF Executed, Taken
  <2> QED
    BY <2>1, <2>2 DEF VExec
<1>3. ~FpgaRefuse
  <2> SUFFICES ASSUME NEW c, Refused(c) PROVE FALSE
    BY <1>0, RdcuViews
  <2>1. c \in Cmds /\ Active /\ c.addr \in ConfigSet \cup InfoSet
    BY DEF Refused, Taken, Blocked, Active, ConfigSet, InfoSet, N, InfoCount
  <2>2. c.addr \in {CTRL, STATUS}
    BY <2>1 DEF CmdInv
  <2> QED
    BY <2>1, <2>2, WordsApart DEF ReadWords, WriteWords
<1>4. CASE FpgaControl
  <2>1. PICK c, v : Controlled(c, v)
    BY <1>0, <1>4, RdcuViews
  <2>2. Lives
    BY <1>1, <2>1 DEF Controlled, Taken
  <2> QED
    BY <2>1, <2>2 DEF VControl
<1>5. CASE FpgaFinish
  BY <1>1, <1>5 DEF FpgaFinish, VFinish
<1>6. ~LinkFault
  BY DEF LinkFault, LoseCommand, LoseReply, LeakFaults, PBase
<1> QED
  BY <1>2, <1>3, <1>4, <1>5, <1>6 DEF RdcuMove, Rdcu

(* Every step is one of these.                                             *)
PMove ==
  \/ \E p \in Functions : Begun(p)
  \/ VStay \/ VAdv \/ VAbort \/ VWork \/ VLocal \/ VLoad \/ VFinish
  \/ \E c : VSend(c) \/ VTake(c) \/ VExec(c) \/ \E v : VControl(c, v)
LEMMA PromptMoves ==
  ASSUME Faults \cap LeakFaults = {}, PBase, PInv, CMove
  PROVE  PMove
<1>0. /\ CInv /\ ClientOK /\ Calls /\ QuietInv /\ ReplyInv /\ CmdInv /\ "create" \notin Faults
      /\ TypeOK /\ PendingCountsSlots /\ LogInv
  BY DEF PBase, CInv, CBase, MemInv, PInv, LeakFaults
<1>1. CASE Toggled
  <2>1. /\ Same /\ Kept /\ polls' = 0 /\ next' = next /\ left = 0
        /\ UNCHANGED <<busy, call, ret, xfer>>
    BY <1>0, <1>1 DEF Toggled, Same, Kept, QuietInv, xvars, vars, lib, link, client
  <2>2. (Gone' <=> Gone) /\ ~SureAt
    BY <2>1, Registers DEF Gone, XferSent, SureAt, At
  <2> QED
    BY <2>1, <2>2 DEF PMove, VStay
<1>2. CASE Returning
  <2>1. Same /\ left > 0 /\ call = "none" /\ xfer.at = "idle" /\ ~Submitting
    BY <1>2 DEF Returning, Still, xvars, vars, link, Same, AtRest, Submitting
  <2>2. ~Gone'
    BY <1>2 DEF Returning, Adv, Aborted, WorkBegun, PollAgain, Gone
  <2>3. CASE next.op = "check"
    <3>1. Adv \/ Aborted
      BY <1>2, <2>3 DEF Returning, Kind
    <3> QED
      BY <2>1, <2>2, <2>3, <3>1 DEF PMove, VAdv, VAbort, Kind
  <2>4. CASE next.op \in Kind
    <3>1. busy /\ IF ret = 0 THEN Adv ELSE Aborted
      BY <1>2, <2>4 DEF Returning, Kind
    <3>2. Gone <=> ret = 0
      BY <2>1, <2>4, <3>1 DEF Gone, Kind
    <3>3. ret # 0 => ~Quiet
      BY <2>1, <2>4, <3>1, QuietLog DEF PBase, LossFree, RefusedFull
    <3> QED
      BY <2>1, <2>2, <2>4, <3>1, <3>2, <3>3 DEF PMove, VAdv, VAbort, Hands, Kind
  <2>5. CASE next.op = "syncing"
    <3>1. busy /\ (((ret = 0 \/ polls > SyncRetries) /\ Adv) \/ PollAgain)
      BY <1>2, <2>5 DEF Returning, Kind
    <3>2. ret = pending /\ ~(polls > SyncRetries)
      BY <1>0, <2>1, <2>5, <3>1, CmpAssumption DEF Calls, QuietInv
    <3>3. CASE ret = 0 /\ Adv
      <4>1. Quiet
        BY <1>0, <3>2, <3>3, QuietLink DEF Quiet
      <4> QED
        BY <2>1, <2>2, <2>5, <3>3, <4>1 DEF PMove, VAdv
    <3>4. CASE PollAgain
      <4>1. ~Quiet
        BY <2>1, <3>2, <3>4, QuietLog DEF PollAgain
      <4>2. link # <<<<>>, <<>>>>
        BY <4>1 DEF link, Quiet
      <4>3. polls' = 0 /\ busy' = FALSE /\ Kept
        BY <1>0, <3>4, <4>2 DEF PollAgain, PBase, QuietInv
      <4>4. ~Gone
        BY <2>5 DEF Gone, Kind
      <4> QED
        BY <2>1, <2>2, <4>3, <4>4 DEF PMove, VStay
    <3> QED
      BY <3>1, <3>2, <3>3, <3>4
  <2>6. CASE next.op = "after_raw"
    <3>1. IF mirror[InfoRegs[1]] = CMP_MODE_RAW THEN WorkBegun ELSE Adv
      BY <1>2, <2>6 DEF Returning, Kind
    <3> QED
      BY <2>1, <2>2, <2>6, <3>1 DEF PMove, VWork, VAdv
  <2>7. CASE next.op = "end"
    BY <1>2, <2>1, <2>2, <2>7 DEF Returning, Kind, PMove, VAdv
  <2>9. CASE next.op = "send" /\ ~busy
    <3>1. ~Given(next.reg) /\ Adv
      BY <1>2, <2>9 DEF Returning, Kind
    <3> QED
      BY <2>1, <2>2, <2>9, <3>1 DEF PMove, VAdv
  <2>8. CASE next.op \in {"send", "fetch"} /\ ~(next.op = "send" /\ ~busy)
    <3>1. busy /\ IF xfer.ret = 0 THEN Adv ELSE Aborted
      BY <1>2, <2>8 DEF Returning, Kind
    <3>3. xfer.ret # 0 => Mtu % 4 # 0
      BY <2>1, <2>8, <3>1 DEF PBase, LossFree, SendSure
    <3>2. Gone <=> xfer.ret = 0
      BY <2>1, <2>8, <3>1 DEF Gone, Kind, XferSent
    <3> QED
      BY <2>1, <2>2, <2>8, <3>1, <3>2, <3>3 DEF PMove, VAdv, VAbort, Hands, Kind
  <2> QED
    BY <1>2, <2>3, <2>4, <2>5, <2>6, <2>7, <2>8, <2>9 DEF Returning
<1>3. CASE LocalMove
  <2>1. UNCHANGED <<cmds, replies, remote, fpga>> /\ busy' = FALSE /\ left > 0
    BY <1>3 DEF LocalMove, link, Adv, Aborted
  <2>2. Head(todo) = next
    BY <1>0, <2>1, TodoIs DEF ClientOK
  <2>3. ~Gone'
    BY <2>1 DEF Gone
  <2>4. CASE next.op = "load"
    BY <1>3, <2>1, <2>3, <2>4 DEF LocalMove, PMove, VLoad
  <2>5. CASE next.op # "load"
    BY <1>3, <2>1, <2>2, <2>3, <2>5 DEF LocalMove, PMove, VLocal
  <2> QED
    BY <2>4, <2>5
<1>4. CASE Calling \/ Polling
  BY <1>0, <1>4, CallingStays, PollingStays DEF PMove
<1>5. CASE BelowMove
  BY <1>0, <1>5, LibMoves, XferStays DEF BelowMove, PMove
<1>6. CASE RdcuMove
  BY <1>0, <1>6, RdcuMoves DEF PMove
<1> QED
  BY <1>1, <1>2, <1>3, <1>4, <1>5, <1>6 DEF CMove, PMove
-----------------------------------------------------------------------------
(* What depends on the memories, the link and the compressor only.         *)
LEMMA SameFacts ==
  ASSUME Same, rcfg' = rcfg /\ input' = input
  PROVE  /\ Cmds' = Cmds /\ Replies' = Replies
         /\ Quiet' <=> Quiet
         /\ Idle' <=> Idle
         /\ Active' <=> Active
         /\ Configured' <=> Configured
         /\ DataThere' <=> DataThere
         /\ ModelThere' <=> ModelThere
         /\ Finished' <=> Finished
         /\ Started' <=> Started
         /\ Ready' <=> Ready
         /\ HasInt' <=> HasInt
         /\ NoControl' <=> NoControl
         /\ StatusTold' <=> StatusTold
         /\ InfoFresh' <=> InfoFresh
         /\ \A w : /\ Fresh(w)' <=> Fresh(w)
                   /\ Writing(w)' <=> Writing(w)
                   /\ Coming(w)' <=> Coming(w)
                   /\ Arriving(w)' <=> Arriving(w)
         /\ \A b : Up(b)' <=> Up(b)
<1>1. UNCHANGED <<mirror, cmds, replies, remote, fpga>>
  BY DEF Same
<1>2. Cmds' = Cmds /\ Replies' = Replies
  BY <1>1 DEF Cmds, Replies
<1>3. /\ Quiet' <=> Quiet
      /\ Idle' <=> Idle
      /\ Active' <=> Active
      /\ Configured' <=> Configured
      /\ DataThere' <=> DataThere
      /\ ModelThere' <=> ModelThere
  BY <1>1 DEF Quiet, Idle, Active, Configured, DataThere, ModelThere, UsesModel
<1>4. Finished' <=> Finished
  BY <1>1 DEF Finished, Idle, UsesModel
<1>5. (Started' <=> Started) /\ (Ready' <=> Ready)
  BY <1>1, <1>3, <1>4 DEF Started, Ready, Placed
<1>6. (HasInt' <=> HasInt) /\ (NoControl' <=> NoControl)
  BY <1>2 DEF HasInt, NoControl
<1>7. \A w : /\ Fresh(w)' <=> Fresh(w)
             /\ HasData(w)' <=> HasData(w)
             /\ Reading(w)' <=> Reading(w)
             /\ Writing(w)' <=> Writing(w)
  BY <1>1, <1>2 DEF Fresh, HasData, Reading, Writing
<1>8. /\ StatusTold' <=> StatusTold
      /\ \A w : /\ Coming(w)' <=> Coming(w)
                /\ Arriving(w)' <=> Arriving(w)
  BY <1>1, <1>4, <1>7 DEF StatusTold, Coming, Arriving
<1>9. \A b : Up(b)' <=> Up(b)
  BY <1>1 DEF Up
<1>10. InfoFresh' <=> InfoFresh
  BY <1>7 DEF InfoFresh
<1> QED
  BY <1>2, <1>3, <1>4, <1>5, <1>6, <1>7, <1>8, <1>9, <1>10

(* What depends on the point of the call only.                             *)
LEMMA SamePoint ==
  ASSUME Kept, Gone' <=> Gone
  PROVE  /\ \A p, k : At(p, k)' <=> At(p, k)
         /\ StartGoes' <=> StartGoes
         /\ IntGoes' <=> IntGoes
         /\ WorkGoes' <=> WorkGoes
         /\ IntWaits' <=> IntWaits
         /\ QuietAt' <=> QuietAt
         /\ SureAt' <=> SureAt
         /\ IdleAt' <=> IdleAt
         /\ StartedAt' <=> StartedAt
         /\ CleanAt' <=> CleanAt
         /\ ModelRead' <=> ModelRead
         /\ UsesModel' <=> UsesModel
         /\ \A a : Given(a)' <=> Given(a)
         /\ prog' = prog /\ left' = left /\ result' = result /\ rcfg' = rcfg /\ input' = input /\ fn' = fn
<1>1. prog' = prog /\ left' = left /\ result' = result /\ rcfg' = rcfg /\ input' = input /\ fn' = fn
  BY DEF Kept
<1>2. \A p, k : At(p, k)' <=> At(p, k)
  BY <1>1 DEF At
<1> QED
  BY <1>1, <1>2 DEF StartGoes, IntGoes, WorkGoes, IntWaits, QuietAt, SureAt, IdleAt,
                    StartedAt, CleanAt, ModelRead, UsesModel, Given

(* A step of the library that moves nothing.                               *)
LEMMA StayKeeps == ASSUME PBase, PInv, VStay PROVE PInv'
<1>0. Same /\ Kept /\ (Gone' <=> Gone) /\ polls' = 0 /\ rcfg' = rcfg /\ input' = input
  BY DEF VStay, Kept
<1>1. QuietInv'
  BY <1>0, SamePoint, SameFacts DEF QuietInv, PInv, VStay
<1>2. ReplyInv' /\ CmdInv'
  <2>1. remote' = remote
    BY <1>0 DEF Same
  <2> QED
    BY <1>0, <2>1, SamePoint, SameFacts DEF ReplyInv, CmdInv, PInv
<1>3. FpgaInv'
  <2>1. remote' = remote /\ fpga' = fpga
    BY <1>0 DEF Same
  <2> QED
    BY <1>0, <2>1, SamePoint, SameFacts DEF FpgaInv, PInv
<1>4. ControlInv'
  <2>1. cmds' = cmds
    BY <1>0 DEF Same
  <2> QED
    BY <1>0, <2>1, SamePoint, SameFacts DEF ControlInv, PInv
<1>5. InputInv' /\ CompressInv' /\ ResultInv'
  <2>1. mirror' = mirror
    BY <1>0 DEF Same
  <2>2. InputInv'
    BY <1>0, SamePoint, SameFacts DEF InputInv, PInv
  <2>3. CompressInv'
    BY <1>0, <2>1, SamePoint, SameFacts DEF CompressInv, PInv
  <2>4. ResultInv'
    BY <1>0, <2>1, SamePoint, SameFacts DEF ResultInv, PInv
  <2> QED
    BY <2>2, <2>3, <2>4
<1> QED
  BY <1>1, <1>2, <1>3, <1>4, <1>5 DEF PInv

(* The program and the rest of the call, as numbers.                       *)
LEMMA Where ==
  ASSUME PBase
  PROVE  /\ CtlInv /\ prog \in Progs /\ left \in Nat /\ N \in Nat /\ 1 <= N
         /\ InfoCount \in Nat /\ 1 <= InfoCount /\ InfoCount <= N
         /\ prog = "work" => left > N + 12 /\ left <= N + 17 /\ fn = "compress"
         /\ prog # "work" => fn = prog
         /\ prog = "none" => left = 0
         /\ prog = "compress" => left <= N + 16
         /\ prog = "interrupt" => left <= 4
         /\ prog \in Infos => left <= InfoCount + 1
         /\ prog \in {"status", "bitstream", "model"} => left <= 2
<1>1. CtlInv
  BY DEF PBase, CInv, CBase, ClientOK
<1> QED
  BY <1>1, TodoIs, Registers DEF Size, Infos

(* The application calls a function.                                       *)
LEMMA BeginKeeps ==
  ASSUME PBase, PInv, NEW p \in Functions, Begun(p)
  PROVE  PInv'
<1>0. /\ left = 0 /\ prog' = p /\ left' = Size(p) /\ result' = 0 /\ busy' = FALSE
      /\ polls' = 0 /\ Same /\ UNCHANGED <<mirror, cmds, replies, remote, fpga>>
  BY DEF Begun, Still, xvars, vars, link, Same
<1>1. ~Gone'
  BY <1>0 DEF Gone
<1>w. /\ prog \in Progs \ {"work"} /\ fn = prog /\ N \in Nat /\ 1 <= N
      /\ InfoCount \in Nat /\ 1 <= InfoCount
  BY <1>0, Where
<1>i. QuietInv /\ ReplyInv /\ CmdInv /\ FpgaInv /\ ControlInv /\ InputInv /\ ResultInv
  BY DEF PInv
<1>2. result = 0 => Quiet /\ Cmds = {} /\ Replies = {}
  BY <1>0, <1>i, QuietSets DEF QuietInv, QuietAt, PBase
<1>3. prog = "status" => result = 0
  BY <1>i DEF QuietInv
<1>4. NoControl /\ ~ModelRead
  BY <1>0, <1>i, <1>w DEF ControlInv, StartGoes, IntGoes, WorkGoes, ModelRead
<1>5. Cmds' = Cmds /\ Replies' = Replies /\ (Quiet' <=> Quiet) /\ (Idle' <=> Idle)
      /\ (Active' <=> Active) /\ NoControl'
  BY <1>0, <1>4 DEF Cmds, Replies, Quiet, Idle, Active, NoControl
<1>6. /\ \A c \in Cmds : c.addr # STATUS
      /\ \A r \in Replies : r.data # <<>> => r.addr # STATUS
  BY <1>2, <1>3, <1>i DEF ReplyInv, CmdInv
<1>7. ReplyInv'
  BY <1>0, <1>4, <1>5, <1>6, <1>i DEF ReplyInv
<1>8. CmdInv'
  <2>1. p = "status" => Cmds = {}
    BY <1>2 DEF Begun, Returned
  <2> QED
    BY <1>0, <1>4, <1>5, <1>6, <1>i, <2>1 DEF CmdInv
<1>u. ~Up(START)' /\ ~Writing(DataWord)' /\ ~Writing(ModelWord)'
  <2>1. ~Up(START) /\ ~Writing(DataWord) /\ ~Writing(ModelWord)
    BY <1>0, <1>i DEF ControlInv, InputInv
  <2> QED
    BY <1>0, <1>5, <2>1 DEF Up, Writing
<1>9. CASE p = "compress"
  <2>1. left' = N + 16
    BY <1>0, <1>9 DEF Size, Infos
  <2>2. Idle
    <3>1. prog \in {"none", "interrupt", "error_info", "bitstream", "model"} \/ result # 0
      BY <1>9, <1>w DEF Begun, MayCompress
    <3>2. IdleAt
      BY <1>0, <1>3, <1>w, <3>1 DEF IdleAt, Progs, Infos
    <3> QED
      BY <1>i, <3>2 DEF FpgaInv
  <2>3. QuietInv'
    BY <1>0, <1>9, <1>w, <2>1 DEF QuietInv, QuietAt, SureAt, At
  <2>4. FpgaInv'
    BY <1>0, <1>5, <1>9, <1>w, <1>i, <2>1, <2>2
       DEF FpgaInv, IntWaits, IntGoes, StartedAt, WorkGoes, CleanAt, At
  <2>5. ControlInv'
    BY <1>0, <1>5, <1>9, <1>w, <1>u, <2>1 DEF ControlInv, StartGoes, At
  <2>6. CompressInv' /\ ResultInv'
    BY <1>0, <1>1, <1>9, <1>w, <2>1 DEF CompressInv, ResultInv, ModelRead, At
  <2>7. InputInv'
    <3>1. input' = [data |-> Meant(rcfg'.data, DataAddr), model |-> Meant(rcfg'.model, ModelAddr)]
      BY <1>9 DEF Begun
    <3>2. /\ rcfg'.data # NULL => input'.data = rcfg'.data
          /\ rcfg'.model # NULL => input'.model = rcfg'.model
          /\ rcfg'.data = NULL => input'.data = remote[DataWord]
          /\ rcfg'.model = NULL => input'.model = remote[ModelWord]
      BY <3>1 DEF Meant, DataWord, ModelWord
    <3>3. (rcfg.data = NULL => DataThere)' /\ (rcfg.model = NULL => ModelThere)'
      BY <1>0, <3>2 DEF DataThere, ModelThere
    <3> QED
      BY <1>u, <3>2, <3>3 DEF InputInv
  <2> QED
    BY <1>7, <1>8, <2>3, <2>4, <2>5, <2>6, <2>7 DEF PInv
<1>10. CASE p # "compress"
  <2>0. /\ rcfg' = rcfg /\ input' = input
        /\ p = "interrupt" => left' = 4
        /\ p \in {"status", "bitstream", "model"} => left' = 2
        /\ p \in Infos => left' = InfoCount + 1
        /\ p \in {"interrupt", "status", "bitstream", "model"} \cup Infos
    BY <1>0, <1>10 DEF Begun, Functions, Size, Infos
  <2>1. /\ Finished' <=> Finished
        /\ Started' <=> Started
        /\ InfoFresh' <=> InfoFresh
        /\ UsesModel' <=> UsesModel
        /\ \A w : Fresh(w)' <=> Fresh(w)
    BY <1>0, <2>0, SameFacts DEF UsesModel
  <2>2. QuietInv'
    <3>1. p = "status" => Quiet
      BY <1>2 DEF Begun, Returned
    <3> QED
      BY <1>0, <1>5, <1>w, <2>0, <3>1 DEF QuietInv, QuietAt, SureAt, At, Infos
  <2>r. /\ p = "info" => At("status", 0) /\ mirror[STATUS] = READY
        /\ p = "error_info" => At("interrupt", 0)
        /\ p = "bitstream" => At("info", 0) /\ result = 0
        /\ p = "model" => At("bitstream", 0) /\ result = 0 /\ UsesModel
    BY <1>0, <1>w DEF Begun, SeenReady, Returned, At, UsesModel
  <2>3. FpgaInv'
    <3>1. p = "interrupt" => Idle \/ Quiet
      <4>1. IdleAt \/ result = 0
        BY <1>0, <1>3, <1>w DEF IdleAt, Progs, Infos
      <4> QED
        BY <1>2, <1>i, <4>1 DEF FpgaInv
    <3>2. p = "status" => Started
      <4>1. p = "status" => prog \in {"compress", "status"} /\ result = 0
        BY <1>w DEF Begun, Returned
      <4> QED
        BY <1>0, <1>i, <4>1 DEF FpgaInv, StartedAt, At
    <3>3. p \in {"info", "bitstream", "model"} => Finished
      BY <1>i, <2>r DEF FpgaInv, ResultInv, At
    <3>4. Finished => Idle
      BY DEF Finished
    <3>5. p = "error_info" => Idle
      BY <1>i, <2>r DEF FpgaInv, IdleAt, At
    <3>6. IdleAt' => p \in {"bitstream", "model"} \cup Infos
      BY <1>0, <1>w, <2>0 DEF IdleAt, Infos
    <3>7. IdleAt' => Idle
      BY <3>3, <3>4, <3>5, <3>6 DEF Infos
    <3>8. ~IntGoes' /\ ~WorkGoes' /\ ~CleanAt' /\ (StartedAt' => p = "status")
          /\ (IntWaits' => p = "interrupt")
      BY <1>0, <1>w, <2>0 DEF IntGoes, WorkGoes, CleanAt, StartedAt, IntWaits, At, Infos
    <3> QED
      BY <1>0, <1>5, <1>i, <2>1, <2>r, <3>1, <3>2, <3>3, <3>7, <3>8 DEF FpgaInv
  <2>4. ControlInv'
    BY <1>0, <1>5, <1>u, <1>w, <2>0 DEF ControlInv, StartGoes, At, NoControl, Infos
  <2>5. CompressInv' /\ InputInv'
    BY <1>0, <1>10, <1>u, <2>0 DEF CompressInv, InputInv, Infos
  <2>6. ResultInv'
    <3>1. p \in {"bitstream", "model"} => InfoFresh
      BY <1>i, <2>r DEF ResultInv, At
    <3>2. p = "model" => Fresh(CmpWord)
      BY <1>i, <2>r DEF ResultInv, At
    <3>3. ~ModelRead'
      BY <1>0, <1>1, <2>0 DEF ModelRead
    <3> QED
      BY <1>0, <1>1, <1>w, <2>0, <2>1, <3>1, <3>2, <3>3 DEF ResultInv, At
  <2> QED
    BY <1>7, <1>8, <2>2, <2>3, <2>4, <2>5, <2>6 DEF PInv
<1> QED
  BY <1>9, <1>10

(* The function returns an error, its last register or word not sent.      *)
LEMMA AbortKeeps == ASSUME PBase, PInv, VAbort PROVE PInv'
<1>0. /\ left > 0 /\ Same /\ Aborted /\ polls' = 0 /\ rcfg' = rcfg /\ input' = input /\ busy' = FALSE
      /\ UNCHANGED <<mirror, cmds, replies, remote, fpga>>
  BY DEF VAbort, Aborted, Same
<1>i. /\ QuietInv /\ ReplyInv /\ CmdInv /\ FpgaInv /\ ControlInv /\ InputInv /\ CompressInv
      /\ ResultInv
  BY DEF PInv
<1>n. N \in Nat /\ 1 <= N /\ InfoCount \in Nat /\ left \in Nat
  BY Where
<1>1. \/ prog = "compress" /\ left > 11
      \/ prog = "compress" /\ left > 3 /\ Mtu % 4 # 0
      \/ At("interrupt", 3) /\ ~Gone /\ ~Quiet
      \/ prog \in Infos \/ prog = "bitstream"
      \/ At("model", 2) /\ ~Gone
  <2>1. ~SureAt \/ next.op = "check"
    BY <1>i DEF VAbort, QuietInv
  <2>2. CASE next.op = "check"
    BY <1>0, <1>n, <2>2, Where, OpTable DEF At
  <2>3. CASE next.op \in Kind /\ ~SureAt
    BY <1>0, <1>n, <2>3, Where, OpTable DEF At, VAbort, SureAt, Hands, Kind
  <2>4. CASE next.op \in {"send", "fetch"}
    BY <1>0, <1>n, <2>4, Where, OpTable DEF At, VAbort, Kind
  <2> QED
    BY <2>1, <2>2, <2>3, <2>4 DEF VAbort, Hands
<1>2. /\ prog' = prog /\ left' = 0 /\ result' = -1
      /\ prog \in {"compress", "interrupt", "bitstream", "model"} \cup Infos
  BY <1>0, <1>1, Where DEF Aborted, At, Infos
<1>u. ~ModelRead /\ ~ModelRead' /\ ~Up(START) /\ ~Writing(DataWord) /\ ~Writing(ModelWord)
  <2>1. ~ModelRead /\ ~ModelRead'
    BY <1>1, <1>2 DEF ModelRead, At, Infos
  <2>2. ~Up(START)
    BY <1>1, <1>n, <1>i DEF ControlInv, At, Infos
  <2> QED
    BY <1>1, <1>n, <1>i, <2>1, <2>2 DEF InputInv, At, Infos
<1>3. QuietInv'
  BY <1>0, <1>2, <1>n DEF QuietInv, QuietAt, SureAt, At, Infos
<1>4. ReplyInv' /\ CmdInv'
  BY <1>0, <1>2, <1>i, <1>u, SameFacts DEF ReplyInv, CmdInv
<1>5. FpgaInv'
  <2>1. Idle
    BY <1>1, <1>n, <1>i DEF FpgaInv, IdleAt, IntWaits, At
  <2>2. UsesModel' <=> UsesModel
    BY <1>0 DEF UsesModel
  <2> QED
    BY <1>0, <1>2, <1>n, <1>i, <2>1, <2>2, SameFacts
       DEF FpgaInv, IntWaits, IntGoes, StartedAt, WorkGoes, CleanAt, At, Infos
<1>6. ControlInv'
  <2>1. NoControl
    BY <1>1, <1>n, <1>i DEF ControlInv, StartGoes, IntGoes, WorkGoes, At, Infos
  <2> QED
    BY <1>0, <1>2, <1>n, <1>u, <2>1, SameFacts DEF ControlInv, StartGoes, At, NoControl, Infos
<1>7. CompressInv' /\ ResultInv'
  <2>1. CompressInv'
    BY <1>0, <1>2, <1>n DEF CompressInv
  <2>2. /\ prog \in {"bitstream", "model"} => InfoFresh
        /\ prog = "model" => Fresh(CmpWord)
    BY <1>i DEF ResultInv
  <2>3. (InfoFresh' <=> InfoFresh) /\ (Fresh(CmpWord)' <=> Fresh(CmpWord))
    BY <1>0, SameFacts
  <2> QED
    BY <1>2, <1>u, <2>1, <2>2, <2>3 DEF ResultInv, At, Infos
<1>8. InputInv'
  <2>1. prog = "compress" => /\ rcfg.data # NULL => input.data = rcfg.data
                             /\ rcfg.model # NULL => input.model = rcfg.model
    BY <1>i DEF InputInv
  <2> QED
    BY <1>0, <1>2, <1>u, <2>1, SameFacts DEF InputInv, Infos
<1> QED
  BY <1>3, <1>4, <1>5, <1>6, <1>7, <1>8 DEF PInv

(* The work-around begins, after a raw compression.                        *)
LEMMA WorkKeeps == ASSUME PBase, PInv, VWork PROVE PInv'
<1>0. /\ left > 0 /\ Same /\ polls' = 0 /\ rcfg' = rcfg /\ input' = input /\ busy' = FALSE /\ result' = result
      /\ prog' = "work" /\ left' = N + 17 /\ ~Gone'
      /\ UNCHANGED <<mirror, cmds, replies, remote, fpga>>
  BY DEF VWork, WorkBegun, Same
<1>i. QuietInv /\ ReplyInv /\ CmdInv /\ FpgaInv /\ ControlInv /\ InputInv
  BY DEF PInv
<1>n. N \in Nat /\ 1 <= N
  BY Where
<1>1. prog = "compress" /\ left = N + 13
  BY <1>0, Where, OpTable DEF VWork, At
<1>2. Quiet /\ Idle /\ result = 0 /\ Cmds = {} /\ Replies = {}
  BY <1>0, <1>1, <1>i, <1>n, QuietSets DEF QuietInv, QuietAt, FpgaInv, IdleAt, PBase
<1>3. QuietInv'
  BY <1>0, <1>2, <1>n, SameFacts DEF QuietInv, QuietAt, SureAt, At
<1>4. ReplyInv' /\ CmdInv'
  BY <1>0, <1>2, SameFacts DEF ReplyInv, CmdInv
<1>5. FpgaInv'
  BY <1>0, <1>2, <1>n, <1>i, SameFacts
     DEF FpgaInv, IntWaits, IntGoes, StartedAt, WorkGoes, CleanAt, At
<1>6. ControlInv'
  <2>1. ~Up(START)
    BY <1>1, <1>n, <1>i DEF ControlInv
  <2> QED
    BY <1>0, <1>2, <1>n, <2>1, SameFacts DEF ControlInv, StartGoes, At, NoControl
<1>7. CompressInv' /\ ResultInv'
  BY <1>0, <1>n DEF CompressInv, ResultInv, ModelRead, At
<1>8. InputInv'
  BY <1>0, <1>1, <1>2, <1>n, <1>i, SameFacts DEF InputInv, Writing
<1> QED
  BY <1>3, <1>4, <1>5, <1>6, <1>7, <1>8 DEF PInv

(* On a quiet link what was coming has come.                               *)
LEMMA QuietMeans ==
  ASSUME PBase, Quiet
  PROVE  /\ Cmds = {} /\ Replies = {} /\ NoControl /\ ~HasInt
         /\ \A w : (Coming(w) => Fresh(w)) /\ (Arriving(w) => Fresh(w)) /\ ~Writing(w)
         /\ StatusTold /\ mirror[STATUS] = READY => Finished
<1>1. Cmds = {} /\ Replies = {}
  BY QuietSets DEF PBase
<1> QED
  BY <1>1 DEF NoControl, HasInt, Coming, Arriving, HasData, Reading, Writing, StatusTold

(* An operation that is completed.                                         *)
LEMMA AdvPoint ==
  ASSUME PBase, left > 0, Adv
  PROVE  /\ polls' = 0 /\ rcfg' = rcfg /\ input' = input /\ result' = result /\ busy' = FALSE
         /\ left' = left - 1
         /\ prog' = IF prog = "work" /\ left = N + 13 THEN "compress" ELSE prog
         /\ UsesModel' <=> UsesModel
         /\ \A a : Given(a)' <=> Given(a)
BY DEF Adv, Advanced, UsesModel, Given

(* The buffers that are sent.                                              *)
LEMMA GivenIs ==
  /\ Given(DataAddr) <=> rcfg.data # NULL
  /\ Given(ModelAddr) <=> rcfg.model # NULL /\ UsesModel
BY AreaAssumption DEF Given, UsesModel

(* rdcu_syncing has seen every answer.                                     *)
LEMMA SyncedKeeps ==
  ASSUME PBase, PInv, VAdv, next.op = "syncing"
  PROVE  PInv'
<1>0. /\ left > 0 /\ Same /\ ~Gone' /\ Quiet
      /\ UNCHANGED <<mirror, cmds, replies, remote, fpga>>
  BY DEF VAdv, Same, Hands, Kind
<1>i. /\ QuietInv /\ ReplyInv /\ CmdInv /\ FpgaInv /\ ControlInv /\ InputInv /\ CompressInv
      /\ ResultInv
  BY DEF PInv
<1>w. /\ N \in Nat /\ 1 <= N /\ InfoCount \in Nat /\ left \in Nat /\ result = 0
      /\ \/ prog = "compress" /\ left \in {2, 6, 11, N + 14}
         \/ prog = "work" /\ left = N + 15
         \/ prog = "interrupt" /\ left = 2
         \/ prog \in {"status", "bitstream", "model"} \cup Infos /\ left = 1
  BY <1>0, <1>i, Where, OpTable DEF At, QuietInv
<1>a. /\ prog' = prog /\ left' = left - 1 /\ result' = 0 /\ busy' = FALSE /\ polls' = 0
      /\ rcfg' = rcfg /\ input' = input /\ (UsesModel' <=> UsesModel)
      /\ \A a : Given(a)' <=> Given(a)
  BY <1>0, <1>w, AdvPoint DEF VAdv
<1>q. /\ Cmds = {} /\ Replies = {} /\ NoControl /\ ~HasInt
      /\ \A w : (Coming(w) => Fresh(w)) /\ (Arriving(w) => Fresh(w)) /\ ~Writing(w)
      /\ StatusTold /\ mirror[STATUS] = READY => Finished
  BY <1>0, QuietMeans
<1>1. QuietInv'
  BY <1>0, <1>w, <1>a, SameFacts DEF QuietInv, QuietAt, SureAt, At, Infos
<1>2. ReplyInv' /\ CmdInv'
  BY <1>0, <1>a, <1>q, SameFacts DEF ReplyInv, CmdInv
<1>3. FpgaInv'
  <2>1. IdleAt' => Idle
    BY <1>a, <1>w, <1>q, <1>i DEF FpgaInv, IdleAt, IntGoes, Infos
  <2>2. StartedAt' => Started
    BY <1>0, <1>a, <1>w, <1>i DEF FpgaInv, StartedAt, At, ControlInv, StartGoes, Quiet, Infos
  <2>3. (prog \in {"info", "bitstream", "model"} => Finished) /\ (prog = "model" => UsesModel)
    BY <1>i DEF FpgaInv
  <2>4. CleanAt' => ~fpga.after_raw
    BY <1>a, <1>w, <1>q, <1>i DEF FpgaInv, CleanAt, WorkGoes, Infos
  <2>5. ~IntWaits' /\ ~IntGoes' /\ ~WorkGoes'
    BY <1>a, <1>w DEF IntWaits, IntGoes, WorkGoes, Infos
  <2> QED
    BY <1>0, <1>a, <1>i, <2>1, <2>2, <2>3, <2>4, <2>5, SameFacts DEF FpgaInv
<1>4. ControlInv'
  <2>1. Up(START) => prog = "compress" /\ left = 2
    BY <1>i, <1>w DEF ControlInv, Infos
  <2>2. ~StartGoes' /\ ~At("compress", 3)' /\ ~At("interrupt", 3)' /\ ~At("work", N + 16)'
    BY <1>0, <1>a, <1>w DEF StartGoes, At, Infos
  <2>3. Up(START)' => prog' = "compress" /\ left' \in 1 .. 3
    BY <1>0, <1>a, <1>w, <2>1, SameFacts
  <2>4. NoControl' /\ Cmds' = {}
    BY <1>0, <1>a, <1>q, SameFacts
  <2> QED
    BY <2>2, <2>3, <2>4 DEF ControlInv
<1>5. CompressInv'
  <2>1. CASE prog = "compress" /\ left = N + 14
    BY <1>0, <1>a, <1>w, <1>i, <1>q, <2>1, SameFacts DEF CompressInv
  <2>2. CASE prog = "compress" /\ left = 11
    <3>1. \A i \in 1 .. N : mirror[ConfigRegs[i]] = rcfg.regs[i] /\ Arriving(ConfigRegs[i])
      BY <1>w, <1>i, <2>2 DEF CompressInv
    <3>2. Configured
      BY <1>q, <3>1 DEF Configured, Fresh
    <3> QED
      BY <1>0, <1>a, <1>w, <1>q, <2>2, <3>2, SameFacts DEF CompressInv
  <2>3. CASE prog = "compress" /\ left = 6
    <3>1. /\ Configured
          /\ rcfg.data # NULL => mirror[DataWord] = rcfg.data /\ Arriving(DataWord)
          /\ rcfg.model # NULL /\ UsesModel =>
               mirror[ModelWord] = rcfg.model /\ Arriving(ModelWord)
      BY <1>w, <1>i, <2>3, GivenIs DEF CompressInv
    <3>2. /\ rcfg.data # NULL => input.data = rcfg.data
          /\ rcfg.model # NULL => input.model = rcfg.model
          /\ rcfg.data = NULL => DataThere
          /\ rcfg.model = NULL => ModelThere
      BY <1>i, <2>3 DEF InputInv
    <3>3. DataThere
      BY <1>q, <3>1, <3>2 DEF DataThere, Fresh
    <3>4. ModelThere
      BY <1>q, <3>1, <3>2 DEF ModelThere, Fresh
    <3> QED
      BY <1>0, <1>a, <1>w, <1>q, <2>3, <3>1, <3>3, <3>4, SameFacts DEF CompressInv
  <2>4. CASE prog = "compress" /\ left = 2
    BY <1>a, <1>w, <2>4 DEF CompressInv
  <2>5. CASE prog # "compress"
    BY <1>a, <2>5 DEF CompressInv
  <2> QED
    BY <1>w, <2>1, <2>2, <2>3, <2>4, <2>5 DEF Infos
<1>6. ResultInv'
  <2>1. ASSUME prog = "info" PROVE InfoFresh
    <3>1. left = 1 /\ \A i \in 1 .. InfoCount : i < InfoCount + 2 - 1
      BY <1>w, <2>1
    <3>2. \A i \in 1 .. InfoCount : Coming(InfoRegs[i])
      BY <1>i, <2>1, <3>1 DEF ResultInv
    <3> QED
      BY <1>q, <3>2 DEF InfoFresh
  <2>2. /\ prog = "bitstream" => Fresh(CmpWord)
        /\ prog \in {"bitstream", "model"} => InfoFresh
        /\ prog = "model" => Fresh(CmpWord) /\ Fresh(NewWord)
    BY <1>w, <1>i, <1>q DEF ResultInv, ModelRead, At
  <2>3. prog = "status" /\ mirror[STATUS] = READY => Finished
    BY <1>w, <1>i, <1>q DEF ResultInv, At
  <2>4. ~ModelRead'
    BY <1>0, <1>a, <1>w DEF ModelRead
  <2> QED
    BY <1>0, <1>a, <1>w, <2>1, <2>2, <2>3, <2>4, SameFacts DEF ResultInv, At, Infos
<1>7. InputInv'
  <2>1. left' > 5 => left > 5
    BY <1>a, <1>w
  <2> QED
    BY <1>0, <1>a, <1>i, <1>q, <2>1, SameFacts DEF InputInv
<1> QED
  BY <1>1, <1>2, <1>3, <1>4, <1>5, <1>6, <1>7 DEF PInv

(* Another operation is completed.                                         *)
LEMMA AdvKeeps ==
  ASSUME PBase, PInv, VAdv, next.op # "syncing"
  PROVE  PInv'
<1>0. /\ left > 0 /\ Same /\ ~Gone'
      /\ UNCHANGED <<mirror, cmds, replies, remote, fpga>>
  BY DEF VAdv, Same
<1>i. /\ QuietInv /\ ReplyInv /\ CmdInv /\ FpgaInv /\ ControlInv /\ InputInv /\ CompressInv
      /\ ResultInv
  BY DEF PInv
<1>w. /\ N \in Nat /\ 1 <= N /\ InfoCount \in Nat /\ left \in Nat /\ result = 0
      /\ \/ prog = "compress" /\ left = N + 16
         \/ prog = "compress" /\ left = N + 13 /\ mirror[InfoRegs[1]] # CMP_MODE_RAW
         \/ prog = "work" /\ left = N + 13
         \/ prog = "compress" /\ left = 7 /\ (Gone \/ ~Given(ModelAddr))
         \/ prog = "compress" /\ left = 9 /\ (Gone \/ ~Given(DataAddr))
         \/ Gone /\ \/ prog = "compress" /\ left \in {3, N + 15} \cup 12 .. (N + 11)
                    \/ prog = "work" /\ left = N + 16
                    \/ prog = "interrupt" /\ left = 3
                    \/ prog \in {"status", "bitstream", "model"} /\ left = 2
                    \/ prog \in Infos /\ left > 1
  <2>1. N \in Nat /\ 1 <= N /\ InfoCount \in Nat /\ left \in Nat /\ result = 0 /\ CtlInv
    BY <1>0, <1>i, Where DEF QuietInv
  <2>2. CASE next.op = "send" /\ ~Given(next.reg)
    <3>1. /\ At("compress", 7) \/ At("compress", 9)
          /\ next.reg = IF left > 8 THEN DataAddr ELSE ModelAddr
      BY <1>0, <2>1, <2>2, OpTable
    <3> QED
      BY <2>1, <2>2, <3>1 DEF At
  <2>3. CASE ~(next.op = "send" /\ ~Given(next.reg))
    BY <1>0, <2>1, <2>3, OpTable DEF At, VAdv, Hands, Kind
  <2> QED
    BY <2>2, <2>3
<1>a. /\ prog' = IF prog = "work" /\ left = N + 13 THEN "compress" ELSE prog
      /\ left' = left - 1 /\ result' = 0 /\ busy' = FALSE /\ polls' = 0 /\ rcfg' = rcfg /\ input' = input
      /\ UsesModel' <=> UsesModel
      /\ \A a : Given(a)' <=> Given(a)
  BY <1>0, <1>w, AdvPoint DEF VAdv
<1>q. QuietAt => Quiet
  BY <1>i DEF QuietInv
<1>r. ModelRead' <=> ModelRead
  BY <1>0, <1>a, <1>w DEF ModelRead, Infos
<1>1. QuietInv'
  <2>1. QuietAt' => QuietAt
    BY <1>0, <1>w, <1>a DEF QuietAt, At, Infos
  <2> QED
    BY <1>0, <1>a, <1>q, <2>1, SameFacts DEF QuietInv
<1>2. ReplyInv' /\ CmdInv'
  BY <1>0, <1>a, <1>i, <1>r, SameFacts DEF ReplyInv, CmdInv
<1>3. FpgaInv'
  <2>1. IdleAt' => Idle
    BY <1>a, <1>w, <1>i DEF FpgaInv, IdleAt, Infos
  <2>2. StartedAt' => Started
    BY <1>0, <1>a, <1>w, <1>i DEF FpgaInv, StartedAt, At, Infos
  <2>3. (prog \in {"info", "bitstream", "model"} => Finished) /\ (prog = "model" => UsesModel)
    BY <1>i DEF FpgaInv
  <2>4. CleanAt' => ~fpga.after_raw
    <3>1. prog = "compress" /\ left = N + 13 => ~fpga.after_raw
      BY <1>i, <1>w DEF FpgaInv, CompressInv, Fresh, Infos
    <3> QED
      BY <1>a, <1>w, <1>i, <3>1 DEF FpgaInv, CleanAt, Infos
  <2>5. (IntGoes' => IntGoes) /\ (WorkGoes' => WorkGoes) /\ ~IntWaits'
    BY <1>a, <1>w DEF IntWaits, IntGoes, WorkGoes, Infos
  <2> QED
    BY <1>0, <1>a, <1>i, <2>1, <2>2, <2>3, <2>4, <2>5, SameFacts DEF FpgaInv
<1>4. ControlInv'
  <2>1. ~(StartGoes' \/ IntGoes' \/ WorkGoes') => NoControl
    BY <1>a, <1>w, <1>i DEF ControlInv, StartGoes, IntGoes, WorkGoes, Infos
  <2>2. StartGoes' => StartGoes
    BY <1>a, <1>w DEF StartGoes, Infos
  <2>3. prog' \in {"interrupt", "work"} => prog \in {"interrupt", "work"}
    BY <1>a
  <2>4. ~(At("compress", 3)' \/ At("interrupt", 3)' \/ At("work", N + 16)')
    BY <1>a, <1>w DEF At, Infos
  <2>5. Up(START) => prog' = "compress" /\ left' \in 1 .. 3
    BY <1>a, <1>w, <1>i DEF ControlInv, Infos
  <2> QED
    BY <1>0, <1>a, <1>i, <2>1, <2>2, <2>3, <2>4, <2>5, SameFacts DEF ControlInv
<1>5. CompressInv'
  <2>1. CASE prog = "compress" /\ left \in 12 .. (N + 11)
    BY <1>0, <1>a, <1>w, <1>i, <2>1, SameFacts DEF CompressInv, Infos
  <2>2. CASE prog = "compress" /\ left \in {7, 9}
    <3>1. left = 9 /\ Given(DataAddr) => Gone
      BY <1>w, <2>2 DEF Infos
    <3>2. left = 7 /\ Given(ModelAddr) => Gone
      BY <1>w, <2>2 DEF Infos
    <3> QED
      BY <1>0, <1>a, <1>w, <1>i, <2>2, <3>1, <3>2, SameFacts DEF CompressInv
  <2>3. CASE prog = "compress" /\ left = N + 15
    BY <1>0, <1>a, <1>w, <1>i, <2>3, SameFacts DEF CompressInv, Infos
  <2>4. CASE left' \in {2, N + 12, N + 15} \/ prog' # "compress"
    BY <1>0, <1>w, <2>4 DEF CompressInv
  <2> QED
    BY <1>a, <1>w, <2>1, <2>2, <2>3, <2>4 DEF Infos
<1>6. ResultInv'
  <2>1. CASE prog = "info"
    BY <1>0, <1>a, <1>w, <1>i, <1>r, <2>1, SameFacts DEF ResultInv, At, Infos
  <2>2. CASE prog \in {"bitstream", "status", "model"}
    <3>1. Gone /\ left = 2 /\ left' = 1 /\ prog' = prog
      BY <1>a, <1>w, <2>2 DEF Infos
    <3> QED
      BY <1>0, <1>a, <1>i, <1>r, <2>2, <3>1, SameFacts DEF ResultInv, At
  <2>3. CASE prog \notin {"info", "bitstream", "status", "model"}
    BY <1>a, <2>3 DEF ResultInv, ModelRead, At
  <2> QED
    BY <2>1, <2>2, <2>3
<1>7. InputInv'
  <2>1. (left' > 5 => left > 5) /\ (prog' \in {"compress", "work"} <=> prog \in {"compress", "work"})
    BY <1>a, <1>w
  <2>2. prog = "compress" /\ left \in 6 .. 9 => prog' = "compress" /\ left' \in 6 .. 9
    BY <1>a, <1>w DEF Infos
  <2>3. prog = "compress" /\ left \in 6 .. 7 => prog' = "compress" /\ left' \in 6 .. 7
    BY <1>a, <1>w DEF Infos
  <2> QED
    BY <1>0, <1>a, <1>i, <2>1, <2>2, <2>3, SameFacts DEF InputInv
<1> QED
  BY <1>1, <1>2, <1>3, <1>4, <1>5, <1>6, <1>7 DEF PInv

(* What the mirror has no part in.                                         *)
LEMMA MirrorApart ==
  ASSUME UNCHANGED <<cmds, replies, remote, fpga>>, rcfg' = rcfg /\ input' = input
  PROVE  /\ Cmds' = Cmds /\ Replies' = Replies
         /\ Quiet' <=> Quiet
         /\ Idle' <=> Idle
         /\ Active' <=> Active
         /\ Configured' <=> Configured
         /\ DataThere' <=> DataThere
         /\ ModelThere' <=> ModelThere
         /\ Finished' <=> Finished
         /\ Started' <=> Started
         /\ Ready' <=> Ready
         /\ HasInt' <=> HasInt
         /\ NoControl' <=> NoControl
         /\ \A w : Writing(w)' <=> Writing(w)
<1>1. Cmds' = Cmds /\ Replies' = Replies
  BY DEF Cmds, Replies
<1>2. /\ Quiet' <=> Quiet
      /\ Idle' <=> Idle
      /\ Active' <=> Active
      /\ Configured' <=> Configured
      /\ DataThere' <=> DataThere
      /\ ModelThere' <=> ModelThere
  BY DEF Quiet, Idle, Active, Configured, DataThere, ModelThere, UsesModel
<1>3. Finished' <=> Finished
  BY DEF Finished, Idle, UsesModel
<1> QED
  BY <1>1, <1>2, <1>3 DEF Started, Ready, Placed, HasInt, NoControl, Writing

(* The configuration registers differ, and so do the information           *)
(* registers: each has its index.                                          *)
LEMMA IndexOf ==
  /\ \A j \in 1 .. N :
       (CHOOSE i \in 1 .. Len(ConfigRegs) : ConfigRegs[i] = ConfigRegs[j]) = j
  /\ \A j \in 1 .. InfoCount :
       (CHOOSE i \in 1 .. Len(InfoRegs) : InfoRegs[i] = InfoRegs[j]) = j
<1>1. /\ \A i, j \in 1 .. N : ConfigRegs[i] = ConfigRegs[j] => i = j
      /\ \A i, j \in 1 .. InfoCount : InfoRegs[i] = InfoRegs[j] => i = j
  BY RegAssumption DEF N, InfoCount
<1> QED
  BY <1>1 DEF N, InfoCount

(* What an operation writes to the mirror.                                 *)
LEMMA Written ==
  ASSUME PBase, VLocal
  PROVE  /\ prog = "compress" /\ left = 4 => Up(START)'
         /\ (prog = "interrupt" /\ left = 4) \/ (prog = "work" /\ left = N + 17)
              => Up(INTERRUPT)'
         /\ Up(START)' => At("compress", 4) \/ (Up(START) /\ ~At("compress", 1))
         /\ At("compress", 10) /\ Given(DataAddr) => mirror'[DataWord] = rcfg.data
         /\ At("compress", 8) => mirror'[DataWord] = mirror[DataWord]
         /\ At("compress", 8) /\ Given(ModelAddr) => mirror'[ModelWord] = rcfg.model
<1>0. /\ left > 0 /\ mirror' = LocalValue(mirror) /\ Head(todo) = next
      /\ next.op \in {"set", "clear", "irq", "store"}
  BY DEF VLocal
<1>1. /\ mirror \in [Addr -> Value] /\ CTRL \in Addr /\ mirror[CTRL] \in Nat
      /\ DataWord \in Addr /\ ModelWord \in Addr
      /\ CTRL \notin {DataWord, ModelWord} /\ DataWord # ModelWord
      /\ DataAddr # ModelAddr /\ CtlInv
  BY Registers, WordsApart, WordAssumption, AreaAssumption, Where
     DEF PBase, CInv, CBase, MemInv, TypeOK
<1>2. ASSUME next.op = "set" PROVE mirror'[CTRL] = SetBit(mirror[CTRL], next.bit)
  BY <1>0, <1>1, <1>2 DEF LocalValue
<1>3. ASSUME prog = "compress", left = 4 PROVE Up(START)'
  <2>1. next.op = "set" /\ next.bit = START
    BY <1>0, <1>3, Where, OpTable DEF At
  <2> QED
    BY <1>1, <1>2, <2>1, Bits DEF Up
<1>4. ASSUME (prog = "interrupt" /\ left = 4) \/ (prog = "work" /\ left = N + 17)
      PROVE  Up(INTERRUPT)'
  <2>1. next.op = "set" /\ next.bit = INTERRUPT
    BY <1>0, <1>4, Where, OpTable DEF At
  <2> QED
    BY <1>1, <1>2, <2>1, Bits DEF Up
<1>5. Up(START)' => At("compress", 4) \/ (Up(START) /\ ~At("compress", 1))
  <2>1. CASE next.op = "set"
    <3>1. At("compress", 4) \/ (next.bit = INTERRUPT /\ ~At("compress", 1))
      BY <1>0, <1>1, <2>1, OpTable DEF At
    <3> QED
      BY <1>1, <1>2, <2>1, <3>1, Bits DEF Up
  <2>2. CASE next.op = "clear"
    <3>1. mirror'[CTRL] = ClearBit(mirror[CTRL], next.bit)
      BY <1>0, <1>1, <2>2 DEF LocalValue
    <3>2. next.bit = START \/ (next.bit = INTERRUPT /\ ~At("compress", 1))
      BY <1>0, <1>1, <2>2, OpTable DEF At
    <3> QED
      BY <1>1, <3>1, <3>2, Bits DEF Up
  <2>3. CASE next.op = "irq"
    <3>1. mirror'[CTRL] \in {SetBit(mirror[CTRL], IRQ_ENABLE), ClearBit(mirror[CTRL], IRQ_ENABLE)}
      BY <1>0, <1>1, <2>3 DEF LocalValue
    <3>2. ~At("compress", 1)
      BY <1>0, <1>1, <2>3, OpTable DEF At
    <3> QED
      BY <1>1, <3>1, <3>2, Bits DEF Up
  <2>4. CASE next.op = "store"
    <3>1. next.reg \in {DataAddr, ModelAddr} /\ ~At("compress", 1)
      BY <1>0, <1>1, <2>4, OpTable DEF At
    <3>2. mirror'[CTRL] = mirror[CTRL]
      BY <1>0, <1>1, <2>4, <3>1 DEF LocalValue, DataWord, ModelWord
    <3> QED
      BY <3>1, <3>2 DEF Up
  <2> QED
    BY <1>0, <2>1, <2>2, <2>3, <2>4
<1>6. ASSUME At("compress", 10), Given(DataAddr) PROVE mirror'[DataWord] = rcfg.data
  <2>1. next.op = "store" /\ next.reg = DataAddr
    BY <1>0, <1>1, <1>6, OpTable DEF At
  <2> QED
    BY <1>0, <1>1, <1>6, <2>1 DEF LocalValue, DataWord, Buffer
<1>7. ASSUME At("compress", 8)
      PROVE  /\ mirror'[DataWord] = mirror[DataWord]
             /\ Given(ModelAddr) => mirror'[ModelWord] = rcfg.model
  <2>1. next.op = "store" /\ next.reg = ModelAddr
    BY <1>0, <1>1, <1>7, OpTable DEF At
  <2> QED
    BY <1>0, <1>1, <2>1 DEF LocalValue, DataWord, ModelWord, Buffer
<1> QED
  BY <1>3, <1>4, <1>5, <1>6, <1>7

(* The client writes to its mirror.                                        *)
LEMMA LocalKeeps == ASSUME PBase, PInv, VLocal PROVE PInv'
<1>0. left > 0 /\ UNCHANGED <<cmds, replies, remote, fpga>> /\ Adv /\ ~Gone'
  BY DEF VLocal
<1>i. QuietInv /\ ReplyInv /\ CmdInv /\ FpgaInv /\ ControlInv /\ InputInv /\ CompressInv
  BY DEF PInv
<1>w. /\ N \in Nat /\ 1 <= N /\ left \in Nat /\ result = 0
      /\ \/ prog = "compress" /\ left \in {1, 4, 5, 8, 10}
         \/ prog = "work" /\ left \in {N + 14, N + 17}
         \/ prog = "interrupt" /\ left \in {1, 4}
  BY <1>0, <1>i, Where, OpTable DEF At, QuietInv, VLocal
<1>a. /\ prog' = prog /\ left' = left - 1 /\ result' = 0 /\ busy' = FALSE /\ polls' = 0
      /\ rcfg' = rcfg /\ input' = input /\ (UsesModel' <=> UsesModel)
      /\ \A a : Given(a)' <=> Given(a)
  BY <1>0, <1>w, AdvPoint
<1>q. \/ prog = "interrupt" /\ left = 4
      \/ prog = "compress" /\ left = 8
      \/ Quiet /\ Cmds = {} /\ Replies = {}
  BY <1>w, <1>i, QuietSets DEF QuietInv, QuietAt, At, PBase
<1>r. ~ModelRead' /\ ~ModelRead
  BY <1>0, <1>a, <1>w DEF ModelRead
<1>1. QuietInv'
  <2>1. QuietAt' => Quiet
    BY <1>0, <1>a, <1>w, <1>q DEF QuietAt, At
  <2> QED
    BY <1>0, <1>a, <2>1, MirrorApart DEF QuietInv
<1>2. ReplyInv' /\ CmdInv'
  BY <1>0, <1>a, <1>i, <1>r, MirrorApart DEF ReplyInv, CmdInv
<1>3. FpgaInv'
  <2>1. IdleAt' => Idle
    BY <1>a, <1>w, <1>i DEF FpgaInv, IdleAt, Infos
  <2>2. StartedAt' => Started
    BY <1>0, <1>a, <1>w, <1>i DEF FpgaInv, StartedAt, At
  <2>3. CleanAt' => ~fpga.after_raw
    BY <1>a, <1>w, <1>i DEF FpgaInv, CleanAt
  <2>4. ~IntGoes' /\ ~WorkGoes' /\ (IntWaits' => IntWaits)
    BY <1>0, <1>a, <1>w DEF IntWaits, IntGoes, WorkGoes
  <2> QED
    BY <1>0, <1>a, <1>w, <1>i, <2>1, <2>2, <2>3, <2>4, MirrorApart DEF FpgaInv
<1>4. ControlInv'
  <2>1. NoControl /\ ~StartGoes'
    BY <1>0, <1>a, <1>w, <1>i DEF ControlInv, StartGoes, IntGoes, WorkGoes
  <2>2. At("compress", 3)' => Ready /\ Up(START)'
    <3>1. ASSUME prog = "compress", left = 4 PROVE Ready
      BY <1>i, <1>w, <3>1 DEF FpgaInv, IdleAt, CleanAt, CompressInv, Ready, Placed
    <3> QED
      BY <1>a, <1>w, <3>1, Written DEF At
  <2>3. At("interrupt", 3)' \/ At("work", N + 16)' => Up(INTERRUPT)'
    BY <1>a, <1>w, Written DEF At
  <2>4. Up(START)' => prog' = "compress" /\ left' \in 1 .. 3
    <3>1. Up(START) => prog = "compress" /\ left = 1
      BY <1>w, <1>i DEF ControlInv
    <3> QED
      BY <1>a, <1>w, <3>1, Written DEF At
  <2> QED
    BY <1>0, <1>a, <2>1, <2>2, <2>3, <2>4, MirrorApart DEF ControlInv, NoControl
<1>5. CompressInv'
  <2>1. CASE prog = "compress" /\ left = 10
    <3>1. Given(DataAddr) => mirror'[DataWord] = rcfg.data
      BY <2>1, Written DEF At
    <3> QED
      BY <1>0, <1>a, <1>w, <1>q, <1>i, <2>1, <3>1, MirrorApart DEF CompressInv
  <2>2. CASE prog = "compress" /\ left = 8
    <3>1. /\ mirror'[DataWord] = mirror[DataWord]
          /\ Given(ModelAddr) => mirror'[ModelWord] = rcfg.model
      BY <2>2, Written DEF At
    <3>2. ~Writing(ModelWord)
      BY <1>i, <2>2 DEF InputInv
    <3>3. \A c \in Cmds : c.kind = "write" => c.addr = DataWord /\ c.data[1] = mirror[c.addr]
      <4>1. \A c \in Cmds : /\ c.addr \in {DataWord, ModelWord}
                            /\ c.kind = "write" => c.data[1] = mirror[c.addr]
        BY <1>w, <1>i, <2>2 DEF CompressInv
      <4> QED
        BY <3>2, <4>1 DEF Writing
    <3>4. Configured /\ \A c \in Cmds : c.addr \in {DataWord, ModelWord}
      BY <1>i, <2>2 DEF CompressInv
    <3>5. Given(DataAddr) => mirror[DataWord] = rcfg.data /\ Arriving(DataWord)
      BY <1>i, <2>2 DEF CompressInv
    <3>6. Arriving(DataWord)' <=> Arriving(DataWord)
      BY <1>0, <1>a, <3>1, MirrorApart DEF Arriving, Fresh
    <3>7. prog' = "compress" /\ left' = 7
      BY <1>a, <2>2
    <3> QED
      BY <1>0, <1>a, <1>w, <3>1, <3>3, <3>4, <3>5, <3>6, <3>7, MirrorApart DEF CompressInv
  <2>3. CASE prog = "compress" /\ left \in {1, 4, 5}
    BY <1>0, <1>a, <1>w, <1>q, <1>i, <2>3, MirrorApart DEF CompressInv
  <2>4. CASE prog # "compress"
    BY <1>a, <2>4 DEF CompressInv
  <2> QED
    BY <1>w, <2>1, <2>2, <2>3, <2>4
<1>6. ResultInv'
  BY <1>a, <1>w, <1>r DEF ResultInv, At
<1>7. InputInv'
  <2>1. left' > 5 => left > 5
    BY <1>a, <1>w
  <2>2. Writing(DataWord) => prog' = "compress" /\ left' \in 6 .. 9
    BY <1>a, <1>w, <1>i DEF InputInv
  <2>3. ~Writing(ModelWord)
    BY <1>w, <1>i DEF InputInv
  <2> QED
    BY <1>0, <1>a, <1>i, <2>1, <2>2, <2>3, MirrorApart DEF InputInv
<1> QED
  BY <1>1, <1>2, <1>3, <1>4, <1>5, <1>6, <1>7 DEF PInv

(* The setters write the configuration registers, or stop at a refused one.*)
LEMMA LoadKeeps == ASSUME PBase, PInv, VLoad PROVE PInv'
<1>0. /\ left > 0 /\ UNCHANGED <<cmds, replies, remote, fpga>> /\ ~Gone'
      /\ mirror' = LoadedMirror
      /\ IF rcfg.refused = 0 THEN Adv ELSE Aborted
  BY DEF VLoad
<1>i. QuietInv /\ ReplyInv /\ CmdInv /\ FpgaInv /\ ControlInv /\ InputInv
  BY DEF PInv
<1>w. /\ N \in Nat /\ 1 <= N /\ left \in Nat /\ result = 0
      /\ prog = "compress" /\ left = N + 12 /\ fn = "compress"
  BY <1>0, <1>i, Where, OpTable DEF At, QuietInv, VLoad
<1>a. /\ prog' = "compress" /\ busy' = FALSE /\ polls' = 0
      /\ rcfg' = rcfg /\ input' = input
      /\ \/ left' = N + 11 /\ result' = 0 /\ rcfg.refused = 0
         \/ left' = 0 /\ result' = -1
  <2>1. CASE rcfg.refused = 0
    BY <1>0, <1>w, <2>1, AdvPoint
  <2>2. CASE rcfg.refused # 0
    BY <1>0, <1>w, <2>2 DEF Aborted
  <2> QED
    BY <2>1, <2>2
<1>g. \A a : Given(a)' <=> Given(a)
  BY <1>a DEF Given
<1>q. Quiet /\ Cmds = {} /\ Replies = {}
  BY <1>w, <1>i, QuietSets DEF QuietInv, QuietAt, At, PBase
<1>f. Idle /\ ~fpga.after_raw
  BY <1>w, <1>i DEF FpgaInv, IdleAt, CleanAt
<1>m. /\ mirror'[CTRL] = mirror[CTRL]
      /\ rcfg.refused = 0 => \A i \in 1 .. N : mirror'[ConfigRegs[i]] = rcfg.regs[i]
  <2>1. /\ mirror \in [Addr -> Value] /\ CTRL \in Addr
        /\ \A i \in 1 .. N : ConfigRegs[i] \in Addr /\ ConfigRegs[i] # CTRL
    <3>1. mirror \in [Addr -> Value]
      BY DEF PBase, CInv, CBase, MemInv, TypeOK
    <3>2. \A i \in 1 .. N : ConfigRegs[i] \in WriteWords /\ ConfigRegs[i] # CTRL
      BY WordsApart DEF WriteWords
    <3>3. CTRL \in WriteWords /\ WriteWords \subseteq Addr
      BY WordsApart DEF WriteWords
    <3> QED
      BY <3>1, <3>2, <3>3
  <2>2. \A i \in 1 .. Loaded : i \in 1 .. N
    <3>1. rcfg \in scenario.configs /\ scenario \in Scenarios
      BY <1>w DEF PBase, CInv, CBase, ClientOK
    <3>2. rcfg.refused \in 0 .. N
      BY <3>1, ScenarioAssumption DEF N
    <3> QED
      BY <1>w, <3>2 DEF Loaded, N
  <2>3. mirror'[CTRL] = mirror[CTRL]
    BY <1>0, <2>1, <2>2 DEF LoadedMirror
  <2>4. ASSUME rcfg.refused = 0, NEW j \in 1 .. N PROVE mirror'[ConfigRegs[j]] = rcfg.regs[j]
    <3>1. Loaded = Len(ConfigRegs) /\ j \in 1 .. Loaded
      BY <2>4 DEF Loaded, N
    <3>2. mirror'[ConfigRegs[j]] =
            rcfg.regs[CHOOSE i \in 1 .. Len(ConfigRegs) : ConfigRegs[i] = ConfigRegs[j]]
      BY <1>0, <2>1, <3>1 DEF LoadedMirror
    <3> QED
      BY <3>2, IndexOf
  <2> QED
    BY <2>3, <2>4
<1>1. QuietInv'
  BY <1>0, <1>a, <1>q, <1>w, MirrorApart DEF QuietInv, SureAt, At
<1>2. ReplyInv' /\ CmdInv'
  BY <1>0, <1>a, <1>q, MirrorApart DEF ReplyInv, CmdInv
<1>3. FpgaInv'
  <2>1. ~StartedAt'
    BY <1>a, <1>w DEF StartedAt, At
  <2> QED
    BY <1>0, <1>a, <1>f, <1>i, <2>1, MirrorApart DEF FpgaInv, IntWaits, IntGoes, WorkGoes
<1>4. ControlInv'
  <2>1. ~Up(START)'
    BY <1>m, <1>w, <1>i DEF ControlInv, Up
  <2>2. ~StartGoes' /\ ~At("compress", 3)'
    BY <1>a, <1>w DEF StartGoes, At
  <2> QED
    BY <1>0, <1>a, <1>q, <2>1, <2>2, MirrorApart DEF ControlInv, NoControl, At
<1>5. CompressInv'
  BY <1>0, <1>a, <1>m, <1>q, <1>w, MirrorApart DEF CompressInv
<1>6. ResultInv'
  BY <1>a DEF ResultInv, ModelRead, At
<1>7. InputInv'
  <2>1. left > 5 /\ ~Writing(DataWord)' /\ ~Writing(ModelWord)'
    BY <1>0, <1>a, <1>q, <1>w, MirrorApart DEF Writing
  <2> QED
    BY <1>0, <1>a, <1>i, <1>w, <2>1, MirrorApart DEF InputInv
<1> QED
  BY <1>1, <1>2, <1>3, <1>4, <1>5, <1>6, <1>7 DEF PInv

(* What neither the mirror nor the link has a part in.                     *)
LEMMA MemoryApart ==
  ASSUME UNCHANGED <<remote, fpga>>, rcfg' = rcfg /\ input' = input
  PROVE  /\ Idle' <=> Idle
         /\ Active' <=> Active
         /\ Configured' <=> Configured
         /\ DataThere' <=> DataThere
         /\ ModelThere' <=> ModelThere
         /\ Finished' <=> Finished
         /\ Started' <=> Started
         /\ Ready' <=> Ready
<1>1. /\ Idle' <=> Idle
      /\ Active' <=> Active
      /\ Configured' <=> Configured
      /\ DataThere' <=> DataThere
      /\ ModelThere' <=> ModelThere
  BY DEF Idle, Active, Configured, DataThere, ModelThere, UsesModel
<1>2. Finished' <=> Finished
  BY DEF Finished, Idle, UsesModel
<1> QED
  BY <1>1, <1>2 DEF Started, Ready, Placed

(* An answer is taken from the link: what it carries is in the mirror now. *)
LEMMA TakenWord ==
  ASSUME PBase, PInv, NEW r, VTake(r)
  PROVE  /\ prog # "model" => \A w \in WriteWords : mirror'[w] = mirror[w]
         /\ mirror'[CTRL] = mirror[CTRL]
         /\ \A w \in ReadWords \ {STATUS} : /\ Fresh(w) => Fresh(w)'
                                            /\ Coming(w) => Coming(w)'
         /\ prog # "model" => \A w \in WriteWords : Arriving(w) => Arriving(w)'
         /\ StatusTold => StatusTold'
<1>0. /\ r \in Replies /\ Replies = Replies' \cup {r} /\ Cmds' = Cmds
      /\ UNCHANGED <<cmds, remote, fpga>> /\ rcfg' = rcfg /\ input' = input
      /\ mirror' = IF r.data = <<>> THEN mirror ELSE [mirror EXCEPT ![r.addr] = r.data[1]]
  BY DEF VTake, Lives, Kept, Cmds
<1>1. mirror \in [Addr -> Value] /\ (r.data # <<>> => r.addr \in ReadWords)
  BY <1>0 DEF PBase, CInv, CBase, MemInv, TypeOK, Traffic
<1>2. /\ r.data # <<>> /\ r.addr # STATUS => r.data[1] = remote[r.addr]
      /\ r.data # <<>> /\ r.addr = STATUS /\ r.data[1] = READY => Finished
  BY <1>0 DEF PInv, ReplyInv
<1>3. \A w \in Addr : mirror'[w] = IF r.data # <<>> /\ r.addr = w THEN r.data[1] ELSE mirror[w]
  BY <1>0, <1>1
<1>4. /\ prog # "model" => \A w \in WriteWords : mirror'[w] = mirror[w]
      /\ mirror'[CTRL] = mirror[CTRL]
  <2>1. r.data # <<>> /\ r.addr = NewWord => prog = "model"
    BY <1>0 DEF PInv, ReplyInv, ModelRead
  <2>2. CTRL \in Addr
    BY Registers
  <2> QED
    BY <1>1, <1>3, <2>1, <2>2, WordsApart
<1>5. /\ \A w : Reading(w)' <=> Reading(w)
      /\ \A w : Writing(w)' <=> Writing(w)
  BY <1>0 DEF Reading, Writing
<1>6. \A w \in ReadWords \ {STATUS} : Fresh(w) => Fresh(w)'
  BY <1>0, <1>2, <1>3, WordsApart DEF Fresh
<1>7. \A w \in ReadWords : HasData(w) => HasData(w)' \/ (r.data # <<>> /\ r.addr = w)
  BY <1>0 DEF HasData
<1>8. \A w \in ReadWords \ {STATUS} : Coming(w) => Coming(w)'
  <2>1. \A w \in ReadWords \ {STATUS} : r.data # <<>> /\ r.addr = w => Fresh(w)'
    BY <1>0, <1>2, <1>3, WordsApart DEF Fresh
  <2> QED
    BY <1>5, <1>6, <1>7, <2>1 DEF Coming
<1>9. prog # "model" => \A w \in WriteWords : Arriving(w) => Arriving(w)'
  BY <1>0, <1>4, <1>5 DEF Arriving, Fresh
<1>10. StatusTold => StatusTold'
  <2>1. STATUS \in ReadWords /\ STATUS \in Addr
    BY WordsApart DEF ReadWords
  <2>2. Finished' <=> Finished
    BY <1>0, MemoryApart
  <2>3. CASE r.data # <<>> /\ r.addr = STATUS
    BY <1>2, <1>3, <2>1, <2>2, <2>3 DEF StatusTold
  <2>4. CASE ~(r.data # <<>> /\ r.addr = STATUS)
    <3>1. mirror'[STATUS] = mirror[STATUS]
      BY <1>3, <2>1, <2>4
    <3>2. HasData(STATUS) => HasData(STATUS)'
      BY <1>7, <2>1, <2>4
    <3> QED
      BY <1>5, <2>2, <3>1, <3>2 DEF StatusTold
  <2> QED
    BY <2>3, <2>4
<1> QED
  BY <1>4, <1>6, <1>8, <1>9, <1>10

(* The library takes an answer.                                            *)
LEMMA TakeKeeps ==
  ASSUME PBase, PInv, NEW r, VTake(r)
  PROVE  PInv'
<1>0. /\ Lives /\ Kept /\ (Gone' <=> Gone) /\ rcfg' = rcfg /\ input' = input /\ replies # <<>>
      /\ Replies' \subseteq Replies /\ Cmds' = Cmds /\ UNCHANGED <<cmds, remote, fpga>>
      /\ busy' = busy /\ polls' = 0 /\ (Submitting' <=> Submitting)
  BY DEF VTake, Lives, Kept, Cmds
<1>i. /\ QuietInv /\ ReplyInv /\ CmdInv /\ FpgaInv /\ ControlInv /\ InputInv /\ CompressInv
      /\ ResultInv
  BY DEF PInv
<1>q. ~QuietAt
  BY <1>0, <1>i DEF QuietInv, Quiet
<1>t. /\ CTRL \in WriteWords /\ DataWord \in WriteWords
      /\ \A i \in 1 .. N : ConfigRegs[i] \in WriteWords
      /\ ModelWord \in WriteWords /\ NewWord \in ReadWords \ {STATUS}
      /\ CmpWord \in ReadWords \ {STATUS} /\ InfoRegs[1] \in ReadWords \ {STATUS}
      /\ \A i \in 1 .. InfoCount : InfoRegs[i] \in ReadWords \ {STATUS}
  BY WordsApart DEF ReadWords, WriteWords
<1>1. QuietInv'
  BY <1>0, <1>i, <1>q, SamePoint DEF QuietInv
<1>2. ReplyInv' /\ CmdInv'
  BY <1>0, <1>i, SamePoint, MemoryApart DEF ReplyInv, CmdInv
<1>3. FpgaInv'
  <2>1. IntWaits => Idle
    BY <1>0, <1>i DEF FpgaInv, Quiet
  <2>2. HasInt' <=> HasInt
    BY <1>0 DEF HasInt
  <2> QED
    BY <1>0, <1>i, <2>1, <2>2, SamePoint, MemoryApart DEF FpgaInv
<1>4. ControlInv'
  <2>1. \A b : Up(b)' <=> Up(b)
    BY <1>t, TakenWord DEF Up
  <2>2. NoControl' <=> NoControl
    BY <1>0 DEF NoControl
  <2> QED
    BY <1>0, <1>i, <2>1, <2>2, SamePoint, MemoryApart DEF ControlInv
<1>5. CompressInv'
  <2>1. prog # "model" => \A c \in Cmds : c.kind = "write" => mirror'[c.addr] = mirror[c.addr]
    BY TakenWord DEF PBase, CInv, Traffic, CmdOK
  <2>2. ASSUME prog = "compress" PROVE CompressInv'
    <3>1. left # N + 13
      BY <1>q, <2>2 DEF QuietAt
    <3>2. /\ \A i \in 1 .. N : /\ mirror'[ConfigRegs[i]] = mirror[ConfigRegs[i]]
                               /\ Arriving(ConfigRegs[i]) => Arriving(ConfigRegs[i])'
          /\ mirror'[DataWord] = mirror[DataWord] /\ (Arriving(DataWord) => Arriving(DataWord)')
          /\ mirror'[ModelWord] = mirror[ModelWord]
          /\ Arriving(ModelWord) => Arriving(ModelWord)'
          /\ Coming(InfoRegs[1]) => Coming(InfoRegs[1])'
      BY <1>t, <2>2, TakenWord
    <3> QED
      BY <1>0, <1>i, <2>1, <2>2, <3>1, <3>2, SamePoint, MemoryApart DEF CompressInv
  <2> QED
    BY <1>0, <2>2, SamePoint DEF CompressInv
<1>6. ResultInv'
  <2>1. ~At("status", 0) /\ ~(left = 0 /\ result = 0)
    BY <1>q, <1>i DEF QuietAt, QuietInv, At
  <2>2. /\ \A i \in 1 .. InfoCount : /\ Fresh(InfoRegs[i]) => Fresh(InfoRegs[i])'
                                     /\ Coming(InfoRegs[i]) => Coming(InfoRegs[i])'
        /\ Fresh(CmpWord) => Fresh(CmpWord)'
        /\ Coming(CmpWord) => Coming(CmpWord)'
        /\ Coming(NewWord) => Coming(NewWord)'
        /\ StatusTold => StatusTold'
    BY <1>t, TakenWord
  <2>3. InfoFresh => InfoFresh'
    BY <2>2 DEF InfoFresh
  <2>4. ResultInv
    BY <1>i
  <2> QED
    BY <1>0, <2>1, <2>2, <2>3, <2>4, SamePoint DEF ResultInv, At
<1>7. InputInv'
  <2>1. \A w : Writing(w)' <=> Writing(w)
    BY <1>0 DEF Writing
  <2> QED
    BY <1>0, <1>i, <2>1, SamePoint, MemoryApart DEF InputInv
<1> QED
  BY <1>1, <1>2, <1>3, <1>4, <1>5, <1>6, <1>7 DEF PInv

(* The command an operation hands to the link.                             *)
LEMMA SentWord ==
  ASSUME PBase, NEW c, VSend(c)
  PROVE  \/ /\ c.kind = "read"
            /\ \/ At("compress", N + 15) /\ c.addr = InfoRegs[1]
               \/ At("status", 2) /\ c.addr = STATUS
               \/ /\ prog \in Infos /\ left > 1 /\ InfoCount + 2 - left \in 1 .. InfoCount
                  /\ c.addr = InfoRegs[InfoCount + 2 - left]
               \/ At("bitstream", 2) /\ c.addr = CmpWord
               \/ At("model", 2) /\ c.addr = NewWord
         \/ /\ c.kind = "write" /\ c.data[1] = mirror[c.addr]
            /\ \/ /\ prog = "compress" /\ left \in 12 .. (N + 11) /\ N + 12 - left \in 1 .. N
                  /\ c.addr = ConfigRegs[N + 12 - left]
               \/ At("compress", 9) /\ c.addr = DataWord /\ Given(DataAddr) /\ Mtu % 4 = 0
               \/ At("compress", 7) /\ c.addr = ModelWord /\ Given(ModelAddr) /\ Mtu % 4 = 0
               \/ /\ At("compress", 3) \/ At("work", N + 16) \/ At("interrupt", 3)
                  /\ c.addr = CTRL
<1>0. /\ Hands /\ left > 0 /\ c.kind = SubKind /\ c.addr = SubAddr
      /\ c.kind = "write" => c.data[1] = mirror[c.addr]
  BY DEF VSend
<1>w. /\ CtlInv /\ left \in Nat /\ N \in Nat /\ 1 <= N /\ InfoCount \in Nat
      /\ prog \in Infos => left <= InfoCount + 1
  BY Where
<1>1. CASE next.op = "read"
  <2>1. c.kind = "read" /\ c.addr = next.reg
    BY <1>0, <1>1 DEF SubKind, SubAddr, Kind
  <2>2. \/ At("compress", N + 15) \/ At("status", 2)
        \/ prog \in Infos /\ left > 1
    BY <1>0, <1>w, <1>1, OpTable
  <2>3. next.reg = CASE prog = "compress" -> InfoRegs[1]
                     [] prog = "status" -> STATUS
                     [] OTHER -> InfoRegs[InfoCount + 2 - left]
    BY <1>0, <1>w, <1>1, OpTable
  <2> QED
    BY <1>w, <2>1, <2>2, <2>3 DEF At, Infos
<1>2. CASE next.op = "write"
  <2>1. c.kind = "write" /\ c.addr = next.reg
    BY <1>0, <1>2 DEF SubKind, SubAddr, Kind
  <2>2. \/ prog = "compress" /\ left \in 12 .. (N + 11)
        \/ At("compress", 3) \/ At("work", N + 16) \/ At("interrupt", 3)
    BY <1>0, <1>w, <1>2, OpTable
  <2>3. next.reg = IF prog = "compress" /\ left > 11
                   THEN ConfigRegs[N + 12 - left] ELSE CTRL
    BY <1>0, <1>w, <1>2, OpTable
  <2> QED
    BY <1>0, <1>w, <2>1, <2>2, <2>3 DEF At
<1>3. CASE next.op = "send"
  <2>1. c.kind = "write" /\ c.addr = next.reg \div 4 /\ Mtu % 4 = 0 /\ Given(next.reg)
    BY <1>0, <1>3 DEF SubKind, SubAddr, Kind, VSend
  <2>2. /\ At("compress", 7) \/ At("compress", 9)
        /\ next.reg = IF left > 8 THEN DataAddr ELSE ModelAddr
    BY <1>0, <1>w, <1>3, OpTable
  <2> QED
    BY <1>0, <2>1, <2>2 DEF At, DataWord, ModelWord
<1>4. CASE next.op = "fetch"
  <2>1. c.kind = "read" /\ c.addr = next.reg \div 4
    BY <1>0, <1>4 DEF SubKind, SubAddr, Kind
  <2>2. /\ At("bitstream", 2) \/ At("model", 2)
        /\ next.reg = IF prog = "model" THEN NewModelAddr ELSE CmpAddr
    BY <1>0, <1>w, <1>4, OpTable
  <2> QED
    BY <2>1, <2>2 DEF At, CmpWord, NewWord
<1> QED
  BY <1>0, <1>1, <1>2, <1>3, <1>4 DEF Hands, Kind

(* The library hands a command to the link.                                *)
LEMMA SendKeeps ==
  ASSUME PBase, PInv, NEW c, VSend(c)
  PROVE  PInv'
<1>0. /\ Kept /\ polls' = 0 /\ left > 0 /\ call = "tx" /\ ~Gone /\ Gone'
      /\ cmds' = Append(cmds, c) /\ Cmds' = Cmds \cup {c} /\ Replies' = Replies
      /\ UNCHANGED <<mirror, replies, remote, fpga>>
      /\ prog' = prog /\ left' = left /\ result' = result /\ rcfg' = rcfg /\ input' = input
  BY DEF VSend, Kept
<1>i. /\ QuietInv /\ ReplyInv /\ CmdInv /\ FpgaInv /\ ControlInv /\ InputInv /\ CompressInv
      /\ ResultInv
  BY DEF PInv
<1>w. N \in Nat /\ 1 <= N /\ InfoCount \in Nat /\ left \in Nat /\ 1 <= InfoCount
  BY Where
<1>s. \/ prog = "compress" /\ left \in {N + 15, 9, 7, 3} \cup 12 .. (N + 11)
      \/ prog = "status" /\ left = 2
      \/ prog \in Infos /\ left > 1
      \/ prog \in {"bitstream", "model"} /\ left = 2
      \/ prog = "work" /\ left = N + 16
      \/ prog = "interrupt" /\ left = 3
  BY SentWord DEF At
<1>p. \A a : Given(a)' <=> Given(a)
  BY <1>0 DEF Given
<1>c. c.addr = CTRL <=> At("compress", 3) \/ At("work", N + 16) \/ At("interrupt", 3)
  BY <1>w, SentWord, WordsApart DEF At, ReadWords, WriteWords, Infos
<1>t. c.addr = STATUS <=> prog = "status"
  BY <1>w, SentWord, WordsApart DEF At, ReadWords, WriteWords, Infos
<1>r. /\ ModelRead => ModelRead'
      /\ prog = "model" => ModelRead'
      /\ c.kind = "read" /\ c.addr = NewWord => ModelRead'
  <2>1. prog = "model" => ModelRead'
    BY <1>0, <1>s DEF ModelRead, Infos
  <2>2. c.kind = "read" /\ c.addr = NewWord => prog = "model"
    BY SentWord, WordsApart DEF At, ReadWords
  <2> QED
    BY <2>1, <2>2 DEF ModelRead
<1>m. c.addr = CTRL => c.data[1] = mirror[CTRL]
  BY SentWord, WordsApart DEF ReadWords, WriteWords
<1>f. /\ \A w : Fresh(w)' <=> Fresh(w)
      /\ \A w : Coming(w) => Coming(w)'
      /\ \A w : Arriving(w) => Arriving(w)'
      /\ StatusTold => StatusTold'
      /\ c.kind = "read" => Reading(c.addr)' /\ Coming(c.addr)'
      /\ c.kind = "write" => Arriving(c.addr)'
  <2>1. /\ \A w : Fresh(w)' <=> Fresh(w)
        /\ \A w : HasData(w)' <=> HasData(w)
        /\ \A w : Reading(w) => Reading(w)'
        /\ \A w : Writing(w) => Writing(w)'
        /\ c.kind = "read" => Reading(c.addr)'
        /\ c.kind = "write" => Writing(c.addr)'
    BY <1>0 DEF Fresh, HasData, Reading, Writing
  <2>2. Finished' <=> Finished
    BY <1>0, MemoryApart
  <2> QED
    BY <1>0, <2>1, <2>2 DEF Coming, Arriving, StatusTold
<1>1. QuietInv'
  <2>1. result = 0
    BY <1>0, <1>i DEF QuietInv
  <2>2. ~QuietAt'
    BY <1>0, <1>w, <1>s DEF QuietAt, At, Infos
  <2> QED
    BY <1>0, <2>1, <2>2 DEF QuietInv
<1>2. ReplyInv'
  BY <1>0, <1>i, <1>r, MemoryApart DEF ReplyInv
<1>3. CmdInv'
  <2>1. Active => prog \in {"interrupt", "status"}
    <3>1. Active => ~IdleAt
      BY <1>i DEF FpgaInv, Active, Idle
    <3> QED
      BY <1>0, <1>w, <1>s, <3>1 DEF IdleAt, Infos
  <2>2. Active => c.addr \in {CTRL, STATUS}
    BY <1>c, <1>s, <1>t, <2>1 DEF At, Infos
  <2> QED
    BY <1>0, <1>i, <1>r, <1>t, <2>2, MemoryApart DEF CmdInv
<1>4. FpgaInv'
  <2>1. /\ IdleAt' => IdleAt
        /\ StartedAt' => StartedAt
        /\ CleanAt' => CleanAt
        /\ ~IntWaits'
    BY <1>0, <1>w, <1>s DEF IdleAt, StartedAt, CleanAt, IntWaits, At, Infos
  <2>2. IntGoes' \/ WorkGoes' => HasInt'
    <3>1. IntGoes' \/ WorkGoes' => At("work", N + 16) \/ At("interrupt", 3)
      BY <1>0, <1>w, <1>s DEF IntGoes, WorkGoes, At, Infos
    <3>2. At("work", N + 16) \/ At("interrupt", 3) => HasBit(c.data[1], INTERRUPT)
      BY <1>c, <1>m, <1>i DEF ControlInv, Up
    <3> QED
      BY <1>0, <1>c, <3>1, <3>2 DEF HasInt
  <2>3. UsesModel' <=> UsesModel
    BY <1>0 DEF UsesModel
  <2> QED
    BY <1>0, <1>i, <2>1, <2>2, <2>3, MemoryApart DEF FpgaInv
<1>5. ControlInv'
  <2>1. ~(StartGoes' \/ IntGoes' \/ WorkGoes') => NoControl'
    <3>1. ~(StartGoes' \/ IntGoes' \/ WorkGoes') =>
            ~(StartGoes \/ IntGoes \/ WorkGoes) /\ c.addr # CTRL
      BY <1>0, <1>c, <1>w DEF StartGoes, IntGoes, WorkGoes, At
    <3> QED
      BY <1>0, <1>i, <3>1 DEF ControlInv, NoControl
  <2>2. prog \in {"interrupt", "work"} => ~Up(START)
    BY <1>i DEF ControlInv
  <2>3. StartGoes' => At("compress", 3)
    BY <1>0, <1>w, <1>s DEF StartGoes, At, Infos
  <2>4. ASSUME At("compress", 3)
        PROVE  /\ Len(cmds') <= 1 /\ cmds' # <<>>
               /\ Cmds' = {c} /\ Replies' = {} /\ Ready
    <3>1. Quiet
      BY <1>0, <1>i, <2>4 DEF QuietInv, QuietAt, At
    <3>2. Cmds = {} /\ Replies = {} /\ cmds = <<>>
      BY <3>1, QuietMeans DEF Quiet
    <3>3. Len(cmds') = 1 /\ cmds' # <<>>
      BY <1>0, <3>2
    <3> QED
      BY <1>0, <1>i, <2>4, <3>2, <3>3 DEF ControlInv
  <2>5. \A b : Up(b)' <=> Up(b)
    BY <1>0 DEF Up
  <2>6. \A p, k : At(p, k)' <=> At(p, k)
    BY <1>0 DEF At
  <2>7. prog \in {"interrupt", "work"} =>
          \A d \in Cmds' : d.addr = CTRL => ~HasBit(d.data[1], START)
    BY <1>0, <1>i, <1>m, <2>2 DEF ControlInv, Up
  <2>8. StartGoes' => \A d \in Cmds' : d.addr = CTRL /\ HasBit(d.data[1], START)
    BY <1>c, <1>m, <1>i, <2>3, <2>4 DEF ControlInv, Up
  <2>9. StartGoes' => Len(cmds') <= 1 /\ cmds' # <<>> /\ Replies' = {} /\ Ready'
    BY <1>0, <2>3, <2>4, MemoryApart
  <2> QED
    BY <1>0, <1>i, <2>1, <2>5, <2>6, <2>7, <2>8, <2>9 DEF ControlInv
<1>6. CompressInv'
  <2>1. CASE prog = "compress" /\ left = N + 15
    <3>1. Coming(InfoRegs[1])'
      BY <1>w, <1>f, <2>1, SentWord DEF At, Infos
    <3> QED
      BY <1>0, <1>w, <2>1, <3>1 DEF CompressInv
  <2>2. CASE prog = "compress" /\ left \in 12 .. (N + 11)
    <3>1. /\ c.addr = ConfigRegs[N + 12 - left] /\ c.kind = "write"
          /\ c.data[1] = mirror[c.addr]
      BY <1>w, <2>2, SentWord DEF At, Infos
    <3>2. \A i \in 1 .. N : i = N + 12 - left => Arriving(ConfigRegs[i])'
      <4>1. \A a : a = c.addr => Arriving(a)'
        BY <1>f, <3>1
      <4> QED
        BY <3>1, <4>1
    <3>3. \A i \in 1 .. N :
           /\ mirror[ConfigRegs[i]] = rcfg.regs[i]
           /\ i < N + 12 - left => Arriving(ConfigRegs[i])
      BY <1>w, <1>i, <2>2 DEF CompressInv
    <3>4. \A d \in Cmds : d.kind = "write" => d.data[1] = mirror[d.addr]
      BY <1>w, <1>i, <2>2 DEF CompressInv
    <3>5. \A i \in 1 .. N : i < N + 12 - left \/ i = N + 12 - left => Arriving(ConfigRegs[i])'
      BY <1>f, <3>2, <3>3
    <3>6. \A d \in Cmds' : d.kind = "write" => d.data[1] = mirror'[d.addr]
      BY <1>0, <3>1, <3>4
    <3>7. \A i \in 1 .. N : mirror'[ConfigRegs[i]] = rcfg'.regs[i]
      BY <1>0, <3>3
    <3> QED
      BY <1>0, <1>w, <2>2, <3>5, <3>6, <3>7 DEF CompressInv
  <2>3. CASE prog = "compress" /\ left \in {7, 9}
    <3>1. /\ c.addr = (IF left = 9 THEN DataWord ELSE ModelWord)
          /\ c.kind = "write" /\ c.data[1] = mirror[c.addr]
      BY <1>w, <2>3, SentWord DEF At, Infos
    <3>2. /\ left = 9 => Arriving(DataWord)'
          /\ left = 7 => Arriving(ModelWord)'
      BY <1>f, <3>1
    <3>3. /\ Configured /\ \A d \in Cmds : d.addr \in {DataWord, ModelWord}
          /\ \A d \in Cmds : d.kind = "write" => d.data[1] = mirror[d.addr]
          /\ Given(DataAddr) => /\ mirror[DataWord] = rcfg.data
                                /\ left = 7 => Arriving(DataWord)
          /\ Given(ModelAddr) => (left = 7 => mirror[ModelWord] = rcfg.model)
      BY <1>w, <1>i, <2>3 DEF CompressInv
    <3>4. /\ Configured' /\ \A d \in Cmds' : d.addr \in {DataWord, ModelWord}
          /\ \A d \in Cmds' : d.kind = "write" => d.data[1] = mirror'[d.addr]
      BY <1>0, <3>1, <3>3, MemoryApart
    <3>5. left = 7 /\ Given(DataAddr) => Arriving(DataWord)'
      BY <1>f, <3>3
    <3> QED
      BY <1>0, <1>w, <1>p, <2>3, <3>2, <3>3, <3>4, <3>5 DEF CompressInv
  <2>4. CASE prog = "compress" /\ left = 3
    BY <1>0, <1>w, <2>4 DEF CompressInv
  <2>5. CASE prog # "compress"
    BY <1>0, <2>5 DEF CompressInv
  <2> QED
    BY <1>s, <2>1, <2>2, <2>3, <2>4, <2>5 DEF Infos
<1>7. ResultInv'
  <2>1. CASE prog = "status"
    <3>1. Reading(STATUS)'
      BY <1>f, <2>1, SentWord DEF At, Infos
    <3> QED
      BY <1>0, <1>s, <2>1, <3>1 DEF ResultInv, StatusTold, ModelRead, At, Infos
  <2>2. CASE prog = "info"
    <3>1. c.addr = InfoRegs[InfoCount + 2 - left] /\ c.kind = "read"
      BY <2>2, SentWord DEF At, Infos
    <3>2. \A i \in 1 .. InfoCount : i = InfoCount + 2 - left => Coming(InfoRegs[i])'
      <4>1. \A a : a = c.addr => Coming(a)'
        BY <1>f, <3>1
      <4> QED
        BY <3>1, <4>1
    <3>3. \A i \in 1 .. InfoCount : i < InfoCount + 2 - left => Coming(InfoRegs[i])'
      BY <1>0, <1>f, <1>i, <2>2 DEF ResultInv
    <3> QED
      BY <1>0, <1>s, <2>2, <3>2, <3>3 DEF ResultInv, ModelRead, At
  <2>3. CASE prog = "bitstream"
    <3>1. Coming(CmpWord)'
      BY <1>f, <2>3, SentWord DEF At, Infos
    <3>2. InfoFresh => InfoFresh'
      BY <1>f DEF InfoFresh
    <3>3. InfoFresh /\ left = 2
      BY <1>i, <1>s, <2>3 DEF ResultInv, Infos
    <3> QED
      BY <1>0, <2>3, <3>1, <3>2, <3>3 DEF ResultInv, ModelRead, At
  <2>4. CASE prog = "model"
    <3>1. Coming(NewWord)'
      BY <1>f, <2>4, SentWord DEF At, Infos
    <3>2. InfoFresh => InfoFresh'
      BY <1>f DEF InfoFresh
    <3>3. InfoFresh /\ Fresh(CmpWord) /\ left = 2
      BY <1>i, <1>s, <2>4 DEF ResultInv, Infos
    <3> QED
      BY <1>0, <1>f, <2>4, <3>1, <3>2, <3>3 DEF ResultInv, At
  <2>5. CASE prog \in {"compress", "work", "interrupt", "error_info"}
    BY <1>0, <2>5 DEF ResultInv, ModelRead, At
  <2> QED
    BY <1>s, <2>1, <2>2, <2>3, <2>4, <2>5 DEF Infos
<1>8. InputInv'
  <2>1. \A w : Writing(w)' => Writing(w) \/ (c.kind = "write" /\ c.addr = w)
    BY <1>0 DEF Writing
  <2>2. c.kind = "write" /\ c.addr = DataWord =>
          prog = "compress" /\ left = 9 /\ Given(DataAddr) /\ Mtu % 4 = 0
    BY SentWord, WordsApart DEF At
  <2>3. c.kind = "write" /\ c.addr = ModelWord =>
          prog = "compress" /\ left = 7 /\ Given(ModelAddr) /\ Mtu % 4 = 0
    BY SentWord, WordsApart DEF At
  <2>4. (DataThere' <=> DataThere) /\ (ModelThere' <=> ModelThere)
    BY <1>0, MemoryApart
  <2>5. Writing(DataWord)' => /\ prog = "compress" /\ left \in 6 .. 9
                              /\ Given(DataAddr) /\ Mtu % 4 = 0
    BY <1>i, <2>1, <2>2 DEF InputInv
  <2>6. Writing(ModelWord)' => /\ prog = "compress" /\ left \in 6 .. 7
                               /\ Given(ModelAddr) /\ Mtu % 4 = 0
    BY <1>i, <2>1, <2>3 DEF InputInv
  <2> QED
    BY <1>0, <1>i, <1>p, <2>4, <2>5, <2>6 DEF InputInv
<1> QED
  BY <1>1, <1>2, <1>3, <1>4, <1>5, <1>6, <1>7, <1>8 DEF PInv

(* A command other than of the control register is executed: what it       *)
(* writes has arrived, what it reads is on its way.                        *)
LEMMA ExecWord ==
  ASSUME PBase, PInv, NEW c, VExec(c)
  PROVE  /\ Cmds' \subseteq Cmds /\ (HasInt => HasInt')
         /\ Idle' <=> Idle
         /\ Active' <=> Active
         /\ prog # "compress" => (Finished' <=> Finished)
         /\ prog # "compress" => (Started => Started')
         /\ prog # "compress" => (StatusTold => StatusTold')
         /\ \A w \in ReadWords : w # NewWord \/ prog # "compress" =>
              /\ remote'[w] = remote[w]
              /\ Fresh(w) => Fresh(w)'
              /\ Coming(w) => Coming(w)'
         /\ prog = "compress" /\ left \in 6 .. (N + 11) =>
              \A w \in WriteWords : Arriving(w) => Arriving(w)'
         /\ c.addr \notin ConfigSet /\ Configured => Configured'
         /\ \A w : Writing(w)' => Writing(w)
         /\ ~Writing(DataWord) /\ DataThere => DataThere'
         /\ ~Writing(ModelWord) /\ ModelThere => ModelThere'
<1>0. /\ Kept /\ rcfg' = rcfg /\ input' = input /\ UNCHANGED <<fpga, mirror>> /\ c.addr # CTRL
      /\ c \in Cmds /\ Cmds = Cmds' \cup {c} /\ CmdOK(c)
  BY DEF VExec, Lives, Kept, Executed, Taken, PBase, CInv, Traffic
<1>1. \/ /\ c.kind = "write" /\ remote' = [remote EXCEPT ![c.addr] = c.data[1]]
         /\ Replies' = Replies \cup {Answer(c, "ok", <<>>)}
      \/ /\ c.kind = "read" /\ remote' = remote
         /\ Replies' = Replies \cup {Answer(c, "ok", <<remote[c.addr]>>)}
  BY DEF VExec, Executed, Taken
<1>2. remote \in [Addr -> Value] /\ Replies \subseteq Replies'
  BY <1>1 DEF PBase, CInv, CBase, MemInv, TypeOK
<1>3. c.kind = "write" => c.addr \in WriteWords /\ c.addr \in Addr
  BY <1>0, WordsApart DEF CmdOK
<1>4. \A w \in Addr : remote'[w] = IF c.kind = "write" /\ w = c.addr
                                   THEN c.data[1] ELSE remote[w]
  BY <1>1, <1>2
<1>m. c.kind = "write" /\ c.addr = ModelWord => prog = "compress"
  BY <1>0 DEF PInv, InputInv, Writing
<1>5. \A w \in ReadWords : w # NewWord \/ prog # "compress" => remote'[w] = remote[w]
  BY <1>3, <1>4, <1>m, WordsApart
<1>6. /\ Idle' <=> Idle
      /\ Active' <=> Active
  BY <1>0 DEF Idle, Active
<1>7. prog # "compress" => (Finished' <=> Finished)
  <2>1. /\ STATUS \in ReadWords /\ CmpWord \in ReadWords /\ NewWord \in ReadWords
        /\ \A i \in 1 .. InfoCount : InfoRegs[i] \in ReadWords
    BY WordsApart DEF ReadWords
  <2> QED
    BY <1>0, <1>5, <1>6, <2>1 DEF Finished, UsesModel
<1>8. prog # "compress" => (Started => Started')
  <2>1. Active => c.kind = "read"
    BY <1>0, <1>1, <1>3, WordsApart DEF PInv, CmdInv, ReadWords
  <2>2. Active => remote' = remote
    BY <1>1, <2>1
  <2> QED
    BY <1>0, <1>6, <1>7, <2>2
       DEF Started, Placed, Configured, DataThere, ModelThere, UsesModel
<1>9. HasInt => HasInt'
  BY <1>0 DEF HasInt
<1>10. \A w \in ReadWords : w # NewWord \/ prog # "compress" => (Fresh(w) => Fresh(w)')
  BY <1>0, <1>5 DEF Fresh
<1>11. \A w : HasData(w) => HasData(w)'
  BY <1>2 DEF HasData
<1>12. \A w : Reading(w) => Reading(w)' \/ HasData(w)'
  <2> SUFFICES ASSUME NEW w, NEW d \in Cmds, d.kind = "read", d.addr = w
               PROVE  Reading(w)' \/ HasData(w)'
    BY DEF Reading
  <2>1. CASE d = c
    <3>1. Answer(c, "ok", <<remote[c.addr]>>) \in Replies'
      BY <1>1, <2>1
    <3>2. /\ Answer(c, "ok", <<remote[c.addr]>>).addr = w
          /\ Answer(c, "ok", <<remote[c.addr]>>).data # <<>>
      BY <2>1 DEF Answer
    <3> QED
      BY <3>1, <3>2 DEF HasData
  <2>2. CASE d # c
    BY <1>0, <2>2 DEF Reading
  <2> QED
    BY <2>1, <2>2
<1>13. \A w \in ReadWords : w # NewWord \/ prog # "compress" => (Coming(w) => Coming(w)')
  BY <1>10, <1>11, <1>12 DEF Coming
<1>14. prog # "compress" => (StatusTold => StatusTold')
  BY <1>0, <1>7, <1>11, <1>12 DEF StatusTold
<1>15. ASSUME prog = "compress", left \in 6 .. (N + 11), NEW w \in WriteWords, Arriving(w)
       PROVE  Arriving(w)'
  <2>1. CASE c.kind = "write" /\ c.addr = w
    <3>1. c.data[1] = mirror[w]
      BY <1>0, <1>15, <2>1 DEF PInv, CompressInv
    <3>2. remote'[w] = mirror'[w]
      BY <1>0, <1>3, <1>4, <2>1, <3>1
    <3> QED
      BY <3>2 DEF Arriving, Fresh
  <2>2. CASE ~(c.kind = "write" /\ c.addr = w)
    <3>1. remote'[w] = remote[w]
      BY <1>4, <1>15, <2>2, WordsApart
    <3>2. Writing(w) => Writing(w)'
      BY <1>0, <2>2 DEF Writing
    <3> QED
      BY <1>0, <1>15, <3>1, <3>2 DEF Arriving, Fresh
  <2> QED
    BY <2>1, <2>2
<1>16. c.addr \notin ConfigSet /\ Configured => Configured'
  BY <1>0, <1>4, WordsApart DEF Configured, WriteWords
<1>17. \A w : Writing(w)' => Writing(w)
  BY <1>0 DEF Writing
<1>18. /\ ~Writing(DataWord) => remote'[DataWord] = remote[DataWord]
       /\ ~Writing(ModelWord) => remote'[ModelWord] = remote[ModelWord]
  <2>1. DataWord \in Addr /\ ModelWord \in Addr
    BY WordsApart DEF WriteWords
  <2> QED
    BY <1>0, <1>4, <2>1 DEF Writing
<1>19. /\ ~Writing(DataWord) /\ DataThere => DataThere'
       /\ ~Writing(ModelWord) /\ ModelThere => ModelThere'
  BY <1>0, <1>18 DEF DataThere, ModelThere, UsesModel
<1> QED
  BY <1>0, <1>5, <1>6, <1>7, <1>8, <1>9, <1>10, <1>13, <1>14, <1>15, <1>16, <1>17, <1>19

(* The RDCU executes a command other than of the control register.         *)
LEMMA ExecKeeps ==
  ASSUME PBase, PInv, NEW c, VExec(c)
  PROVE  PInv'
<1>0. /\ Kept /\ (Gone' <=> Gone) /\ rcfg' = rcfg /\ input' = input /\ UNCHANGED <<fpga, mirror>>
      /\ busy' = busy /\ polls' = 0 /\ (Submitting' <=> Submitting)
      /\ c \in Cmds /\ cmds # <<>> /\ c.addr # CTRL
  BY DEF VExec, Lives, Kept, Executed, Taken
<1>i. /\ QuietInv /\ ReplyInv /\ CmdInv /\ FpgaInv /\ ControlInv /\ InputInv /\ CompressInv
      /\ ResultInv
  BY DEF PInv
<1>q. ~QuietAt /\ ~Quiet
  BY <1>0, <1>i DEF QuietInv, Quiet
<1>t. /\ DataWord \in WriteWords /\ DataWord \notin ConfigSet
      /\ ModelWord \in WriteWords /\ ModelWord \notin ConfigSet
      /\ NewWord \in ReadWords /\ NewWord \notin {STATUS, CmpWord}
      /\ \A i \in 1 .. InfoCount : InfoRegs[i] # NewWord
      /\ InfoRegs[1] # NewWord
      /\ \A i \in 1 .. N : ConfigRegs[i] \in WriteWords
      /\ STATUS \in ReadWords /\ CmpWord \in ReadWords /\ InfoRegs[1] \in ReadWords
      /\ \A i \in 1 .. InfoCount : InfoRegs[i] \in ReadWords
  BY WordsApart DEF ReadWords, WriteWords
<1>1. QuietInv'
  BY <1>0, <1>i, <1>q, SamePoint DEF QuietInv
<1>2. ReplyInv'
  <2>a. /\ prog # "compress" => (Finished' <=> Finished)
        /\ Active' <=> Active
    BY ExecWord
  <2>b. (ModelRead' <=> ModelRead) /\ prog' = prog
    BY <1>0, SamePoint
  <2> SUFFICES ASSUME NEW r \in Replies'
               PROVE  /\ r.form \in {"ok", "rejected"}
                      /\ r.data # <<>> /\ r.addr # STATUS => r.data[1] = remote'[r.addr]
                      /\ r.data # <<>> /\ r.addr = STATUS => prog = "status"
                      /\ r.data # <<>> /\ r.addr = NewWord => ModelRead
                      /\ r.data # <<>> /\ r.addr = STATUS /\ r.data[1] = READY => Finished
                      /\ r.data # <<>> /\ Active => r.addr = STATUS
    BY <2>a, <2>b DEF ReplyInv
  <2>1. CASE r \in Replies
    <3>1. r.data # <<>> => r.addr \in ReadWords
      BY <2>1 DEF PBase, CInv, Traffic
    <3>2. r.data # <<>> /\ r.addr = NewWord => prog # "compress"
      BY <1>i, <2>1 DEF ReplyInv, ModelRead
    <3>3. r.data # <<>> => remote'[r.addr] = remote[r.addr]
      BY <3>1, <3>2, ExecWord
    <3> QED
      BY <1>i, <2>1, <3>3 DEF ReplyInv
  <2>2. CASE r = Answer(c, "ok", <<>>)
    BY <2>2 DEF Answer
  <2>3. CASE r = Answer(c, "ok", <<remote[c.addr]>>) /\ remote' = remote /\ c.kind = "read"
    <3>1. r.form = "ok" /\ r.addr = c.addr /\ r.data[1] = remote[c.addr]
      BY <2>3 DEF Answer
    <3>2. /\ c.addr = STATUS => prog = "status"
          /\ c.addr = NewWord => ModelRead
          /\ Active => c.addr = STATUS
      BY <1>0, <1>i, <2>3 DEF CmdInv
    <3>3. prog = "status" /\ remote[STATUS] = READY => Finished
      BY <1>i DEF FpgaInv, StartedAt, Started
    <3> QED
      BY <2>3, <3>1, <3>2, <3>3
  <2> QED
    BY <2>1, <2>2, <2>3 DEF VExec, Executed, Taken
<1>3. CmdInv'
  BY <1>0, <1>i, ExecWord, SamePoint DEF CmdInv
<1>4. FpgaInv'
  <2>1. fpga.after_raw => remote'[InfoRegs[1]] = CMP_MODE_RAW
    BY <1>i, <1>t, ExecWord DEF FpgaInv
  <2>2. /\ IdleAt => Idle
        /\ IntWaits => Idle
        /\ IntGoes => Idle \/ HasInt
        /\ StartedAt => Started
        /\ prog \in {"info", "bitstream", "model"} => Finished
        /\ prog = "model" => UsesModel
        /\ WorkGoes => ~fpga.after_raw \/ HasInt
        /\ CleanAt => ~fpga.after_raw
        /\ fpga.state \in {"idle", "active"}
    BY <1>i, <1>q DEF FpgaInv
  <2>3. /\ Idle => Idle'
        /\ HasInt => HasInt'
        /\ prog # "compress" => (Started => Started')
        /\ prog # "compress" => (Finished => Finished')
    <3>1. prog # "compress" => (Finished' <=> Finished) /\ (Started => Started')
      BY ExecWord
    <3>2. (Idle' <=> Idle) /\ (HasInt => HasInt')
      BY ExecWord
    <3> QED
      BY <3>1, <3>2
  <2>4. StartedAt => prog = "status"
    BY <1>q DEF StartedAt, QuietAt, At
  <2> QED
    BY <1>0, <2>1, <2>2, <2>3, <2>4, SamePoint DEF FpgaInv
<1>5. ControlInv'
  <2>1. ~StartGoes
    BY <1>0, <1>i DEF ControlInv
  <2>2. ~(At("compress", 3) /\ ~Gone)
    BY <1>q DEF QuietAt, At
  <2>3. NoControl => NoControl'
    BY ExecWord DEF NoControl
  <2>4. \A b : Up(b)' <=> Up(b)
    BY <1>0 DEF Up
  <2> QED
    BY <1>0, <1>i, <2>1, <2>2, <2>3, <2>4, SamePoint, ExecWord DEF ControlInv
<1>6. CompressInv'
  <2> SUFFICES ASSUME prog = "compress" PROVE CompressInv'
    BY <1>0, SamePoint DEF CompressInv
  <2>1. left \notin {4, 5, 10, N + 13}
    BY <1>q DEF QuietAt
  <2>2. N \in Nat /\ 1 <= N /\ left \in Nat
    BY Where
  <2>3. left \in 4 .. 10 => c.addr \notin ConfigSet
    BY <1>0, <1>i, <1>t DEF CompressInv
  <2>4. left = N + 14 \/ (left = N + 15 /\ Gone) => Coming(InfoRegs[1])'
    BY <1>i, <1>t, ExecWord DEF CompressInv
  <2>5. left \in 11 .. (N + 11) =>
         \A i \in 1 .. N :
           /\ mirror[ConfigRegs[i]] = rcfg.regs[i]
           /\ i < N + 12 - left \/ (i = N + 12 - left /\ Gone) =>
                Arriving(ConfigRegs[i])'
    BY <1>i, <1>t, <2>2, ExecWord DEF CompressInv
  <2>6. left \in 6 .. (N + 11) =>
         \A d \in Cmds' : d.kind = "write" => d.data[1] = mirror[d.addr]
    BY <1>i, ExecWord DEF CompressInv
  <2>7. left \in 4 .. 10 =>
          Configured' /\ \A d \in Cmds' : d.addr \in {DataWord, ModelWord}
    BY <1>i, <2>3, ExecWord DEF CompressInv
  <2>8. /\ Given(DataAddr) /\ left \in 6 .. 9 => mirror[DataWord] = rcfg.data
        /\ Given(ModelAddr) /\ left \in 6 .. 7 => mirror[ModelWord] = rcfg.model
    BY <1>i DEF CompressInv
  <2>w. left \in 6 .. 9 => \A w \in {DataWord, ModelWord} : Arriving(w) => Arriving(w)'
    BY <1>t, <2>2, ExecWord
  <2>9. /\ Given(DataAddr) /\ (left \in 6 .. 8 \/ (left = 9 /\ Gone)) => Arriving(DataWord)'
        /\ Given(ModelAddr) /\ (left = 6 \/ (left = 7 /\ Gone)) => Arriving(ModelWord)'
    BY <1>i, <2>w DEF CompressInv
  <2> QED
    BY <1>0, <2>1, <2>4, <2>5, <2>6, <2>7, <2>8, <2>9, SamePoint DEF CompressInv
<1>7. ResultInv'
  <2>1. ~At("status", 0) /\ ~(left = 0 /\ result = 0)
    BY <1>q, <1>i DEF QuietAt, QuietInv, At
  <2>2. /\ \A i \in 1 .. InfoCount : /\ Fresh(InfoRegs[i]) => Fresh(InfoRegs[i])'
                                     /\ Coming(InfoRegs[i]) => Coming(InfoRegs[i])'
        /\ Fresh(CmpWord) => Fresh(CmpWord)'
        /\ Coming(CmpWord) => Coming(CmpWord)'
        /\ prog # "compress" => (Coming(NewWord) => Coming(NewWord)')
        /\ prog # "compress" => (StatusTold => StatusTold')
    <3>1. \A w \in ReadWords : w # NewWord \/ prog # "compress" =>
            (Fresh(w) => Fresh(w)') /\ (Coming(w) => Coming(w)')
      BY ExecWord
    <3>2. prog # "compress" => (StatusTold => StatusTold')
      BY ExecWord
    <3> QED
      BY <1>t, <3>1, <3>2
  <2>3. InfoFresh => InfoFresh'
    BY <2>2 DEF InfoFresh
  <2>4. ResultInv
    BY <1>i
  <2> QED
    BY <1>0, <2>1, <2>2, <2>3, <2>4, SamePoint DEF ResultInv, ModelRead, At
<1>8. InputInv'
  <2>1. /\ rcfg.data = NULL => ~Writing(DataWord)
        /\ rcfg.model = NULL => ~Writing(ModelWord)
    BY <1>i, GivenIs DEF InputInv
  <2> QED
    BY <1>0, <1>i, <2>1, SamePoint, ExecWord DEF InputInv
<1> QED
  BY <1>1, <1>2, <1>3, <1>4, <1>5, <1>6, <1>7, <1>8 DEF PInv

(* What a write of the control register leaves alone.                      *)
LEMMA ControlWord ==
  ASSUME PBase, PInv, NEW c, NEW v, VControl(c, v)
  PROVE  /\ \A w \in Addr \ {CTRL, STATUS} : remote'[w] = remote[w]
         /\ Configured' <=> Configured
         /\ DataThere' <=> DataThere
         /\ ModelThere' <=> ModelThere
         /\ Placed' <=> Placed
         /\ \A w : Writing(w)' => Writing(w)
         /\ Free(v) => remote'[STATUS] = 0
         /\ StartGoes \/ IntGoes \/ WorkGoes
         /\ ~QuietAt /\ ~Quiet
         /\ Replies' = Replies \cup {Answer(c, "ok", <<>>)}
         /\ c \in Cmds /\ Cmds = Cmds' \cup {c} /\ c.addr = CTRL /\ c.data[1] = v
         /\ cmds # <<>> /\ cmds' = Tail(cmds)
         /\ fpga'.after_raw = Raw(v)
         /\ fpga'.state = IF HasBit(v, START) /\ Free(v)
                          THEN IF Raw(v) /\ Mode # CMP_MODE_RAW THEN "stuck" ELSE "active"
                          ELSE IF Free(v) THEN "idle" ELSE fpga.state
<1>0. /\ Controlled(c, v) /\ rcfg' = rcfg /\ input' = input
  BY DEF VControl, Lives, Kept
<1>1. /\ Replies' = Replies \cup {Answer(c, "ok", <<>>)}
      /\ c \in Cmds /\ Cmds = Cmds' \cup {c} /\ c.addr = CTRL /\ c.data[1] = v
      /\ cmds # <<>> /\ cmds' = Tail(cmds)
  BY <1>0 DEF Controlled, Taken
<1>2. /\ fpga'.after_raw = Raw(v)
      /\ fpga'.state = IF HasBit(v, START) /\ Free(v)
                       THEN IF Raw(v) /\ Mode # CMP_MODE_RAW THEN "stuck" ELSE "active"
                       ELSE IF Free(v) THEN "idle" ELSE fpga.state
  BY <1>0 DEF Controlled
<1>3. remote \in [Addr -> Value] /\ CTRL \in Addr /\ STATUS \in Addr /\ CTRL # STATUS
  BY WordsApart DEF PBase, CInv, CBase, MemInv, TypeOK, ReadWords, WriteWords
<1>4. remote' = [remote EXCEPT ![CTRL] = v, ![STATUS] = IF Free(v) THEN 0 ELSE @]
  BY <1>0 DEF Controlled
<1>5. \A w \in Addr \ {CTRL, STATUS} : remote'[w] = remote[w]
  BY <1>3, <1>4
<1>6. Free(v) => remote'[STATUS] = 0
  BY <1>3, <1>4
<1>7. /\ DataWord \in Addr \ {CTRL, STATUS} /\ ModelWord \in Addr \ {CTRL, STATUS}
      /\ \A i \in 1 .. N : ConfigRegs[i] \in Addr \ {CTRL, STATUS}
  BY WordsApart DEF ReadWords, WriteWords
<1>8. /\ Configured' <=> Configured
      /\ DataThere' <=> DataThere
      /\ ModelThere' <=> ModelThere
  BY <1>0, <1>5, <1>7 DEF Configured, DataThere, ModelThere, UsesModel
<1>11. (Placed' <=> Placed) /\ \A w : Writing(w)' => Writing(w)
  BY <1>1, <1>8 DEF Placed, Writing
<1>9. StartGoes \/ IntGoes \/ WorkGoes
  BY <1>1 DEF PInv, ControlInv, NoControl
<1>10. ~QuietAt /\ ~Quiet
  BY <1>1 DEF PInv, QuietInv, Quiet
<1> QED
  BY <1>1, <1>2, <1>5, <1>6, <1>8, <1>9, <1>10, <1>11

(* The compression starts.                                                 *)
LEMMA StartKeeps ==
  ASSUME PBase, PInv, NEW c, NEW v, VControl(c, v), StartGoes
  PROVE  PInv'
<1>0. /\ Kept /\ (Gone' <=> Gone) /\ rcfg' = rcfg /\ input' = input /\ mirror' = mirror
      /\ busy' = busy /\ polls' = 0 /\ (Submitting' <=> Submitting)
  BY DEF VControl, Lives, Kept, Controlled, Taken
<1>i. /\ QuietInv /\ ReplyInv /\ CmdInv /\ FpgaInv /\ ControlInv /\ InputInv /\ CompressInv
      /\ ResultInv
  BY DEF PInv
<1>w. N \in Nat /\ 1 <= N /\ left \in Nat
  BY Where
<1>p. prog = "compress" /\ (left = 2 \/ left = 3) /\ (left = 3 => Gone)
  BY DEF StartGoes
<1>1. Ready /\ HasBit(v, START) /\ Len(cmds) <= 1 /\ \A r \in Replies : r.data = <<>>
  BY <1>i, ControlWord DEF ControlInv
<1>2. Free(v) /\ ~Raw(v)
  BY <1>1 DEF Free, Raw, Ready, Idle
<1>3. fpga'.state = "active" /\ ~fpga'.after_raw
  BY <1>1, <1>2, ControlWord
<1>4. Started'
  BY <1>1, <1>2, <1>3, ControlWord DEF Started, Active, Ready, READY
<1>5. cmds' = <<>> /\ Len(cmds') <= 1 /\ Cmds' = {}
  <2>1. cmds \in Seq(Command) /\ cmds # <<>> /\ cmds' = Tail(cmds)
    BY ControlWord DEF PBase, CInv, CBase, MemInv, TypeOK
  <2>2. Len(cmds) = 1
    <3>1. Len(cmds) \in Nat /\ Len(cmds) # 0
      BY <2>1, EmptySeq
    <3>2. Len(cmds) <= 1
      BY <1>1, Zenon
    <3> QED
      BY <3>1, <3>2
  <2>3. cmds' \in Seq(Command) /\ Len(cmds') = 0
    BY <2>1, <2>2
  <2>4. cmds' = <<>>
    BY <2>3, EmptySeq
  <2> QED
    BY <2>3, <2>4 DEF Cmds, Elems
<1>6. \A r \in Replies' : r.data = <<>> /\ r.form \in {"ok", "rejected"}
  BY <1>1, <1>i, ControlWord DEF Answer, ReplyInv
<1>7. QuietInv'
  BY <1>0, <1>i, ControlWord, SamePoint DEF QuietInv
<1>8. ReplyInv' /\ CmdInv'
  BY <1>5, <1>6 DEF ReplyInv, CmdInv
<1>9. FpgaInv'
  <2>1. ~(IdleAt \/ IntWaits \/ IntGoes \/ StartedAt \/ WorkGoes \/ CleanAt)
    BY <1>p, <1>w DEF IdleAt, IntWaits, IntGoes, StartedAt, WorkGoes, CleanAt, At, Infos
  <2> QED
    BY <1>0, <1>3, <1>p, <2>1, SamePoint DEF FpgaInv
<1>10. ControlInv'
  <2>1. \A b : Up(b)' <=> Up(b)
    BY <1>0 DEF Up
  <2> QED
    BY <1>0, <1>i, <1>p, <1>4, <1>5, <1>6, <2>1, SamePoint DEF ControlInv, At
<1>11. CompressInv' /\ ResultInv'
  BY <1>0, <1>p, <1>w, SamePoint DEF CompressInv, ResultInv, At, ModelRead
<1>12. InputInv'
  BY <1>0, <1>5, <1>i, <1>p, SamePoint DEF InputInv, Writing
<1> QED
  BY <1>7, <1>8, <1>9, <1>10, <1>11, <1>12 DEF PInv

(* Another write of the control register: the interrupt.                   *)
LEMMA InterruptKeeps ==
  ASSUME PBase, PInv, NEW c, NEW v, VControl(c, v), ~StartGoes
  PROVE  PInv'
<1>0. /\ Kept /\ (Gone' <=> Gone) /\ rcfg' = rcfg /\ input' = input /\ mirror' = mirror
      /\ busy' = busy /\ polls' = 0 /\ (Submitting' <=> Submitting)
  BY DEF VControl, Lives, Kept, Controlled, Taken
<1>i. /\ QuietInv /\ ReplyInv /\ CmdInv /\ FpgaInv /\ ControlInv /\ InputInv /\ CompressInv
      /\ ResultInv
  BY DEF PInv
<1>w. N \in Nat /\ 1 <= N /\ left \in Nat
  BY Where
<1>p. \/ prog = "interrupt" /\ left \in {2, 3}
      \/ prog = "work" /\ left \in {N + 15, N + 16}
  BY ControlWord DEF IntGoes, WorkGoes
<1>1. ~HasBit(v, START)
  BY <1>i, <1>p, ControlWord DEF ControlInv
<1>2. /\ fpga'.state = IF Free(v) THEN "idle" ELSE fpga.state
      /\ fpga'.after_raw = Raw(v)
  BY <1>1, ControlWord
<1>3. /\ Idle => Idle'
      /\ HasInt => HasInt' \/ (Idle' /\ ~fpga'.after_raw)
      /\ Active' => Active
      /\ fpga'.after_raw => fpga.after_raw
      /\ fpga'.state \in {"idle", "active"}
  <2>1. Idle => Idle'
    BY <1>2 DEF Idle, Free
  <2>2. HasBit(v, INTERRUPT) => Idle' /\ ~fpga'.after_raw
    BY <1>2 DEF Idle, Free, Raw
  <2>3. HasInt => HasInt' \/ HasBit(v, INTERRUPT)
    BY ControlWord DEF HasInt
  <2>4. (Active' => Active) /\ (fpga'.after_raw => fpga.after_raw)
    BY <1>2 DEF Active, Raw
  <2>5. fpga'.state \in {"idle", "active"}
    BY <1>2, <1>i DEF FpgaInv
  <2> QED
    BY <2>1, <2>2, <2>3, <2>4, <2>5
<1>4. QuietInv'
  BY <1>0, <1>i, ControlWord, SamePoint DEF QuietInv
<1>5. ReplyInv'
  <2>1. ASSUME NEW r \in Replies'
        PROVE  /\ r.form \in {"ok", "rejected"}
               /\ r.data # <<>> =>
                    r.addr \notin {STATUS, NewWord} /\ ~Active /\ r.data[1] = remote'[r.addr]
    <3>1. CASE r = Answer(c, "ok", <<>>)
      BY <3>1 DEF Answer
    <3>2. CASE r \in Replies
      <4>1. /\ r.form \in {"ok", "rejected"}
            /\ r.data # <<>> => /\ r.addr \notin {STATUS, NewWord} /\ ~Active
                               /\ r.data[1] = remote[r.addr]
        BY <1>i, <1>p, <3>2 DEF ReplyInv, ModelRead
      <4>2. r.data # <<>> => r.addr \in ReadWords
        BY <3>2 DEF PBase, CInv, Traffic
      <4>3. r.data # <<>> => r.addr \in Addr \ {CTRL, STATUS}
        BY <4>1, <4>2, WordsApart DEF WriteWords
      <4> QED
        BY <4>1, <4>3, ControlWord
    <3> QED
      BY <3>1, <3>2, ControlWord
  <2> QED
    BY <1>3, <2>1 DEF ReplyInv
<1>6. CmdInv'
  BY <1>0, <1>3, <1>i, ControlWord, SamePoint DEF CmdInv
<1>7. FpgaInv'
  <2>1. remote'[InfoRegs[1]] = remote[InfoRegs[1]]
    <3>1. InfoRegs[1] \in Addr \ {CTRL, STATUS}
      BY WordsApart DEF ReadWords, WriteWords
    <3> QED
      BY <3>1, ControlWord
  <2>2. ~(IntWaits \/ StartedAt \/ CleanAt)
    BY <1>p, <1>w, ControlWord DEF IntWaits, StartedAt, CleanAt, At, IntGoes, WorkGoes
  <2>3. /\ IdleAt => Idle
        /\ IntGoes => Idle \/ HasInt
        /\ WorkGoes => ~fpga.after_raw \/ HasInt
        /\ fpga.after_raw => remote[InfoRegs[1]] = CMP_MODE_RAW
    BY <1>i DEF FpgaInv
  <2> QED
    BY <1>0, <1>3, <1>p, <2>1, <2>2, <2>3, SamePoint DEF FpgaInv
<1>8. ControlInv'
  <2>1. \A b : Up(b)' <=> Up(b)
    BY <1>0 DEF Up
  <2> QED
    BY <1>0, <1>i, <1>p, <2>1, ControlWord, SamePoint DEF ControlInv, At
<1>9. CompressInv' /\ ResultInv'
  BY <1>0, <1>p, <1>w, SamePoint DEF CompressInv, ResultInv, At, ModelRead
<1>10. InputInv'
  BY <1>0, <1>i, ControlWord, SamePoint DEF InputInv
<1> QED
  BY <1>4, <1>5, <1>6, <1>7, <1>8, <1>9, <1>10 DEF PInv

(* The compressor finishes: its result is there.                           *)
LEMMA FinishedWords ==
  ASSUME PBase, PInv, VFinish
  PROVE  /\ Active /\ Idle' /\ ~Active'
         /\ \A w \in Addr \ ReadWords : remote'[w] = remote[w]
         /\ Started => Finished'
         /\ fpga'.after_raw => remote'[InfoRegs[1]] = CMP_MODE_RAW
<1>0. /\ fpga.state = "active" /\ rcfg' = rcfg /\ input' = input
      /\ fpga' = [state |-> "idle", after_raw |-> Mode = CMP_MODE_RAW]
      /\ remote' = [w \in Addr |->
           CASE w = STATUS -> READY
             [] w = CmpWord -> Output(Mode, remote[DataWord], remote[ModelWord])
             [] w = NewWord /\ model_mode_is_used(Mode) ->
                  Updated(remote[DataWord], remote[ModelWord])
             [] \E i \in 1 .. Len(InfoRegs) : InfoRegs[i] = w ->
                  remote[ConfigRegs[CHOOSE i \in 1 .. Len(InfoRegs) : InfoRegs[i] = w]]
             [] OTHER -> remote[w]]
  BY DEF VFinish, FpgaFinish, CmpWord, DataWord, ModelWord, NewWord, Lives, Kept
<1>1. Active /\ Idle' /\ ~Active'
  BY <1>0 DEF Active, Idle
<1>2. /\ STATUS \in Addr /\ CmpWord \in Addr /\ STATUS # CmpWord
      /\ NewWord \in Addr /\ NewWord # STATUS /\ NewWord # CmpWord
      /\ \A i \in 1 .. InfoCount : InfoRegs[i] \in Addr \ {STATUS, CmpWord, NewWord}
      /\ InfoCount \in Nat /\ 1 <= InfoCount /\ InfoCount <= N /\ N \in Nat
  BY WordsApart, Registers DEF ReadWords
<1>3. \A w \in Addr \ ReadWords : remote'[w] = remote[w]
  <2> SUFFICES ASSUME NEW w \in Addr \ ReadWords PROVE remote'[w] = remote[w]
    OBVIOUS
  <2>1. w # STATUS /\ w # CmpWord /\ w # NewWord /\ ~ \E i \in 1 .. Len(InfoRegs) : InfoRegs[i] = w
    BY WordsApart DEF ReadWords, InfoCount
  <2> QED
    BY <1>0, <2>1
<1>4. /\ remote'[STATUS] = READY
      /\ remote'[CmpWord] = Output(Mode, remote[DataWord], remote[ModelWord])
      /\ model_mode_is_used(Mode) =>
           remote'[NewWord] = Updated(remote[DataWord], remote[ModelWord])
  <2>1. \A i \in 1 .. Len(InfoRegs) : InfoRegs[i] \notin {STATUS, CmpWord, NewWord}
    BY <1>2 DEF InfoCount
  <2>2. remote'[STATUS] = READY
    BY <1>0, <1>2, <2>1
  <2>3. remote'[CmpWord] = Output(Mode, remote[DataWord], remote[ModelWord])
    BY <1>0, <1>2, <2>1
  <2>4. model_mode_is_used(Mode) =>
          remote'[NewWord] = Updated(remote[DataWord], remote[ModelWord])
    BY <1>0, <1>2, <2>1
  <2> QED
    BY <2>2, <2>3, <2>4
<1>5. \A i \in 1 .. InfoCount : remote'[InfoRegs[i]] = remote[ConfigRegs[i]]
  <2> SUFFICES ASSUME NEW i \in 1 .. InfoCount
               PROVE  remote'[InfoRegs[i]] = remote[ConfigRegs[i]]
    OBVIOUS
  <2>1. \E j \in 1 .. Len(InfoRegs) : InfoRegs[j] = InfoRegs[i]
    BY DEF InfoCount
  <2>2. remote'[InfoRegs[i]] =
          remote[ConfigRegs[CHOOSE j \in 1 .. Len(InfoRegs) : InfoRegs[j] = InfoRegs[i]]]
    BY <1>0, <1>2, <2>1
  <2> QED
    BY <2>2, IndexOf
<1>6. Started => Finished'
  <2>1. Started => Configured /\ DataThere /\ ModelThere
    BY <1>1 DEF Started, Placed, Finished, Idle, Active
  <2>2. Configured => /\ Mode = rcfg.regs[1]
                      /\ \A i \in 1 .. InfoCount : remote[ConfigRegs[i]] = rcfg.regs[i]
    BY <1>2 DEF Configured, Mode
  <2>3. Started =>
          /\ remote'[CmpWord] = Output(rcfg.regs[1], input.data, input.model)
          /\ UsesModel => remote'[NewWord] = Updated(input.data, input.model)
    BY <1>4, <2>1, <2>2 DEF DataThere, ModelThere, UsesModel, Output
  <2> QED
    BY <1>0, <1>1, <1>4, <1>5, <2>1, <2>2, <2>3 DEF Finished, UsesModel
<1>7. fpga'.after_raw => remote'[InfoRegs[1]] = CMP_MODE_RAW
  <2>1. fpga'.after_raw => Mode = CMP_MODE_RAW
    BY <1>0
  <2>2. remote'[InfoRegs[1]] = Mode
    BY <1>2, <1>5 DEF Mode
  <2> QED
    BY <2>1, <2>2
<1> QED
  BY <1>1, <1>3, <1>6, <1>7

(* The compressor finishes.                                                *)
LEMMA FinishKeeps == ASSUME PBase, PInv, VFinish PROVE PInv'
<1>0. /\ Kept /\ (Gone' <=> Gone) /\ rcfg' = rcfg /\ input' = input /\ UNCHANGED <<mirror, cmds, replies>>
      /\ busy' = busy /\ polls' = 0 /\ (Submitting' <=> Submitting)
      /\ Cmds' = Cmds /\ Replies' = Replies
  BY DEF VFinish, Lives, Kept, FpgaFinish, link, Cmds, Replies
<1>i. /\ QuietInv /\ ReplyInv /\ CmdInv /\ FpgaInv /\ ControlInv /\ InputInv /\ CompressInv
      /\ ResultInv
  BY DEF PInv
<1>w. /\ N \in Nat /\ 1 <= N /\ left \in Nat /\ prog \in Progs
      /\ prog = "compress" => left <= N + 16
  BY Where
<1>a. Active /\ ~Idle
  BY FinishedWords DEF Active, Idle
<1>p. \/ prog = "interrupt" /\ left > 1
      \/ prog = "status"
      \/ prog = "compress" /\ left < 4 /\ (left = 3 => Gone) /\ (left = 0 => result = 0)
  BY <1>a, <1>i, <1>w DEF FpgaInv, IdleAt, Progs, Infos
<1>1. Quiet' <=> Quiet
  BY <1>0 DEF Quiet
<1>2. QuietInv'
  BY <1>0, <1>1, <1>i, SamePoint DEF QuietInv
<1>3. ReplyInv'
  <2>1. prog = "status" => Finished'
    BY <1>i, FinishedWords DEF FpgaInv, StartedAt
  <2>2. \A r \in Replies : /\ r.form \in {"ok", "rejected"}
                           /\ r.data # <<>> => r.addr = STATUS /\ prog = "status"
    BY <1>a, <1>i DEF ReplyInv
  <2>3. NewWord # STATUS
    BY WordsApart
  <2> QED
    BY <1>0, <2>1, <2>2, <2>3, FinishedWords, SamePoint DEF ReplyInv
<1>4. CmdInv'
  BY <1>0, <1>i, FinishedWords, SamePoint DEF CmdInv
<1>5. FpgaInv'
  <2>1. StartedAt => Started'
    BY <1>i, FinishedWords DEF FpgaInv, Started
  <2>2. fpga'.state = "idle"
    BY FinishedWords DEF Idle
  <2>3. ~WorkGoes /\ ~CleanAt
    BY <1>p, <1>w DEF WorkGoes, CleanAt
  <2> QED
    BY <1>0, <1>p, <2>1, <2>2, <2>3, FinishedWords, SamePoint DEF FpgaInv
<1>6. ControlInv'
  <2>1. \A b : Up(b)' <=> Up(b)
    BY <1>0 DEF Up
  <2>2. NoControl' <=> NoControl
    BY <1>0 DEF NoControl
  <2>3. ~(At("compress", 3) /\ ~Gone)
    BY <1>p DEF At
  <2>4. StartGoes => IF cmds = <<>> THEN Started' ELSE Ready'
    <3>1. StartGoes => cmds = <<>>
      BY <1>a, <1>i DEF ControlInv, Ready
    <3>2. StartGoes => Started
      BY <1>i, <3>1 DEF ControlInv
    <3> QED
      BY <3>1, <3>2, FinishedWords DEF Started
  <2> QED
    BY <1>0, <1>i, <2>1, <2>2, <2>3, <2>4, SamePoint DEF ControlInv
<1>7. CompressInv'
  BY <1>0, <1>p, <1>w, SamePoint DEF CompressInv
<1>8. ResultInv'
  <2>1. prog = "status" => Finished'
    BY <1>i, FinishedWords DEF FpgaInv, StartedAt
  <2>2. prog = "status" => StatusTold'
    BY <2>1 DEF StatusTold
  <2> QED
    BY <1>0, <1>p, <2>1, <2>2, SamePoint DEF ResultInv, At, ModelRead
<1>9. InputInv'
  BY <1>0, <1>i, <1>p, <1>w, SamePoint DEF InputInv, Writing
<1> QED
  BY <1>2, <1>3, <1>4, <1>5, <1>6, <1>7, <1>8, <1>9 DEF PInv
-----------------------------------------------------------------------------
(* Every step keeps it.                                                    *)
LEMMA PInvStep ==
  ASSUME Faults \cap LeakFaults = {}, PBase, PInv, CMove
  PROVE  PInv'
<1>1. PMove
  BY PromptMoves
<1>2. \A c, v : VControl(c, v) => PInv'
  BY StartKeeps, InterruptKeeps
<1>3. \A c : VSend(c) \/ VTake(c) \/ VExec(c) => PInv'
  BY SendKeeps, TakeKeeps, ExecKeeps
<1>4. VStay \/ VAdv \/ VAbort \/ VWork \/ VLocal \/ VLoad \/ VFinish => PInv'
  BY StayKeeps, SyncedKeeps, AdvKeeps, AbortKeeps, WorkKeeps, LocalKeeps, LoadKeeps,
     FinishKeeps
<1>5. (\E p \in Functions : Begun(p)) => PInv'
  BY BeginKeeps
<1> QED
  BY <1>1, <1>2, <1>3, <1>4, <1>5 DEF PMove

(* Before the first call nothing is on the link and the compressor is      *)
(* idle.                                                                   *)
LEMMA PInvInit == ASSUME CInit PROVE PInv
<1>0. /\ fn = "none" /\ todo = <<>> /\ busy = FALSE /\ polls = 0 /\ result = 0
      /\ fpga = [state |-> "idle", after_raw |-> FALSE]
      /\ cmds = <<>> /\ replies = <<>> /\ mirror = [w \in Addr |-> Value0]
  BY DEF CInit, XInit, Init
<1>1. left = 0 /\ prog = "none"
  <2>1. Len(todo) = 0
    BY <1>0, EmptySeq
  <2>2. ~ \E i \in 1 .. Len(todo) : todo[i].op = "end"
    BY <2>1
  <2> QED
    BY <1>0, <2>1, <2>2 DEF left, prog, ProgOf
<1>2. Cmds = {} /\ Replies = {} /\ Quiet
  BY <1>0, CInvInit, QuietSets DEF Quiet
<1>3. ~Gone /\ Idle /\ ~Active /\ ~fpga.after_raw /\ fpga.state = "idle"
  BY <1>0 DEF Gone, Idle, Active
<1>4. QuietInv
  BY <1>0, <1>1, <1>2, Registers DEF QuietInv, SureAt, At
<1>5. ReplyInv /\ CmdInv
  BY <1>2 DEF ReplyInv, CmdInv
<1>6. FpgaInv
  BY <1>1, <1>3 DEF FpgaInv, IntWaits, IntGoes, StartedAt, WorkGoes, CleanAt, At
<1>9. ~Up(START)
  <2>1. mirror[CTRL] = 0
    BY <1>0, WordAssumption, WordsApart DEF WriteWords
  <2> QED
    BY <2>1 DEF Up, HasBit, START
<1>7. ControlInv
  BY <1>1, <1>2, <1>9 DEF ControlInv, NoControl, StartGoes, At
<1>8. InputInv /\ CompressInv /\ ResultInv
  BY <1>1, <1>2 DEF InputInv, Writing, CompressInv, ResultInv, ModelRead, At
<1> QED
  BY <1>4, <1>5, <1>6, <1>7, <1>8 DEF PInv

(* All of it, as an invariant: what holds on every link that loses         *)
(* nothing, and what holds on a prompt one.                                *)
PromptInv == scenario.prompt => PInv
LEMMA PromptAlways ==
  ASSUME Faults \cap LeakFaults = {}
  PROVE  CSpec => [](CInv /\ LossFree /\ PromptInv)
<1>0. Faults \cap {"create", "tx"} = {}
  BY DEF LeakFaults
<1>1. CInit => LossFree /\ PromptInv
  <2> SUFFICES ASSUME CInit PROVE LossFree /\ PromptInv
    OBVIOUS
  <2>1. busy = FALSE
    BY DEF CInit
  <2>2. LeakInv
    BY LeakInvInit DEF CInit, XInit
  <2> QED
    BY <2>1, <2>2, PInvInit DEF LossFree, PromptInv, RefusedFull, SendSure
<1>2. CInv /\ LossFree /\ PromptInv /\ [CNext]_cvars => LossFree' /\ PromptInv'
  <2> SUFFICES ASSUME CInv, LossFree, PromptInv, [CNext]_cvars
               PROVE  LossFree' /\ PromptInv'
    OBVIOUS
  <2>1. CASE CNext
    <3>1. CMove /\ scenario' = scenario
      BY <2>1, CMoves DEF CInv, CBase, CNext
    <3>2. LossFree'
      BY <1>0, <3>1, CLeakStep, RefusedFullStep, SendSureStep DEF LossFree
    <3>3. scenario.prompt => PInv'
      BY <3>1, PInvStep DEF PromptInv, PBase
    <3> QED
      BY <3>1, <3>2, <3>3 DEF PromptInv
  <2>2. CASE UNCHANGED cvars
    <3>1. UNCHANGED <<todo, fn, rcfg, input, result, busy, polls, call, ret, in_use, mirror,
                      cmds, replies, remote, fpga, xfer, scenario>>
      BY <2>2 DEF cvars, xvars, vars, lib, log, link, client
    <3>2. Kept
      BY <3>1, Stays DEF CInv, CBase, ClientOK
    <3>6. RefusedFull'
      BY <3>1, <3>2 DEF LossFree, Kept, RefusedFull, FreeSlots
    <3>3. SendSure'
      BY <3>1, <3>2 DEF LossFree, Kept, SendSure, Given
    <3>4. LeakInv'
      BY <2>2, LeakUnmoved DEF LossFree, cvars, xvars, vars, lib, log, link, Submitting
    <3>5. scenario.prompt => PInv'
      <4> SUFFICES ASSUME scenario.prompt PROVE PInv'
        OBVIOUS
      <4>1. PBase /\ PInv
        BY DEF PBase, PromptInv
      <4>2. (Gone' <=> Gone) /\ (Submitting' <=> Submitting)
        BY <3>1, <3>2 DEF Gone, XferSent, Submitting, Kept
      <4>3. VStay
        BY <3>1, <3>2, <4>1, <4>2 DEF VStay, Same, PInv, QuietInv
      <4> QED
        BY <4>1, <4>3, StayKeeps
    <3> QED
      BY <3>1, <3>3, <3>4, <3>5, <3>6 DEF PromptInv, LossFree
  <2> QED
    BY <2>1, <2>2
<1> QED
  BY <1>1, <1>2, CInvAlways, PTL DEF CSpec

(* The compressor is never driven into the deadlock that                   *)
(* rdcu_set_compression_register works around (cmp_rdcu.c, lines 119 to    *)
(* 124), for every number of registers, every size of the log and every    *)
(* configuration, on a prompt link that loses nothing.                     *)
THEOREM WorkAroundSuffices ==
  ASSUME Faults \cap LeakFaults = {}
  PROVE  CSpec => []NeverStuck
<1>1. PromptInv => NeverStuck
  BY DEF PromptInv, PInv, FpgaInv, NeverStuck
<1> QED
  BY <1>1, PromptAlways, PTL

(* Information, bitstream and updated model an application reads at the    *)
(* end are those of the configuration, the data and the model it passed to *)
(* rdcu_compress_data, or left in the SRAM, on such a link.                *)
THEOREM ResultBelongsToCall ==
  ASSUME Faults \cap LeakFaults = {}
  PROVE  CSpec => []ResultIsOfCall
<1>1. CInv /\ LossFree /\ PromptInv => ResultIsOfCall
  <2> SUFFICES ASSUME CInv, LossFree, PromptInv, scenario.prompt,
                      Returned("bitstream") \/ Returned("model")
               PROVE  /\ mirror[CmpWord] = Output(rcfg.regs[1], input.data, input.model)
                      /\ \A i \in 1 .. InfoCount : mirror[InfoRegs[i]] = rcfg.regs[i]
                      /\ Returned("model") =>
                           mirror[NewWord] = Updated(input.data, input.model)
    BY DEF ResultIsOfCall, CmpWord, NewWord, InfoCount
  <2>1. PBase /\ PInv
    BY DEF PBase, PromptInv, LossFree
  <2>2. left = 0 /\ result = 0 /\ prog \in {"bitstream", "model"} /\ prog = fn
    <3>1. left = 0 /\ fn \in {"bitstream", "model"} /\ result = 0
      BY TodoIs DEF Returned, CInv, CBase, ClientOK
    <3> QED
      BY <2>1, <3>1, Where
  <2>3. Finished /\ (prog = "model" => UsesModel)
    BY <2>1, <2>2 DEF PInv, FpgaInv
  <2>4. Fresh(CmpWord) /\ InfoFresh /\ (prog = "model" => Fresh(NewWord))
    BY <2>1, <2>2 DEF PInv, ResultInv, At
  <2>5. Returned("model") => prog = "model"
    BY <2>2 DEF Returned
  <2> QED
    BY <2>3, <2>4, <2>5 DEF Fresh, InfoFresh, Finished
<1> QED
  BY <1>1, PromptAlways, PTL

(* The compressor starts with all the registers, the data and, in the      *)
(* modes that use one, the model of the call in progress, on such a link.  *)
THEOREM StartsWithCall ==
  ASSUME Faults \cap LeakFaults = {}
  PROVE  CSpec => StartsAsConfigured
<1>1. CInv /\ LossFree /\ PromptInv /\ [CNext]_cvars =>
        [scenario.prompt /\ fpga.state # "active" /\ fpga'.state = "active" =>
           /\ \A i \in 1 .. Len(ConfigRegs) : remote[ConfigRegs[i]] = rcfg.regs[i]
           /\ remote[DataAddr \div 4] = input.data
           /\ model_mode_is_used(rcfg.regs[1]) =>
                remote[ModelAddr \div 4] = input.model]_cvars
  <2> SUFFICES ASSUME CInv, LossFree, PromptInv, CNext, scenario.prompt,
                      fpga.state # "active", fpga'.state = "active"
               PROVE  /\ \A i \in 1 .. Len(ConfigRegs) : remote[ConfigRegs[i]] = rcfg.regs[i]
                      /\ remote[DataAddr \div 4] = input.data
                      /\ model_mode_is_used(rcfg.regs[1]) =>
                           remote[ModelAddr \div 4] = input.model
    OBVIOUS
  <2>1. PBase /\ PInv /\ CMove
    BY CMoves DEF PBase, PromptInv, LossFree, CInv, CBase
  <2>2. PICK c, v : VControl(c, v)
    <3>1. PMove
      BY <2>1, PromptMoves
    <3>2. fpga' # fpga
      OBVIOUS
    <3>3. ~(\E p \in Functions : Begun(p))
      BY <3>2 DEF Begun, Still
    <3>4. ~(VStay \/ VAdv \/ VAbort \/ VWork \/ VLocal \/ VLoad)
      BY <3>2 DEF VStay, VAdv, VAbort, VWork, VLocal, VLoad, Same
    <3>5. ~(\E c : VSend(c) \/ VTake(c) \/ VExec(c))
      BY <3>2 DEF VSend, VTake, VExec, Executed
    <3>6. ~VFinish
      BY DEF VFinish, FpgaFinish
    <3> QED
      BY <3>1, <3>3, <3>4, <3>5, <3>6 DEF PMove
  <2>3. HasBit(v, START) /\ c \in Cmds /\ c.addr = CTRL /\ c.data[1] = v
        /\ (StartGoes \/ IntGoes \/ WorkGoes) /\ cmds # <<>>
    BY <2>1, <2>2, ControlWord
  <2>4. StartGoes
    BY <2>1, <2>3 DEF PInv, ControlInv, IntGoes, WorkGoes
  <2>5. Ready
    BY <2>1, <2>3, <2>4 DEF PInv, ControlInv
  <2> QED
    BY <2>5 DEF Ready, Placed, Configured, DataThere, ModelThere, UsesModel, N, DataWord, ModelWord
<1> QED
  BY <1>1, PromptAlways, PTL DEF CSpec, StartsAsConfigured

(* On such a link the start bit is sent by rdcu_start_compression only,    *)
(* whatever the application calls in between: its submission is never      *)
(* refused, so that it reaches the line that clears the bit.               *)
THEOREM StartSentOnce ==
  ASSUME Faults \cap LeakFaults = {}
  PROVE  CSpec => PromptStartsOnce
<1>1. PromptInv => (scenario.prompt /\ StartSent => InStart)
  <2> SUFFICES ASSUME PromptInv, scenario.prompt, StartSent PROVE InStart
    OBVIOUS
  <2>1. prog = "compress"
    BY DEF PromptInv, PInv, ControlInv, Up, StartSent
  <2> QED
    BY <2>1 DEF prog, ProgOf, InStart
<1> QED
  BY <1>1, PromptAlways, PTL DEF PromptStartsOnce
=============================================================================
