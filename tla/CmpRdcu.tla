------------------------------- MODULE CmpRdcu ------------------------------
(***************************************************************************)
(* The control of the hardware compressor (lib/rdcu_compress/cmp_rdcu.c)   *)
(* on top of the SRAM transfers and the RMAP layer, together with the      *)
(* compressor it controls (external).                                      *)
(*                                                                         *)
(* Each function of cmp_rdcu.c is straight-line code over a few kinds of   *)
(* operations; it is given by the sequence of these, and `todo' is what is *)
(* left of the call in progress.  The many registers a function handles    *)
(* alike are the sequences ConfigRegs and InfoRegs.  The build is the      *)
(* release build, in which debug_print evaluates nothing.                  *)
(***************************************************************************)
EXTENDS SramSync

CONSTANTS
  CTRL,         \* compr_ctrl, written
  STATUS,       \* compr_status, read
  ConfigRegs,   \* the configuration registers, compressor_param1 first
  InfoRegs,     \* the information registers, used_param1 first
  DataAddr, ModelAddr,   \* SRAM byte addresses of data and model, and of the
  CmpAddr, NewModelAddr, \* bitstream and the updated model; one word each
  Mtu,          \* rdcu_get_data_mtu()
  SyncRetries,  \* retries of rdcu_syncing (10)
  Compressed(_, _, _), \* the bitstream made in a mode of data and a model
  Updated(_, _),       \* the updated model made of data and a model
  Scenarios     \* the links and applications to look at

(* A scenario: whether the link is prompt (answers arrive, undamaged,      *)
(* before rdcu_syncing gives up), and the rdcu_cfg structures an           *)
(* application compresses with: one value per configuration register (the  *)
(* mode first), input_buf and model_buf, the verdict of                    *)
(* rdcu_cmp_cfg_is_invalid, and the first register whose setter refuses    *)
(* its value (0: none).  Behind a valid configuration these are registers  *)
(* with one setter: the number of samples, the length of the buffer and,   *)
(* in modes without a model, the addresses of the models.                  *)
ASSUME ScenarioAssumption ==
  \A e \in Scenarios :
    /\ e.prompt \in BOOLEAN
    /\ \A c \in e.configs : /\ c.regs \in [1 .. Len(ConfigRegs) -> Value]
                            /\ c.data \in Value \cup {NULL}
                            /\ c.model \in Value \cup {NULL}
                            /\ c.valid \in BOOLEAN
                            /\ c.refused \in 0 .. Len(ConfigRegs)
ASSUME RegAssumption  ==
  /\ ConfigRegs \in Seq(WrRegs \ {CTRL}) /\ CTRL \in WrRegs
  /\ InfoRegs \in Seq(RdRegs \ {STATUS}) /\ STATUS \in RdRegs
  /\ \A s \in {ConfigRegs, InfoRegs} :
       \A i, j \in 1 .. Len(s) : s[i] = s[j] => i = j
  /\ Len(InfoRegs) \in 1 .. Len(ConfigRegs)
(* The areas rdcu_cmp_cfg_is_invalid accepts are aligned and lie in the    *)
(* SRAM, and apart, except that the updated model may take the place of    *)
(* the model: so rdcu_write_sram_16 refuses none of them.  An mtu of 0     *)
(* would make the transfers go on for ever.                                *)
Areas == {DataAddr, ModelAddr, CmpAddr, NewModelAddr}
ASSUME AreaAssumption ==
  /\ \A a \in Areas : a \in Nat /\ a % 4 = 0 /\ a + 4 <= SramBytes
  /\ \A a, b \in Areas : a \div 4 = b \div 4 => a = b
  /\ DataAddr \notin {ModelAddr, CmpAddr, NewModelAddr}
  /\ CmpAddr \notin {ModelAddr, NewModelAddr}
ASSUME CmpAssumption  == SyncRetries \in Nat /\ Mtu \in Nat \ {0}

CMP_MODE_RAW == 0
model_mode_is_used(mode) == mode \in {1, 3}  \* MODEL_ZERO, MODEL_MULTI
START        == 1  \* bits of compr_ctrl
INTERRUPT    == 2
IRQ_ENABLE   == 4
READY        == 1  \* value of compr_status

VARIABLES
  fn,      \* the function in progress or completed last
  rcfg,    \* the configuration passed last
  input,   \* history: data and model it means, from the buffers or the SRAM
  todo,    \* its operations still to do
  busy,    \* the first of them has called the layer below
  polls,   \* cnt of rdcu_syncing
  result,  \* what fn returned
  interrupt_signal_enabled,
  fpga,    \* the compressor's state, and whether its last mode was raw
  scenario \* chosen at the beginning

client == <<fn, rcfg, input, todo, busy, polls, result>>
cvars  == <<xvars, client, interrupt_signal_enabled, fpga, scenario>>

HasBit(v, b)   == (v \div b) % 2 = 1
SetBit(v, b)   == IF HasBit(v, b) THEN v ELSE v + b
ClearBit(v, b) == IF HasBit(v, b) THEN v - b ELSE v

(* A word holds any combination of the bits, and what the compressor makes *)
(* of words; the mirror is cleared at the beginning.                       *)
ASSUME WordAssumption ==
  /\ Value \subseteq Nat /\ READY \in Value /\ Value0 = 0
  /\ \A v \in Value, b \in {START, INTERRUPT, IRQ_ENABLE} :
       SetBit(v, b) \in Value /\ ClearBit(v, b) \in Value
  /\ NULL \notin Value
  /\ \A m, d, x \in Value : Compressed(m, d, x) \in Value
  /\ \A d, x \in Value : Updated(d, x) \in Value

CInit ==
  /\ XInit
  /\ scenario \in Scenarios
  /\ fn = "none" /\ rcfg = CHOOSE c \in scenario.configs : c.valid
  /\ input = [data |-> Value0, model |-> Value0]
  /\ todo = <<>> /\ busy = FALSE /\ polls = 0 /\ result = 0
  /\ interrupt_signal_enabled = TRUE
  /\ fpga = [state |-> "idle", after_raw |-> FALSE]

-----------------------------------------------------------------------------
(* The functions of cmp_rdcu.c as sequences of operations.                 *)

Op(name)     == [op |-> name, reg |-> 0, bit |-> 0]
Read(r)      == [op |-> "read", reg |-> r, bit |-> 0]
Write(r)     == [op |-> "write", reg |-> r, bit |-> 0]
Set(b)       == [op |-> "set", reg |-> CTRL, bit |-> b]
Clear(b)     == [op |-> "clear", reg |-> CTRL, bit |-> b]
Store(a)     == [op |-> "store", reg |-> a, bit |-> 0]
Send(a)      == [op |-> "send", reg |-> a, bit |-> 0]
Fetch(a)     == [op |-> "fetch", reg |-> a, bit |-> 0]
All(F(_), s) == [i \in 1 .. Len(s) |-> F(s[i])]

InterruptOps == <<Set(INTERRUPT), Write(CTRL), Op("syncing"), Clear(INTERRUPT)>>

(* Mutants: no interrupt after a raw compression; the local start bit is   *)
(* not cleared.                                                            *)
RegisterOps_NoWorkAround ==
  <<Op("check"), Read(InfoRegs[1]), Op("syncing"), Op("load")>>
    \o All(Write, ConfigRegs) \o <<Op("syncing")>>

StartOps_BitKept == <<Op("irq"), Set(START), Write(CTRL), Op("syncing")>>

RegisterOps ==
  <<Op("check"), Read(InfoRegs[1]), Op("syncing"), Op("after_raw"), Op("load")>>
    \o All(Write, ConfigRegs) \o <<Op("syncing")>>

(* Mutant: the model is put into the mirror and not sent.                  *)
TransferOps_ModelNotSent ==
  <<Store(DataAddr), Send(DataAddr), Store(ModelAddr), Op("syncing")>>

(* The transfers of buffers that are not given are skipped.                *)
TransferOps == <<Store(DataAddr), Send(DataAddr), Store(ModelAddr),
                 Send(ModelAddr), Op("syncing")>>

StartOps == <<Op("irq"), Set(START), Write(CTRL), Op("syncing"), Clear(START)>>

StatusOps == <<Read(STATUS), Op("syncing")>>

InfoOps == All(Read, InfoRegs) \o <<Op("syncing")>>

(* Mutant: the caller does not wait for the bitstream.                     *)
FetchOps_NoSyncing(a) == <<Fetch(a)>>

FetchOps(a) == <<Fetch(a), Op("syncing")>>

(* An application calls one of the functions.                              *)
Begin(name, c, ops) ==
  /\ todo = <<>> /\ call = "none" /\ xfer.at = "idle"
  /\ fn' = name
  /\ rcfg' = c
  /\ todo' = ops
  /\ result' = 0
  /\ UNCHANGED <<xvars, busy, polls, interrupt_signal_enabled, fpga>>

Function(name, ops) == Begin(name, rcfg, ops) /\ UNCHANGED input

(* Without a buffer, what the SRAM holds is compressed.                    *)
Meant(buf, a) == IF buf = NULL THEN remote[a \div 4] ELSE buf

rdcu_compress_data(c) ==
  /\ Begin("compress", c, RegisterOps \o TransferOps \o StartOps)
  /\ input' = [data |-> Meant(c.data, DataAddr),
                model |-> Meant(c.model, ModelAddr)]

rdcu_interrupt_compression == Function("interrupt", InterruptOps)
rdcu_read_cmp_status       == Function("status", StatusOps)
rdcu_read_cmp_info(name)   == Function(name, InfoOps)
rdcu_read_cmp_bitstream    == Function("bitstream", FetchOps(CmpAddr))
rdcu_read_model            == Function("model", FetchOps(NewModelAddr))

rdcu_enable_disable_interrput_signal ==
  /\ todo = <<>> /\ call = "none"
  /\ interrupt_signal_enabled' = ~interrupt_signal_enabled
  /\ UNCHANGED <<xvars, client, fpga>>

-----------------------------------------------------------------------------
(* The operations.                                                         *)

Doing(name) == /\ todo # <<>> /\ Head(todo).op = name
               /\ call = "none" /\ xfer.at = "idle"

Done == /\ todo' = Tail(todo) /\ busy' = FALSE /\ polls' = 0
        /\ UNCHANGED <<fn, rcfg, input, result>>

(* The function returns -1; its caller too, but for the work-around, where *)
(* the result of rdcu_interrupt_compression is ignored ("end").            *)
Fail ==
  LET ends == {i \in 1 .. Len(todo) : todo[i].op = "end"} IN
    /\ IF ends # {}
         THEN /\ todo' = SubSeq(todo, 1 + CHOOSE i \in ends : TRUE, Len(todo))
              /\ UNCHANGED result
         ELSE todo' = <<>> /\ result' = -1
    /\ busy' = FALSE /\ polls' = 0
    /\ UNCHANGED <<fn, rcfg, input>>

Busy == busy' = TRUE /\ UNCHANGED <<fn, rcfg, input, todo, polls, result>>

Others == UNCHANGED <<interrupt_signal_enabled, fpga>>

CheckConfig ==
  /\ Doing("check")
  /\ IF rcfg.valid THEN Done ELSE Fail
  /\ UNCHANGED xvars /\ Others

(* rdcu_sync of a register.                                                *)
SyncRegister ==
  /\ todo # <<>> /\ Head(todo).op \in Kind /\ ~busy
  /\ rdcu_sync(Head(todo).op, Head(todo).reg)
  /\ Busy
  /\ UNCHANGED xfer /\ Others

RegisterReturned ==
  /\ \E k \in Kind : Doing(k)
  /\ busy
  /\ IF ret = 0 THEN Done ELSE Fail
  /\ UNCHANGED xvars /\ Others

(* rdcu_syncing: polls until nothing is pending or too often.              *)
rdcu_syncing ==
  /\ Doing("syncing") /\ ~busy
  /\ rdcu_rmap_sync_status
  /\ Busy
  /\ UNCHANGED xfer /\ Others

SyncingReturned ==
  /\ Doing("syncing") /\ busy
  /\ \/ ret = 0 /\ Done
     \/ /\ ret # 0
        /\ IF polls > SyncRetries
             THEN Done
             ELSE /\ busy' = FALSE
                  /\ polls' = IF scenario.prompt /\ link # <<<<>>, <<>>>>
                              THEN polls ELSE polls + 1
                  /\ UNCHANGED <<fn, rcfg, input, todo, result>>
  /\ UNCHANGED xvars /\ Others

(* Mutant: while instead of if; the mirror of the mode does not change.    *)
AfterRaw_While ==
  /\ Doing("after_raw")
  /\ todo' = IF mirror[InfoRegs[1]] = CMP_MODE_RAW
             THEN InterruptOps \o <<Op("end")>> \o todo ELSE Tail(todo)
  /\ UNCHANGED <<fn, rcfg, input, busy, polls, result, xvars>> /\ Others

(* The mode of the last compression is raw: interrupt first.               *)
AfterRaw ==
  /\ Doing("after_raw")
  /\ todo' = (IF mirror[InfoRegs[1]] = CMP_MODE_RAW
              THEN InterruptOps \o <<Op("end")>> ELSE <<>>) \o Tail(todo)
  /\ UNCHANGED <<fn, rcfg, input, busy, polls, result, xvars>> /\ Others

EndOfInterrupt == Doing("end") /\ Done /\ UNCHANGED xvars /\ Others

(* What rdcu_transfer_sram asks before it handles the data or the model.   *)
Given(a) == IF a = DataAddr
            THEN rcfg.data # NULL
            ELSE rcfg.model # NULL /\ model_mode_is_used(rcfg.regs[1])
Buffer(a) == IF a = DataAddr THEN rcfg.data ELSE rcfg.model

(* The local mirror: control bits and input buffers.                       *)
LocalValue(m) ==
  CASE Head(todo).op = "set" -> [m EXCEPT ![CTRL] = SetBit(@, Head(todo).bit)]
    [] Head(todo).op = "clear" ->
         [m EXCEPT ![CTRL] = ClearBit(@, Head(todo).bit)]
    [] Head(todo).op = "irq" ->
         [m EXCEPT ![CTRL] = IF interrupt_signal_enabled
                             THEN SetBit(@, IRQ_ENABLE)
                             ELSE ClearBit(@, IRQ_ENABLE)]
    [] Head(todo).op = "store" ->
         IF Given(Head(todo).reg)
         THEN [m EXCEPT ![Head(todo).reg \div 4] = Buffer(Head(todo).reg)]
         ELSE m

LocalStep ==
  /\ \E name \in {"set", "clear", "irq", "store"} : Doing(name)
  /\ mirror' = LocalValue(mirror)
  /\ Done
  /\ UNCHANGED <<lib, link, remote, xfer>> /\ Others

(* The setters of the configuration registers, up to the one that refuses  *)
(* its argument.                                                           *)
Loaded == IF rcfg.refused = 0 THEN Len(ConfigRegs) ELSE rcfg.refused - 1

LoadedMirror ==
  [w \in Addr |-> IF \E i \in 1 .. Loaded : ConfigRegs[i] = w
                  THEN rcfg.regs[CHOOSE i \in 1 .. Loaded : ConfigRegs[i] = w]
                  ELSE mirror[w]]

LoadConfig ==
  /\ Doing("load")
  /\ mirror' = LoadedMirror
  /\ IF rcfg.refused = 0 THEN Done ELSE Fail
  /\ UNCHANGED <<lib, link, remote, xfer>> /\ Others

(* A block of SRAM is sent, if it is given, or fetched.                    *)
TransferSram ==
  /\ ~busy
  /\ \/ /\ Doing("send") /\ Given(Head(todo).reg)
        /\ rdcu_sync_mirror_to_sram(Head(todo).reg, 4, Mtu)
     \/ Doing("fetch") /\ rdcu_sync_sram_to_mirror(Head(todo).reg, 4, Mtu)
  /\ Busy /\ Others

SkipTransfer ==
  /\ Doing("send") /\ ~busy /\ ~Given(Head(todo).reg)
  /\ Done
  /\ UNCHANGED xvars /\ Others

TransferReturned ==
  /\ Doing("send") \/ Doing("fetch")
  /\ busy
  /\ IF xfer.ret = 0 THEN Done ELSE Fail
  /\ UNCHANGED xvars /\ Others

Below == (LibStep /\ UNCHANGED xfer) \/ XferStep

ClientStep ==
  \/ CheckConfig \/ SyncRegister \/ RegisterReturned \/ rdcu_syncing
  \/ SyncingReturned \/ AfterRaw \/ EndOfInterrupt \/ LocalStep
  \/ LoadConfig \/ TransferSram \/ SkipTransfer \/ TransferReturned
  \/ Below /\ UNCHANGED client /\ Others

-----------------------------------------------------------------------------
(* The compressor.                                                         *)

(* The configuration and information registers are blocked while it runs.  *)
Blocked(c) ==
  /\ fpga.state = "active"
  /\ \E s \in {ConfigRegs, InfoRegs} : \E i \in 1 .. Len(s) : s[i] = c.addr

Mode == remote[ConfigRegs[1]]

FpgaExecute ==
  /\ cmds # <<>> /\ Head(cmds).addr # CTRL /\ ~Blocked(Head(cmds))
  /\ TargetExecute
  /\ UNCHANGED <<xfer, client>> /\ Others

FpgaRefuse ==
  /\ cmds # <<>> /\ Blocked(Head(cmds))
  /\ TargetReject
  /\ UNCHANGED <<xfer, client>> /\ Others

(* A write to the control register: an interrupt stops a compression and   *)
(* clears the effect of a raw one; a start starts one, unless it gets      *)
(* stuck.                                                                  *)
FpgaControl ==
  /\ cmds # <<>> /\ Head(cmds).addr = CTRL
  /\ Len(replies) < RxDescriptors
  /\ LET v     == Head(cmds).data[1]
         free  == HasBit(v, INTERRUPT) \/ fpga.state = "idle"
         raw   == fpga.after_raw /\ ~HasBit(v, INTERRUPT)
         start == HasBit(v, START) /\ free
     IN /\ fpga' = [state |-> IF start
                              THEN IF raw /\ Mode # CMP_MODE_RAW
                                   THEN "stuck" ELSE "active"
                              ELSE IF free THEN "idle" ELSE fpga.state,
                    after_raw |-> raw]
        /\ remote' = [remote EXCEPT ![CTRL] = v,
                        ![STATUS] = IF free THEN 0 ELSE @]
  /\ replies' = Append(replies, Answer(Head(cmds), "ok", <<>>))
  /\ cmds' = Tail(cmds)
  /\ UNCHANGED <<lib, mirror, xfer, client, interrupt_signal_enabled>>

(* The model counts in the modes that use one, and is updated in these.    *)
Output(mode, data, model) ==
  Compressed(mode, data, IF model_mode_is_used(mode) THEN model ELSE Value0)

FpgaFinish ==
  /\ fpga.state = "active"
  /\ fpga' = [state |-> "idle", after_raw |-> Mode = CMP_MODE_RAW]
  /\ remote' = [w \in Addr |->
       CASE w = STATUS -> READY
         [] w = CmpAddr \div 4 ->
              Output(Mode, remote[DataAddr \div 4], remote[ModelAddr \div 4])
         [] w = NewModelAddr \div 4 /\ model_mode_is_used(Mode) ->
              Updated(remote[DataAddr \div 4], remote[ModelAddr \div 4])
         [] \E i \in 1 .. Len(InfoRegs) : InfoRegs[i] = w ->
              remote[ConfigRegs[CHOOSE i \in 1 .. Len(InfoRegs) :
                                  InfoRegs[i] = w]]
         [] OTHER -> remote[w]]
  /\ UNCHANGED <<lib, mirror, link, xfer, client, interrupt_signal_enabled>>

LinkFault ==
  /\ LoseCommand \/ LoseReply \/ (~scenario.prompt /\ DamageReply)
  /\ UNCHANGED <<xfer, client>> /\ Others

Rdcu == FpgaExecute \/ FpgaRefuse \/ FpgaControl \/ FpgaFinish \/ LinkFault

-----------------------------------------------------------------------------
(* The application, as rdcu_compression_cmp_lib_demo is written: it polls  *)
(* the status until the compressor is ready, reads information, bitstream  *)
(* and updated model, and only then (or after an error, or an interrupt    *)
(* and a look at the information) compresses again.  Between two calls it  *)
(* may ask for outstanding answers, as rdcu_ctrl.c tells it to.            *)

Returned(name) == todo = <<>> /\ fn = name /\ result = 0
SeenReady      == Returned("status") /\ mirror[STATUS] = READY
MayCompress    == /\ todo = <<>>
                  /\ \/ fn \in {"none", "interrupt", "error_info", "bitstream",
                                "model"}
                     \/ result # 0

PollStatus ==
  /\ todo = <<>> /\ xfer.at = "idle"
  /\ rdcu_rmap_sync_status
  /\ UNCHANGED <<xfer, client>> /\ Others

CmpApplication ==
  \/ MayCompress /\ \E c \in scenario.configs : rdcu_compress_data(c)
  \/ /\ Returned("compress") \/ (Returned("status") /\ ~SeenReady)
     /\ rdcu_read_cmp_status
  \/ SeenReady /\ rdcu_read_cmp_info("info")
  \/ Returned("interrupt") /\ rdcu_read_cmp_info("error_info")
  \/ Returned("info") /\ rdcu_read_cmp_bitstream
  \/ /\ Returned("bitstream") /\ model_mode_is_used(rcfg.regs[1])
     /\ rdcu_read_model
  \/ rdcu_interrupt_compression
  \/ rdcu_enable_disable_interrput_signal
  \/ PollStatus

CNext == (CmpApplication \/ ClientStep \/ Rdcu) /\ UNCHANGED scenario
CSpec == CInit /\ [][CNext]_cvars

(* The driver's thread runs and the RDCU serves the link.                  *)
CFairness ==
  /\ WF_cvars(ClientStep /\ UNCHANGED scenario)
  /\ WF_cvars((FpgaExecute \/ FpgaRefuse \/ FpgaControl) /\ UNCHANGED scenario)

CFairSpec == CSpec /\ CFairness
-----------------------------------------------------------------------------
(* Properties.                                                             *)

(* What the application gets at the end (information, bitstream and        *)
(* updated model) comes from the configuration, the data and the model it  *)
(* passed to rdcu_compress_data, or left in the SRAM, and not from an      *)
(* earlier compression, a stale mirror or a configuration the busy         *)
(* compressor refused; if the link is prompt.                              *)
ResultIsOfCall ==
  scenario.prompt =>
    /\ Returned("bitstream") \/ Returned("model") =>
         /\ mirror[CmpAddr \div 4] =
              Output(rcfg.regs[1], input.data, input.model)
         /\ \A i \in 1 .. Len(InfoRegs) : mirror[InfoRegs[i]] = rcfg.regs[i]
    /\ Returned("model") =>
         mirror[NewModelAddr \div 4] = Updated(input.data, input.model)

(* The compressor is not driven into the deadlock rdcu_set_compression_    *)
(* register works around (cmp_rdcu.c, lines 119 to 124), on a prompt link. *)
NeverStuck == scenario.prompt => fpga.state # "stuck"

(* The compressor starts with the registers, the data and the model of the *)
(* call in progress, all of them, if the link is prompt.                   *)
StartsAsConfigured ==
  [][scenario.prompt /\ fpga.state # "active" /\ fpga'.state = "active" =>
       /\ \A i \in 1 .. Len(ConfigRegs) : remote[ConfigRegs[i]] = rcfg.regs[i]
       /\ remote[DataAddr \div 4] = input.data
       /\ model_mode_is_used(rcfg.regs[1]) =>
            remote[ModelAddr \div 4] = input.model]_cvars

(* No other function than rdcu_start_compression sends the start bit: "we  *)
(* would not want to restart compression by accidentally calling           *)
(* rdcu_sync_compr_ctrl() again" (cmp_rdcu.c, lines 219 to 222).  The code *)
(* does not keep this: rdcu_start_compression returns before it clears the *)
(* bit if its command is refused (lines 214 to 216).                       *)
StartSent == Len(cmds') > Len(cmds) /\ cmd.addr = CTRL
               /\ HasBit(mirror[CTRL], START)
InStart   == fn = "compress" /\ \A i \in 1 .. Len(todo) : todo[i].op # "end"
StartsOnlyByStart == [][StartSent => InStart]_cvars

(* On a prompt link nothing is outstanding when rdcu_start_compression     *)
(* submits its command: a slot is free, the bit is cleared, and no         *)
(* interrupt or work-around sends it again, whatever the application calls *)
(* in between.                                                             *)
PromptStartsOnce == [][scenario.prompt /\ StartSent => InStart]_cvars

(* Every function returns as long as the RDCU serves the link, however     *)
(* slowly.                                                                 *)
CallsReturn == todo # <<>> ~> todo = <<>>
=============================================================================
