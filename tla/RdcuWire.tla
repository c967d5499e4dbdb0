------------------------------ MODULE RdcuWire ------------------------------
(***************************************************************************)
(* The control path from the register mirror to the RDCU, byte by byte:    *)
(* the application brings the link up through the router (main,            *)
(* gr718b_cfg_router and demo_sync of demo_plato_rdcu.c), then sets fields *)
(* of the mirror, writes registers, reads status registers back and asks   *)
(* the getters.                                                            *)
(*                                                                         *)
(* Commands are the bytes rdcu_package makes.  The router and the RDCU are *)
(* external: they take packets apart as the RMAP standard says, so what    *)
(* they understand is compared with what was meant.  The transaction log   *)
(* is modelled in RdcuRmap; here it is the function pend.                  *)
(***************************************************************************)
EXTENDS Gr718b, FiniteSets

CONSTANTS Slots,      \* the slots of the log in use
          Depth,      \* transactions the application has under way at a time
          MaxSets,    \* calls of setters before the log of calls is full
          Noise,      \* what the router may hold before it is configured
          Patterns,   \* what a register only the RDCU writes may hold
          Keys,       \* command keys the RDCU may be given
          Registers,  \* registers the application turns to
          Untouched,  \* fields it does not set
          Unread,     \* getters it does not ask
          AdcIds      \* ids it passes to rdcu_sync_adc_values

ASSUME WireAssumption == /\ Slots \subseteq Nat
                         /\ Depth \in Nat \ {0}
                         /\ MaxSets \in Nat
                         /\ Keys \subseteq Byte
                         /\ AdcIds \subseteq Nat

VARIABLES todo,    \* calls of the application still to be made
          conf,    \* link configuration of rdcu_rmap.c
          local,   \* the register mirror, as far as the focus needs it
          pend,    \* slot -> what is under way in it
          wire,    \* commands under way, oldest first: bytes and meaning
          rx,      \* packets that have arrived at the ICU
          router,  \* registers of the router
          hw,      \* registers of the RDCU
          focus,   \* the fields and registers under study, or NULL
          sets,    \* number of setter calls
          acc, there, back  \* value of each field: set, written, read back

vars == <<todo, conf, local, pend, wire, rx, router, hw, focus, sets, acc,
          there, back>>

ICU_ADDR        == 40
RDCU_ADDR       == 90
RDCU_ADDR_START == 254
ICU_PHYS_PORT   == 1
RDCU_PHYS_PORT  == 17
SPW_CLCKDIV_RUN == 1
-----------------------------------------------------------------------------
(* The calls the application makes.                                        *)
Rtr(access)     == [op |-> "router", access |-> access]
Conf(what, v)   == [op |-> "conf", what |-> what, value |-> v]
SetField(f, v)  == [op |-> "set", field |-> f, value |-> v]
Sync(r)         == [op |-> "sync", reg |-> r]
demo_sync       == [op |-> "demo_sync"]

gr718b_cfg_router ==
  <<Rtr(gr718b_set_rtactrl_enabled(RDCU_ADDR)),
    Rtr(gr718b_set_rtactrl_enabled(ICU_ADDR)),
    Rtr(gr718b_clear_addr_header_deletion(RDCU_ADDR)),
    Rtr(gr718b_clear_addr_header_deletion(ICU_ADDR)),
    Rtr(gr718b_set_route_port(RDCU_ADDR, RDCU_PHYS_PORT)),
    Rtr(gr718b_set_route_port(ICU_ADDR, ICU_PHYS_PORT)),
    Rtr(gr718b_set_rt_clkdiv(RDCU_PHYS_PORT, SPW_CLCKDIV_RUN - 1)),
    Rtr(gr718b_set_rt_clkdiv(ICU_PHYS_PORT, SPW_CLCKDIV_RUN - 1)),
    Rtr(gr718b_set_time_code_enable(RDCU_PHYS_PORT)),
    Rtr(gr718b_set_time_code_enable(ICU_PHYS_PORT)),
    Rtr(gr718b_set_link_start(RDCU_PHYS_PORT)),
    Rtr(gr718b_set_link_start(ICU_PHYS_PORT))>>

main ==
  gr718b_cfg_router \o
  <<Conf("dst", RDCU_ADDR_START), Conf("src", ICU_ADDR),
    Conf("dpath", <<RDCU_PHYS_PORT>>), Conf("rpath", <<0, 0, 0, ICU_PHYS_PORT>>),
    Conf("key", 0),
    SetField("rmap_target_logical_address", RDCU_ADDR), Sync("core_ctrl"),
    demo_sync,
    Conf("dst", RDCU_ADDR), Conf("dpath", <<>>), Conf("rpath", <<>>)>>

(* An application that gives the RDCU another key does it in this order.   *)
Rekey(k) == <<SetField("rmap_target_cmd_key", k), Sync("core_ctrl"),
              demo_sync, Conf("key", k)>>

(* The paths are refused if too long, the return path if its length is no  *)
(* multiple of 4.                                                          *)
Configure(what, v) ==
  IF \/ what = "dpath" /\ Len(v) > RMAP_MAX_PATH_LEN
     \/ what = "rpath" /\ (Len(v) > RMAP_MAX_REPLY_PATH_LEN \/ Len(v) % 4 # 0)
  THEN conf ELSE [conf EXCEPT ![what] = v]
-----------------------------------------------------------------------------
(* External: the registers of the RDCU in the order of their addresses.    *)
RegisterMap ==
  (RdcuBase :> <<"fpga_version", "rdcu_status", "lvds_core_status",
     "spw_link_status", "spw_err_cntrs", "rmap_last_err",
     "rmap_no_reply_err_cntrs", "rmap_pckt_err_cntrs", "adc_values_1",
     "adc_values_2", "adc_values_3", "adc_values_4", "adc_status", "-",
     "compr_status", "-", "rdcu_reset", "spw_link_ctrl", "lvds_ctrl",
     "core_ctrl", "adc_ctrl", "-", "compr_ctrl">>)
  @@ (ComprBase :> <<"compressor_param1", "compressor_param2",
     "adaptive_param1", "adaptive_param2", "data_start_addr",
     "model_start_addr", "num_samples", "new_model_start_addr",
     "compr_data_buf_start_addr", "compr_data_buf_len", "-", "-",
     "used_param1", "used_param2", "compr_data_start_addr",
     "compr_data_size", "compr_data_adaptive_1_size",
     "compr_data_adaptive_2_size", "compr_error", "new_model_addr_used",
     "samples_used">>)
  @@ (EdacBase :> <<"sram_edac_ctrl", "-", "sram_edac_status">>)

Placed == UNION {{<<RegisterMap[b][k], b + 4 * (k - 1)>> :
                    k \in DOMAIN RegisterMap[b]} : b \in DOMAIN RegisterMap}
AddressOf == [r \in Synced |-> (CHOOSE p \in Placed : p[1] = r)[2]]

(* External: the status registers that show what was written to a control  *)
(* register, and the getter that belongs to a setter.                      *)
Echoes ==
  ("spw_link_ctrl" :> "spw_link_status") @@ ("lvds_ctrl" :> "lvds_core_status")
    @@ ("core_ctrl" :> "lvds_core_status") @@ ("adc_ctrl" :> "adc_status")
    @@ ("compr_ctrl" :> "compr_status")
    @@ ("compressor_param1" :> "used_param1")
    @@ ("compressor_param2" :> "used_param2")
    @@ ("compr_data_buf_start_addr" :> "compr_data_start_addr")
    @@ ("num_samples" :> "samples_used")
    @@ ("new_model_start_addr" :> "new_model_addr_used")
    @@ ("sram_edac_ctrl" :> "sram_edac_status")

GetterOf ==
  [spw_link_run_clkdiv         |-> "spw_run_clk_div",
   rmap_target_logical_address |-> "rmap_target_logical_address",
   rmap_target_cmd_key         |-> "rmap_target_cmd_key",
   rdcu_interrupt              |-> "rdcu_interrupt_enabled",
   compr_data_buf_start_addr   |-> "compr_data_start_addr",
   num_samples                 |-> "samples_used",
   new_model_start_addr        |-> "new_model_addr_used"]
  @@ [f \in {"adc_logic_reset", "adc_logic_enabled", "noise_bits_rounded",
             "weighting_param", "compression_mode", "spillover_threshold",
             "golomb_param", "edac_sub_chip_die_addr", "edac_bypass",
             "edac_scrub_info",
             "lvds_link_0", "lvds_link_1", "lvds_link_2", "lvds_link_3",
             "lvds_link_4", "lvds_link_5", "lvds_link_6", "lvds_link_7"}
        |-> f]

(* A focus: two neighbouring fields of a control register, or its only     *)
(* one, with the status register; or a register only the RDCU writes.      *)
FieldsOf(reg) == {f \in DOMAIN Setters : Setters[f].reg = reg}
Neighbours(reg, f, g) ==
  /\ Setters[f].lo < Setters[g].lo
  /\ ~\E h \in FieldsOf(reg) : /\ Setters[f].lo < Setters[h].lo
                               /\ Setters[h].lo < Setters[g].lo
Control(reg, fields) ==
  [fields |-> fields, write |-> {reg},
   read |-> IF reg \in DOMAIN Echoes THEN {Echoes[reg]} ELSE {}]

AllFocuses ==
  UNION {IF Cardinality(FieldsOf(reg)) = 1 THEN {Control(reg, FieldsOf(reg))}
         ELSE {Control(reg, {fg[1], fg[2]}) :
                 fg \in {p \in FieldsOf(reg) \X FieldsOf(reg) :
                           Neighbours(reg, p[1], p[2])}}
           : reg \in DOMAIN WriteCmd}
    \cup {[fields |-> {}, write |-> {}, read |-> {r}] :
            r \in DOMAIN ReadCmd \ {Echoes[reg] : reg \in DOMAIN Echoes}}

Focuses == {fo \in AllFocuses : (fo.write \cup fo.read) \cap Registers # {}}

(* Arguments tried: at the edges of what a setter accepts and beyond, as   *)
(* far as the argument's type goes.                                        *)
Trials(f) ==
  LET s == Setters[f]
  IN {v \in {s.min - 1, s.min, s.max - (s.max % s.step), s.max, s.max + 1} :
        v >= 0 /\ (s.arg = 32 \/ v < 2 ^ s.arg)}
-----------------------------------------------------------------------------
(* External: how a target takes a command apart (ECSS-E-ST-50-52C), for    *)
(* its address and its key.  NULL if it would discard the packet.          *)
Understand(bytes, dst, key) ==
  LET rlen == 4 * (bytes[3] % 4)
      At(i, w) == SubSeq(bytes, i + 1, i + w)
      cmd  == (bytes[3] \div 4) % 16
      size == Number(At(12 + rlen, 3))
      body == IF cmd \in Writes \cup {RMAP_READ_MODIFY_WRITE_ADDR_INC}
              THEN size + 1 ELSE 0
  IN IF \/ Len(bytes) < 16
        \/ Len(bytes) # 16 + rlen + body
        \/ bytes[1] # dst \/ bytes[2] # 1 \/ bytes[3] \div 64 # 1
        \/ bytes[4] # key
        \/ rmap_crc8(At(0, 15 + rlen)) # bytes[16 + rlen]
        \/ body > 0 /\ rmap_crc8(At(16 + rlen, size)) # bytes[Len(bytes)]
     THEN NULL
     ELSE [cmd |-> cmd, addr |-> At(8 + rlen, 4), size |-> size,
           data |-> At(16 + rlen, body - (IF body > 0 THEN 1 ELSE 0)),
           rpath |-> At(4, rlen), src |-> bytes[5 + rlen],
           tid |-> Number(At(5 + rlen, 2))]

(* External: the port a packet leaves the router by, and the packet there. *)
Routed(bytes) ==
  LET b == bytes[1]
  IN CASE b <= GR718B_PHYS_PORT_END -> [port |-> b, bytes |-> Tail(bytes)]
       [] b \in {ICU_ADDR, RDCU_ADDR}
            /\ ENABLE_BIT \in router[RTACTRL(b)] /\ router[RTPMAP(b)] # {} ->
            [port |-> CHOOSE p \in router[RTPMAP(b)] : TRUE,
             bytes |-> IF HDRDEL_BIT \in router[RTACTRL(b)] THEN Tail(bytes)
                       ELSE bytes]
       [] OTHER -> [port |-> NULL, bytes |-> bytes]

HwField(reg, lo) == ByteAt(hw[reg], lo)

(* External: who understands a command, and as what.                       *)
Received(r) ==
  CASE r.port = 0 -> [who |-> "router", as |-> Understand(r.bytes, 254, 0)]
    [] r.port = RDCU_PHYS_PORT
         /\ LINK_START_BIT \in router[PCTRL(RDCU_PHYS_PORT)] ->
         [who |-> "rdcu", as |-> Understand(r.bytes, HwField("core_ctrl", 24),
                                            HwField("core_ctrl", 16))]
    [] OTHER -> [who |-> "nobody", as |-> NULL]

(* External: the reply to a command c with data, as the ICU receives it,   *)
(* or NULL if it does not.  Leading zeros of the return path are no path.  *)
Reply(c, dst, data) ==
  LET path == SelectSeq(c.rpath, LAMBDA b : b # 0)
      head == <<c.src, 1, 4 * c.cmd + Len(c.rpath) \div 4, 0, dst>>
                \o BigEndian(c.tid, 2)
                \o (IF c.cmd \in Writes THEN <<>>
                    ELSE <<0>> \o BigEndian(Len(data), 3))
  IN path \o head \o <<rmap_crc8(head)>>
       \o (IF c.cmd \in Writes THEN <<>> ELSE data \o <<rmap_crc8(data)>>)
-----------------------------------------------------------------------------
(* A command on its way: its bytes, and what it is meant to be.            *)
Command(bytes, who, cmd, addr, data, tid, f) ==
  [bytes |-> bytes, fields |-> f,
   meant |-> [who |-> who, cmd |-> cmd, addr |-> BigEndian(addr, 4),
              data |-> data, tid |-> tid]]

RouterCommand(a) ==
  Command(gr718b_rmw_reg(ICU_ADDR, a), "router",
          RMAP_READ_MODIFY_WRITE_ADDR_INC, a.reg, Word(a.data) \o Word(a.mask),
          0, <<>>)

(* rdcu_sync of a control register writes it from the mirror, of a status  *)
(* register reads it into the mirror.                                      *)
SyncCommand(r, slot) ==
  LET kind == IF r \in DOMAIN WriteCmd THEN "write" ELSE "read"
      data == IF kind = "write" THEN Word(local[r]) ELSE <<>>
  IN Command(rdcu_package(RegisterCmd(conf, slot, kind, r), Len(conf.dpath),
                          data),
             "rdcu", IF kind = "write" THEN RMAP_WRITE_ADDR_INC_VERIFY_REPLY
                     ELSE RMAP_READ_ADDR_INC,
             AddressOf[r], data, slot,
             IF r \in {Setters[f].reg : f \in DOMAIN acc} THEN acc ELSE <<>>)

Free == Slots \ DOMAIN pend

rdcu_sync(r) ==
  LET slot == CHOOSE s \in Free : \A t \in Free : s <= t
  IN /\ Cardinality(DOMAIN pend) < Depth /\ Free # {}
     /\ rx = <<>>            \* rdcu_submit_tx has emptied the receiver
     /\ pend' = pend @@ (slot :> r)
     /\ wire' = Append(wire, SyncCommand(r, slot))

(* A setter changes the mirror unless it refuses its argument.             *)
SetMirror(f, v) ==
  /\ Accepts(Setters[f], v)
  /\ local' = [local EXCEPT ![Setters[f].reg] = Assign(Setters[f], v, @)]
  /\ acc' = IF f \in DOMAIN acc THEN [acc EXCEPT ![f] = v] ELSE acc
-----------------------------------------------------------------------------
RouterRegs == {RTACTRL(RDCU_ADDR), RTACTRL(ICU_ADDR), PCTRL(RDCU_PHYS_PORT),
               PCTRL(ICU_PHYS_PORT)}

WireInit ==
  /\ todo = main
  /\ conf = [dst |-> 0, src |-> 0, key |-> 0, dpath |-> <<>>, rpath |-> <<>>]
  /\ local = ("core_ctrl" :> {})
  /\ pend = <<>> /\ wire = <<>> /\ rx = <<>>
  /\ \E n \in Noise :
       router = [r \in RouterRegs |-> n] @@ (RTPMAP(RDCU_ADDR) :> {})
                  @@ (RTPMAP(ICU_ADDR) :> {})
  /\ hw = ("core_ctrl" :> {24 + i : i \in Bits(RDCU_ADDR_START)})
  /\ focus = NULL
  /\ sets = 0
  /\ acc = <<>> /\ there = <<>> /\ back = <<>>

Done == todo' = Tail(todo)
Call(op) == todo # <<>> /\ Head(todo).op = op

(* gr718b_rmw_reg: the command goes out; then the call waits, without      *)
(* limit, for any packet.  Its two error returns do not occur here: with   *)
(* one access at a time rmap_tx finds a free descriptor (lines 156 to      *)
(* 159), and the reply to four bytes is shorter than cmd (164 to 167).     *)
RmwSend ==
  /\ Call("router")
  /\ wire' = Append(wire, RouterCommand(Head(todo).access))
  /\ todo' = <<[op |-> "rmw_wait"]>> \o Tail(todo)
  /\ UNCHANGED <<conf, local, pend, rx, router, hw, focus, sets, acc, there,
                 back>>

RmwReply ==
  /\ Call("rmw_wait") /\ rx # <<>>
  /\ Done
  /\ rx' = Tail(rx)
  /\ UNCHANGED <<conf, local, pend, wire, router, hw, focus, sets, acc, there,
                 back>>

ConfCall ==
  /\ Call("conf")
  /\ Done
  /\ conf' = Configure(Head(todo).what, Head(todo).value)
  /\ UNCHANGED <<local, pend, wire, rx, router, hw, focus, sets, acc, there,
                 back>>

SetCall ==
  /\ Call("set")
  /\ Done
  /\ SetMirror(Head(todo).field, Head(todo).value)
  /\ UNCHANGED <<conf, pend, wire, rx, router, hw, focus, sets, there, back>>

SyncCall ==
  /\ Call("sync")
  /\ Done
  /\ rdcu_sync(Head(todo).reg)
  /\ UNCHANGED <<conf, local, rx, router, hw, focus, sets, acc, there, back>>

(* demo_sync polls until nothing is pending, at most eleven times: the     *)
(* polls are steps of ProcessRx, and it may give up between any two.       *)
DemoSyncReturns ==
  /\ Call("demo_sync")
  /\ Done
  /\ UNCHANGED <<conf, local, pend, wire, rx, router, hw, focus, sets, acc,
                 there, back>>

ScriptedCall ==
  RmwSend \/ RmwReply \/ ConfCall \/ SetCall \/ SyncCall \/ DemoSyncReturns
-----------------------------------------------------------------------------
(* The getters the documentation gives for registers.                      *)
AskedFor(regs) == {g \in DOMAIN Getters \ Unread : Documented(g) \in regs}

(* The link is up: the application turns to some registers.                *)
Operate(fo, p) ==
  /\ todo = <<>> /\ focus = NULL
  /\ focus' = fo @@ [noise |-> p, ret |-> 0]
  /\ local' = local @@ [r \in fo.write \cup fo.read
                          \cup {Getters[g].reg : g \in AskedFor(fo.read)} |-> {}]
  /\ hw' = hw @@ [r \in fo.write |-> {}]
  /\ acc' = [f \in fo.fields |->
               IF Setters[f].reg \in DOMAIN local
               THEN ByteAt(local[Setters[f].reg], Setters[f].lo) ELSE 0]
  /\ there' = [x \in fo.fields \cup (IF fo.write = {} THEN fo.read ELSE {})
                |-> IF fo.write = {} THEN p ELSE NULL]
  /\ back' = [x \in fo.fields \cup fo.read |-> NULL]
  /\ UNCHANGED <<todo, conf, pend, wire, rx, router, sets>>

Operating == todo = <<>> /\ focus # NULL

Set(f, v) ==
  /\ Operating /\ sets < MaxSets
  /\ Setters[f].reg # "core_ctrl"
  /\ SetMirror(f, v)
  /\ sets' = sets + 1
  /\ UNCHANGED <<todo, conf, pend, wire, rx, router, hw, focus, there, back>>

SyncFocus(r) ==
  /\ Operating
  /\ r \in AdcRegs => \E id \in AdcIds : rdcu_sync_adc_values(id) = r
  /\ r \notin {pend[s] : s \in DOMAIN pend}
  /\ rdcu_sync(r)
  /\ UNCHANGED <<todo, conf, local, rx, router, hw, focus, sets, acc, there,
                 back>>

(* rdcu_sync_adc_values does not know the id and returns an error.         *)
AdcRefused(id) ==
  /\ Operating
  /\ focus.read \cap AdcRegs # {}
  /\ rdcu_sync_adc_values(id) = NULL
  /\ focus' = [focus EXCEPT !.ret = -1]
  /\ UNCHANGED <<todo, conf, local, pend, wire, rx, router, hw, sets, acc,
                 there, back>>

ChangeKey(k) ==
  /\ Operating /\ sets < MaxSets
  /\ focus.write = {"core_ctrl"}
  /\ todo' = Rekey(k)
  /\ sets' = sets + 1
  /\ UNCHANGED <<conf, local, pend, wire, rx, router, hw, focus, acc, there,
                 back>>

(* rdcu_rmap_reset_log, once nothing more can arrive.                      *)
ResetLog ==
  /\ focus # NULL /\ wire = <<>> /\ rx = <<>> /\ pend # <<>>
  /\ pend' = <<>>
  /\ UNCHANGED <<todo, conf, local, wire, rx, router, hw, focus, sets, acc,
                 there, back>>

(* One turn of the loop of rdcu_process_rx.                                *)
ProcessRx ==
  /\ rx # <<>> /\ ~Call("rmw_wait")
  /\ rx' = Tail(rx)
  /\ \E rp \in {rmap_pkt_from_buffer(Head(rx).bytes)} :
     LET known == rp # NULL /\ rp.tr_id \in DOMAIN pend
         store == known /\ rp.data_len # 0 /\ rp.data_len % 4 = 0
                    /\ rmap_crc8(rp.data) = rp.data_crc
     IN /\ pend' = IF known
                   THEN [s \in DOMAIN pend \ {rp.tr_id} |-> pend[s]] ELSE pend
        /\ local' = IF store THEN [local EXCEPT ![pend[rp.tr_id]] =
                                       WordBits(rp.data)]
                    ELSE local
        /\ back' = IF store THEN Head(rx).seen ELSE back
  /\ UNCHANGED <<todo, conf, wire, router, hw, focus, sets, acc, there>>
-----------------------------------------------------------------------------
(* External: the router and the RDCU take the next command and answer it.  *)
HwBits(f) == Setters[f].lo .. Setters[f].lo + Setters[f].clear - 1
EchoBits(r) == UNION {HwBits(f) : f \in {g \in DOMAIN GetterOf :
                        /\ Setters[g].reg \in DOMAIN Echoes
                        /\ Echoes[Setters[g].reg] = r}}
StatusValue(r) ==
  IF r \in DOMAIN there THEN there[r]
  ELSE (EchoBits(r) \cap UNION {hw[w] : w \in {x \in DOMAIN hw \cap DOMAIN Echoes :
                                               Echoes[x] = r}})
         \cup (focus.noise \ EchoBits(r))

(* What there is to be read now.                                           *)
Shown ==
  IF focus = NULL THEN there
  ELSE there @@ [r \in focus.read |-> StatusValue(r)]

(* What a command does: new registers of both devices, and the reply.      *)
RouterAnswer(c) ==
  \E reg \in {Number(c.addr)} :
  \E data \in {WordBits(SubSeq(c.data, 1, 4))} :
  \E mask \in {WordBits(SubSeq(c.data, 5, 8))} :
     /\ router' = [router EXCEPT ![reg] = (@ \ mask) \cup (data \cap mask)]
     /\ rx' = Append(rx, [bytes |-> Reply(c, 254, Word(router[reg])),
                          seen |-> back, bad |-> FALSE])
     /\ UNCHANGED <<hw, there>>

RdcuAnswer(c, fields) ==
  \E regs \in {{r \in DOMAIN local : BigEndian(AddressOf[r], 4) = c.addr}} :
  \E value \in {IF c.cmd \in Writes THEN <<>>
                ELSE IF regs = {} THEN Word(focus.noise)
                ELSE Word(StatusValue(CHOOSE r \in regs : TRUE))} :
  \E reply \in {Routed(Reply(c, HwField("core_ctrl", 24), value))} :
     /\ hw' = [r \in DOMAIN hw |->
                IF r \in regs /\ c.cmd \in Writes THEN WordBits(c.data) ELSE hw[r]]
     /\ there' = IF c.cmd \in Writes /\ DOMAIN fields # {} THEN fields ELSE there
     /\ rx' = IF reply.port = ICU_PHYS_PORT
              THEN Append(rx, [bytes |-> reply.bytes, seen |-> Shown,
                               bad |-> FALSE])
              ELSE rx
     /\ UNCHANGED router

Deliver ==
  /\ wire # <<>>
  /\ wire' = Tail(wire)
  /\ \E rec \in {Received(Routed(Head(wire).bytes))} :
        IF rec.as = NULL THEN UNCHANGED <<router, hw, there, rx>>
        ELSE IF rec.who = "router" THEN RouterAnswer(rec.as)
        ELSE RdcuAnswer(rec.as, Head(wire).fields)
  /\ UNCHANGED <<todo, conf, local, pend, focus, sets, acc, back>>

(* External: a register only the RDCU writes changes.                      *)
HwChanges(p) ==
  /\ Operating /\ focus.write = {}
  /\ there' = [r \in DOMAIN there |-> p]
  /\ UNCHANGED <<todo, conf, local, pend, wire, rx, router, hw, focus, sets,
                 acc, back>>

(* External: the last packet that has arrived lost its end, or a bit of    *)
(* its data is wrong.                                                      *)
Damage ==
  LET p == rx[Len(rx)]
  IN /\ Operating /\ rx # <<>> /\ ~p.bad
     /\ \E b \in {SubSeq(p.bytes, 1, Len(p.bytes) - 2)}
                  \cup (IF Len(p.bytes) < 12 THEN {}
                        ELSE {[p.bytes EXCEPT ![Len(p.bytes) - 1] = @ ^^ 4]}) :
          rx' = [rx EXCEPT ![Len(rx)] = [p EXCEPT !.bytes = b, !.bad = TRUE]]
     /\ UNCHANGED <<todo, conf, local, pend, wire, router, hw, focus, sets, acc,
                    there, back>>

WireNext ==
  \/ RmwSend \/ RmwReply \/ ConfCall \/ SetCall \/ SyncCall \/ DemoSyncReturns
  \/ \E fo \in Focuses :
       \E p \in IF fo.write = {} THEN Patterns ELSE {0 .. 31} : Operate(fo, p)
  \/ focus # NULL /\ \E f \in focus.fields \ Untouched :
                       \E v \in Trials(f) : Set(f, v)
  \/ focus # NULL /\ \E r \in focus.write \cup focus.read : SyncFocus(r)
  \/ focus # NULL /\ \E id \in AdcIds : AdcRefused(id)
  \/ \E k \in Keys : ChangeKey(k)
  \/ ResetLog
  \/ ProcessRx
  \/ Deliver
  \/ \E p \in Patterns : HwChanges(p)
  \/ Damage

(* The processor runs the application, and both devices answer.            *)
WireFairness == WF_vars(ScriptedCall) /\ WF_vars(Deliver) /\ WF_vars(ProcessRx)

WireSpec == WireInit /\ [][WireNext]_vars /\ WireFairness
-----------------------------------------------------------------------------
(* Properties follow.                                                      *)
(* Every command the code builds arrives where it was meant to, is taken   *)
(* for what it was meant to be under the address, key and paths the target *)
(* has at that moment, and its reply finds the way back: the set-up order  *)
(* of main and the packets of rmap.c, rdcu_cmd.c and gr718b_rmap.c.        *)
Understood ==
  wire # <<>> =>
    LET rec == Received(Routed(Head(wire).bytes))
        want == Head(wire).meant
    IN /\ rec.who = want.who
       /\ rec.as # NULL
       /\ [who |-> rec.who, cmd |-> rec.as.cmd, addr |-> rec.as.addr,
           data |-> rec.as.data, tid |-> rec.as.tid] = want
       /\ rec.as.size = IF want.data = <<>> THEN 4 ELSE Len(want.data)
       /\ rec.who = "rdcu" =>
            Routed(Reply(rec.as, 0, <<0, 0, 0, 0>>)).port = ICU_PHYS_PORT

(* Each field of the mirror keeps the value last accepted for it, whatever *)
(* is set in its neighbours, written, read or refused in between.          *)
FieldsIndependent ==
  \A f \in DOMAIN acc :
    LET s == Setters[f]
        width == IF s.arg = 32 THEN s.clear ELSE s.arg
    IN Field(local[s.reg], s.lo, width) = Bits(acc[f])

(* A getter returns what the RDCU held when it answered the last read that *)
(* came back intact: for a field with a setter the value that was set and  *)
(* written before, through setter, write command, read command and getter; *)
(* for every getter its bits of the register its documentation names       *)
(* (rdcu_ctrl.h, lines 32 to 78); and the link whose state is read is      *)
(* running (rdcu_ctrl.c, line 236): the answer has come over it.           *)
ReadBack ==
  \A x \in DOMAIN back : back[x] # NULL =>
    /\ x \in DOMAIN GetterOf /\ GetterOf[x] \notin Unread =>
         LET g == Getters[GetterOf[x]]
         IN Get(g, local[g.reg]) = Bits(back[x])
    /\ \A n \in AskedFor({x}) :
         LET g == Getters[n]
         IN /\ Get(g, local[g.reg]) = Field(back[x], g.lo, g.width)
            /\ n = "spw_lnk_run_state" => Get(g, local[g.reg]) = {0}

(* Every accessor does what its documentation says: a setter clears and    *)
(* sets its own field, a getter returns its bits of the register it is     *)
(* documented to read, and no ADC register id is refused ("id the ADC      *)
(* value register id (1-4)", rdcu_ctrl.c, line 1827).  The code does not   *)
(* keep this: see the functions in MCUntouched and MCUnread, and           *)
(* rdcu_sync_adc_values.                                                   *)
AdcIdsKnown  == focus # NULL => focus.ret = 0
AsDocumented == FieldsIndependent /\ ReadBack /\ AdcIdsKnown

(* After gr718b_cfg_router the router routes the two logical addresses to  *)
(* the two ports and nothing else about it has changed.                    *)
RouterAsCalled ==
  focus # NULL => \E n \in Noise :
    \A a \in {<<RDCU_ADDR, RDCU_PHYS_PORT>>, <<ICU_ADDR, ICU_PHYS_PORT>>} :
      /\ router[RTPMAP(a[1])] = {a[2]}
      /\ router[RTACTRL(a[1])] = (n \ {HDRDEL_BIT}) \cup {ENABLE_BIT}
      /\ router[PCTRL(a[2])] =
           (n \ RUN_CLK_DIV) \cup {LINK_START_BIT, TIME_CODE_ENABLE_BIT}
             \cup {24 + i : i \in Bits(SPW_CLCKDIV_RUN - 1)}

(* The link comes up: the RDCU ends with the logical address the library   *)
(* uses for it, reached without a path.                                    *)
BringUpCompletes ==
  <>[](/\ HwField("core_ctrl", 24) = conf.dst
       /\ conf.dst = RDCU_ADDR /\ conf.dpath = <<>>)
=============================================================================
