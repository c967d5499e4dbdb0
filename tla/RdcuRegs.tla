------------------------------ MODULE RdcuRegs ------------------------------
(***************************************************************************)
(* The registers of the RDCU: their addresses (rdcu_cmd.h), the commands   *)
(* that read and write them (rdcu_cmd.c), and the setters, getters and     *)
(* sync functions of the local mirror (rdcu_ctrl.c).  A register is the    *)
(* set of its bits that are 1.  A function of rdcu_ctrl.c has its name     *)
(* without the prefix rdcu_set_, rdcu_get_ or rdcu_sync_; a pair of        *)
(* functions that set and clear a bit is one field with the values 0, 1.   *)
(***************************************************************************)
EXTENDS RmapPacket, TLC

Bits(v)        == {i \in 0 .. 30 : (v \div (2 ^ i)) % 2 = 1}
Field(reg, lo, width) == {i \in 0 .. width - 1 : lo + i \in reg}
ByteAt(reg, lo) ==
  LET B(i) == IF lo + i \in reg THEN 2 ^ i ELSE 0
  IN B(0) + B(1) + B(2) + B(3) + B(4) + B(5) + B(6) + B(7)
Word(reg)      == <<ByteAt(reg, 24), ByteAt(reg, 16), ByteAt(reg, 8),
                    ByteAt(reg, 0)>>
WordBits(w)    == {i \in 0 .. 31 : (w[4 - i \div 8] \div 2 ^ (i % 8)) % 2 = 1}
-----------------------------------------------------------------------------
(* Addresses: the registers of the RDCU, of the compressor, and of the     *)
(* EDAC.                                                                   *)
RdcuBase == 2 ^ 28
ComprBase == 2 ^ 28 + 2 ^ 24
EdacBase == 2 ^ 24

ReadCmdRdcu ==
  [fpga_version            |-> RdcuBase,
   rdcu_status             |-> RdcuBase + 4,
   lvds_core_status        |-> RdcuBase + 8,
   spw_link_status         |-> RdcuBase + 12,
   spw_err_cntrs           |-> RdcuBase + 16,
   rmap_last_err           |-> RdcuBase + 20,
   rmap_no_reply_err_cntrs |-> RdcuBase + 24]

ReadCmdStatus ==
  [rmap_pckt_err_cntrs     |-> RdcuBase + 28,
   adc_values_1            |-> RdcuBase + 32,
   adc_values_2            |-> RdcuBase + 36,
   adc_values_3            |-> RdcuBase + 40,
   adc_values_4            |-> RdcuBase + 44,
   adc_status              |-> RdcuBase + 48,
   compr_status            |-> RdcuBase + 56]

WriteCmdRdcu ==
  [rdcu_reset              |-> RdcuBase + 64,
   spw_link_ctrl           |-> RdcuBase + 68,
   lvds_ctrl               |-> RdcuBase + 72,
   core_ctrl               |-> RdcuBase + 76,
   adc_ctrl                |-> RdcuBase + 80,
   compr_ctrl              |-> RdcuBase + 88]

WriteCmdCompr ==
  [compressor_param1         |-> ComprBase,
   compressor_param2         |-> ComprBase + 4,
   adaptive_param1           |-> ComprBase + 8,
   adaptive_param2           |-> ComprBase + 12,
   data_start_addr           |-> ComprBase + 16,
   model_start_addr          |-> ComprBase + 20,
   num_samples               |-> ComprBase + 24,
   new_model_start_addr      |-> ComprBase + 28]

WriteCmdBuffer ==
  [compr_data_buf_start_addr |-> ComprBase + 32,
   compr_data_buf_len        |-> ComprBase + 36,
   sram_edac_ctrl            |-> EdacBase]

(* Mutant: the address of compr_error for new_model_addr_used.             *)
ReadCmdCompr_Neighbour ==
  [used_param1                |-> ComprBase + 48,
   used_param2                |-> ComprBase + 52,
   compr_data_start_addr      |-> ComprBase + 56,
   compr_data_size            |-> ComprBase + 60,
   compr_data_adaptive_1_size |-> ComprBase + 64,
   compr_data_adaptive_2_size |-> ComprBase + 68,
   compr_error                |-> ComprBase + 72,
   new_model_addr_used        |-> ComprBase + 72,
   samples_used               |-> ComprBase + 80,
   sram_edac_status           |-> EdacBase + 8]

ReadCmdCompr ==
  [used_param1                |-> ComprBase + 48,
   used_param2                |-> ComprBase + 52,
   compr_data_start_addr      |-> ComprBase + 56,
   compr_data_size            |-> ComprBase + 60,
   compr_data_adaptive_1_size |-> ComprBase + 64,
   compr_data_adaptive_2_size |-> ComprBase + 68,
   compr_error                |-> ComprBase + 72,
   new_model_addr_used        |-> ComprBase + 76,
   samples_used               |-> ComprBase + 80,
   sram_edac_status           |-> EdacBase + 8]

ReadCmd  == ReadCmdRdcu @@ ReadCmdStatus @@ ReadCmdCompr
WriteCmd == WriteCmdRdcu @@ WriteCmdCompr @@ WriteCmdBuffer

(* rdcu_read_cmd_register_internal, rdcu_write_cmd_register_internal.      *)
RegisterCmd(conf, trans_id, kind, r) ==
  IF kind = "read"
  THEN rdcu_gen_cmd(conf, trans_id, RMAP_READ_ADDR_INC, ReadCmd[r], 4)
  ELSE rdcu_gen_cmd(conf, trans_id, RMAP_WRITE_ADDR_INC_VERIFY_REPLY,
                    WriteCmd[r], 4)

(* The sync functions: rdcu_sync_<r> passes the command function of <r>    *)
(* and the mirror of <r>.  rdcu_sync_adc_values takes its id as a          *)
(* character.                                                              *)
SyncedStatus ==
  {"fpga_version", "rdcu_status", "lvds_core_status", "spw_link_status",
   "spw_err_cntrs", "rmap_last_err", "rmap_no_reply_err_cntrs",
   "rmap_pckt_err_cntrs", "adc_status", "compr_status"}
SyncedControl ==
  {"rdcu_reset", "spw_link_ctrl", "lvds_ctrl", "core_ctrl", "adc_ctrl",
   "compr_ctrl", "compressor_param1", "compressor_param2", "adaptive_param1",
   "adaptive_param2"}
SyncedBuffers ==
  {"data_start_addr", "model_start_addr", "num_samples",
   "new_model_start_addr", "compr_data_buf_start_addr", "compr_data_buf_len"}
SyncedInfo ==
  {"used_param1", "used_param2", "compr_data_start_addr", "compr_data_size",
   "compr_data_adaptive_1_size", "compr_data_adaptive_2_size", "compr_error",
   "new_model_addr_used", "samples_used"}
SyncedEdac == {"sram_edac_ctrl", "sram_edac_status"}
rdcu_sync_adc_values(id) ==
  CASE id = 49 -> "adc_values_1" [] id = 50 -> "adc_values_2"
    [] id = 51 -> "adc_values_3" [] id = 52 -> "adc_values_4"
    [] OTHER -> NULL

AdcRegs == {rdcu_sync_adc_values(c) : c \in 49 .. 52}

Synced == SyncedStatus \cup SyncedControl \cup SyncedBuffers \cup SyncedInfo
            \cup SyncedEdac \cup AdcRegs
-----------------------------------------------------------------------------
(* Setters: register, lowest bit, width of the mask that is cleared, bits  *)
(* of the argument, and the smallest, the largest and the step of the      *)
(* arguments that are not refused.                                         *)
S(reg, lo, clear, arg, min, max, step) ==
  [reg |-> reg, lo |-> lo, clear |-> clear, arg |-> arg, min |-> min,
   max |-> max, step |-> step]
Bit(reg, lo)      == S(reg, lo, 1, 1, 0, 1, 1)
Octet(reg, lo)    == S(reg, lo, 8, 8, 0, 255, 1)
Spill(reg)        == S(reg, 8, 10, 32, 2, 1023, 1)
Golomb(reg)       == S(reg, 0, 6, 32, 1, 63, 1)
SramAddr(reg)     == S(reg, 0, 24, 32, 0, 16777215, 4)
Count(reg)        == S(reg, 0, 24, 32, 0, 16777215, 1)

(* The mask of the keyword is only four bits wide.                         *)
ResetSetters ==
  [rdcu_board_reset_keyword   |-> S("rdcu_reset", 24, 4, 8, 0, 255, 1),
   rdcu_bus_reset             |-> Bit("rdcu_reset", 12),
   rdcu_rmap_error_cntr_reset |-> Bit("rdcu_reset", 9),
   rdcu_spw_error_cntr_reset  |-> Bit("rdcu_reset", 8),
   rdcu_board_reset           |-> Bit("rdcu_reset", 1)]

LinkSetters ==
  [spw_link_run_clkdiv         |-> S("spw_link_ctrl", 8, 6, 8, 0, 49, 1),
   lvds_link_0 |-> Bit("lvds_ctrl", 0), lvds_link_1 |-> Bit("lvds_ctrl", 1),
   lvds_link_2 |-> Bit("lvds_ctrl", 2), lvds_link_3 |-> Bit("lvds_ctrl", 3),
   lvds_link_4 |-> Bit("lvds_ctrl", 4), lvds_link_5 |-> Bit("lvds_ctrl", 5),
   lvds_link_6 |-> Bit("lvds_ctrl", 6), lvds_link_7 |-> Bit("lvds_ctrl", 7),
   rmap_target_logical_address |-> Octet("core_ctrl", 24),
   rmap_target_cmd_key         |-> Octet("core_ctrl", 16)]

ControlSetters ==
  [adc_logic_reset      |-> Bit("adc_ctrl", 1),
   adc_logic_enabled    |-> Bit("adc_ctrl", 0),
   rdcu_interrupt       |-> Bit("compr_ctrl", 8),
   data_compr_interrupt |-> Bit("compr_ctrl", 1),
   data_compr_start     |-> Bit("compr_ctrl", 0)]

(* Mutant: the mask of the model weight one bit short (it goes up to 16).  *)
ParamSetters_NarrowMask ==
  [noise_bits_rounded  |-> S("compressor_param1", 16, 2, 32, 0, 3, 1),
   weighting_param     |-> S("compressor_param1", 8, 4, 32, 0, 16, 1),
   compression_mode    |-> S("compressor_param1", 0, 8, 32, 0, 4, 1),
   spillover_threshold |-> Spill("compressor_param2"),
   golomb_param        |-> Golomb("compressor_param2")]

ParamSetters ==
  [noise_bits_rounded  |-> S("compressor_param1", 16, 2, 32, 0, 3, 1),
   weighting_param     |-> S("compressor_param1", 8, 5, 32, 0, 16, 1),
   compression_mode    |-> S("compressor_param1", 0, 8, 32, 0, 4, 1),
   spillover_threshold |-> Spill("compressor_param2"),
   golomb_param        |-> Golomb("compressor_param2")]

AdaptiveSetters ==
  [adaptive_1_spillover_threshold |-> Spill("adaptive_param1"),
   adaptive_1_golomb_param        |-> Golomb("adaptive_param1"),
   adaptive_2_spillover_threshold |-> Spill("adaptive_param2"),
   adaptive_2_golomb_param        |-> Golomb("adaptive_param2")]

BufferSetters ==
  [data_start_addr           |-> SramAddr("data_start_addr"),
   model_start_addr          |-> SramAddr("model_start_addr"),
   num_samples               |-> Count("num_samples"),
   new_model_start_addr      |-> SramAddr("new_model_start_addr"),
   compr_data_buf_start_addr |-> SramAddr("compr_data_buf_start_addr"),
   compr_data_buf_len        |-> Count("compr_data_buf_len")]

EdacSetters ==
  [edac_sub_chip_die_addr |-> S("sram_edac_ctrl", 12, 4, 32, 0, 15, 1),
   edac_ctrl_reg_op       |-> Bit("sram_edac_ctrl", 9),
   edac_bypass            |-> Bit("sram_edac_ctrl", 8),
   edac_scrub_info        |-> Octet("sram_edac_ctrl", 0)]

Setters == ResetSetters @@ LinkSetters @@ ControlSetters @@ ParamSetters
             @@ AdaptiveSetters @@ BufferSetters @@ EdacSetters

(* A setter refuses a value, or clears its mask and ors the value in.      *)
Accepts(f, v)     == f.min <= v /\ v <= f.max /\ v % f.step = 0
Assign(f, v, reg) == (reg \ (f.lo .. f.lo + f.clear - 1))
                       \cup {f.lo + i : i \in Bits(v)}
-----------------------------------------------------------------------------
(* Getters: register, lowest bit, width.                                   *)
G(reg, lo, width) == [reg |-> reg, lo |-> lo, width |-> width]

StatusGetters ==
  [fpga_version                     |-> G("fpga_version", 0, 16),
   rdcu_status_board_serial_number  |-> G("rdcu_status", 12, 4),
   rdcu_status_fpga_core_power_good |-> G("rdcu_status", 6, 1),
   rdcu_status_core_power_good      |-> G("rdcu_status", 5, 1),
   rdcu_status_io_power_good        |-> G("rdcu_status", 4, 1),
   rdcu_status_reset_by_register    |-> G("rdcu_status", 1, 1),
   rdcu_status_power_on_reset       |-> G("rdcu_status", 0, 1)]

(* The error counters are read from spw_link_status.                       *)
LinkGetters ==
  [rmap_target_logical_address |-> G("lvds_core_status", 24, 8),
   rmap_target_cmd_key         |-> G("lvds_core_status", 16, 8),
   lvds_link_0 |-> G("lvds_core_status", 0, 1),
   lvds_link_1 |-> G("lvds_core_status", 1, 1),
   lvds_link_2 |-> G("lvds_core_status", 2, 1),
   lvds_link_3 |-> G("lvds_core_status", 3, 1),
   lvds_link_4 |-> G("lvds_core_status", 4, 1),
   lvds_link_5 |-> G("lvds_core_status", 5, 1),
   lvds_link_6 |-> G("lvds_core_status", 6, 1),
   lvds_link_7 |-> G("lvds_core_status", 7, 1),
   spw_empty_pckt_cnt          |-> G("spw_link_status", 16, 8),
   spw_run_clk_div             |-> G("spw_link_status", 8, 6),
   spw_lnk_run_state           |-> G("spw_link_status", 8, 1),
   spw_lnk_credit_errs         |-> G("spw_link_status", 24, 8),
   spw_lnk_escape_errs         |-> G("spw_link_status", 16, 8),
   spw_lnk_parity_errs         |-> G("spw_link_status", 8, 8),
   spw_lnk_disconnect_errs     |-> G("spw_link_status", 0, 8)]

RmapGetters ==
  [rmap_last_error_user_code     |-> G("rmap_last_err", 8, 8),
   rmap_last_error_standard_code |-> G("rmap_last_err", 0, 8),
   rmap_incomplete_hdrs          |-> G("rmap_no_reply_err_cntrs", 24, 8),
   rmap_recv_reply_pckts         |-> G("rmap_no_reply_err_cntrs", 8, 8),
   recv_non_rmap_pckts           |-> G("rmap_no_reply_err_cntrs", 0, 8),
   rmap_pckt_errs                |-> G("rmap_pckt_err_cntrs", 24, 8),
   rmap_oper_errs                |-> G("rmap_pckt_err_cntrs", 16, 8),
   rmap_cmd_auth_errs            |-> G("rmap_pckt_err_cntrs", 8, 8),
   rmap_hdr_errs                 |-> G("rmap_pckt_err_cntrs", 0, 8)]

AdcGetters ==
  [adc_value_1 |-> G("adc_values_1", 0, 16),
   adc_value_2 |-> G("adc_values_1", 16, 16),
   adc_value_3 |-> G("adc_values_2", 0, 16),
   adc_value_4 |-> G("adc_values_2", 16, 16),
   adc_value_5 |-> G("adc_values_3", 0, 16),
   adc_value_6 |-> G("adc_values_3", 16, 16),
   adc_value_7 |-> G("adc_values_4", 0, 16),
   adc_value_8 |-> G("adc_values_4", 16, 16),
   valid_adc_values  |-> G("adc_status", 4, 1),
   adc_logic_reset   |-> G("adc_status", 1, 1),
   adc_logic_enabled |-> G("adc_status", 0, 1)]

ComprGetters ==
  [rdcu_interrupt_enabled  |-> G("compr_status", 8, 1),
   compr_status_valid      |-> G("compr_status", 5, 1),
   data_compr_ready        |-> G("compr_status", 4, 1),
   data_compr_interrupted  |-> G("compr_status", 1, 1),
   data_compr_active       |-> G("compr_status", 0, 1)]

InfoGetters ==
  [compression_mode      |-> G("used_param1", 0, 8),
   noise_bits_rounded    |-> G("used_param1", 16, 2),
   weighting_param       |-> G("used_param1", 8, 5),
   spillover_threshold   |-> G("used_param2", 8, 10),
   golomb_param          |-> G("used_param2", 0, 6),
   compr_data_start_addr |-> G("compr_data_start_addr", 0, 24)]

SizeGetters ==
  [compr_data_size_bit            |-> G("compr_data_size", 0, 32),
   compr_data_adaptive_1_size_bit |-> G("compr_data_adaptive_1_size", 0, 32),
   compr_data_adaptive_2_size_bit |-> G("compr_data_adaptive_2_size", 0, 32)]

UsedGetters ==
  [compr_error         |-> G("compr_error", 0, 10),
   new_model_addr_used |-> G("new_model_addr_used", 0, 24),
   samples_used        |-> G("samples_used", 0, 24)]

(* The scrubbing information is read from the control register.            *)
EdacGetters ==
  [edac_sub_chip_die_addr |-> G("sram_edac_status", 12, 4),
   edac_bypass            |-> G("sram_edac_status", 8, 1),
   edac_scrub_info        |-> G("sram_edac_ctrl", 0, 8)]

Getters == StatusGetters @@ LinkGetters @@ RmapGetters @@ AdcGetters
             @@ ComprGetters @@ InfoGetters @@ SizeGetters @@ UsedGetters
             @@ EdacGetters

Get(g, reg) == Field(reg, g.lo, g.width)

(* The register a getter is documented to read: the comments of the        *)
(* getters and of the mirror cite requirements by number.                  *)
Documented(g) ==
  CASE g \in {"spw_lnk_credit_errs", "spw_lnk_escape_errs",
              "spw_lnk_parity_errs", "spw_lnk_disconnect_errs"} ->
         "spw_err_cntrs"
    [] g = "edac_scrub_info" -> "sram_edac_status"
    [] OTHER -> Getters[g].reg
=============================================================================
