------------------------------ MODULE RdcuCfg -------------------------------
(***************************************************************************)
(* The configuration of a hardware compression and its checks              *)
(* (cmp_rdcu_cfg.c), and the limits of the registers it is loaded into     *)
(* (rdcu_set_compression_register of cmp_rdcu.c).  Addresses and sizes are *)
(* unsigned words: sums and products wrap around at W.                     *)
(***************************************************************************)
EXTENDS Integers, Sequences

CONSTANTS W,         \* 2^32: the words of the processor
          SramSize,  \* RDCU_SRAM_SIZE, 2^23
          RegMax     \* the largest value of a 24 bit register

ASSUME CfgAssumption ==
  /\ W \in Nat /\ SramSize \in Nat \ {0} /\ RegMax \in Nat
  /\ SramSize % 4 = 0 /\ W % 4 = 0
  /\ SramSize <= RegMax + 1
  /\ 4 * RegMax < W /\ 4 * SramSize < W

CMP_MODE_RAW         == 0
CMP_MODE_MODEL_ZERO  == 1
CMP_MODE_DIFF_ZERO   == 2
CMP_MODE_MODEL_MULTI == 3
CMP_MODE_DIFF_MULTI  == 4

cmp_mode_is_supported(mode) == mode \in 0 .. 4
model_mode_is_used(mode) == mode \in {CMP_MODE_MODEL_ZERO, CMP_MODE_MODEL_MULTI}

rdcu_cfg_gen_pars_are_invalid(cfg) ==
  \/ ~cmp_mode_is_supported(cfg.cmp_mode)
  \/ cfg.model_value > 16
  \/ cfg.round > 2

(* A configuration of a mode; everything else is 0.                        *)
rdcu_cfg_create(cmp_mode, model_value, round) ==
  [cmp_mode |-> cmp_mode, model_value |-> model_value, round |-> round,
   input_buf |-> 0, model_buf |-> 0, samples |-> 0, data_adr |-> 0,
   model_adr |-> 0, new_model_adr |-> 0, buffer_adr |-> 0, buffer_length |-> 0,
   golomb_par |-> 0, spill |-> 0, ap1_golomb_par |-> 0, ap1_spill |-> 0,
   ap2_golomb_par |-> 0, ap2_spill |-> 0]
-----------------------------------------------------------------------------
(* Mutant: the end of an area is not looked at.                            *)
outside_sram_range_StartOnly(addr, size) ==
  \/ addr > SramSize - 1
  \/ size > SramSize

outside_sram_range(addr, size) ==
  \/ (addr + size) % W > SramSize
  \/ addr > SramSize - 1
  \/ size > SramSize

buffers_overlap(start_a, end_a, start_b, end_b) ==
  start_a < end_b /\ end_a > start_b

(* An area of the SRAM, its length given in samples of two bytes.          *)
Area(adr, length)  == [adr |-> adr, size |-> (length * 2) % W]
Outside(a)         == outside_sram_range(a.adr, a.size)
Overlap(a, b)      == buffers_overlap(a.adr, (a.adr + a.size) % W,
                                      b.adr, (b.adr + b.size) % W)
Unaligned(a)       == a.adr % 4 # 0

rdcu_cfg_buffers_is_invalid(cfg) ==
  LET data      == Area(cfg.data_adr, cfg.samples)
      model     == Area(cfg.model_adr, cfg.samples)
      new_model == Area(cfg.new_model_adr, cfg.samples)
      buffer    == Area(cfg.buffer_adr, cfg.buffer_length)
  IN \/ cfg.cmp_mode = CMP_MODE_RAW /\ cfg.buffer_length < cfg.samples
     \/ Unaligned(data) \/ Unaligned(buffer)
     \/ Outside(data) \/ Outside(buffer)
     \/ Overlap(data, buffer)
     \/ /\ model_mode_is_used(cfg.cmp_mode)
        /\ \/ cfg.model_buf # 0 /\ cfg.model_buf = cfg.input_buf
           \/ Unaligned(model) \/ Outside(model)
           \/ Overlap(model, data) \/ Overlap(model, buffer)
           \/ /\ model.adr # new_model.adr
              /\ \/ Unaligned(new_model) \/ Outside(new_model)
                 \/ Overlap(new_model, data) \/ Overlap(new_model, buffer)
                 \/ Overlap(new_model, model)

rdcu_cfg_buffers(cfg, b) ==
  [cfg EXCEPT !.input_buf = b.input_buf, !.samples = b.samples,
              !.model_buf = b.model_buf, !.data_adr = b.data_adr,
              !.model_adr = b.model_adr, !.new_model_adr = b.new_model_adr,
              !.buffer_adr = b.buffer_adr, !.buffer_length = b.buffer_length]
-----------------------------------------------------------------------------
(* The largest spill threshold whose code words have no more than 16 bits. *)
LUT_MAX_RDCU ==
  <<8, 22, 35, 48, 60, 72, 84, 96, 107, 118, 129, 140, 151, 162, 173, 184>>
    \o [i \in 1 .. 16 |-> 184 + 10 * i] \o [i \in 1 .. 31 |-> 344 + 9 * i]
cmp_ima_max_spill(golomb_par) ==
  IF golomb_par \in DOMAIN LUT_MAX_RDCU THEN LUT_MAX_RDCU[golomb_par] ELSE 0

rdcu_cfg_golomb_spill_are_invalid(golomb_par, spill) ==
  \/ golomb_par < 1 \/ golomb_par > 63
  \/ spill < 2
  \/ spill > cmp_ima_max_spill(golomb_par)

rdcu_cfg_imagette_is_invalid(cfg) ==
  \/ rdcu_cfg_golomb_spill_are_invalid(cfg.golomb_par, cfg.spill)
  \/ rdcu_cfg_golomb_spill_are_invalid(cfg.ap1_golomb_par, cfg.ap1_spill)
  \/ rdcu_cfg_golomb_spill_are_invalid(cfg.ap2_golomb_par, cfg.ap2_spill)

rdcu_cfg_imagette(cfg, p) ==
  [cfg EXCEPT !.golomb_par = p[1], !.spill = p[2], !.ap1_golomb_par = p[3],
              !.ap1_spill = p[4], !.ap2_golomb_par = p[5], !.ap2_spill = p[6]]

rdcu_cfg_imagette_default(cfg) ==
  rdcu_cfg_imagette(cfg, IF model_mode_is_used(cfg.cmp_mode)
                         THEN <<4, 48, 3, 35, 5, 60>>
                         ELSE <<7, 60, 6, 48, 8, 72>>)

rdcu_cmp_cfg_is_invalid(cfg) ==
  \/ cfg.buffer_length = 0
  \/ rdcu_cfg_gen_pars_are_invalid(cfg)
  \/ rdcu_cfg_buffers_is_invalid(cfg)
  \/ rdcu_cfg_imagette_is_invalid(cfg)
-----------------------------------------------------------------------------
(* The setters rdcu_set_compression_register calls after the check refuse  *)
(* what does not fit their register.                                       *)
AddrFits(adr)  == adr <= RegMax /\ adr % 4 = 0
CountFits(n)   == n <= RegMax
ParsFit(g, s)  == g \in 1 .. 63 /\ s \in 2 .. 1023

RegistersTake(cfg) ==
  /\ cfg.cmp_mode <= 4 /\ cfg.model_value <= 16 /\ cfg.round <= 3
  /\ ParsFit(cfg.golomb_par, cfg.spill)
  /\ ParsFit(cfg.ap1_golomb_par, cfg.ap1_spill)
  /\ ParsFit(cfg.ap2_golomb_par, cfg.ap2_spill)
  /\ AddrFits(cfg.data_adr) /\ AddrFits(cfg.model_adr)
  /\ CountFits(cfg.samples)
  /\ AddrFits(cfg.new_model_adr) /\ AddrFits(cfg.buffer_adr)
  /\ CountFits(cfg.buffer_length)

(* rdcu_write_sram_16: the mirror takes the data, or refuses it.           *)
rdcu_write_sram_16(buf, addr, size) ==
  \/ buf = 0
  \/ /\ size % 2 = 0
     /\ addr <= SramSize - 1 /\ size <= SramSize
     /\ (addr + size) % W <= SramSize

(* rdcu_transfer_sram, apart from the transfer itself (SramSync).          *)
rdcu_transfer_sram(cfg) ==
  /\ rdcu_write_sram_16(cfg.input_buf, cfg.data_adr, (2 * cfg.samples) % W)
  /\ model_mode_is_used(cfg.cmp_mode) =>
       rdcu_write_sram_16(cfg.model_buf, cfg.model_adr, (2 * cfg.samples) % W)
=============================================================================
