------------------------------ MODULE CmpData ------------------------------
(***************************************************************************)
(* The data products: which members an entry of each collection type has,  *)
(* which of the six compression parameters each member is coded with, how  *)
(* entries lie in memory and how a model follows the data                  *)
(* (src/lib/common/cmp_data_types.[ch], cmp_chunk_type.c, cmp_support.c,   *)
(* cmp_max_used_bits.h, cmp_cal_up_model.h).                               *)
(*                                                                         *)
(* An entry is the sequence of its members' values in the order of its C   *)
(* struct; the data of a collection is a sequence of entries.              *)
(***************************************************************************)
EXTENDS Codeword

\* The collection types (subservices).  The fast cadence flux types are known
\* to the data layer but belong to no chunk type, so no chunk holds them; one
\* of them stands for all four.
DataTypes == << "IMAGETTE", "SAT_IMAGETTE", "F_CAM_IMAGETTE", "OFFSET", "F_CAM_OFFSET",
  "BACKGROUND", "F_CAM_BACKGROUND", "SMEARING", "S_FX", "S_FX_EFX", "S_FX_NCOB",
  "S_FX_EFX_NCOB_ECOB", "L_FX", "L_FX_EFX", "L_FX_NCOB", "L_FX_EFX_NCOB_ECOB", "F_FX" >>

ImagetteTypes == {"IMAGETTE", "SAT_IMAGETTE", "F_CAM_IMAGETTE"}
OffsetTypes == {"OFFSET", "F_CAM_OFFSET"}
BackgroundTypes == {"BACKGROUND", "F_CAM_BACKGROUND"}

cmp_col_get_chunk_type(type) ==
  CASE type = "IMAGETTE" -> "NCAM_IMAGETTE"
    [] type = "SAT_IMAGETTE" -> "SAT_IMAGETTE"
    [] type \in {"OFFSET", "BACKGROUND"} -> "OFFSET_BACKGROUND"
    [] type = "SMEARING" -> "SMEARING"
    [] type \in {"S_FX", "S_FX_EFX", "S_FX_NCOB", "S_FX_EFX_NCOB_ECOB"} -> "SHORT_CADENCE"
    [] type \in {"L_FX", "L_FX_EFX", "L_FX_NCOB", "L_FX_EFX_NCOB_ECOB"} -> "LONG_CADENCE"
    [] type \in {"F_CAM_IMAGETTE", "F_CAM_OFFSET", "F_CAM_BACKGROUND"} -> "F_CHAIN"
    [] OTHER -> "UNKNOWN"

\* The size of every member in bytes, in the order of the packed structs.
MemberBytes(type) ==
  CASE type \in ImagetteTypes -> << 2 >>
    [] type \in OffsetTypes -> << 4, 4 >>
    [] type \in BackgroundTypes -> << 4, 4, 2 >>
    [] type = "SMEARING" -> << 4, 4, 2 >>
    [] type = "S_FX" -> << 1, 4 >>
    [] type = "S_FX_EFX" -> << 1, 4, 4 >>
    [] type = "S_FX_NCOB" -> << 1, 4, 4, 4 >>
    [] type = "S_FX_EFX_NCOB_ECOB" -> << 1, 4, 4, 4, 4, 4, 4 >>
    [] type = "L_FX" -> << 3, 4, 4 >>
    [] type = "L_FX_EFX" -> << 3, 4, 4, 4 >>
    [] type = "L_FX_NCOB" -> << 3, 4, 4, 4, 4, 4, 4 >>
    [] type = "L_FX_EFX_NCOB_ECOB" -> << 3, 4, 4, 4, 4, 4, 4, 4, 4, 4 >>
    [] type = "F_FX" -> << 4 >>

size_of_a_sample(type) == FoldLeft(LAMBDA a, b : a + b, 0, MemberBytes(type))

\* The compression functions, each as the parameter pairs of the members in
\* the order it codes them.
compress_imagette == << 1 >>
compress_s_fx == << 1, 2 >>
compress_s_fx_efx == << 1, 2, 4 >>
compress_s_fx_ncob == << 1, 2, 3, 3 >>
compress_s_fx_efx_ncob_ecob == << 1, 2, 3, 3, 4, 5, 5 >>
compress_l_fx == << 1, 2, 6 >>
compress_l_fx_efx == << 1, 2, 4, 6 >>
compress_l_fx_ncob == << 1, 2, 3, 3, 6, 6, 6 >>
compress_l_fx_efx_ncob_ecob == << 1, 2, 3, 3, 4, 5, 5, 6, 6, 6 >>
compress_offset == << 2, 3 >>
compress_background == << 4, 5, 6 >>
compress_smearing == << 4, 5, 6 >>

EncodePars(type) ==
  CASE type \in ImagetteTypes -> compress_imagette
    [] type \in OffsetTypes -> compress_offset
    [] type \in BackgroundTypes -> compress_background
    [] type = "SMEARING" -> compress_smearing
    [] type = "S_FX" -> compress_s_fx
    [] type = "S_FX_EFX" -> compress_s_fx_efx
    [] type = "S_FX_NCOB" -> compress_s_fx_ncob
    [] type = "S_FX_EFX_NCOB_ECOB" -> compress_s_fx_efx_ncob_ecob
    [] type = "L_FX" -> compress_l_fx
    [] type = "L_FX_EFX" -> compress_l_fx_efx
    [] type = "L_FX_NCOB" -> compress_l_fx_ncob
    [] type = "L_FX_EFX_NCOB_ECOB" -> compress_l_fx_efx_ncob_ecob

\* The decompression functions in the same way.
decompress_imagette == << 1 >>
decompress_s_fx == << 1, 2 >>
decompress_s_fx_efx == << 1, 2, 4 >>
decompress_s_fx_ncob == << 1, 2, 3, 3 >>
decompress_s_fx_efx_ncob_ecob == << 1, 2, 3, 3, 4, 5, 5 >>
decompress_l_fx == << 1, 2, 6 >>
decompress_l_fx_efx == << 1, 2, 4, 6 >>
decompress_l_fx_ncob == << 1, 2, 3, 3, 6, 6, 6 >>
decompress_l_fx_efx_ncob_ecob == << 1, 2, 3, 3, 4, 5, 5, 6, 6, 6 >>
decompress_offset == << 2, 3 >>
decompress_background == << 4, 5, 6 >>
decompress_smearing == << 4, 5, 6 >>

DecodePars(type) ==
  CASE type \in ImagetteTypes -> decompress_imagette
    [] type \in OffsetTypes -> decompress_offset
    [] type \in BackgroundTypes -> decompress_background
    [] type = "SMEARING" -> decompress_smearing
    [] type = "S_FX" -> decompress_s_fx
    [] type = "S_FX_EFX" -> decompress_s_fx_efx
    [] type = "S_FX_NCOB" -> decompress_s_fx_ncob
    [] type = "S_FX_EFX_NCOB_ECOB" -> decompress_s_fx_efx_ncob_ecob
    [] type = "L_FX" -> decompress_l_fx
    [] type = "L_FX_EFX" -> decompress_l_fx_efx
    [] type = "L_FX_NCOB" -> decompress_l_fx_ncob
    [] type = "L_FX_EFX_NCOB_ECOB" -> decompress_l_fx_efx_ncob_ecob

\* The parameter pairs whose validity is checked for a type.
NeededPars(type) ==
  CASE type \in ImagetteTypes -> {1}
    [] type \in OffsetTypes -> {2, 3}
    [] type \in BackgroundTypes \cup {"SMEARING"} -> {4, 5, 6}
    [] type = "S_FX" -> {1, 2}
    [] type = "S_FX_EFX" -> {1, 2, 4}
    [] type = "S_FX_NCOB" -> {1, 2, 3}
    [] type = "S_FX_EFX_NCOB_ECOB" -> {1, 2, 3, 4, 5}
    [] type = "L_FX" -> {1, 2, 6}
    [] type = "L_FX_EFX" -> {1, 2, 4, 6}
    [] type = "L_FX_NCOB" -> {1, 2, 3, 6}
    [] type = "L_FX_EFX_NCOB_ECOB" -> {1, 2, 3, 4, 5, 6}
    [] type = "F_FX" -> {2}

\* The generic and the type specific parameter checks.
cmp_cfg_gen_par_is_invalid(cfg) ==
  \/ cfg.mode \notin Modes
  \/ model_mode_is_used(cfg.mode) /\ cfg.model_value > MAX_MODEL_VALUE
  \/ cfg.round > MAX_ICU_ROUND

cmp_cfg_is_invalid(cfg) ==
  \E p \in NeededPars(cfg.type) : cmp_pars_are_invalid(cfg.par[p], cfg.spill[p], cfg.mode)

\* The width of member k: its bytes, for all members of all types.
max_used_bits(type, k) == MemberBytes(type)[k] * ByteBits

(***************************************************************************)
(* Memory.  Uncompressed data travels big-endian: cpu_to_be_data_type when *)
(* written, be_to_cpu_data_type when read.                                 *)
(***************************************************************************)
cpu_to_be_data_type(type, data) ==
  FlattenSeq([i \in 1..Len(data) |->
    FlattenSeq([k \in 1..Len(MemberBytes(type)) |->
      BytesOf(data[i][k], MemberBytes(type)[k])])])

\* The bytes before member k of an entry.
MemberOffset(type, k) == FoldLeft(LAMBDA a, b : a + b, 0, SubSeq(MemberBytes(type), 1, k - 1))

be_to_cpu_data_type(type, bytes) ==
  [i \in 1..(Len(bytes) \div size_of_a_sample(type)) |->
    [k \in 1..Len(MemberBytes(type)) |->
      NumAt(bytes, (i - 1) * size_of_a_sample(type) + MemberOffset(type, k) + 1,
            MemberBytes(type)[k])]]

\* A slip: the model follows the data as it was before the rounding.
cmp_up_model_Exact(data, model, model_value, round) ==
  (data * (MAX_MODEL_VALUE - model_value) + model * model_value) \div MAX_MODEL_VALUE

\* The model of the next data is a weighted mean of the model and of the
\* data as the decompressor will see it, rounded towards zero.
cmp_up_model(data, model, model_value, round) ==
  (round_inv(round_fwd(data, round), round) * (MAX_MODEL_VALUE - model_value)
     + model * model_value) \div MAX_MODEL_VALUE

UpdatedEntry(data, model, cfg) ==
  [k \in DOMAIN data |-> cmp_up_model(data[k], model[k], cfg.model_value, cfg.round)]
=============================================================================
