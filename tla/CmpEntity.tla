----------------------------- MODULE CmpEntity ------------------------------
(***************************************************************************)
(* The compression entity as bytes (common/cmp_entity.c): a header for the *)
(* ground followed by the compressed data.  An entity is the function from *)
(* the offsets of its memory to bytes.  A setter or getter is an entry of  *)
(* a table: the offset and the width of its member of struct cmp_entity    *)
(* and, for a setter, the largest value it does not refuse.                *)
(***************************************************************************)
EXTENDS Bytes, TLC

DATA_TYPE_UNKNOWN  == 0
DATA_TYPE_OFFSET   == 5
DATA_TYPE_CHUNK    == 24
Imagettes          == {1, 3, 20}      \* plain, saturated, fast camera
AdaptiveImagettes  == {2, 4, 21}
cmp_data_type_is_invalid(type) == type <= DATA_TYPE_UNKNOWN \/ type > DATA_TYPE_CHUNK
rdcu_supported_data_type_is_used(type) == type \in Imagettes \cup AdaptiveImagettes

GENERIC_HEADER_SIZE           == 32
IMAGETTE_HEADER_SIZE          == 36
IMAGETTE_ADAPTIVE_HEADER_SIZE == 44
NON_IMAGETTE_HEADER_SIZE      == 64
CMP_ENTITY_MAX_SIZE           == 16777215
RAW_BIT                       == 32768

cmp_ent_cal_hdr_size(type, raw) ==
  CASE cmp_data_type_is_invalid(type) -> 0
    [] raw                            -> GENERIC_HEADER_SIZE
    [] type \in Imagettes             -> IMAGETTE_HEADER_SIZE
    [] type \in AdaptiveImagettes     -> IMAGETTE_ADAPTIVE_HEADER_SIZE
    [] OTHER                          -> NON_IMAGETTE_HEADER_SIZE
-----------------------------------------------------------------------------
(* Setters.  The argument of version_id and of the coarse times is a full  *)
(* word; TLC's numbers end at 2^31 - 1.                                    *)
M(at, w)      == [at |-> at, w |-> w]
Lim(at, w, max) == [at |-> at, w |-> w, max |-> max]
U8  == 255
U16 == 65535
U24 == 16777215
U32 == 2147483647

SetSizes ==
  [version_id |-> Lim(0, 4, U32), size |-> Lim(4, 3, CMP_ENTITY_MAX_SIZE),
   original_size |-> Lim(7, 3, U24)]

(* cmp_ent_set_start_timestamp and cmp_ent_set_end_timestamp set both      *)
(* parts of a time, unless the 48 bits do not hold it (SetTimestamp).      *)
SetTimes ==
  [coarse_start_time |-> Lim(10, 4, U32), fine_start_time |-> Lim(14, 2, U16),
   coarse_end_time   |-> Lim(16, 4, U32), fine_end_time   |-> Lim(20, 2, U16)]

(* cmp_ent_set_data_type refuses types above 0x7FF; the raw flag is added. *)
SetModes ==
  [data_type |-> Lim(22, 2, U16), cmp_mode |-> Lim(24, 1, U8),
   model_value |-> Lim(25, 1, U8), model_id |-> Lim(26, 2, U16),
   model_counter |-> Lim(28, 1, U8), reserved |-> Lim(29, 1, U8),
   lossy_cmp_par |-> Lim(30, 2, U16)]

SetIma ==
  [ima_spill |-> Lim(32, 2, U16), ima_golomb_par |-> Lim(34, 1, U8),
   ima_ap1_spill |-> Lim(35, 2, U16), ima_ap1_golomb_par |-> Lim(37, 1, U8),
   ima_ap2_spill |-> Lim(38, 2, U16), ima_ap2_golomb_par |-> Lim(40, 1, U8)]

SetNonIma123 ==
  [non_ima_spill1 |-> Lim(32, 3, U24), non_ima_cmp_par1 |-> Lim(35, 2, U16),
   non_ima_spill2 |-> Lim(37, 3, U24), non_ima_cmp_par2 |-> Lim(40, 2, U16),
   non_ima_spill3 |-> Lim(42, 3, U24), non_ima_cmp_par3 |-> Lim(45, 2, U16)]

(* Mutant: the limit of the compression parameters for a spill threshold.  *)
SetNonIma456_LimitOfPar ==
  [non_ima_spill4 |-> Lim(47, 3, U16), non_ima_cmp_par4 |-> Lim(50, 2, U24),
   non_ima_spill5 |-> Lim(52, 3, U24), non_ima_cmp_par5 |-> Lim(55, 2, U16),
   non_ima_spill6 |-> Lim(57, 3, U24), non_ima_cmp_par6 |-> Lim(60, 2, U16)]

SetNonIma456 ==
  [non_ima_spill4 |-> Lim(47, 3, U24), non_ima_cmp_par4 |-> Lim(50, 2, U16),
   non_ima_spill5 |-> Lim(52, 3, U24), non_ima_cmp_par5 |-> Lim(55, 2, U16),
   non_ima_spill6 |-> Lim(57, 3, U24), non_ima_cmp_par6 |-> Lim(60, 2, U16)]

EntSetters == SetSizes @@ SetTimes @@ SetModes @@ SetIma @@ SetNonIma123
                @@ SetNonIma456
-----------------------------------------------------------------------------
(* Getters.                                                                *)
GetSizes ==
  [version_id |-> M(0, 4), size |-> M(4, 3), original_size |-> M(7, 3)]
GetTimes ==
  [coarse_start_time |-> M(10, 4), fine_start_time |-> M(14, 2),
   coarse_end_time   |-> M(16, 4), fine_end_time   |-> M(20, 2)]
GetModes ==
  [data_type |-> M(22, 2), cmp_mode |-> M(24, 1), model_value |-> M(25, 1),
   model_id |-> M(26, 2), model_counter |-> M(28, 1), reserved |-> M(29, 1),
   lossy_cmp_par |-> M(30, 2)]
GetIma ==
  [ima_spill |-> M(32, 2), ima_golomb_par |-> M(34, 1),
   ima_ap1_spill |-> M(35, 2), ima_ap1_golomb_par |-> M(37, 1),
   ima_ap2_spill |-> M(38, 2), ima_ap2_golomb_par |-> M(40, 1)]
GetNonIma123 ==
  [non_ima_spill1 |-> M(32, 3), non_ima_cmp_par1 |-> M(35, 2),
   non_ima_spill2 |-> M(37, 3), non_ima_cmp_par2 |-> M(40, 2),
   non_ima_spill3 |-> M(42, 3), non_ima_cmp_par3 |-> M(45, 2)]
GetNonIma456 ==
  [non_ima_spill4 |-> M(47, 3), non_ima_cmp_par4 |-> M(50, 2),
   non_ima_spill5 |-> M(52, 3), non_ima_cmp_par5 |-> M(55, 2),
   non_ima_spill6 |-> M(57, 3), non_ima_cmp_par6 |-> M(60, 2)]

EntGetters == GetSizes @@ GetTimes @@ GetModes @@ GetIma @@ GetNonIma123
                @@ GetNonIma456

BytesAt(ent, at, w) == [i \in 1 .. w |-> ent[at + i - 1]]
EntGet(ent, f) == Number(BytesAt(ent, EntGetters[f].at, EntGetters[f].w))

cmp_ent_get_data_type_raw_bit(ent) == EntGet(ent, "data_type") >= RAW_BIT
cmp_ent_get_data_type(ent) ==
  LET type == EntGet(ent, "data_type") % RAW_BIT
  IN IF cmp_data_type_is_invalid(type) THEN DATA_TYPE_UNKNOWN ELSE type
cmp_ent_get_hdr_size(ent) ==
  cmp_ent_cal_hdr_size(cmp_ent_get_data_type(ent),
                       cmp_ent_get_data_type_raw_bit(ent))
cmp_ent_get_cmp_data_size(ent) ==
  LET rest == EntGet(ent, "size") - cmp_ent_get_hdr_size(ent)
  IN IF rest < 0 THEN 0 ELSE rest
-----------------------------------------------------------------------------
(* Bytes written at an offset; what lies outside of the memory is lost.    *)
Put(ent, at, bytes) ==
  [i \in DOMAIN ent |-> IF i \in at .. at + Len(bytes) - 1
                        THEN bytes[i - at + 1] ELSE ent[i]]

(* A call of a setter, and whether its caller gives up when it refuses.    *)
Must(f, v) == [field |-> f, value |-> v, must |-> TRUE]
Try(f, v)  == [field |-> f, value |-> v, must |-> FALSE]

Refuses(c) ==
  IF c.field = "data_type" THEN c.value % RAW_BIT > 2047 \/ c.value > U16
  ELSE c.value > EntSetters[c.field].max
EntSet(ent, c) ==
  IF Refuses(c) THEN ent
  ELSE Put(ent, EntSetters[c.field].at,
           BigEndian(c.value, EntSetters[c.field].w))

(* Calls one after the other, up to the first refusal that matters.        *)
GivesUp(calls) == \E i \in DOMAIN calls : calls[i].must /\ Refuses(calls[i])
Made(calls) ==
  IF ~GivesUp(calls) THEN calls
  ELSE SubSeq(calls, 1, (CHOOSE i \in DOMAIN calls :
         /\ calls[i].must /\ Refuses(calls[i])
         /\ \A j \in 1 .. i - 1 : ~(calls[j].must /\ Refuses(calls[j]))) - 1)
AfterCalls(ent, calls) ==
  LET after[i \in 0 .. Len(calls)] ==
        IF i = 0 THEN ent ELSE EntSet(after[i - 1], calls[i])
  IN after[Len(calls)]

(* A time of 64 bits: what is above its 48 bits, coarse and fine part.     *)
SetTimestamp(which, t) ==
  IF t.above # 0 THEN <<>>
  ELSE IF which = "start"
  THEN <<Must("coarse_start_time", t.coarse), Must("fine_start_time", t.fine)>>
  ELSE <<Must("coarse_end_time", t.coarse), Must("fine_end_time", t.fine)>>
-----------------------------------------------------------------------------
(* cmp_ent_create without an entity: the size it needs, or 0.              *)
cmp_ent_create_size(type, raw, cmp_size_byte) ==
  LET hdr  == cmp_ent_cal_hdr_size(type, raw)
      need == hdr + cmp_size_byte
  IN IF hdr = 0 \/ need > CMP_ENTITY_MAX_SIZE THEN 0
     ELSE IF need < NON_IMAGETTE_HEADER_SIZE THEN NON_IMAGETTE_HEADER_SIZE
     ELSE need

(* cmp_ent_create: the header cleared, size and type set.                  *)
CreateCalls(type, raw, cmp_size_byte) ==
  <<Try("size", cmp_ent_cal_hdr_size(type, raw) + cmp_size_byte),
    Try("data_type", type + (IF raw THEN RAW_BIT ELSE 0))>>
cmp_ent_create(ent, type, raw, cmp_size_byte) ==
  LET hdr == cmp_ent_cal_hdr_size(type, raw)
  IN AfterCalls(Put(ent, 0, [i \in 1 .. hdr |-> 0]),
                CreateCalls(type, raw, cmp_size_byte))

cmp_bit_to_byte(bits) == (bits + 7) \div 8

(* What cmp_ent_write_rdcu_cmp_pars refuses before it writes.              *)
ParsRefused(ent, info) ==
  \/ info.cmp_err # 0
  \/ ~rdcu_supported_data_type_is_used(cmp_ent_get_data_type(ent))
  \/ cmp_ent_get_data_type_raw_bit(ent) # (info.cmp_mode_used = 0)
  \/ cmp_ent_get_cmp_data_size(ent) < cmp_bit_to_byte(info.cmp_size)

GenericPars(info) ==
  <<Must("original_size", 2 * info.samples_used),
    Must("cmp_mode", info.cmp_mode_used),
    Try("model_value", info.model_value_used), Try("reserved", 0),
    Try("lossy_cmp_par", info.round_used)>>
ImagettePars(info) ==
  <<Must("ima_spill", info.spill_used),
    Must("ima_golomb_par", info.golomb_par_used)>>
AdaptivePars(rcfg) ==
  <<Must("ima_ap1_spill", rcfg.ap1_spill),
    Must("ima_ap1_golomb_par", rcfg.ap1_golomb_par),
    Must("ima_ap2_spill", rcfg.ap2_spill),
    Must("ima_ap2_golomb_par", rcfg.ap2_golomb_par)>>

(* Mutant: no early return for raw data, whose header has no more fields.  *)
cmp_ent_write_rdcu_cmp_pars_RawToo(ent, info, rcfg) ==
  LET adaptive == cmp_ent_get_data_type(ent) \in AdaptiveImagettes
      calls == GenericPars(info) \o ImagettePars(info)
                 \o (IF adaptive /\ rcfg # <<>> THEN AdaptivePars(rcfg) ELSE <<>>)
  IN IF ParsRefused(ent, info) THEN [calls |-> <<>>, ok |-> FALSE]
     ELSE [calls |-> Made(calls),
           ok |-> ~GivesUp(calls) /\ ~(adaptive /\ rcfg = <<>>)]

(* The calls it makes and whether it succeeds.  rcfg is <<>> for no        *)
(* configuration; adaptive types need one.                                 *)
cmp_ent_write_rdcu_cmp_pars(ent, info, rcfg) ==
  LET raw == info.cmp_mode_used = 0
      adaptive == ~raw /\ cmp_ent_get_data_type(ent) \in AdaptiveImagettes
      calls == GenericPars(info) \o (IF raw THEN <<>> ELSE ImagettePars(info))
                 \o (IF adaptive /\ rcfg # <<>> THEN AdaptivePars(rcfg) ELSE <<>>)
  IN IF ParsRefused(ent, info) THEN [calls |-> <<>>, ok |-> FALSE]
     ELSE [calls |-> Made(calls),
           ok |-> ~GivesUp(calls) /\ ~(adaptive /\ rcfg = <<>>)]
-----------------------------------------------------------------------------
(* cmp_ent_build_chunk_header: it calls every setter and looks at all the  *)
(* results at the end, then sets the times.                                *)
ChunkCalls(version, size, chunk_size, c) ==
  LET par == [i \in 1 .. 6 |-> c.cmp_par[i]]
      sp  == [i \in 1 .. 6 |-> c.spill[i]]
  IN <<Try("version_id", version), Try("size", size),
       Try("original_size", chunk_size),
       Try("data_type", DATA_TYPE_CHUNK + (IF c.cmp_mode = 0 THEN RAW_BIT ELSE 0)),
       Try("cmp_mode", c.cmp_mode), Try("model_value", c.model_value),
       Try("model_id", 0), Try("model_counter", 0), Try("reserved", 0),
       Try("lossy_cmp_par", c.round)>>
     \o (IF c.cmp_mode = 0 THEN <<>>
         ELSE <<Try("non_ima_spill1", sp[1]), Try("non_ima_cmp_par1", par[1]),
                Try("non_ima_spill2", sp[2]), Try("non_ima_cmp_par2", par[2]),
                Try("non_ima_spill3", sp[3]), Try("non_ima_cmp_par3", par[3]),
                Try("non_ima_spill4", sp[4]), Try("non_ima_cmp_par4", par[4]),
                Try("non_ima_spill5", sp[5]), Try("non_ima_cmp_par5", par[5]),
                Try("non_ima_spill6", sp[6]), Try("non_ima_cmp_par6", par[6])>>)

cmp_ent_build_chunk_header(version, size, chunk_size, c, start, end) ==
  LET calls == ChunkCalls(version, size, chunk_size, c)
      bad   == \E i \in DOMAIN calls : Refuses(calls[i])
  IN [calls |-> IF bad THEN calls
                ELSE calls \o SetTimestamp("start", start)
                       \o (IF start.above # 0 THEN <<>>
                           ELSE SetTimestamp("end", end)),
      ok |-> ~bad /\ start.above = 0 /\ end.above = 0]

compress_chunk_set_model_id_and_counter(model_id, model_counter) ==
  <<Try("model_id", model_id), Try("model_counter", model_counter)>>
-----------------------------------------------------------------------------
(* cmp_ent_read_header of the decompressor: the configuration it finds, or *)
(* <<>> if it refuses the entity.                                          *)
HeaderRefused(ent) ==
  LET type == cmp_ent_get_data_type(ent)
      mode == EntGet(ent, "cmp_mode")
      size == cmp_ent_get_cmp_data_size(ent)
      org  == EntGet(ent, "original_size")
  IN \/ type # DATA_TYPE_CHUNK /\ ~rdcu_supported_data_type_is_used(type)
     \/ cmp_ent_get_data_type_raw_bit(ent) # (mode = 0)
     \/ mode > 4
     \/ mode \in {1, 3} /\ EntGet(ent, "model_value") > 16
     \/ EntGet(ent, "lossy_cmp_par") > 3
     \/ type = DATA_TYPE_CHUNK
          /\ (size < (IF mode = 0 THEN 12 ELSE 14) \/ org < 12)
     \/ type # DATA_TYPE_CHUNK /\ org % 2 # 0
     \/ mode = 0 /\ org # size
     \/ mode # 0 /\ cmp_ent_get_hdr_size(ent) > EntGet(ent, "size")

SixPars(ent) ==
  [cmp_par |-> <<EntGet(ent, "non_ima_cmp_par1"), EntGet(ent, "non_ima_cmp_par2"),
                 EntGet(ent, "non_ima_cmp_par3"), EntGet(ent, "non_ima_cmp_par4"),
                 EntGet(ent, "non_ima_cmp_par5"), EntGet(ent, "non_ima_cmp_par6")>>,
   spill   |-> <<EntGet(ent, "non_ima_spill1"), EntGet(ent, "non_ima_spill2"),
                 EntGet(ent, "non_ima_spill3"), EntGet(ent, "non_ima_spill4"),
                 EntGet(ent, "non_ima_spill5"), EntGet(ent, "non_ima_spill6")>>]

cmp_ent_read_header(ent) ==
  LET type == cmp_ent_get_data_type(ent)
      mode == EntGet(ent, "cmp_mode")
      size == cmp_ent_get_cmp_data_size(ent)
      org  == EntGet(ent, "original_size")
  IN IF HeaderRefused(ent) THEN <<>>
     ELSE [data_type |-> type, cmp_mode |-> mode,
           model_value |-> EntGet(ent, "model_value"),
           round |-> EntGet(ent, "lossy_cmp_par"), original_size |-> org,
           samples |-> IF type = DATA_TYPE_CHUNK THEN 0 ELSE org \div 2,
           src |-> BytesAt(ent, cmp_ent_get_hdr_size(ent), size),
           pars |-> IF mode = 0 THEN <<>>
                    ELSE IF type = DATA_TYPE_CHUNK THEN SixPars(ent)
                    ELSE <<EntGet(ent, "ima_golomb_par"), EntGet(ent, "ima_spill")>>]
=============================================================================
