---------------------------- MODULE RdcuProduct -----------------------------
(***************************************************************************)
(* From a configuration to a product on the ground.  An application        *)
(* configures a hardware compression (RdcuCfg), lets it run, reads the     *)
(* result and puts it into a compression entity (CmpEntity), which the     *)
(* decompressor on the ground takes apart.  The entity of a chunk          *)
(* (cmp_icu.c) has the same header with other fields.                      *)
(*                                                                         *)
(* The protocol between the library and the RDCU is the subject of         *)
(* CmpRdcu; here a compression is one step.  The compressed data is a      *)
(* sequence of bytes that differ.                                          *)
(***************************************************************************)
EXTENDS RdcuCfg, CmpEntity

CONSTANTS Modes,      \* mode, model weight, rounding
          Places(_),  \* settings of the areas that are tried, by mode
          HomePlaces(_), \* the ones that are carried through to a product
          Params,     \* six parameters; <<>> for the default ones
          Bits,       \* sizes of compressed data
          Types,      \* data types of entities
          RoundRaw,   \* the size of raw data is given in whole words, too
          MaxSets,    \* setter calls for an entity
          ChunkCfgs,  \* configurations of a chunk
          Times       \* timestamps

(* The members of struct rdcu_cfg that place the areas are uint32_t.       *)
ASSUME PlacesAssumption ==
  \A m \in Modes : \A b \in Places(m[1]) \cup HomePlaces(m[1]) :
    {b.samples, b.data_adr, b.model_adr, b.new_model_adr, b.buffer_adr,
     b.buffer_length} \subseteq 0 .. W - 1

Scenarios == {"areas", "product", "fields", "chunk"}

VARIABLES scenario, \* what the application is up to
          phase,    \* how far it has got
          cfg,      \* struct rdcu_cfg, or the configuration of a chunk
          regs,     \* registers the compressor runs with
          res,      \* what the compressor has left: size in bits, error
          info,     \* struct cmp_info
          lay,      \* how the entity was asked for
          ent,      \* the entity's memory
          kept,     \* the value each header field was last given
          did,      \* calls made for the entity
          sets      \* setter calls

vars == <<scenario, phase, cfg, regs, res, info, lay, ent, kept, did, sets>>

Stream(n) == [i \in 1 .. n |-> 100 + i]
Leftover(n) == [i \in 0 .. n - 1 |-> 170]    \* memory is not cleared
-----------------------------------------------------------------------------
InitIn(s) ==
  /\ scenario = s /\ phase = "idle"
  /\ cfg = <<>> /\ regs = <<>> /\ res = <<>> /\ info = <<>>
  /\ lay = <<>> /\ ent = <<>> /\ kept = <<>> /\ did = {} /\ sets = 0

Init == \E s \in Scenarios : InitIn(s)

Create(m) ==
  /\ phase = "idle" /\ scenario \in {"areas", "product"}
  /\ phase' = "created"
  /\ cfg' = rdcu_cfg_create(m[1], m[2], m[3])
  /\ UNCHANGED <<scenario, regs, res, info, lay, ent, kept, did, sets>>

(* The verdicts of the two configuration calls are the application's to    *)
(* heed; rdcu_compress_data checks again.                                  *)
Buffers(b) ==
  /\ phase = "created"
  /\ phase' = "placed"
  /\ cfg' = rdcu_cfg_buffers(cfg, b)
  /\ UNCHANGED <<scenario, regs, res, info, lay, ent, kept, did, sets>>

Imagette(p) ==
  /\ phase = "placed"
  /\ phase' = "ready"
  /\ cfg' = IF p = <<>> THEN rdcu_cfg_imagette_default(cfg)
            ELSE rdcu_cfg_imagette(cfg, p)
  /\ UNCHANGED <<scenario, regs, res, info, lay, ent, kept, did, sets>>

(* rdcu_compress_data: check, registers, transfer, start.                  *)
rdcu_compress_data ==
  /\ phase = "ready"
  /\ IF /\ ~rdcu_cmp_cfg_is_invalid(cfg)
        /\ RegistersTake(cfg)
        /\ rdcu_transfer_sram(cfg)
     THEN phase' = "started" /\ regs' = cfg
     ELSE phase' = "refused" /\ UNCHANGED regs
  /\ UNCHANGED <<scenario, cfg, res, info, lay, ent, kept, did, sets>>

(* External: the compressor ends.  The size it reports for less than three *)
(* raw samples is wrong.                                                   *)
FpgaEnds(bits, err) ==
  /\ phase = "started" /\ scenario = "product"
  /\ phase' = "ended"
  /\ IF regs.cmp_mode = CMP_MODE_RAW
     THEN bits = IF regs.samples < 3 THEN 64 ELSE 16 * regs.samples
     ELSE bits <= 16 * regs.buffer_length /\ (regs.samples = 0 => bits = 0)
  /\ res' = [cmp_size |-> bits, cmp_err |-> err]
  /\ UNCHANGED <<scenario, cfg, regs, info, lay, ent, kept, did, sets>>

rdcu_read_cmp_info ==
  /\ phase = "ended"
  /\ phase' = "info"
  /\ info' = [cmp_mode_used |-> regs.cmp_mode, golomb_par_used |-> regs.golomb_par,
              spill_used |-> regs.spill, model_value_used |-> regs.model_value,
              round_used |-> regs.round, samples_used |-> regs.samples,
              cmp_err |-> res.cmp_err,
              cmp_size |-> IF regs.cmp_mode = CMP_MODE_RAW /\ regs.samples < 3
                           THEN 16 * regs.samples ELSE res.cmp_size]
  /\ UNCHANGED <<scenario, cfg, regs, res, lay, ent, kept, did, sets>>
-----------------------------------------------------------------------------
cmp_bit_to_4byte(bits) == 4 * ((cmp_bit_to_byte(bits) + 3) \div 4)

(* Accepted values of setter calls.                                        *)
AfterKept(k, calls) ==
  LET after[i \in 0 .. Len(calls)] ==
        IF i = 0 THEN k
        ELSE IF Refuses(calls[i]) THEN after[i - 1]
        ELSE (calls[i].field :> calls[i].value) @@ after[i - 1]
  IN after[Len(calls)]

Calls(calls) ==
  /\ ent' = AfterCalls(ent, calls)
  /\ kept' = AfterKept(kept, calls)

(* The application asks for the memory of the words it will read, and for  *)
(* an entity with the bytes or the words of the data, of any type, with a  *)
(* raw flag that may be wrong.  RoundRaw: it also does for raw data what   *)
(* cmp_ent_create asks for, "should be a multiple of 4" (line 1856).       *)
NewEntity(type, raw, words, bytes) ==
  LET n == cmp_ent_create_size(type, raw, words)
  IN /\ n > 0
     /\ ent' = cmp_ent_create(Leftover(n), type, raw, bytes)
     /\ kept' = AfterKept([f \in DOMAIN EntGetters |-> 0],
                          CreateCalls(type, raw, bytes))
     /\ lay' = [type |-> type, raw |-> raw, bytes |-> bytes]

CreateEntity(type, raw, unit) ==
  /\ phase = "info"
  /\ raw /\ unit = "word" => RoundRaw
  /\ phase' = "entity"
  /\ NewEntity(type, raw, cmp_bit_to_4byte(info.cmp_size),
               CASE unit = "word"  -> cmp_bit_to_4byte(info.cmp_size)
                 [] unit = "byte"  -> cmp_bit_to_byte(info.cmp_size)
                 [] unit = "short" -> 0)
  /\ UNCHANGED <<scenario, cfg, regs, res, info, did, sets>>

(* rdcu_read_cmp_bitstream into the entity, a multiple of four bytes: the  *)
(* bitstream with what follows it in the SRAM.                             *)
rdcu_read_cmp_bitstream ==
  LET n == cmp_bit_to_byte(info.cmp_size)
      s == cmp_bit_to_4byte(info.cmp_size)
  IN /\ phase = "entity" /\ scenario = "product" /\ "copy" \notin did
     /\ cmp_ent_get_hdr_size(ent) # 0        \* cmp_ent_get_data_buf
     /\ did' = did \cup {"copy"}
     /\ ent' = Put(ent, cmp_ent_get_hdr_size(ent),
                   Stream(n) \o [i \in 1 .. s - n |-> 204])
     /\ UNCHANGED <<scenario, phase, cfg, regs, res, info, lay, kept, sets>>

WritePars(rcfg) ==
  LET w == cmp_ent_write_rdcu_cmp_pars(ent, info, rcfg)
  IN /\ phase = "entity" /\ scenario = "product" /\ "pars" \notin did
     /\ Calls(w.calls)
     /\ did' = IF w.ok THEN did \cup {"pars"} ELSE did
     /\ UNCHANGED <<scenario, phase, cfg, regs, res, info, lay, sets>>

(* Fields of the header of an entity of this type.                         *)
HeaderFields ==
  LET size == cmp_ent_cal_hdr_size(lay.type, lay.raw)
      other == IF rdcu_supported_data_type_is_used(lay.type)
               THEN DOMAIN GetNonIma123 \cup DOMAIN GetNonIma456
               ELSE DOMAIN GetIma
  IN {f \in DOMAIN EntGetters \ other : EntGetters[f].at + EntGetters[f].w <= size}

(* What the library leaves to the application.                             *)
Meta == {"version_id", "model_id", "model_counter"}

SetField(f, v) ==
  /\ phase = "entity" /\ sets < MaxSets
  /\ scenario = "fields" \/ f \in Meta
  /\ Calls(<<Try(f, v)>>)
  /\ sets' = sets + 1
  /\ UNCHANGED <<scenario, phase, cfg, regs, res, info, lay, did>>

SetTime(which, t) ==
  /\ phase = "entity" /\ sets < MaxSets
  /\ Calls(SetTimestamp(which, t))
  /\ sets' = sets + 1
  /\ UNCHANGED <<scenario, phase, cfg, regs, res, info, lay, did>>

(* An entity to set fields of.                                             *)
FieldsEntity(type, raw) ==
  /\ phase = "idle" /\ scenario = "fields"
  /\ phase' = "entity"
  /\ NewEntity(type, raw, 4, 4)
  /\ UNCHANGED <<scenario, cfg, regs, res, info, did, sets>>
-----------------------------------------------------------------------------
(* A chunk: the data is in place when the header is built (compress_chunk) *)
(* and the model id is set.                                                *)
ChunkData(c, n) ==
  LET hdr == cmp_ent_cal_hdr_size(DATA_TYPE_CHUNK, c.cmp_mode = 0)
  IN /\ phase = "idle" /\ scenario = "chunk"
     /\ c.cmp_mode # 0 => n >= 14     \* a collection and its size field
     /\ phase' = "chunk"
     /\ cfg' = c
     /\ lay' = [type |-> DATA_TYPE_CHUNK, raw |-> c.cmp_mode = 0, bytes |-> n]
     /\ ent' = Put(Leftover(hdr + n), hdr, Stream(n))
     /\ UNCHANGED <<scenario, regs, res, info, kept, did, sets>>

(* Size of the chunk: a compressed one is longer than its entity.          *)
ChunkSize == IF lay.raw THEN lay.bytes ELSE 2 * lay.bytes

ChunkHeader(version, start, end) ==
  LET hdr == cmp_ent_cal_hdr_size(DATA_TYPE_CHUNK, lay.raw)
      h == cmp_ent_build_chunk_header(version, hdr + lay.bytes, ChunkSize, cfg,
                                      start, end)
  IN /\ phase = "chunk"
     /\ phase' = IF h.ok THEN "entity" ELSE "refused"
     /\ ent' = AfterCalls(ent, h.calls)
     /\ kept' = AfterKept(<<>>, h.calls)
     /\ did' = IF h.ok THEN {"copy", "pars"} ELSE {}
     /\ UNCHANGED <<scenario, cfg, regs, res, info, lay, sets>>

ChunkModelId(id, counter) ==
  /\ phase = "entity" /\ scenario = "chunk" /\ sets < MaxSets
  /\ Calls(compress_chunk_set_model_id_and_counter(id, counter))
  /\ sets' = sets + 1
  /\ UNCHANGED <<scenario, phase, cfg, regs, res, info, lay, did>>

(* An application sends what it believes is complete.                      *)
Deliver ==
  /\ phase = "entity" /\ did = {"copy", "pars"}
  /\ phase' = "delivered"
  /\ UNCHANGED <<scenario, cfg, regs, res, info, lay, ent, kept, did, sets>>

StartOver ==
  /\ phase # "idle"
  /\ phase' = "idle"
  /\ cfg' = <<>> /\ regs' = <<>> /\ res' = <<>> /\ info' = <<>>
  /\ lay' = <<>> /\ ent' = <<>> /\ kept' = <<>> /\ did' = {} /\ sets' = 0
  /\ UNCHANGED scenario

(* Values tried for a field: bytes that differ, all ones, one too many.    *)
Trials(f) ==
  LET max == EntSetters[f].max
  IN {IF max = U8 THEN 3 ELSE IF max = U16 THEN 515 ELSE 66051, max}
       \cup (IF max < U32 THEN {max + 1} ELSE {})

Next ==
  \/ \E m \in Modes : Create(m)
  \/ phase = "created" /\ \E b \in IF scenario = "areas" THEN Places(cfg.cmp_mode)
                                   ELSE HomePlaces(cfg.cmp_mode) : Buffers(b)
  \/ \E p \in IF scenario = "areas" THEN {<<>>} ELSE Params : Imagette(p)
  \/ rdcu_compress_data
  \/ \E bits \in Bits : \E err \in {0, 1} : FpgaEnds(bits, err)
  \/ rdcu_read_cmp_info
  \/ \E type \in Types, raw \in BOOLEAN, unit \in {"byte", "word", "short"} :
       CreateEntity(type, raw, unit)
  \/ rdcu_read_cmp_bitstream
  \/ \E rcfg \in {cfg, <<>>} : WritePars(rcfg)
  \/ phase = "entity" /\ \E f \in HeaderFields : \E v \in Trials(f) : SetField(f, v)
  \/ \E which \in {"start", "end"} : \E t \in Times : SetTime(which, t)
  \/ \E type \in Types, raw \in BOOLEAN : FieldsEntity(type, raw)
  \/ \E c \in ChunkCfgs : \E n \in {12, 14, 15} : ChunkData(c, n)
  \/ \E s \in Times, e \in Times : ChunkHeader(258, s, e)
  \/ \E id \in {0, U16} : \E counter \in {1, U8} : ChunkModelId(id, counter)
  \/ Deliver
  \/ StartOver

Spec == Init /\ [][Next]_vars
-----------------------------------------------------------------------------
(* Properties follow.                                                      *)
(* A compression that rdcu_compress_data starts works on areas inside the  *)
(* SRAM that do not overlap, even with each rounded up to whole words as   *)
(* the transfers do it, and whatever sums and products wrapped around in   *)
(* the checks.  Model and updated model may be the same.                   *)
Words(adr, length) == adr .. adr + 4 * ((2 * length + 3) \div 4) - 1
Apart(r) ==
  LET data == Words(r.data_adr, r.samples)
      out  == Words(r.buffer_adr, r.buffer_length)
      model == Words(r.model_adr, r.samples)
      new  == Words(r.new_model_adr, r.samples)
      all  == IF model_mode_is_used(r.cmp_mode)
              THEN <<data, out, model, new>> ELSE <<data, out>>
  IN /\ \A i \in DOMAIN all : all[i] \subseteq 0 .. SramSize - 1
     /\ \A i, j \in DOMAIN all :
          i < j => \/ all[i] \cap all[j] = {}
                   \/ <<i, j>> = <<3, 4>> /\ model = new
AreasApart == regs # <<>> => Apart(regs)

(* Every field of the header reads as the value its setter last accepted,  *)
(* whatever was set in other fields, refused, or done by the functions     *)
(* that fill in many fields.                                               *)
FieldsKept ==
  kept # <<>> => \A f \in HeaderFields \cap DOMAIN kept : EntGet(ent, f) = kept[f]

(* The ground finds in a delivered entity the parameters the compression   *)
(* ran with and its data, undamaged by the calls that wrote the header, in *)
(* whatever order the application made them; a failed compression, a wrong *)
(* type, raw flag or size is never delivered, and what is delivered is not *)
(* refused (decmp.c, cmp_ent_read_header).                                 *)
RdcuProductRight(h) ==
  LET n == cmp_bit_to_byte(info.cmp_size)
  IN /\ res.cmp_err = 0
     /\ h.data_type = lay.type
     /\ h.cmp_mode = regs.cmp_mode /\ h.model_value = regs.model_value
     /\ h.round = regs.round /\ h.samples = regs.samples
     /\ regs.cmp_mode # CMP_MODE_RAW => h.pars = <<regs.golomb_par, regs.spill>>
     /\ regs.cmp_mode = CMP_MODE_RAW => n = 2 * regs.samples
     /\ SubSeq(h.src, 1, n) = Stream(n)
ChunkRight(h) ==
  /\ h.data_type = DATA_TYPE_CHUNK /\ h.cmp_mode = cfg.cmp_mode
  /\ h.model_value = cfg.model_value /\ h.round = cfg.round
  /\ h.original_size = ChunkSize
  /\ cfg.cmp_mode # 0 => h.pars = [cmp_par |-> cfg.cmp_par, spill |-> cfg.spill]
  /\ h.src = Stream(lay.bytes)
GroundDecodes ==
  phase = "delivered" =>
    \A h \in {cmp_ent_read_header(ent)} :
      /\ h # <<>>
      /\ IF scenario = "chunk" THEN ChunkRight(h) ELSE RdcuProductRight(h)
=============================================================================
