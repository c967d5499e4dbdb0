------------------------------ MODULE CmpChunk ------------------------------
(***************************************************************************)
(* Chunks: the collections an application hands to compress_chunk          *)
(* (src/lib/icu_compress/cmp_icu.c) in one piece, and the compression      *)
(* entity decompress_cmp_entiy (src/lib/decompress/decmp.c) reads.         *)
(*                                                                         *)
(* A collection is its type, its entries and the number of stray bytes its *)
(* length says beyond whole entries; a chunk is a sequence of collections, *)
(* and so is a model.  The compressed data is a buffer of bytes: size      *)
(* field, collection header and bitstream of each collection share its     *)
(* words.  The entity header is a record that stands for the first bytes   *)
(* of the buffer.                                                          *)
(***************************************************************************)
EXTENDS SwCompress

CONSTANTS
  GENERIC_HEADER_SIZE,       \* bytes of an entity header in raw mode, 32 in the code
  NON_IMAGETTE_HEADER_SIZE,  \* bytes of an entity header else, 64 in the code
  COLLECTION_HDR_SIZE        \* bytes of a collection header, 12 in the code

\* A collection header has room for the two numbers the code reads in it; with
\* entity headers of whole words the data behind them starts at a word.
ASSUME HeaderAssumption ==
  /\ GENERIC_HEADER_SIZE \in Nat \ {0} /\ GENERIC_HEADER_SIZE % 4 = 0
  /\ NON_IMAGETTE_HEADER_SIZE \in Nat /\ NON_IMAGETTE_HEADER_SIZE % 4 = 0
  /\ GENERIC_HEADER_SIZE <= NON_IMAGETTE_HEADER_SIZE
  /\ COLLECTION_HDR_SIZE \in Nat /\ COLLECTION_HDR_SIZE >= 4

CMP_COLLECTION_FILD_SIZE == 2

(***************************************************************************)
(* Collections.                                                            *)
(***************************************************************************)
cmp_col_get_data_length(col) == Len(col.data) * size_of_a_sample(col.type) + col.stray
cmp_col_get_size(col) == COLLECTION_HDR_SIZE + cmp_col_get_data_length(col)

ChunkSize(chunk) == FoldLeft(LAMBDA n, col : n + cmp_col_get_size(col), 0, chunk)

TypeCode(type) == CHOOSE k \in DOMAIN DataTypes : DataTypes[k] = type

\* A header in memory: the subservice, the data length, and fields nothing
\* looks at.
HeaderBytes(col) ==
  BytesOf(TypeCode(col.type), 2) \o BytesOf(cmp_col_get_data_length(col), 2)
    \o [k \in 1..(COLLECTION_HDR_SIZE - 4) |-> 1]

\* What a header at a place in the bytes of an entity says.
TypeAt(bytes, at) == DataTypes[NumAt(bytes, at + 1, 2)]
DataLengthAt(bytes, at) == NumAt(bytes, at + 3, 2)

(***************************************************************************)
(* Compression.                                                            *)
(***************************************************************************)
cmp_best_zero_spill(golomb_par, max_data_bits) ==
  IF golomb_par \notin 1..MAX_NON_IMA_GOLOMB_PAR THEN 0
  ELSE Min({max_data_bits * golomb_par + Cutoff(golomb_par), cmp_icu_max_spill(golomb_par)})

cmp_get_spill(golomb_par, mode, max_data_bits) ==
  IF zero_escape_mech_is_used(mode) THEN cmp_best_zero_spill(golomb_par, max_data_bits)
  ELSE cmp_icu_max_spill(golomb_par)

\* The bytes of the member each of the six parameter pairs is for; 0 if a
\* chunk of that type leaves the pair zero.
SlotBytes(chunk_type) ==
  CASE chunk_type \in {"NCAM_IMAGETTE", "SAT_IMAGETTE"} -> << 2, 0, 0, 0, 0, 0 >>
    [] chunk_type = "SHORT_CADENCE" -> << 1, 4, 4, 4, 4, 0 >>
    [] chunk_type = "LONG_CADENCE" -> << 3, 4, 4, 4, 4, 4 >>
    [] chunk_type = "OFFSET_BACKGROUND" -> << 0, 4, 4, 4, 4, 2 >>
    [] chunk_type = "SMEARING" -> << 0, 0, 0, 4, 4, 2 >>
    [] chunk_type = "F_CHAIN" -> << 2, 4, 4, 4, 4, 2 >>

\* par.par holds the six Golomb parameters of the chunk type at hand.
init_cmp_cfg_from_cmp_par(chunk_type, par) ==
  LET width == SlotBytes(chunk_type)
      golomb == [p \in 1..6 |-> IF width[p] = 0 THEN 0 ELSE par.par[p]]
  IN  [mode |-> par.mode, model_value |-> par.model_value, round |-> 0, par |-> golomb,
       spill |-> [p \in 1..6 |-> IF width[p] = 0 THEN 0
                                 ELSE cmp_get_spill(golomb[p], par.mode, width[p] * ByteBits)]]

\* The room for the compressed data of a collection that starts at begin: one
\* byte less than the data itself takes, so that the compressed data is never
\* as long as the data.
Room(begin, length) == begin + length - 1

\* A slip: only the error is looked at.
Incompressible_ErrorOnly(s, stream_size) == s.err = "SMALL_BUFFER"

\* Without a buffer nothing runs out of room: the size decides.
Incompressible(s, stream_size) ==
  \/ s.err = "SMALL_BUFFER"
  \/ s.buf = NULL /\ s.len > cmp_stream_size_to_bits(stream_size)

\* The updated model of data that was left uncompressed is the data.
UncompressedModel(mode, up, data) ==
  IF model_mode_is_used(mode) /\ up # NULL THEN data ELSE up

set_cmp_col_size(s, at, size) ==
  IF size >= 2^(CMP_COLLECTION_FILD_SIZE * ByteBits) THEN Failed(s, "INT_CMP_COL_TOO_LARGE")
  ELSE [s EXCEPT !.buf = PutBytes(@, at, BytesOf(size, CMP_COLLECTION_FILD_SIZE))]

\* The configuration a collection is compressed with; the models are the
\* collections at the same place, NULL if there are none.
CollectionCfg(cfg, mode, col, model, updated_model, stream_size) ==
  [type |-> col.type, mode |-> mode, model_value |-> cfg.model_value, round |-> cfg.round,
   par |-> cfg.par, spill |-> cfg.spill, src |-> col.data,
   model |-> IF model = NULL THEN NULL ELSE model.data,
   up |-> IF updated_model = NULL THEN NULL ELSE updated_model.data,
   stream_size |-> stream_size]

\* What the attempt to compress has left, or the data as it is behind the
\* header that ends at begin.
OrUncompressed(try, ccfg, begin, length, may_be_raw) ==
  IF may_be_raw /\ Incompressible(try.s, ccfg.stream_size)
  THEN [s |-> compress_data_internal([ccfg EXCEPT !.mode = "RAW",
                                                  !.stream_size = begin + length],
                                     Stream(try.s.buf, begin * ByteBits)).s,
        up |-> UncompressedModel(ccfg.mode, try.up, ccfg.src)]
  ELSE try

Attempt(ccfg, begin, length, buf, may_be_raw) ==
  OrUncompressed(compress_data_internal(ccfg, Stream(buf, begin * ByteBits)),
                 ccfg, begin, length, may_be_raw)

\* If the buffer can take the data of a collection as it is, data that does
\* not shrink is left uncompressed.
CollectionData(ccfg, begin, length, buf, dst_capacity) ==
  LET may_be_raw == (buf = NULL \/ dst_capacity >= begin + length) /\ ccfg.mode # "RAW"
  IN  Attempt([ccfg EXCEPT !.stream_size = IF may_be_raw THEN Room(begin, length) ELSE @],
              begin, length, buf, may_be_raw)

\* The size field at dst_size is filled in; size is that of the data.
SizeNoted(s, mode, dst_size, begin) ==
  IF IsError(s) \/ s.buf = NULL \/ mode = "RAW" THEN s
  ELSE set_cmp_col_size(s, dst_size, cmp_bit_to_byte(s.len) - begin)

CollectionResult(s, up, mode, type, updated_model) ==
  [err |-> s.err, buf |-> s.buf, size |-> cmp_bit_to_byte(s.len),
   up |-> IF updated_model # NULL /\ model_mode_is_used(mode)
          THEN [type |-> type, data |-> up, stray |-> 0] ELSE updated_model]

CollectionStored(c, ccfg, dst_size, begin, updated_model) ==
  CollectionResult(SizeNoted(c.s, ccfg.mode, dst_size, begin), c.up, ccfg.mode, ccfg.type,
                   updated_model)

\* The size field is left out in raw mode.
cmp_col_header_at(mode, dst_size) ==
  IF mode = "RAW" THEN dst_size ELSE dst_size + CMP_COLLECTION_FILD_SIZE

PutHeader(buf, at, col) == IF buf = NULL THEN NULL ELSE PutBytes(buf, at, HeaderBytes(col))

\* The error, the buffer and its use in bytes behind a collection, and the
\* updated model of it; dst_size bytes of the buffer are in use before.
CompressCollection(col, ccfg, updated_model, buf, dst_capacity, dst_size, header) ==
  LET begin == header + COLLECTION_HDR_SIZE
      invalid == IF col.stray # 0 THEN "COL_SIZE_INCONSISTENT"
                 ELSE cmp_cfg_icu_is_invalid_error_code(ccfg)
      failed(e) == [err |-> e, buf |-> buf, size |-> dst_size, up |-> updated_model]
  IN  IF invalid # "NO_ERROR" THEN failed(invalid)
      ELSE IF buf # NULL /\ begin > dst_capacity THEN failed("SMALL_BUFFER")
      ELSE CollectionStored(CollectionData(ccfg, begin, cmp_col_get_data_length(col),
                                           PutHeader(buf, header, col), dst_capacity),
                            ccfg, dst_size, begin, updated_model)

cmp_collection(col, model, updated_model, buf, dst_capacity, cfg, dst_size) ==
  CompressCollection(col, CollectionCfg(cfg, cfg.mode, col, model, updated_model, dst_capacity),
                     updated_model, buf, dst_capacity, dst_size,
                     cmp_col_header_at(cfg.mode, dst_size))

HeaderSize(mode) == IF mode = "RAW" THEN GENERIC_HEADER_SIZE ELSE NON_IMAGETTE_HEADER_SIZE

\* The header; its size fields have three bytes, as those for the spill
\* thresholds, the others take every value a valid configuration has.
cmp_ent_build_chunk_header(chunk_size, cfg, cmp_ent_size_byte) ==
  [size |-> cmp_ent_size_byte, original_size |-> chunk_size, mode |-> cfg.mode,
   model_value |-> cfg.model_value, round |-> cfg.round, par |-> cfg.par, spill |-> cfg.spill]

CMP_ENTITY_MAX_SIZE == 2^(3 * ByteBits) - 1

HeaderFits(hdr) ==
  /\ hdr.size <= CMP_ENTITY_MAX_SIZE
  /\ hdr.original_size <= CMP_ENTITY_MAX_SIZE
  /\ hdr.mode # "RAW" => \A p \in 1..6 : hdr.spill[p] < 2^(3 * ByteBits)

\* t with collection k behind what is compressed already: its result is c.
CollectionAdded(t, c, k, col_size) ==
  [t EXCEPT !.err = c.err, !.buf = c.buf, !.size = c.size,
            !.up = IF @ = NULL THEN NULL ELSE [@ EXCEPT ![k] = c.up],
            !.read = @ + col_size]

\* One collection after the other, until one fails, is of another chunk type,
\* or reaches beyond the chunk.
CompressCollections(chunk, chunk_size, model, updated, buf, dst_capacity, cfg) ==
  FoldLeft(LAMBDA t, k :
             LET col == chunk[k]
             IN  IF t.err # "NO_ERROR" \/ t.left
                    \/ t.read > chunk_size - COLLECTION_HDR_SIZE THEN t
                 ELSE IF cmp_col_get_chunk_type(col.type) # cmp_col_get_chunk_type(chunk[1].type)
                 THEN [t EXCEPT !.err = "CHUNK_SUBSERVICE_INCONSISTENT"]
                 ELSE IF t.read + cmp_col_get_size(col) > chunk_size THEN [t EXCEPT !.left = TRUE]
                 ELSE CollectionAdded(
                        t, cmp_collection(col, IF model = NULL THEN NULL ELSE model[k],
                                          IF updated = NULL THEN NULL ELSE t.up[k],
                                          t.buf, dst_capacity, cfg, t.size),
                        k, cmp_col_get_size(col)),
           [err |-> "NO_ERROR", buf |-> buf, size |-> HeaderSize(cfg.mode), up |-> updated,
            read |-> 0, left |-> FALSE],
           [k \in 1..Len(chunk) |-> k])

ChunkFailed(e, buf, up) == [err |-> e, size |-> 0, hdr |-> NULL, buf |-> buf, up |-> up]

\* The end of compress_chunk: the header in front of what the loop has left.
ChunkFinished(t, chunk_size, cfg) ==
  LET hdr == cmp_ent_build_chunk_header(chunk_size, cfg, t.size)
  IN  IF t.err # "NO_ERROR" THEN ChunkFailed(t.err, t.buf, t.up)
      ELSE IF t.read # chunk_size THEN ChunkFailed("CHUNK_SIZE_INCONSISTENT", t.buf, t.up)
      ELSE IF t.buf # NULL /\ ~HeaderFits(hdr) THEN ChunkFailed("ENTITY_HEADER", t.buf, t.up)
      ELSE [err |-> "NO_ERROR", size |-> t.size, hdr |-> hdr, buf |-> t.buf, up |-> t.up]

ChunkCollections(chunk, chunk_size, model, updated, buf, dst_capacity, cfg) ==
  ChunkFinished(CompressCollections(chunk, chunk_size, model, updated, buf, dst_capacity, cfg),
                chunk_size, cfg)

compress_chunk(chunk, chunk_size, model, updated, buf, dst_capacity, par) ==
  LET chunk_type == cmp_col_get_chunk_type(chunk[1].type)
      failed(e) == ChunkFailed(e, buf, updated)
  IN  IF chunk_size < COLLECTION_HDR_SIZE
      THEN failed("CHUNK_SIZE_INCONSISTENT")
      ELSE IF chunk_size > CMP_ENTITY_MAX_SIZE THEN failed("CHUNK_TOO_LARGE")
      ELSE IF chunk_type = "UNKNOWN"
      THEN failed("COL_SUBSERVICE_UNSUPPORTED")
      ELSE IF buf # NULL /\ dst_capacity < HeaderSize(par.mode) THEN failed("SMALL_BUFFER")
      ELSE ChunkCollections(chunk, chunk_size, model, updated, buf, dst_capacity,
                            init_cmp_cfg_from_cmp_par(chunk_type, par))

RoundUp4(n) == ((n + 3) \div 4) * 4

\* A slip: the size fields of the collections are forgotten.
compress_chunk_cmp_size_bound_NoFields(chunk) ==
  RoundUp4(NON_IMAGETTE_HEADER_SIZE + ChunkSize(chunk))

\* For a chunk whose size is the sum of its collections and whose bound fits
\* into an entity: the error returns for other sizes (CHUNK_SIZE_INCONSISTENT,
\* CHUNK_TOO_LARGE) are left out, no chunk of the runs is that large.
compress_chunk_cmp_size_bound(chunk) ==
  RoundUp4(NON_IMAGETTE_HEADER_SIZE + Len(chunk) * CMP_COLLECTION_FILD_SIZE + ChunkSize(chunk))

(***************************************************************************)
(* Decompression.  bytes is the sequence of the bytes behind the header.   *)
(***************************************************************************)
Entity(hdr, buf) ==
  [hdr |-> hdr, bytes |-> GetBytes(buf, HeaderSize(hdr.mode), hdr.size - HeaderSize(hdr.mode))]

cmp_ent_read_header_fails(hdr) ==
  LET stream_size == hdr.size - HeaderSize(hdr.mode)
  IN  \/ cmp_cfg_gen_par_is_invalid(hdr)
      \/ hdr.original_size < COLLECTION_HDR_SIZE
      \/ hdr.mode = "RAW" /\ \/ stream_size < COLLECTION_HDR_SIZE
                             \/ stream_size # hdr.original_size
      \/ hdr.mode # "RAW" /\ stream_size < COLLECTION_HDR_SIZE + CMP_COLLECTION_FILD_SIZE

\* The places where collections start, and the place behind the last, when
\* one is looked for as long as a place is below limit; step(p) is the size of
\* the collection at p.
Places(bytes, limit, step(_)) ==
  FoldLeft(LAMBDA t, k : IF t.p < limit THEN [p |-> t.p + step(t.p), at |-> Append(t.at, t.p)]
                         ELSE t,
           [p |-> 0, at |-> <<>>], [k \in 1..Len(bytes) |-> k])

get_cmp_collection_size(bytes, p) ==
  CMP_COLLECTION_FILD_SIZE + COLLECTION_HDR_SIZE + NumAt(bytes, p + 1, CMP_COLLECTION_FILD_SIZE)

\* The places of the compressed collections; "at" is empty when they do not
\* add up to the data.
PlacesUpTo(c, end) == IF c.p # end THEN <<>> ELSE c.at

get_num_of_chunks(bytes) ==
  PlacesUpTo(Places(bytes, Len(bytes) - COLLECTION_HDR_SIZE,
                    LAMBDA p : get_cmp_collection_size(bytes, p)), Len(bytes))

\* The collections of uncompressed big-endian bytes, <<>> when they do not add
\* up.
CollectionsAt(bytes, at) ==
  [k \in DOMAIN at |->
    [type |-> TypeAt(bytes, at[k]), stray |-> 0,
     data |-> be_to_cpu_data_type(TypeAt(bytes, at[k]),
                SubSeq(bytes, at[k] + COLLECTION_HDR_SIZE + 1,
                       at[k] + COLLECTION_HDR_SIZE + DataLengthAt(bytes, at[k])))]]

be_to_cpu_chunk(bytes) ==
  CollectionsAt(bytes, PlacesUpTo(Places(bytes, Len(bytes) - COLLECTION_HDR_SIZE + 1,
                                         LAMBDA p : COLLECTION_HDR_SIZE + DataLengthAt(bytes, p)),
                                  Len(bytes)))

\* Collection k of the entity: what is in it and where its data starts in the
\* bytes; decmp_pos is the size of the collections before it.
Parsed(bytes, header, cmp_data_size, original_col_size, type, decmp_pos, decmp_size) ==
  LET sample_size == size_of_a_sample(type)
  IN  [err |-> \/ cmp_data_size > original_col_size
               \/ original_col_size % sample_size # 0
               \/ decmp_pos + original_col_size + COLLECTION_HDR_SIZE > decmp_size,
       uncompressed |-> cmp_data_size = original_col_size,
       type |-> type, samples |-> original_col_size \div sample_size,
       size |-> COLLECTION_HDR_SIZE + original_col_size,
       src |-> SubSeq(bytes, header + COLLECTION_HDR_SIZE + 1,
                      header + COLLECTION_HDR_SIZE + cmp_data_size)]

parse_cmp_collection(bytes, p, decmp_pos, decmp_size) ==
  LET header == p + CMP_COLLECTION_FILD_SIZE
  IN  Parsed(bytes, header, NumAt(bytes, p + 1, CMP_COLLECTION_FILD_SIZE),
             DataLengthAt(bytes, header), TypeAt(bytes, header), decmp_pos, decmp_size)

\* One compressed collection; model and up are the collections at the same
\* offset, NULL if there is none.
CollectionDecompressed(d, hdr, c, up) ==
  LET as(data) == [type |-> c.type, data |-> data, stray |-> 0]
  IN  [err |-> d.err, out |-> as(d.out),
       up |-> IF up = NULL \/ ~model_mode_is_used(hdr.mode) THEN up
              ELSE as(IF c.uncompressed THEN d.out ELSE d.up)]

DecompressCollection(hdr, c, model, up) ==
  CollectionDecompressed(
    decompressed_data_internal(
      [type |-> c.type, mode |-> IF c.uncompressed THEN "RAW" ELSE hdr.mode,
       model_value |-> hdr.model_value, round |-> hdr.round,
       par |-> hdr.par, spill |-> hdr.spill, samples |-> c.samples, src |-> c.src,
       model |-> IF model = NULL THEN NULL ELSE model.data,
       up |-> IF up = NULL THEN NULL ELSE up.data]),
    hdr, c, up)

\* t with collection k, whose decompression gave d, behind the others.
CollectionOut(t, d, k, size) ==
  IF d.err THEN [t EXCEPT !.err = TRUE]
  ELSE [err |-> FALSE, pos |-> t.pos + size, out |-> Append(t.out, d.out),
        up |-> IF t.up = NULL THEN NULL ELSE [t.up EXCEPT ![k] = d.up]]

CollectionStep(t, c, k, hdr, model) ==
  IF c.err THEN [t EXCEPT !.err = TRUE]
  ELSE CollectionOut(t, DecompressCollection(hdr, c, IF model = NULL THEN NULL ELSE model[k],
                                             IF t.up = NULL THEN NULL ELSE t.up[k]),
                     k, c.size)

\* The compressed collections at the places found, until one fails.
DecompressCollections(ent, at, model, updated) ==
  FoldLeft(LAMBDA t, k :
             IF t.err THEN t
             ELSE CollectionStep(t, parse_cmp_collection(ent.bytes, at[k], t.pos,
                                                         ent.hdr.original_size),
                                 k, ent.hdr, model),
           [err |-> at = <<>>, pos |-> 0, out |-> <<>>, up |-> updated],
           [k \in DOMAIN at |-> k])

decompress_cmp_entiy(ent, model, updated) ==
  LET result(err, out, up) == [err |-> err, out |-> out, up |-> up]
  IN  IF cmp_ent_read_header_fails(ent.hdr) THEN result(TRUE, <<>>, updated)
      ELSE IF ent.hdr.mode = "RAW" THEN result(FALSE, be_to_cpu_chunk(ent.bytes), updated)
      ELSE DecompressCollections(ent, get_num_of_chunks(ent.bytes), model, updated)
=============================================================================
