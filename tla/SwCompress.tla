----------------------------- MODULE SwCompress -----------------------------
(***************************************************************************)
(* The software compressor (src/lib/icu_compress/cmp_icu.c) and the        *)
(* decompressor (src/lib/decompress/decmp.c) as operators on one run of    *)
(* entries, the data of one collection or of one RDCU compression.         *)
(*                                                                         *)
(* A configuration is the part of struct cmp_cfg the functions look at:    *)
(* type, mode, model_value, round, the six pairs par and spill, the data   *)
(* src, the model (NULL if there is none), up (the contents of the updated *)
(* model buffer before the call, NULL if there is none) and stream_size,   *)
(* the bytes of the output buffer that may be used.                        *)
(***************************************************************************)
EXTENDS CmpData

(***************************************************************************)
(* Compression of the entries of one collection.                           *)
(***************************************************************************)
configure_encoder_setup(cfg, k) ==
  LET p == EncodePars(cfg.type)[k]
  IN  [par |-> cfg.par[p], spill |-> cfg.spill[p], round |-> cfg.round, mode |-> cfg.mode,
       bits |-> max_used_bits(cfg.type, k), room |-> cmp_stream_size_to_bits(cfg.stream_size)]

ZeroEntry(type) == [k \in 1..Len(MemberBytes(type)) |-> 0]

\* What entry i is predicted from: the model, or the entry before.
Prediction(cfg, data, i) ==
  IF model_mode_is_used(cfg.mode) THEN cfg.model[i]
  ELSE IF i = 1 THEN ZeroEntry(cfg.type) ELSE data[i - 1]

EncodeEntry(cfg, i, s) ==
  FoldLeft(LAMBDA t, k : IF IsError(t) THEN t
                         ELSE encode_value(cfg.src[i][k], Prediction(cfg, cfg.src, i)[k], t,
                                           configure_encoder_setup(cfg, k)),
           s, [k \in 1..Len(EncodePars(cfg.type)) |-> k])

\* The updated model is written behind each entry, also when it is the buffer
\* of the model itself; s is the stream with entry i.
EntryDone(cfg, i, s, up) ==
  [s |-> s, up |-> IF ~IsError(s) /\ model_mode_is_used(cfg.mode) /\ up # NULL
                   THEN [up EXCEPT ![i] = UpdatedEntry(cfg.src[i], cfg.model[i], cfg)]
                   ELSE up]

\* One entry after the other, until one fails.
CompressEntries(cfg, s) ==
  FoldLeft(LAMBDA t, i : IF IsError(t.s) THEN t
                         ELSE EntryDone(cfg, i, EncodeEntry(cfg, i, t.s), t.up),
           [s |-> s, up |-> cfg.up], [i \in 1..Len(cfg.src) |-> i])

\* A slip: a stream that ends on a word boundary is padded by a whole word.
pad_bitstream_Always(cfg, s) ==
  LET padded == put_n_bits32(0, WordBits - (s.len % WordBits), s,
                             cmp_stream_size_to_bits(cfg.stream_size))
  IN  IF s.buf = NULL THEN s ELSE [padded EXCEPT !.len = s.len]

\* A slip: the padding is counted as part of the stream.
pad_bitstream_Counted(cfg, s) ==
  IF s.buf = NULL \/ s.len % WordBits = 0 THEN s
  ELSE put_n_bits32(0, WordBits - (s.len % WordBits), s, cmp_stream_size_to_bits(cfg.stream_size))

pad_bitstream(cfg, s) ==
  LET n_pad_bits == WordBits - (s.len % WordBits)
      padded == put_n_bits32(0, n_pad_bits, s, cmp_stream_size_to_bits(cfg.stream_size))
  IN  IF s.buf = NULL \/ n_pad_bits = WordBits THEN s
      ELSE [padded EXCEPT !.len = s.len]

PutRaw(raw, s, stream_size) ==
  LET offset == s.len \div ByteBits
  IN  IF s.buf = NULL THEN [s EXCEPT !.len = @ + Len(raw) * ByteBits]
      ELSE IF offset + Len(raw) > stream_size THEN Failed(s, "SMALL_BUFFER")
      ELSE [s EXCEPT !.len = @ + Len(raw) * ByteBits, !.buf = PutBytes(@, offset, raw)]

CompressRaw(cfg, s) == PutRaw(cpu_to_be_data_type(cfg.type, cfg.src), s, cfg.stream_size)

Padded(cfg, c) == IF IsError(c.s) THEN c ELSE [c EXCEPT !.s = pad_bitstream(cfg, @)]

\* The stream and the updated model after the call.
compress_data_internal(cfg, s) ==
  IF cfg.src = <<>> THEN [s |-> s, up |-> cfg.up]
  ELSE IF cfg.mode = "RAW" THEN [s |-> CompressRaw(cfg, s), up |-> cfg.up]
  ELSE Padded(cfg, CompressEntries(cfg, s))

\* Buffers are disjoint but for the model that is updated in place, so the
\* overlap checks of check_compression_buffers always pass.
cmp_cfg_icu_is_invalid_error_code(cfg) ==
  IF cmp_cfg_gen_par_is_invalid(cfg) THEN "PAR_GENERIC"
  ELSE IF cmp_cfg_is_invalid(cfg) THEN "PAR_SPECIFIC"
  ELSE IF model_mode_is_used(cfg.mode) /\ cfg.model = NULL THEN "PAR_NO_MODEL"
  ELSE "NO_ERROR"

(***************************************************************************)
(* Decompression of the entries of one collection.                         *)
(***************************************************************************)
configure_decoder_setup(cfg, k) ==
  LET p == DecodePars(cfg.type)[k]
  IN  [par |-> cfg.par[p], spill |-> cfg.spill[p], round |-> cfg.round, mode |-> cfg.mode,
       bits |-> max_used_bits(cfg.type, k)]

\* A decoded member is truncated to its width when stored.
MemberDecoded(d, entry, bits) ==
  [err |-> d.err, dec |-> d.dec, entry |-> Append(entry, d.val % 2^bits)]

MemberStep(t, model, setup) ==
  IF t.err THEN t ELSE MemberDecoded(decode_value(t.dec, model, setup), t.entry, setup.bits)

DecodeEntry(cfg, predicted, dec) ==
  FoldLeft(LAMBDA t, k : MemberStep(t, predicted[k], configure_decoder_setup(cfg, k)),
           [err |-> FALSE, dec |-> dec, entry |-> <<>>],
           [k \in 1..Len(DecodePars(cfg.type)) |-> k])

\* Entry e, the i-th, is decoded: its model follows.
EntryDecoded(cfg, i, t, e) ==
  IF e.err THEN [t EXCEPT !.err = TRUE]
  ELSE [err |-> FALSE, dec |-> e.dec, out |-> Append(t.out, e.entry),
        up |-> IF model_mode_is_used(cfg.mode) /\ t.up # NULL
               THEN [t.up EXCEPT ![i] = UpdatedEntry(e.entry, cfg.model[i], cfg)]
               ELSE t.up]

DecompressEntries(cfg, dec) ==
  FoldLeft(LAMBDA t, i :
             IF t.err THEN t
             ELSE EntryDecoded(cfg, i, t, DecodeEntry(cfg, Prediction(cfg, t.out, i), t.dec)),
           [err |-> FALSE, dec |-> dec, out |-> <<>>, up |-> cfg.up],
           [i \in 1..cfg.samples |-> i])

\* cfg.src is here the sequence of the compressed bytes, without a header.
\* The loop body runs before its end is tested: with no samples it reads a
\* value from an empty stream, which fails.
decompressed_data_internal(cfg) ==
  LET raw == SubSeq(cfg.src, 1, cfg.samples * size_of_a_sample(cfg.type))
      result(err, out, up) == [err |-> err, out |-> out, up |-> up]
  IN  IF \/ cmp_cfg_gen_par_is_invalid(cfg)
         \/ cmp_cfg_is_invalid(cfg)
         \/ model_mode_is_used(cfg.mode) /\ cfg.model = NULL
      THEN result(TRUE, <<>>, cfg.up)
      ELSE IF cfg.mode = "RAW" THEN result(FALSE, be_to_cpu_data_type(cfg.type, raw), cfg.up)
      ELSE IF cfg.samples = 0 THEN result(TRUE, <<>>, cfg.up)
      ELSE DecompressEntries(cfg, bit_init_decoder(cfg.src))
=============================================================================
