----------------------------- MODULE RdcuChain -----------------------------
(***************************************************************************)
(* A chain of RDCU compatible compressions: an application compresses      *)
(* imagettes with compress_like_rdcu (cmp_icu.c), each with the model the  *)
(* one before has left, and the ground decompresses each with              *)
(* decompress_rdcu_data (decmp.c), keeping a model of its own.             *)
(***************************************************************************)
EXTENDS SwCompress

CONSTANTS
  Values,         \* the values an imagette's pixels take
  SampleNumbers,  \* the numbers of samples of an imagette
  Settings,       \* the configurations: see Setting in MCCodec
  BufferLengths,  \* lengths of the output buffer in samples
  Fills,          \* what the bytes of the output buffer hold before a call
  MaxCalls        \* bound on the number of calls

VARIABLES
  icu_model,  \* the model of the application, NULL if it has to start anew
  gnd_model,  \* the model of the ground
  call,       \* the last compression and what it left, NULL once it is handled
  got,        \* what the ground decompressed last and what it should have got
  calls       \* number of compressions so far

chain == <<icu_model, gnd_model, call, got, calls>>

Imagette(n) == [1..n -> {<<v>> : v \in Values}]

\* The configuration compress_like_rdcu sets up for one parameter pair.
Cfg(set, par, spill, data, model, up, stream_size) ==
  [type |-> "IMAGETTE", mode |-> set.mode, model_value |-> set.model_value,
   round |-> set.round, par |-> <<par>>, spill |-> <<spill>>, src |-> data,
   model |-> model, up |-> up, stream_size |-> stream_size]

\* The size with other parameters, found by a compression without output; 0
\* if they are not set or not valid.
AdaptiveSize(cfg) ==
  IF cfg.par[1] # 0 /\ cmp_cfg_icu_is_invalid_error_code(cfg) = "NO_ERROR"
  THEN compress_data_internal(cfg, Stream(NULL, 0)).s.len ELSE 0

\* The configuration is checked first; its error is returned as that of a
\* compression is.
CompressChecked(cfg, s, invalid) ==
  IF invalid # "NO_ERROR" THEN [s |-> Failed(s, invalid), up |-> cfg.up]
  ELSE compress_data_internal(cfg, s)
CompressValid(cfg, s) == CompressChecked(cfg, s, cmp_cfg_icu_is_invalid_error_code(cfg))

\* The information structure of compression c; no adaptive sizes are found
\* when the compression itself has failed.
RdcuResult(set, samples, c, adaptive_sizes) ==
  LET ap(k) == IF c.s.err \in {"NO_ERROR", "PAR_GENERIC", "PAR_SPECIFIC", "PAR_NO_MODEL"}
               THEN adaptive_sizes[k] ELSE 0
  IN  [ret |-> c.s.err, up |-> c.up, buf |-> c.s.buf,
       info |-> [cmp_err |-> c.s.err = "SMALL_BUFFER",
                 mode |-> set.mode, model_value |-> set.model_value, round |-> set.round,
                 par |-> set.par, spill |-> set.spill, samples |-> samples,
                 cmp_size |-> IF IsError(c.s) THEN 0 ELSE c.s.len,
                 ap1_cmp_size |-> ap(1), ap2_cmp_size |-> ap(2)]]

\* The stream, the updated model and the information structure.
compress_like_rdcu(set, data, model, up, buf, stream_size) ==
  LET cfg(par, spill, u) == Cfg(set, par, spill, data, model, u, stream_size)
      adaptive == <<cfg(set.ap1_par, set.ap1_spill, NULL), cfg(set.ap2_par, set.ap2_spill, NULL)>>
  IN  RdcuResult(set, Len(data), CompressValid(cfg(set.par, set.spill, up), Stream(buf, 0)),
                 [k \in 1..2 |-> AdaptiveSize(adaptive[k])])

decompress_rdcu_data(buf, info, model, up) ==
  IF info.cmp_err THEN [err |-> TRUE, out |-> <<>>, up |-> up]
  ELSE decompressed_data_internal(
         [type |-> "IMAGETTE", mode |-> info.mode, model_value |-> info.model_value,
          round |-> info.round, par |-> <<info.par>>, spill |-> <<info.spill>>,
          model |-> model, up |-> up, samples |-> info.samples,
          src |-> GetBytes(buf, 0, cmp_bit_to_byte(info.cmp_size))])

(***************************************************************************)
(* The chain.                                                              *)
(***************************************************************************)
ChainInit ==
  /\ icu_model = NULL
  /\ gnd_model = NULL
  /\ call = NULL
  /\ got = NULL
  /\ calls = 0

\* A call that does not use a model and loses nothing starts a new model.
StartsModel(set) == ~model_mode_is_used(set.mode) /\ (set.mode = "RAW" \/ set.round = 0)

Blank(n) == [i \in 1..n |-> <<0>>]

\* A call has returned r.  When one fails that updates the model in place,
\* the model is lost and has to be started anew.
Returned(r, data, set, length, in_place) ==
  /\ call' = [by |-> "rdcu", ret |-> r.ret, set |-> set, data |-> data, length |-> length,
              info |-> r.info, buf |-> r.buf, old |-> icu_model]
  /\ icu_model' = IF r.ret # "NO_ERROR" THEN (IF in_place THEN NULL ELSE icu_model)
                  ELSE IF model_mode_is_used(set.mode) THEN r.up
                  ELSE IF StartsModel(set) THEN data ELSE icu_model

\* The application compresses an imagette.
Compress(n, data, set, length, fill, in_place) ==
  /\ call = NULL
  /\ calls < MaxCalls
  /\ IF icu_model = NULL THEN ~in_place
     ELSE Len(icu_model) = n /\ (in_place => model_mode_is_used(set.mode))
  /\ Returned(compress_like_rdcu(set, data, icu_model,
                                 IF in_place THEN icu_model ELSE Blank(n),
                                 [k \in 0..(2 * length - 1) |-> fill], 2 * length),
              data, set, length, in_place)
  /\ calls' = calls + 1
  /\ UNCHANGED <<gnd_model, got>>

\* It sees that a call has failed: nothing is sent.
GiveUp ==
  /\ call # NULL
  /\ call.ret # "NO_ERROR"
  /\ call' = NULL
  /\ UNCHANGED <<icu_model, gnd_model, got, calls>>

\* An imagette up to the rounding that was asked for.
Rounded(data, round) ==
  [i \in DOMAIN data |-> <<round_inv(round_fwd(data[i][1], round), round)>>]

\* The ground decompresses what a successful call has sent.
Decompress ==
  LET i == call.info
  IN  /\ call # NULL
      /\ call.ret = "NO_ERROR"
      /\ \E d \in {decompress_rdcu_data(call.buf, i, gnd_model, Blank(i.samples))} :
           /\ got' = [err |-> d.err, out |-> d.out,
                      want |-> Rounded(call.data, IF i.mode = "RAW" THEN 0 ELSE i.round)]
           /\ gnd_model' = IF d.err THEN gnd_model
                           ELSE IF model_mode_is_used(i.mode) THEN d.up
                           ELSE IF StartsModel(i) THEN d.out ELSE gnd_model
      /\ call' = NULL
      /\ UNCHANGED <<icu_model, calls>>

ChainNext ==
  \/ \E n \in SampleNumbers, set \in Settings, length \in BufferLengths, fill \in Fills,
        in_place \in BOOLEAN :
       \E data \in Imagette(n) : Compress(n, data, set, length, fill, in_place)
  \/ GiveUp
  \/ Decompress

(***************************************************************************)
(* Properties, of this chain and, but for the last two, of ChunkChain.     *)
(***************************************************************************)
\* What the ground decompresses is what was compressed: an imagette up to the
\* rounding that was asked for, or a chunk as it was.  The code words, the
\* escapes, their split over words of the buffer and the refills of the reader
\* fit together for every parameter pair the checks accept; both sides find the
\* same collections, take the same parameters for the same members, and tell
\* compressed collections from uncompressed ones alike.
RoundTrip == got # NULL => ~got.err /\ got.out = got.want

\* Whenever nothing is on its way, application and ground predict the next
\* imagette or chunk from the same model, also after failed calls, where
\* collections were left uncompressed, and when data was lossy: the ground
\* never sees the data the application updates its model with.
ModelsInStep == call = NULL /\ icu_model # NULL => icu_model = gnd_model

\* The buffer alone decides over success: a valid configuration never meets a
\* code word longer than a word or a value too large, and a call fails exactly
\* when the buffer has less room than the size a call without an output
\* buffer returns: the padding of the last word never asks for more.
OnlyBufferFails ==
  call # NULL /\ call.by = "rdcu" =>
    LET set == call.set
        room == IF set.mode = "RAW" THEN 2 * call.length * ByteBits
                ELSE cmp_stream_size_to_bits(2 * call.length)
    IN  IF cmp_pars_are_invalid(set.par, set.spill, set.mode) THEN call.ret = "PAR_SPECIFIC"
        ELSE IF model_mode_is_used(set.mode) /\ call.old = NULL THEN call.ret = "PAR_NO_MODEL"
        ELSE \E dry \in {compress_like_rdcu(set, call.data, call.old, NULL, NULL, 0)} :
               /\ dry.ret = "NO_ERROR"
               /\ call.ret = IF dry.info.cmp_size <= room THEN "NO_ERROR" ELSE "SMALL_BUFFER"

\* The sizes reported for the adaptive parameters are those a call with these
\* parameters and room enough has.
AdaptiveSizesRight ==
  call # NULL /\ call.by = "rdcu" =>
    \A a \in {<<call.set.ap1_par, call.set.ap1_spill, call.info.ap1_cmp_size>>,
              <<call.set.ap2_par, call.set.ap2_spill, call.info.ap2_cmp_size>>} :
      a[3] # 0 =>
        a[3] = compress_like_rdcu([call.set EXCEPT !.par = a[1], !.spill = a[2]], call.data,
                                  call.old, Blank(Len(call.data)),
                                  [k \in 0..23 |-> 0], 24).info.cmp_size
=============================================================================
