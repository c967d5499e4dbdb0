----------------------------- MODULE ChunkChain -----------------------------
(***************************************************************************)
(* A chain of chunk compressions, beside the one of RdcuChain.  The        *)
(* application compresses chunks of one layout with compress_chunk, in any *)
(* mode, into buffers that are or are not large enough, and keeps a model; *)
(* the ground decompresses every entity with decompress_cmp_entiy and      *)
(* keeps a model of its own.                                               *)
(***************************************************************************)
EXTENDS CmpChunk, RdcuChain

CONSTANTS
  Layouts,   \* layouts of a chunk: cols, a sequence of <<type, number of entries, stray
             \* bytes>>, and cut, the bytes the chunk size given is short of the chunk
  Contents,  \* pairs of values the members take in turn, cut down to their widths
  Pars       \* compression parameters without the mode

VARIABLE layout  \* the layout of the chunks of this chain, NULL in an RDCU chain

codec == <<layout, chain>>

\* A chunk whose members take two values in turn.
Chunk(a, b) ==
  LET l == layout.cols
  IN  [c \in DOMAIN l |->
    [type |-> l[c][1], stray |-> l[c][3],
     data |-> [i \in 1..l[c][2] |->
                [k \in DOMAIN MemberBytes(l[c][1]) |->
                  (IF (i + k) % 2 = 0 THEN a ELSE b) % 2^max_used_bits(l[c][1], k)]]]]

\* A buffer for an updated model, of the size of the chunk.
BlankChunk == Chunk(0, 0)

\* The capacities an application tries: the bound, the size a call without a
\* buffer returns, rounded up to words or as it is, and less.
Capacities(chunk, dry) ==
  {compress_chunk_cmp_size_bound(chunk), RoundUp4(dry), dry, RoundUp4(dry) - 4,
   GENERIC_HEADER_SIZE - 1}

\* The size an application learns from a call without a buffer and without
\* an updated model, which leaves everything as it is.
Dry(chunk, par) ==
  compress_chunk(chunk, ChunkSize(chunk) - layout.cut, icu_model, NULL, NULL, 0, par)

\* A call has returned r.  When one fails that updates the model in place,
\* the model is lost and has to be started anew; a call that does not use the
\* model starts a new one.
ChunkReturned(r, chunk, par, dst_capacity, in_place, dry) ==
  /\ call' = [by |-> "chunk", ret |-> r.err, size |-> r.size, hdr |-> r.hdr, buf |-> r.buf,
              chunk |-> chunk, capacity |-> dst_capacity,
              dry |-> [err |-> dry.err, size |-> dry.size]]
  /\ icu_model' = IF r.err # "NO_ERROR" THEN (IF in_place THEN NULL ELSE icu_model)
                  ELSE IF model_mode_is_used(par.mode) THEN r.up ELSE chunk

\* The application compresses a chunk; dry is what the call without a buffer
\* returned.
CompressChunk(chunk, par, dst_capacity, fill, in_place, dry) ==
  /\ calls < MaxCalls
  /\ in_place => model_mode_is_used(par.mode) /\ icu_model # NULL
  /\ ChunkReturned(compress_chunk(chunk, ChunkSize(chunk) - layout.cut, icu_model,
                                  IF in_place THEN icu_model ELSE BlankChunk,
                                  [k \in 0..(dst_capacity - 1) |-> fill],
                                  dst_capacity, par),
                   chunk, par, dst_capacity, in_place, dry)
  /\ calls' = calls + 1
  /\ UNCHANGED <<layout, gnd_model, got>>

\* The ground decompresses the entity of a successful call.
DecompressChunk ==
  /\ call # NULL
  /\ call.ret = "NO_ERROR"
  /\ \E d \in {decompress_cmp_entiy(Entity(call.hdr, call.buf), gnd_model, BlankChunk)} :
       /\ got' = [err |-> d.err, out |-> d.out, want |-> call.chunk]
       /\ gnd_model' = IF d.err THEN gnd_model
                       ELSE IF model_mode_is_used(call.hdr.mode) THEN d.up ELSE d.out
  /\ call' = NULL
  /\ UNCHANGED <<layout, icu_model, calls>>

ChunkNext ==
  \/ /\ call = NULL
     /\ \E v \in Contents, p \in Pars, mode \in Modes, fill \in Fills, in_place \in BOOLEAN :
          LET chunk == Chunk(v[1], v[2])
              par == [mode |-> mode, model_value |-> p.model_value, par |-> p.par]
          IN  \E dry \in {Dry(chunk, par)} : \E dst_capacity \in Capacities(chunk, dry.size) :
                CompressChunk(chunk, par, dst_capacity, fill, in_place, dry)
  \/ GiveUp /\ UNCHANGED layout
  \/ DecompressChunk

\* Chains of either kind.
CodecInit == ChainInit /\ layout \in Layouts \cup {NULL}
CodecNext ==
  \/ layout = NULL /\ ChainNext /\ UNCHANGED layout
  \/ layout # NULL /\ ChunkNext
CodecSpec == CodecInit /\ [][CodecNext]_codec

(***************************************************************************)
(* Properties.                                                             *)
(***************************************************************************)

\* A call without a buffer tells the truth: the size it returns is that of
\* the same call with a buffer, its error is found again, and a buffer of that
\* size in whole words is never too small.
DryRunAgrees ==
  call # NULL /\ call.by = "chunk" =>
    /\ call.ret = "NO_ERROR" => call.dry.err = "NO_ERROR" /\ call.dry.size = call.size
    /\ call.ret \in {call.dry.err, "SMALL_BUFFER"}
    /\ call.dry.err = "NO_ERROR" /\ call.ret = "SMALL_BUFFER" =>
         call.capacity < RoundUp4(call.dry.size)

\* A buffer of the size compress_chunk_cmp_size_bound returns takes every
\* chunk, compressible or not.
BoundSuffices ==
  call # NULL /\ call.by = "chunk" =>
    LET bound == compress_chunk_cmp_size_bound(call.chunk)
    IN  /\ call.capacity >= bound => call.ret # "SMALL_BUFFER"
        /\ call.ret = "NO_ERROR" => call.size <= bound
=============================================================================
