----------------------------- MODULE Bitstream -----------------------------
(***************************************************************************)
(* The two ends of a compressed bitstream: the writer put_n_bits32 of the  *)
(* software compressor (src/lib/icu_compress/cmp_icu.c) and the reader of  *)
(* the decompressor (src/lib/decompress/read_bitstream.h).                 *)
(*                                                                         *)
(* A byte has ByteBits bits.  The machine words of the code keep their     *)
(* number of bytes (4 and 8), so a smaller byte scales every width of the  *)
(* code down together: the 32-bit word has WordBits bits and the 64-bit    *)
(* container of the reader ContainerBits.  Bytes in memory are numbers     *)
(* below 2^ByteBits; a buffer is a function from 0..n-1 to bytes.          *)
(***************************************************************************)
EXTENDS Integers, Sequences, SequencesExt

CONSTANTS
  ByteBits,  \* bits of a byte, 8 in the code
  NULL       \* the null pointer

ASSUME ByteBitsAssumption == ByteBits \in Nat \ {0}

WordBits == 4 * ByteBits
ContainerBytes == 8
ContainerBits == ContainerBytes * ByteBits

Word(v) == v % 2^WordBits

(***************************************************************************)
(* Big-endian numbers in memory (byteorder.h and the memcpy calls).        *)
(***************************************************************************)
ByteOf(v, n, k) == (v \div 2^(ByteBits * (n - 1 - k))) % 2^ByteBits
BytesOf(v, n) == [k \in 1..n |-> ByteOf(v, n, k - 1)]
NumAt(buf, at, n) == FoldLeft(LAMBDA acc, k : acc * 2^ByteBits + buf[at + k - 1],
                              0, [k \in 1..n |-> k])
PutBytes(buf, at, bytes) ==
  [k \in DOMAIN buf |-> IF k \in at..(at + Len(bytes) - 1)
                        THEN bytes[k - at + 1] ELSE buf[k]]
GetBytes(buf, at, n) == [k \in 1..n |-> buf[at + k - 1]]

(***************************************************************************)
(* The writer.  A stream is the buffer, its length in bits so far, and the *)
(* error that ended the writing ("NO_ERROR" while there is none).  In the  *)
(* code the length and the error share one return value, and every caller  *)
(* stops at an error.                                                      *)
(***************************************************************************)
Stream(buf, len) == [err |-> "NO_ERROR", len |-> len, buf |-> buf]
Failed(s, e) == [s EXCEPT !.err = e]
IsError(s) == s.err # "NO_ERROR"

\* A word whose n bits below the top lo bits are replaced by the low bits of v.
PutIn(word, v, lo, n) ==
  LET above == word \div 2^(WordBits - lo)
      below == word % 2^(WordBits - lo - n)
  IN  (above * 2^n + (v % 2^n)) * 2^(WordBits - lo - n) + below

PutWord(buf, adr, v, lo, n) ==
  PutBytes(buf, adr, BytesOf(PutIn(NumAt(buf, adr, 4), v, lo, n), 4))

\* The bits that do not fit into the word at hand go to the top of the next.
PutRest(buf, adr, v, n) == IF n > 0 THEN PutWord(buf, adr, v, 0, n) ELSE buf

put_n_bits32(value, n_bits, s, max_stream_len) ==
  LET bits_left == s.len % WordBits
      rest == IF bits_left + n_bits > WordBits THEN bits_left + n_bits - WordBits ELSE 0
      adr == 4 * (s.len \div WordBits)
      stream_len == s.len + n_bits
  IN  IF n_bits > WordBits THEN Failed(s, "INT_DECODER")
      ELSE IF n_bits = 0 \/ s.buf = NULL THEN [s EXCEPT !.len = stream_len]
      ELSE IF stream_len > max_stream_len THEN Failed(s, "SMALL_BUFFER")
      ELSE [s EXCEPT !.len = stream_len,
                     !.buf = PutRest(PutWord(s.buf, adr, value \div 2^rest, bits_left,
                                             n_bits - rest),
                                     adr + 4, value, rest)]

\* The buffer is written in words: its size in bytes is rounded down.
cmp_stream_size_to_bits(stream_size) == (stream_size - (stream_size % 4)) * ByteBits
cmp_bit_to_byte(cmp_size_bit) == (cmp_size_bit + ByteBits - 1) \div ByteBits

(***************************************************************************)
(* The reader.  src is the sequence of the bytes of the stream, container  *)
(* the eight bytes in the local register, consumed the bits of it already  *)
(* used, cursor and limit byte positions in src.                           *)
(***************************************************************************)
Load(src, at) == SubSeq(src, at + 1, at + ContainerBytes)

bit_init_decoder(src) ==
  LET size == Len(src)
      missing == IF size < ContainerBytes THEN ContainerBytes - size ELSE 0
  IN  [src |-> src, cursor |-> 0,
       consumed |-> missing * ByteBits,
       container |-> IF missing = 0 THEN Load(src, 0)
                     ELSE [k \in 1..missing |-> 0] \o src,
       limit |-> IF missing = 0 THEN size - ContainerBytes ELSE 0]

\* Bit i (from the top, counted from 0) of the container; a shift to the left
\* moves zeros in from below.
BitAt(dec, i) ==
  IF i \in 0..(ContainerBits - 1)
  THEN (dec.container[(i \div ByteBits) + 1] \div 2^(ByteBits - 1 - (i % ByteBits))) % 2
  ELSE 0

BitsAt(dec, from, n) ==
  FoldLeft(LAMBDA acc, k : 2 * acc + BitAt(dec, from + k - 1), 0, [k \in 1..n |-> k])

\* The shift count is taken modulo the width of the container.
bit_peek_bits(dec, nb_bits) == BitsAt(dec, dec.consumed % ContainerBits, nb_bits)

bit_peek_leading_ones(dec) ==
  LET from == dec.consumed % ContainerBits
      zeros == {i \in from..(ContainerBits - 1) : BitAt(dec, i) = 0}
  IN  IF zeros = {} THEN ContainerBits - from ELSE Min(zeros) - from

bit_consume_bits(dec, nb_bits) == [dec EXCEPT !.consumed = @ + nb_bits]

\* The bits that end where the next nb_bits would end; the shift count wraps
\* when more bits are wanted than are left.  The result is masked again
\* after the subtraction.
bit_read_bits32_sub_1(dec, nb_bits) ==
  LET shift == (ContainerBits - dec.consumed - nb_bits) % ContainerBits
  IN  (BitsAt(dec, ContainerBits - shift - nb_bits, nb_bits) - 1) % 2^nb_bits

\* The register after a refill, with the status of the refill.
bit_refill(dec) ==
  LET bytes == dec.consumed \div ByteBits
      at(pos, consumed, status) ==
        [dec |-> [dec EXCEPT !.cursor = pos, !.container = Load(dec.src, pos),
                             !.consumed = consumed],
         status |-> status]
  IN  IF dec.consumed > ContainerBits THEN [dec |-> dec, status |-> "OVERFLOW"]
      ELSE IF dec.cursor + bytes < dec.limit
      THEN at(dec.cursor + bytes, dec.consumed % ByteBits, "UNFINISHED")
      ELSE IF dec.cursor = dec.limit
      THEN [dec |-> dec, status |-> IF dec.consumed = ContainerBits
                                    THEN "ALL_READ_IN" ELSE "END_OF_BUFFER"]
      ELSE at(dec.limit, dec.consumed - (dec.limit - dec.cursor) * ByteBits,
              "END_OF_BUFFER")
=============================================================================
