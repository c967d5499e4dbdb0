------------------------------ MODULE Codeword ------------------------------
(***************************************************************************)
(* How one value becomes code words and back: the encoders of              *)
(* src/lib/icu_compress/cmp_icu.c, the decoders of                         *)
(* src/lib/decompress/decmp.c and the parameter checks both sides share    *)
(* (src/lib/common/cmp_support.c).                                         *)
(*                                                                         *)
(* A setup is what encoder_setup and decoder_setup hold besides pointers:  *)
(* par, spill, round and bits (the width of the values), the compression   *)
(* mode, and for the encoder the room in the buffer in bits.               *)
(***************************************************************************)
EXTENDS Bitstream

Modes == {"RAW", "MODEL_ZERO", "DIFF_ZERO", "MODEL_MULTI", "DIFF_MULTI"}
model_mode_is_used(mode) == mode \in {"MODEL_ZERO", "MODEL_MULTI"}
zero_escape_mech_is_used(mode) == mode \in {"MODEL_ZERO", "DIFF_ZERO"}

MAX_MODEL_VALUE == 16
MAX_ICU_ROUND == 3
MIN_NON_IMA_SPILL == 2
MAX_NON_IMA_GOLOMB_PAR == 2^(2 * ByteBits) - 1

ilog_2(x) == CHOOSE k \in 0..(WordBits - 1) : 2^k <= x /\ x < 2^(k + 1)
is_a_pow_of_2(v) == \E k \in 0..(WordBits - 1) : v = 2^k

\* Members of the first group of a Golomb code, whose words are the shortest.
Cutoff(par) == 2^(ilog_2(par) + 1) - par

cmp_icu_max_spill(par) ==
  IF par \in 1..MAX_NON_IMA_GOLOMB_PAR
  THEN (WordBits - 1 - ilog_2(par)) * par + Cutoff(par) - (WordBits \div 2 - 1) - 1
  ELSE 0

cmp_pars_are_invalid(par, spill, mode) ==
  /\ mode # "RAW"
  /\ \/ par \notin 1..MAX_NON_IMA_GOLOMB_PAR
     \/ spill < MIN_NON_IMA_SPILL
     \/ spill > cmp_icu_max_spill(par)

round_fwd(v, round) == v \div 2^round
round_inv(v, round) == Word(v * 2^round)

(***************************************************************************)
(* Encoding.                                                               *)
(***************************************************************************)

\* A difference of values of that many bits, seen as a signed number, is
\* folded into the positive numbers: negative ones become odd.
map_to_pos(value, bits) ==
  LET v == value % 2^bits
  IN  IF v >= 2^(bits - 1) THEN Word((2^bits - v) * 2 - 1) ELSE Word(v * 2)

\* The word of a code and its length in bits.
rice_encoder(value, m) ==
  LET q == value \div m
      rl == ilog_2(m) + 1
  IN  [len |-> rl + q, cw |-> Word((2^q - 1) * 2^rl) + (value % m)]

golomb_encoder(value, m) ==
  LET cutoff == Cutoff(m)
      len == ilog_2(m) + 1
      g == (value - cutoff) \div m
      r == (value - cutoff) % m
  IN  IF value < cutoff THEN [len |-> len, cw |-> value]
      ELSE [len |-> len + 1 + g, cw |-> Word((2^g - 1) * 2^(len + 1) + 2 * cutoff + r)]

generate_cw_f(value, par) ==
  IF is_a_pow_of_2(par) THEN rice_encoder(value, par) ELSE golomb_encoder(value, par)

PutCodeword(c, s, setup) == put_n_bits32(c.cw, c.len, s, setup.room)

encode_normal(value, s, setup) == PutCodeword(generate_cw_f(value, setup.par), s, setup)

PutUnencoded(value, n_bits, s, setup) ==
  IF IsError(s) THEN s ELSE put_n_bits32(value, n_bits, s, setup.room)

\* An escape symbol, then, if there was room for it, the value as it is.
Escape(symbol, value, n_bits, s, setup) ==
  PutUnencoded(value, n_bits, encode_normal(symbol, s, setup), setup)

\* A slip: the value that becomes the spill threshold itself is not escaped.
encode_value_zero_SpillToo(data, model, s, setup) ==
  LET d == map_to_pos(Word(data - model), setup.bits)
  IN  IF d < setup.spill THEN encode_normal(d + 1, s, setup)
      ELSE Escape(0, Word(d + 1), setup.bits, s, setup)

encode_value_zero(data, model, s, setup) ==
  LET d == map_to_pos(Word(data - model), setup.bits)
  IN  IF d < setup.spill - 1 THEN encode_normal(d + 1, s, setup)
      ELSE Escape(0, Word(d + 1), setup.bits, s, setup)

encode_value_multi(data, model, s, setup) ==
  LET d == map_to_pos(Word(data - model), setup.bits)
      unencoded == d - setup.spill
      offset == IF unencoded = 0 THEN 0 ELSE ilog_2(unencoded) \div 2
  IN  IF d < setup.spill THEN encode_normal(d, s, setup)
      ELSE Escape(setup.spill + offset, unencoded, 2 * (offset + 1), s, setup)

encode_value(data, model, s, setup) ==
  LET d == round_fwd(data, setup.round)
      m == round_fwd(model, setup.round)
  IN  IF d >= 2^setup.bits \/ m >= 2^setup.bits THEN Failed(s, "DATA_VALUE_TOO_LARGE")
      ELSE IF zero_escape_mech_is_used(setup.mode) THEN encode_value_zero(d, m, s, setup)
      ELSE encode_value_multi(d, m, s, setup)

(***************************************************************************)
(* Decoding.  A decoder returns the value and the reader after it.         *)
(***************************************************************************)
Decoded(v, dec) == [val |-> v, dec |-> dec]

Unary(ones, dec) == Decoded(ones, bit_consume_bits(dec, ones + 1))
unary_decoder(dec) == Unary(bit_peek_leading_ones(dec), dec)

\* What follows the unary part q of a Rice and of a Golomb code word.
RiceRest(q, m, n) ==
  Decoded(Word(q.val * m) + bit_peek_bits(q.dec, n), bit_consume_bits(q.dec, n))

GolombRest(q, m, n, r2) ==
  IF r2 \div 2 < Cutoff(m)
  THEN Decoded(Word(q.val * m + (r2 \div 2)), bit_consume_bits(q.dec, n))
  ELSE Decoded(Word(q.val * m + r2 - Cutoff(m)), bit_consume_bits(q.dec, n + 1))

GolombPeek(q, m, n) == GolombRest(q, m, n, bit_peek_bits(q.dec, n + 1))

rice_decoder(dec, m) == RiceRest(unary_decoder(dec), m, ilog_2(m))
golomb_decoder(dec, m) == GolombPeek(unary_decoder(dec), m, ilog_2(m))

select_decoder(dec, par) ==
  IF par = 1 THEN unary_decoder(dec)
  ELSE IF is_a_pow_of_2(par) THEN rice_decoder(dec, par)
  ELSE golomb_decoder(dec, par)

\* The last refill of a value reports whether more was read than there is.
Refilled(v, r, ok) == [val |-> v, dec |-> r.dec, err |-> ~ok \/ r.status = "OVERFLOW"]
Checked(v, dec, ok) == Refilled(v, bit_refill(dec), ok)

\* The value behind the escape symbol 0.
Unescaped(v, dec, setup) ==
  Checked(v, bit_consume_bits(dec, setup.bits), v >= setup.spill - 1)
UnescapeZero(dec, setup) ==
  Unescaped(bit_read_bits32_sub_1(dec, setup.bits), dec, setup)

\* c is the symbol read.
ZeroSymbol(c, setup) ==
  IF c.val # 0 THEN Checked(c.val - 1, c.dec, c.val < setup.spill)
  ELSE UnescapeZero(bit_refill(c.dec).dec, setup)

decode_zero(dec, setup) == ZeroSymbol(select_decoder(dec, setup.par), setup)

\* The n bits behind an escape symbol: a shorter symbol must not have done,
\* nor must the value have been one that is not escaped.
UnescapeMulti(raw, dec, n, setup) ==
  LET v == Word(raw + setup.spill)
  IN  Checked(v, bit_consume_bits(dec, n), /\ n > 2 => raw \div 2^(n - 2) # 0
                                           /\ v % 2^setup.bits >= setup.spill)
PeekMulti(dec, n, setup) == UnescapeMulti(bit_peek_bits(dec, n), dec, n, setup)

MultiSymbol(c, setup) ==
  LET n == 2 * (c.val - setup.spill + 1)
  IN  IF c.val < setup.spill THEN Checked(c.val, c.dec, TRUE)
      ELSE IF n > setup.bits + (setup.bits % 2) THEN Checked(c.val, c.dec, FALSE)
      ELSE PeekMulti(bit_refill(c.dec).dec, n, setup)

decode_multi(dec, setup) == MultiSymbol(select_decoder(dec, setup.par), setup)

re_map_to_pos(v) == IF v % 2 = 1 THEN Word(-((v + 1) \div 2)) ELSE v \div 2

\* A mapped difference becomes the value again.
Restored(mapped, model, setup) ==
  round_inv(Word(re_map_to_pos(mapped) + round_fwd(model, setup.round)) % 2^setup.bits,
            setup.round)

decode_method_f(dec, setup) ==
  IF zero_escape_mech_is_used(setup.mode) THEN decode_zero(dec, setup)
  ELSE decode_multi(dec, setup)

decode_value(dec, model, setup) ==
  [decode_method_f(dec, setup) EXCEPT !.val = Restored(@, model, setup)]
=============================================================================
