--------------------------- MODULE MCRdcuProduct ---------------------------
(***************************************************************************)
(* RdcuProduct for TLC: words of 8 bits, an SRAM of 32 bytes, registers of *)
(* 6 bits, in the proportions of the code.                                 *)
(***************************************************************************)
EXTENDS RdcuProduct

(* Addresses at the start, side by side, at the end, unaligned, and so     *)
(* large that a sum wraps around; counts that fill the SRAM and counts     *)
(* whose double wraps around.                                              *)
Addrs   == {0, 4, 8, 24, 28, 30, 252}
Samples == {0, 1, 4, 5, 128, 130}
Lengths == {0, 2, 4, 5, 130}

Place(in, mo, n, d, m, u, b, len) ==
  [input_buf |-> in, model_buf |-> mo, samples |-> n, data_adr |-> d,
   model_adr |-> m, new_model_adr |-> u, buffer_adr |-> b, buffer_length |-> len]

MCPlaces(mode) ==
  IF model_mode_is_used(mode)
  THEN {Place(1, 2, n, d, m, u, b, len) : n \in Samples, d \in Addrs,
          m \in Addrs, u \in Addrs, b \in Addrs, len \in Lengths}
         \cup {Place(0, 2, 128, 0, 8, 8, 16, 4), Place(1, 1, 2, 0, 8, 8, 16, 4),
               Place(0, 0, 130, 0, 8, 8, 16, 4)}
  ELSE {Place(1, 0, n, d, m, m, b, len) : n \in Samples, d \in Addrs,
          m \in {0, 30, 252}, b \in Addrs, len \in Lengths}
         \cup {Place(0, 0, n, 0, 0, 0, 16, 4) : n \in Samples}

MCHomePlaces(mode) ==
  {Place(1, 2, n, 0, 8, 16, 24, 4) : n \in {0, 1, 3, 4}}

MCModes == {<<0, 0, 0>>, <<2, 0, 1>>, <<3, 16, 2>>, <<3, 17, 0>>, <<5, 0, 3>>}

MCParams == {<<>>, <<63, 623, 1, 8, 16, 184>>, <<63, 624, 3, 35, 5, 60>>,
             <<4, 48, 0, 2, 5, 60>>, <<4, 48, 3, 35, 64, 2>>, <<1, 1, 1, 8, 1, 8>>}

MCChunkCfgs ==
  {[cmp_mode |-> m, model_value |-> 11, round |-> r,
    cmp_par |-> <<1, 770, U16, 4, 5, 6>>, spill |-> <<U24, 131844, 3, s, 5, 6>>] :
     m \in {0, 1, 4}, r \in {0, 3}, s \in {7, U24, U24 + 1}}

MCTimes == {[above |-> 0, coarse |-> 16909060, fine |-> 1286],
            [above |-> 1, coarse |-> 0, fine |-> 0]}
=============================================================================
