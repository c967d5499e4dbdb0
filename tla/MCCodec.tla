------------------------------ MODULE MCCodec ------------------------------
(***************************************************************************)
(* Small configurations of both chains.  The bytes have four bits: pixels  *)
(* 0 to 255, words of sixteen bits and a reader's register of thirty-two,  *)
(* so that code words cross words and the register is refilled within an   *)
(* imagette.                                                               *)
(***************************************************************************)
EXTENDS ChunkChain

(* RDCU chains.                                                            *)

\* Pairs p of the main parameters and of the two adaptive ones.
Setting(mode, round, p) ==
  [mode |-> mode, model_value |-> 7, round |-> round, par |-> p[1], spill |-> p[2],
   ap1_par |-> p[3], ap1_spill |-> p[4], ap2_par |-> p[5], ap2_spill |-> p[6]]

\* Unary, Rice and Golomb codes, the first two with the largest spill threshold
\* there is; the pair in MCRefused is one too large.
MCPairs == { << 1, 8, 3, 35, 1, 9 >>, << 2, 22, 1, 2, 15, 173 >>, << 3, 6, 7, 8, 2, 2 >> }
MCRefused == << 1, 9, 2, 5, 0, 0 >>
MCSettings ==
  {Setting("RAW", 0, << 1, 4, 2, 4, 0, 0 >>), Setting("MODEL_MULTI", 0, MCRefused)} \cup
  {Setting(m, r, p) : m \in Modes \ {"RAW"}, r \in {0, 2}, p \in MCPairs}

(* Chains of chunks.                                                       *)

\* Every chunk type and every collection type, collections that follow one
\* another, an empty one, and the layouts compress_chunk refuses: mixed chunk
\* types, an unsupported type, a length that is no number of entries, chunks
\* cut short within the last collection.
Layout(cut, cols) == [cut |-> cut, cols |-> cols]
MCLayouts == {
  Layout(0, << <<"IMAGETTE", 3, 0>>, <<"IMAGETTE", 0, 0>> >>),
  Layout(0, << <<"SAT_IMAGETTE", 5, 0>> >>),
  Layout(0, << <<"OFFSET", 1, 0>>, <<"BACKGROUND", 2, 0>> >>),
  Layout(0, << <<"SMEARING", 2, 0>> >>),
  Layout(0, << <<"S_FX", 2, 0>>, <<"S_FX_EFX", 1, 0>> >>),
  Layout(0, << <<"S_FX_NCOB", 1, 0>>, <<"S_FX_EFX_NCOB_ECOB", 1, 0>> >>),
  Layout(0, << <<"L_FX", 1, 0>>, <<"L_FX_EFX", 1, 0>> >>),
  Layout(0, << <<"L_FX_NCOB", 1, 0>>, <<"L_FX_EFX_NCOB_ECOB", 1, 0>> >>),
  Layout(0, << <<"F_CAM_IMAGETTE", 2, 0>>, <<"F_CAM_OFFSET", 1, 0>>,
               <<"F_CAM_BACKGROUND", 1, 0>> >>),
  Layout(1, << <<"IMAGETTE", 2, 0>>, <<"IMAGETTE", 1, 0>> >>),
  Layout(3, << <<"IMAGETTE", 2, 0>>, <<"IMAGETTE", 1, 0>> >>),
  Layout(0, << <<"IMAGETTE", 2, 0>>, <<"SMEARING", 1, 0>> >>),
  Layout(0, << <<"F_FX", 1, 0>> >>),
  Layout(0, << <<"IMAGETTE", 2, 1>> >>) }

\* The parameters differ from pair to pair; those of the second are so large
\* that nothing is compressed.
MCPars == { [model_value |-> 11, par |-> << 3, 1, 2, 5, 4, 6 >>],
            [model_value |-> 11, par |-> << 200, 250, 210, 220, 230, 240 >>] }

\* Equal values, small steps, and steps that are escaped.
MCContents == {<<0, 9>>, <<7, 7>>, <<40000, 3>>, <<65535, 0>>}
=============================================================================
