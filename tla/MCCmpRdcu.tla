------------------------------ MODULE MCCmpRdcu -----------------------------
(***************************************************************************)
(* CmpRdcu with two configuration registers (mode and a parameter), the    *)
(* used mode as information register, and one word of data, of model and   *)
(* of output.                                                              *)
(***************************************************************************)
EXTENDS CmpRdcu

MCConfigRegs == <<3, 4>>
MCInfoRegs   == <<5>>

(* Bitstreams that tell modes, data and models apart, and models that tell *)
(* their data and old models apart.                                        *)
MCCompressed(mode, data, model) ==
  8 + IF mode = 1 THEN 4 + (data % 2) + 2 * (model % 2)
       ELSE (mode % 4) + (data % 2)
MCUpdated(data, model) == 4 + ((data + model) % 2)

Config(regs, data, model) == [regs |-> regs, data |-> data, model |-> model,
                              valid |-> TRUE, refused |-> 0]
Raw     == Config(<<0, 1>>, 1, 5)
Diff    == Config(<<2, 2>>, 2, 4)
Model   == Config(<<1, 1>>, 2, 5)
Again   == Config(<<1, 2>>, NULL, NULL)  \* with what the SRAM holds
Refused == [Diff EXCEPT !.refused = 2]
Invalid == [Diff EXCEPT !.valid = FALSE]

(* On a prompt link: compressions with and without a raw one before, and   *)
(* with configurations that are refused; compressions that go on with what *)
(* the last one left in the SRAM.  A link on which rdcu_syncing gives up   *)
(* and answers are damaged, with raw compressions only, so that every call *)
(* goes through the work-around.                                           *)
MCScenarios ==
  {[prompt |-> TRUE, configs |-> {Raw, Model, Refused, Invalid}],
   [prompt |-> TRUE, configs |-> {Model, Again}],
   [prompt |-> FALSE, configs |-> {Config(<<0, 1>>, 0, NULL)}]}

MCSlow == {[prompt |-> FALSE, configs |-> {Diff}]}
=============================================================================
