------------------------- MODULE RdcuProductProofs --------------------------
(***************************************************************************)
(* The areas of a hardware compression do not meet, for every size of the  *)
(* SRAM, of the registers and of the words the checks compute with.        *)
(***************************************************************************)
EXTENDS RdcuProduct, TLAPS

(* The members of a configuration that place its areas.                    *)
Placed(c) ==
  /\ c.samples \in Nat /\ c.buffer_length \in Nat
  /\ c.data_adr \in Nat /\ c.model_adr \in Nat
  /\ c.new_model_adr \in Nat /\ c.buffer_adr \in Nat

(* What rdcu_compress_data has seen to before it starts the compressor.    *)
Started(c) ==
  /\ Placed(c)
  /\ ~rdcu_cmp_cfg_is_invalid(c)
  /\ RegistersTake(c)
-----------------------------------------------------------------------------
(* A count that fits its register is not changed by doubling it in a word, *)
(* nor is the end of its area by the addition.                             *)
LEMMA NoWrap ==
  ASSUME NEW adr \in 0 .. RegMax, NEW n \in 0 .. RegMax
  PROVE  /\ (n * 2) % W = 2 * n
         /\ (adr + 2 * n) % W = adr + 2 * n
<1>1. 2 * n < W /\ adr + 2 * n < W
  BY CfgAssumption
<1>2. \A x \in Nat : x < W => x % W = x
  BY CfgAssumption
<1> QED
  BY <1>1, <1>2

(* An area that passes the range check is inside the SRAM with its last    *)
(* word whole.                                                             *)
LEMMA InsideSram ==
  ASSUME NEW adr \in 0 .. RegMax, NEW n \in 0 .. RegMax, adr % 4 = 0,
         ~Outside(Area(adr, n))
  PROVE  Words(adr, n) \subseteq 0 .. SramSize - 1
<1>1. adr + 2 * n <= SramSize
  BY NoWrap, CfgAssumption DEF Outside, Area, outside_sram_range
<1>2. PICK k \in Nat, s \in Nat : adr = 4 * k /\ SramSize = 4 * s
  BY CfgAssumption
<1>3. PICK q \in Nat : q = (2 * n + 3) \div 4 /\ 4 * q <= 2 * n + 3
  OBVIOUS
<1>4. adr + 4 * q <= SramSize
  BY <1>1, <1>2, <1>3
<1> QED
  BY <1>3, <1>4, CfgAssumption DEF Words

(* Two areas that pass the overlap check share no word.                    *)
LEMMA ApartWords ==
  ASSUME NEW a \in 0 .. RegMax, NEW n \in 0 .. RegMax, a % 4 = 0,
         NEW b \in 0 .. RegMax, NEW m \in 0 .. RegMax, b % 4 = 0,
         ~Overlap(Area(a, n), Area(b, m))
  PROVE  Words(a, n) \cap Words(b, m) = {}
<1>1. a >= b + 2 * m \/ a + 2 * n <= b
  BY NoWrap DEF Overlap, Area, buffers_overlap
<1>2. a >= b + 4 * ((2 * m + 3) \div 4) \/ a + 4 * ((2 * n + 3) \div 4) <= b
  BY <1>1
<1> QED
  BY <1>2 DEF Words

-----------------------------------------------------------------------------
(* What rdcu_compress_data starts keeps its areas apart.                   *)
LEMMA StartedAreasApart ==
  ASSUME NEW c, Started(c)
  PROVE  Apart(c)
<1> DEFINE data  == Words(c.data_adr, c.samples)
           out   == Words(c.buffer_adr, c.buffer_length)
           model == Words(c.model_adr, c.samples)
           new   == Words(c.new_model_adr, c.samples)
<1>1. /\ c.data_adr \in 0 .. RegMax /\ c.buffer_adr \in 0 .. RegMax
      /\ c.model_adr \in 0 .. RegMax /\ c.new_model_adr \in 0 .. RegMax
      /\ c.samples \in 0 .. RegMax /\ c.buffer_length \in 0 .. RegMax
      /\ c.data_adr % 4 = 0 /\ c.buffer_adr % 4 = 0
      /\ c.model_adr % 4 = 0 /\ c.new_model_adr % 4 = 0
  BY CfgAssumption DEF Started, Placed, RegistersTake, AddrFits, CountFits
<1>2. /\ data \subseteq 0 .. SramSize - 1
      /\ out \subseteq 0 .. SramSize - 1
      /\ data \cap out = {}
  BY <1>1, InsideSram, ApartWords
     DEF Started, rdcu_cmp_cfg_is_invalid, rdcu_cfg_buffers_is_invalid
<1>3. CASE ~model_mode_is_used(c.cmp_mode)
  BY <1>2, <1>3 DEF Apart
<1>4. CASE model_mode_is_used(c.cmp_mode)
  <2>1. /\ model \subseteq 0 .. SramSize - 1
        /\ model \cap data = {} /\ model \cap out = {}
    BY <1>1, <1>4, InsideSram, ApartWords
       DEF Started, rdcu_cmp_cfg_is_invalid, rdcu_cfg_buffers_is_invalid
  <2>2. CASE c.model_adr = c.new_model_adr
    BY <1>2, <1>4, <2>1, <2>2 DEF Apart
  <2>3. CASE c.model_adr # c.new_model_adr
    <3>1. Area(c.model_adr, c.samples).adr # Area(c.new_model_adr, c.samples).adr
      BY <2>3 DEF Area
    <3>2. /\ new \subseteq 0 .. SramSize - 1
          /\ new \cap data = {} /\ new \cap out = {} /\ new \cap model = {}
      BY <1>1, <1>4, <3>1, InsideSram, ApartWords
         DEF Started, rdcu_cmp_cfg_is_invalid, rdcu_cfg_buffers_is_invalid
    <3> QED
      BY <1>2, <1>4, <2>1, <3>2 DEF Apart
  <2> QED
    BY <2>2, <2>3
<1> QED
  BY <1>3, <1>4

-----------------------------------------------------------------------------
(* The configuration on its way to the start, and the registers.           *)
AreasInv ==
  /\ phase = "created" =>
       \E m \in Modes : cfg = rdcu_cfg_create(m[1], m[2], m[3])
  /\ phase \in {"placed", "ready"} => Placed(cfg)
  /\ AreasApart

(* A step outside the set-up leaves the areas.                             *)
LEMMA AreasUnmoved ==
  ASSUME AreasInv, UNCHANGED regs, phase' \notin {"created", "placed", "ready"}
  PROVE  AreasInv'
BY DEF AreasInv, AreasApart

(* Every step keeps the areas apart: only the set-up places them.          *)
LEMMA AreasStep == AreasInv /\ [Next]_vars => AreasInv'
<1> SUFFICES ASSUME AreasInv, [Next]_vars PROVE AreasInv'
  OBVIOUS
<1>1. ASSUME NEW m \in Modes, Create(m) PROVE AreasInv'
  BY <1>1 DEF Create, AreasInv, AreasApart
<1>2. ASSUME phase = "created",
             NEW b \in Places(cfg.cmp_mode) \cup HomePlaces(cfg.cmp_mode),
             Buffers(b)
      PROVE  AreasInv'
  <2>1. PICK m \in Modes : cfg = rdcu_cfg_create(m[1], m[2], m[3])
    BY <1>2 DEF AreasInv
  <2>2. b \in Places(m[1]) \cup HomePlaces(m[1])
    BY <1>2, <2>1 DEF rdcu_cfg_create
  <2>3. Placed(cfg')
    BY <1>2, <2>1, <2>2, PlacesAssumption, CfgAssumption
       DEF Placed, Buffers, rdcu_cfg_create, rdcu_cfg_buffers
  <2> QED
    BY <1>2, <2>3 DEF Buffers, AreasInv, AreasApart
<1>3. ASSUME NEW p, Imagette(p) PROVE AreasInv'
  <2>1. Placed(cfg) /\ Placed(cfg')
    BY <1>3 DEF Imagette, AreasInv, Placed, rdcu_cfg_imagette, rdcu_cfg_imagette_default
  <2> QED
    BY <1>3, <2>1 DEF Imagette, AreasInv, AreasApart
<1>4. CASE rdcu_compress_data
  <2>1. CASE regs' = cfg /\ phase' = "started" /\ Started(cfg)
    BY <2>1, StartedAreasApart DEF AreasInv, AreasApart
  <2>2. CASE regs' = regs /\ phase' = "refused"
    BY <2>2, AreasUnmoved
  <2> QED
    BY <1>4, <2>1, <2>2 DEF rdcu_compress_data, AreasInv, Started
<1>5. ASSUME NEW bits, NEW err, FpgaEnds(bits, err) PROVE AreasInv'
  BY <1>5, AreasUnmoved DEF FpgaEnds
<1>6. CASE rdcu_read_cmp_info
  BY <1>6, AreasUnmoved DEF rdcu_read_cmp_info
<1>7. ASSUME NEW type, NEW raw, NEW unit, CreateEntity(type, raw, unit)
      PROVE  AreasInv'
  BY <1>7, AreasUnmoved DEF CreateEntity
<1>8. CASE rdcu_read_cmp_bitstream
  BY <1>8, AreasUnmoved DEF rdcu_read_cmp_bitstream
<1>9. ASSUME NEW rcfg, WritePars(rcfg) PROVE AreasInv'
  BY <1>9, AreasUnmoved DEF WritePars
<1>10. ASSUME NEW f, NEW v, SetField(f, v) PROVE AreasInv'
  BY <1>10, AreasUnmoved DEF SetField
<1>11. ASSUME NEW which, NEW t, SetTime(which, t) PROVE AreasInv'
  BY <1>11, AreasUnmoved DEF SetTime
<1>12. ASSUME NEW type, NEW raw, FieldsEntity(type, raw) PROVE AreasInv'
  BY <1>12, AreasUnmoved DEF FieldsEntity
<1>13. ASSUME NEW c, NEW n, ChunkData(c, n) PROVE AreasInv'
  BY <1>13, AreasUnmoved DEF ChunkData
<1>14. ASSUME NEW s, NEW e, ChunkHeader(258, s, e) PROVE AreasInv'
  BY <1>14, AreasUnmoved DEF ChunkHeader
<1>15. ASSUME NEW id, NEW counter, ChunkModelId(id, counter) PROVE AreasInv'
  BY <1>15, AreasUnmoved DEF ChunkModelId
<1>16. CASE Deliver
  BY <1>16, AreasUnmoved DEF Deliver
<1>17. CASE StartOver
  BY <1>17 DEF StartOver, AreasInv, AreasApart
<1>18. CASE UNCHANGED vars
  BY <1>18 DEF vars, AreasInv, AreasApart
<1> QED
  BY <1>1, <1>2, <1>3, <1>4, <1>5, <1>6, <1>7, <1>8, <1>9, <1>10, <1>11,
     <1>12, <1>13, <1>14, <1>15, <1>16, <1>17, <1>18 DEF Next

(* Whatever settings an application tries, a compression that              *)
(* rdcu_compress_data starts (cmp_rdcu.c) works inside the SRAM on areas   *)
(* that do not overlap: rdcu_cfg_buffers_is_invalid and the limits of the  *)
(* registers leave no wrapped sum or product that could hide an overlap,   *)
(* for every word size, SRAM size and register width in the code's         *)
(* proportions.                                                            *)
THEOREM SpecAreasApart == Spec => []AreasApart
<1>1. Init => AreasInv
  BY DEF Init, InitIn, AreasInv, AreasApart
<1>2. AreasInv => AreasApart
  BY DEF AreasInv
<1> QED
  BY <1>1, <1>2, AreasStep, PTL DEF Spec
=============================================================================
