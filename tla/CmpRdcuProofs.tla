--------------------------- MODULE CmpRdcuProofs ---------------------------
(***************************************************************************)
(* The control of the hardware compressor (CmpRdcu), first part: where a   *)
(* call of cmp_rdcu.c is and what it has asked of the layers below, for    *)
(* every number of registers, every log and links of any speed.            *)
(***************************************************************************)
EXTENDS CmpRdcu, SramSyncProofs, RdcuRmapProofs

N         == Len(ConfigRegs)
InfoCount == Len(InfoRegs)
DataWord  == DataAddr \div 4
ModelWord == ModelAddr \div 4
CmpWord   == CmpAddr \div 4
NewWord   == NewModelAddr \div 4
ConfigSet == {ConfigRegs[i] : i \in 1 .. N}
InfoSet   == {InfoRegs[i] : i \in 1 .. InfoCount}

(* The functions as programs, their operations counted from the end: k     *)
(* operations are left when OpLeft(f, k) is next.  "work" is a compression *)
(* inside the interrupt of the raw-mode work-around.                       *)
InterruptOp(k) ==
  CASE k = 4 -> Set(INTERRUPT) [] k = 3 -> Write(CTRL)
    [] k = 2 -> Op("syncing")  [] OTHER -> Clear(INTERRUPT)
CompressOp(k) ==
  CASE k = 1 -> Clear(START)      [] k = 3 -> Write(CTRL)
    [] k = 4 -> Set(START)        [] k = 5 -> Op("irq")
    [] k = 7 -> Send(ModelAddr)   [] k = 8 -> Store(ModelAddr)
    [] k = 9 -> Send(DataAddr)    [] k = 10 -> Store(DataAddr)
    [] k \in 12 .. (N + 11) -> Write(ConfigRegs[N + 12 - k])
    [] k = N + 12 -> Op("load")   [] k = N + 13 -> Op("after_raw")
    [] k = N + 15 -> Read(InfoRegs[1]) [] k = N + 16 -> Op("check")
    [] OTHER -> Op("syncing")
Infos == {"info", "error_info"}
OpLeft(f, k) ==
  CASE f = "interrupt" -> InterruptOp(k)
    [] f = "work" /\ k > N + 13 -> InterruptOp(k - (N + 13))
    [] f = "work" /\ k = N + 13 -> Op("end")
    [] f = "status" /\ k = 2 -> Read(STATUS)
    [] f \in Infos /\ k > 1 -> Read(InfoRegs[InfoCount + 2 - k])
    [] f = "bitstream" /\ k = 2 -> Fetch(CmpAddr)
    [] f = "model" /\ k = 2 -> Fetch(NewModelAddr)
    [] f \in {"status", "bitstream", "model"} \cup Infos /\ k = 1 -> Op("syncing")
    [] OTHER -> CompressOp(k)
Size(f) == CASE f = "none" -> 0        [] f = "compress" -> N + 16
             [] f = "work" -> N + 17   [] f = "interrupt" -> 4
             [] f \in Infos -> InfoCount + 1 [] OTHER -> 2
Progs   == {"none", "compress", "work", "interrupt", "status", "bitstream",
            "model"} \cup Infos
Rest(f, n) == [i \in 1 .. n |-> OpLeft(f, n + 1 - i)]
OpNames    == {"check", "read", "write", "syncing", "after_raw", "load", "end",
               "store", "send", "fetch", "irq", "set", "clear"}
Ops        == [op: OpNames, reg: Int, bit: Nat]

(* The registers are addresses of the mirror.                              *)
LEMMA Registers ==
  /\ N \in Nat /\ InfoCount \in Nat /\ 1 <= InfoCount /\ InfoCount <= N
  /\ ConfigRegs \in [1 .. N -> WrRegs] /\ InfoRegs \in [1 .. InfoCount -> RdRegs]
  /\ CTRL \in WrRegs /\ STATUS \in RdRegs
  /\ CTRL \notin ConfigSet /\ STATUS \notin InfoSet
  /\ WrRegs \subseteq Int /\ RdRegs \subseteq Int
  /\ WrRegs \subseteq Addr /\ RdRegs \subseteq Addr
  /\ Areas \subseteq Int
  /\ DataWord \in Sram /\ CmpWord \in Sram /\ DataWord # CmpWord
  /\ ModelWord \in Sram /\ NewWord \in Sram
  /\ DataWord # ModelWord /\ DataWord # NewWord
  /\ CmpWord # ModelWord /\ CmpWord # NewWord
  /\ Sram \subseteq Addr
  /\ Sram \cap (RdRegs \cup WrRegs) = {}
<1>1. N \in Nat /\ InfoCount \in Nat
  BY RegAssumption, LenProperties DEF N, InfoCount
<1>2. 1 <= InfoCount /\ InfoCount <= N
  BY <1>1, RegAssumption DEF N, InfoCount
<1>3. \A i \in 1 .. N : ConfigRegs[i] \in WrRegs \ {CTRL}
  BY RegAssumption, ElementOfSeq DEF N
<1>4. \A i \in 1 .. InfoCount : InfoRegs[i] \in RdRegs \ {STATUS}
  BY RegAssumption, ElementOfSeq DEF InfoCount
<1>5. /\ ConfigRegs \in [1 .. N -> WrRegs \ {CTRL}]
      /\ InfoRegs \in [1 .. InfoCount -> RdRegs \ {STATUS}]
  BY RegAssumption, LenProperties DEF N, InfoCount
<1>6. /\ WrRegs \subseteq Int /\ RdRegs \subseteq Int
      /\ WrRegs \subseteq Addr /\ RdRegs \subseteq Addr /\ Sram \subseteq Addr
      /\ Sram \cap (RdRegs \cup WrRegs) = {}
  BY MemAssumption DEF Addr, Sram
<1>7. \A a \in Areas : a \in Int /\ a \div 4 \in Sram
  BY AreaAssumption, MemAssumption DEF Sram, SramBytes
<1>8. /\ DataWord \in Sram /\ CmpWord \in Sram
      /\ ModelWord \in Sram /\ NewWord \in Sram
  BY <1>7 DEF Areas, DataWord, CmpWord, ModelWord, NewWord
<1>9. /\ DataWord # CmpWord /\ DataWord # ModelWord /\ DataWord # NewWord
      /\ CmpWord # ModelWord /\ CmpWord # NewWord
  BY AreaAssumption DEF Areas, DataWord, CmpWord, ModelWord, NewWord
<1> QED
  BY <1>1, <1>2, <1>3, <1>4, <1>5, <1>6, <1>7, <1>8, <1>9, RegAssumption
     DEF ConfigSet, InfoSet

(* The operations of the programs.                                         *)
LEMMA OpIsOp ==
  ASSUME NEW f \in Progs, NEW k \in 1 .. Size(f)
  PROVE  OpLeft(f, k) \in Ops
<1>0. /\ N \in Nat /\ InfoCount \in Nat /\ 1 <= InfoCount
      /\ CTRL \in Int /\ STATUS \in Int
      /\ DataAddr \in Int /\ ModelAddr \in Int /\ CmpAddr \in Int
      /\ NewModelAddr \in Int
      /\ \A i \in 1 .. N : ConfigRegs[i] \in Int
      /\ \A i \in 1 .. InfoCount : InfoRegs[i] \in Int
  BY Registers DEF Areas
<1>1. \A name \in OpNames : Op(name) \in Ops
  BY DEF Op, Ops
<1>2. \A r \in Int : /\ Read(r) \in Ops /\ Write(r) \in Ops
                     /\ Store(r) \in Ops /\ Send(r) \in Ops /\ Fetch(r) \in Ops
  BY DEF Read, Write, Store, Send, Fetch, Ops, OpNames
<1>3. \A b \in {1, 2} : Set(b) \in Ops /\ Clear(b) \in Ops
  BY <1>0 DEF Set, Clear, Ops, OpNames
<1>4. \A j : InterruptOp(j) \in Ops
  BY <1>0, <1>1, <1>2, <1>3 DEF InterruptOp, INTERRUPT, OpNames
<1>5. k \in Nat
  BY <1>0 DEF Size, Progs, Infos
<1>6. CompressOp(k) \in Ops
  BY <1>0, <1>1, <1>2, <1>3, <1>5 DEF CompressOp, START, OpNames
<1>7. f \in Infos /\ k > 1 => InfoCount + 2 - k \in 1 .. InfoCount
  BY <1>0, <1>5 DEF Size, Infos
<1>8. f \in Infos /\ k > 1 => Read(InfoRegs[InfoCount + 2 - k]) \in Ops
  BY <1>0, <1>2, <1>7
<1> QED
  BY <1>0, <1>1, <1>2, <1>4, <1>6, <1>8 DEF OpLeft, OpNames

(* The rest of a program as a sequence: its head and its tail.             *)
LEMMA RestOf ==
  ASSUME NEW f \in Progs, NEW n \in 0 .. Size(f)
  PROVE  /\ Rest(f, n) \in Seq(Ops) /\ Len(Rest(f, n)) = n /\ n \in Nat
         /\ (n = 0) <=> (Rest(f, n) = <<>>)
         /\ n > 0 => /\ Head(Rest(f, n)) = OpLeft(f, n)
                     /\ Tail(Rest(f, n)) = Rest(f, n - 1)
<1>0. n \in Nat /\ Size(f) \in Nat
  BY Registers DEF Size
<1>1. ASSUME NEW m \in 0 .. n
      PROVE  /\ Rest(f, m) \in Seq(Ops) /\ Len(Rest(f, m)) = m
             /\ \A i \in 1 .. m : Rest(f, m)[i] = OpLeft(f, m + 1 - i)
  <2>1. m \in Nat /\ \A i \in 1 .. m : m + 1 - i \in 1 .. Size(f)
    BY <1>0
  <2>2. \A i \in 1 .. m : OpLeft(f, m + 1 - i) \in Ops
    BY <2>1, OpIsOp
  <2>3. Rest(f, m) \in [1 .. m -> Ops]
    BY <2>2 DEF Rest
  <2>4. Rest(f, m) \in Seq(Ops)
    BY <2>1, <2>3, SeqDef
  <2>5. DOMAIN Rest(f, m) = 1 .. m
    BY DEF Rest
  <2>6. Len(Rest(f, m)) = m
    BY <2>1, <2>4, <2>5, LenProperties
  <2> QED
    BY <2>4, <2>6 DEF Rest
<1>2. n \in 0 .. n /\ (n > 0 => n - 1 \in 0 .. n)
  BY <1>0
<1>3. /\ Rest(f, n) \in Seq(Ops) /\ Len(Rest(f, n)) = n
      /\ \A i \in 1 .. n : Rest(f, n)[i] = OpLeft(f, n + 1 - i)
  BY <1>1, <1>2
<1>4. (n = 0) <=> (Rest(f, n) = <<>>)
  BY <1>3, EmptySeq
<1>5. ASSUME n > 0
      PROVE  /\ Head(Rest(f, n)) = OpLeft(f, n)
             /\ Tail(Rest(f, n)) = Rest(f, n - 1)
  <2> DEFINE q == Rest(f, n)
             t == Rest(f, n - 1)
  <2>1. /\ t \in Seq(Ops) /\ Len(t) = n - 1
        /\ \A i \in 1 .. n - 1 : t[i] = OpLeft(f, n - i)
    <3>1. n - 1 \in 0 .. n
      BY <1>2, <1>5
    <3>2. /\ t \in Seq(Ops) /\ Len(t) = n - 1
          /\ \A i \in 1 .. n - 1 : t[i] = OpLeft(f, n - 1 + 1 - i)
      BY <1>1, <3>1
    <3>3. \A i \in 1 .. n - 1 : n - 1 + 1 - i = n - i
      BY <1>0
    <3> QED
      BY <3>2, <3>3
  <2>2. q \in Seq(Ops) /\ q # <<>> /\ Len(q) = n
    BY <1>3, <1>4, <1>5
  <2>3. q[1] = OpLeft(f, n) /\ \A i \in 1 .. n - 1 : q[i + 1] = OpLeft(f, n - i)
    <3>1. 1 \in 1 .. n /\ n + 1 - 1 = n
      BY <1>0, <1>5
    <3>2. \A i \in 1 .. n - 1 : i + 1 \in 1 .. n /\ n + 1 - (i + 1) = n - i
      BY <1>0
    <3> QED
      BY <1>3, <3>1, <3>2
  <2> HIDE DEF q, t
  <2>4. /\ Head(q) = q[1] /\ Tail(q) \in Seq(Ops) /\ Len(Tail(q)) = n - 1
        /\ \A i \in 1 .. n - 1 : Tail(q)[i] = q[i + 1]
    <3>1. /\ Head(q) = q[1] /\ Tail(q) \in Seq(Ops) /\ Len(Tail(q)) = Len(q) - 1
          /\ \A i \in 1 .. Len(Tail(q)) : Tail(q)[i] = q[i + 1]
      BY <2>2, HeadAndTail
    <3> QED
      BY <2>2, <3>1
  <2>5. Tail(q) = t
    <3>1. Len(Tail(q)) = Len(t) /\ \A i \in 1 .. Len(Tail(q)) : Tail(q)[i] = t[i]
      BY <2>1, <2>3, <2>4
    <3> QED
      BY <2>1, <2>4, <3>1, SeqEqual
  <2> QED
    BY <2>3, <2>4, <2>5 DEF q, t
<1> QED
  BY <1>0, <1>3, <1>4, <1>5
-----------------------------------------------------------------------------
(* Where the call is: the program it runs and how many operations are      *)
(* left.                                                                   *)
ProgOf(t, g) ==
  IF \E i \in 1 .. Len(t) : t[i].op = "end" THEN "work" ELSE g
prog == ProgOf(todo, fn)
left == Len(todo)
next == OpLeft(prog, left)

(* A call is inside one of the programs.                                   *)
Inside(f, n, t, g) ==
  /\ f \in Progs /\ n \in 0 .. Size(f) /\ t = Rest(f, n)
  /\ IF f = "work" THEN n > N + 12 /\ g = "compress" ELSE g = f
CtlInv == Inside(prog, left, todo, fn)

(* Only the work-around has the operation "end".                           *)
LEMMA OnlyWorkEnds ==
  ASSUME NEW f \in Progs, NEW k \in Nat
  PROVE  OpLeft(f, k).op = "end" <=> f = "work" /\ k = N + 13
<1>0. N \in Nat
  BY Registers
<1>1. /\ \A name : Op(name).op = name
      /\ \A r : Read(r).op = "read" /\ Write(r).op = "write"
      /\ \A b : Set(b).op = "set" /\ Clear(b).op = "clear"
      /\ \A a : Store(a).op = "store" /\ Send(a).op = "send" /\ Fetch(a).op = "fetch"
  BY DEF Op, Read, Write, Set, Clear, Store, Send, Fetch
<1>2. \A j : InterruptOp(j).op # "end"
  BY <1>1 DEF InterruptOp
<1>3. CompressOp(k).op # "end"
  BY <1>1 DEF CompressOp
<1> QED
  BY <1>0, <1>1, <1>2, <1>3 DEF OpLeft, Infos

(* Program and rest determine each other.                                  *)
LEMMA ProgIs ==
  ASSUME NEW f, NEW n, NEW t, NEW g, Inside(f, n, t, g)
  PROVE  ProgOf(t, g) = f /\ Len(t) = n
<1>0. f \in Progs /\ n \in 0 .. Size(f) /\ t = Rest(f, n) /\ N \in Nat
  BY Registers DEF Inside
<1>1. Len(t) = n /\ n \in Nat
  BY <1>0, RestOf
<1>2. \A i \in 1 .. n : t[i].op = "end" <=> f = "work" /\ n + 1 - i = N + 13
  <2>1. \A i \in 1 .. n : t[i] = OpLeft(f, n + 1 - i) /\ n + 1 - i \in Nat
    BY <1>0, <1>1 DEF Rest
  <2> QED
    BY <1>0, <2>1, OnlyWorkEnds
<1>3. CASE f = "work"
  <2>1. n > N + 12
    BY <1>3 DEF Inside
  <2>2. n - (N + 12) \in 1 .. n /\ n + 1 - (n - (N + 12)) = N + 13
    BY <1>0, <1>1, <2>1
  <2> QED
    BY <1>1, <1>2, <1>3, <2>2 DEF ProgOf
<1>4. CASE f # "work"
  <2>1. g = f
    BY <1>4 DEF Inside
  <2> QED
    BY <1>1, <1>2, <1>4, <2>1 DEF ProgOf
<1> QED
  BY <1>3, <1>4

(* The rest of a call as a sequence.                                       *)
LEMMA TodoIs ==
  ASSUME CtlInv
  PROVE  /\ prog \in Progs /\ left \in Nat /\ left <= Size(prog) /\ N \in Nat
         /\ InfoCount \in Nat /\ 1 <= InfoCount /\ InfoCount <= N
         /\ prog = "work" => left > N + 12 /\ fn = "compress"
         /\ prog # "work" => fn = prog
         /\ (left = 0) <=> (todo = <<>>)
         /\ left > 0 => Head(todo) = next /\ Tail(todo) = Rest(prog, left - 1)
         /\ prog = "none" => left = 0
<1>1. /\ prog \in Progs /\ left \in 0 .. Size(prog) /\ todo = Rest(prog, left)
      /\ prog = "work" => left > N + 12 /\ fn = "compress"
      /\ prog # "work" => fn = prog
  BY DEF CtlInv, Inside
<1>2. /\ Size(prog) \in Nat /\ N \in Nat
      /\ InfoCount \in Nat /\ 1 <= InfoCount /\ InfoCount <= N
  BY Registers DEF Size
<1>3. prog = "none" => Size(prog) = 0
  BY DEF Size, Infos
<1>4. /\ left \in Nat /\ (left = 0) <=> (todo = <<>>)
      /\ left > 0 => Head(todo) = next /\ Tail(todo) = Rest(prog, left - 1)
  <2> DEFINE p == prog
             n == left
  <2>1. p \in Progs /\ n \in 0 .. Size(p) /\ todo = Rest(p, n)
    BY <1>1
  <2> HIDE DEF p, n
  <2>2. /\ n \in Nat /\ (n = 0) <=> (todo = <<>>)
        /\ n > 0 => Head(todo) = OpLeft(p, n) /\ Tail(todo) = Rest(p, n - 1)
    BY <2>1, RestOf
  <2> QED
    BY <2>2 DEF p, n, next
<1>5. left <= Size(prog)
  BY <1>1, <1>2
<1>6. prog = "none" => left = 0
  BY <1>1, <1>3
<1> QED
  BY <1>1, <1>2, <1>4, <1>5, <1>6

(* An operation is completed: the call goes on with the next one, behind   *)
(* the work-around with that of the compression.                           *)
Advanced ==
  /\ prog' = IF prog = "work" /\ left = N + 13 THEN "compress" ELSE prog
  /\ left' = left - 1 /\ CtlInv'
LEMMA DoneAdvances ==
  ASSUME CtlInv, left > 0, todo' = Tail(todo), fn' = fn
  PROVE  Advanced
<1>1. /\ prog \in Progs /\ left \in Nat /\ left <= Size(prog) /\ N \in Nat
      /\ prog = "work" => left > N + 12 /\ fn = "compress"
      /\ prog # "work" => fn = prog
      /\ todo' = Rest(prog, left - 1)
  BY TodoIs
<1>2. CASE prog = "work" /\ left = N + 13
  <2>1. Rest("work", N + 12) = Rest("compress", N + 12)
    <3>1. \A k \in 1 .. (N + 12) : OpLeft("work", k) = OpLeft("compress", k)
      BY <1>1 DEF OpLeft
    <3>2. \A i \in 1 .. (N + 12) : N + 12 + 1 - i \in 1 .. (N + 12)
      BY <1>1
    <3> QED
      BY <3>1, <3>2 DEF Rest
  <2>2. Size("compress") = N + 16
    BY DEF Size, Infos
  <2>3. left - 1 = N + 12 /\ N + 12 \in 0 .. Size("compress")
    BY <1>1, <1>2, <2>2
  <2>4. Inside("compress", left - 1, todo', fn')
    <3>1. todo' = Rest("compress", left - 1)
      <4>1. todo' = Rest("work", left - 1)
        BY <1>1, <1>2
      <4> QED
        BY <4>1, <2>1, <2>3
    <3>2. fn' = "compress" /\ "compress" \in Progs
      BY <1>1, <1>2 DEF Progs
    <3>3. left - 1 \in 0 .. Size("compress")
      BY <2>3
    <3> QED
      BY <3>1, <3>2, <3>3 DEF Inside
  <2>5. prog' = "compress" /\ left' = left - 1
    BY <2>4, ProgIs DEF prog, left
  <2>6. CtlInv'
    BY <2>4, <2>5 DEF CtlInv
  <2> QED
    BY <1>2, <2>5, <2>6 DEF Advanced
<1>3. CASE ~(prog = "work" /\ left = N + 13)
  <2>0. left - 1 \in 0 .. Size(prog)
    BY <1>1, Registers DEF Size
  <2>1. Inside(prog, left - 1, todo', fn')
    BY <1>1, <1>3, <2>0 DEF Inside
  <2>2. prog' = prog /\ left' = left - 1
    BY <2>1, ProgIs DEF prog, left
  <2> QED
    BY <1>3, <2>1, <2>2 DEF CtlInv, Advanced
<1> QED
  BY <1>2, <1>3

(* An operation fails: the function returns -1, but inside the work-around *)
(* the compression goes on behind it.                                      *)
Aborted ==
  /\ CtlInv'
  /\ IF prog = "work" THEN prog' = "compress" /\ left' = N + 12 /\ result' = result
                      ELSE prog' = fn /\ left' = 0 /\ result' = -1
  /\ busy' = FALSE /\ polls' = 0 /\ UNCHANGED <<fn, rcfg, input>>
LEMMA FailAborts ==
  ASSUME CtlInv, Fail
  PROVE  Aborted
<1>0. /\ prog \in Progs /\ left \in Nat /\ left <= Size(prog) /\ N \in Nat
      /\ prog = "work" => left > N + 12 /\ fn = "compress"
      /\ prog # "work" => fn = prog
  BY TodoIs
<1> DEFINE ends == {i \in 1 .. Len(todo) : todo[i].op = "end"}
<1>1. /\ IF ends # {}
           THEN /\ todo' = SubSeq(todo, 1 + CHOOSE i \in ends : TRUE, Len(todo))
                /\ result' = result
           ELSE todo' = <<>> /\ result' = -1
      /\ busy' = FALSE /\ polls' = 0 /\ UNCHANGED <<fn, rcfg, input>>
  BY DEF Fail
<1>2. \A i \in 1 .. left : todo[i].op = "end" <=> prog = "work" /\ left + 1 - i = N + 13
  <2> DEFINE p == prog
             n == left
  <2>1. p \in Progs /\ n \in Nat /\ todo = Rest(p, n)
    BY <1>0 DEF CtlInv, Inside
  <2> HIDE DEF p, n
  <2>2. \A i \in 1 .. n : todo[i] = OpLeft(p, n + 1 - i) /\ n + 1 - i \in Nat
    BY <2>1 DEF Rest
  <2>3. \A i \in 1 .. n : todo[i].op = "end" <=> p = "work" /\ n + 1 - i = N + 13
    BY <2>1, <2>2, OnlyWorkEnds
  <2> QED
    BY <2>3 DEF p, n
<1>3. CASE prog = "work"
  <2> DEFINE e == left - (N + 12)
  <2>0. \A i : i \in ends <=> i \in 1 .. left /\ todo[i].op = "end"
    BY DEF left
  <2>1. e \in 1 .. left /\ \A i \in 1 .. left : left + 1 - i = N + 13 <=> i = e
    BY <1>0, <1>3
  <2> HIDE DEF ends
  <2>2. ends = {e}
    <3>1. \A i \in 1 .. left : todo[i].op = "end" <=> i = e
      BY <1>2, <1>3, <2>1
    <3> HIDE DEF e
    <3> QED
      BY <2>0, <2>1, <3>1
  <2>3. (CHOOSE i \in ends : TRUE) = e /\ ends # {}
    BY <2>2
  <2>4. todo' = SubSeq(todo, e + 1, left) /\ result' = result
    <3>1. /\ todo' = SubSeq(todo, 1 + CHOOSE i \in ends : TRUE, Len(todo))
          /\ result' = result
      BY <1>1, <2>3
    <3>2. 1 + e = e + 1
      BY <2>1, <1>0
    <3> HIDE DEF e
    <3> QED
      BY <3>1, <3>2, <2>3 DEF left
  <2>5. todo = Rest("work", left) /\ left \in 0 .. Size("work")
    BY <1>3 DEF CtlInv, Inside
  <2>6. todo \in Seq(Ops) /\ Len(todo) = left
    BY <2>5, RestOf DEF left, Progs
  <2>7. \A i \in 1 .. left : todo[i] = OpLeft("work", left + 1 - i)
    BY <2>5 DEF Rest
  <2>8. todo' = Rest("compress", N + 12)
    <3> DEFINE t == SubSeq(todo, e + 1, left)
               q == Rest("compress", N + 12)
    <3>0. e + 1 \in 1 .. left + 1 /\ left \in e .. left /\ left - (e + 1) + 1 = N + 12
      BY <1>0, <1>3
    <3>1. t \in Seq(Ops) /\ Len(t) = N + 12 /\ \A i \in 1 .. (N + 12) : t[i] = todo[e + i]
      <4> DEFINE f == e + 1
      <4>1. f \in 1 .. Len(todo) + 1 /\ Len(todo) \in f - 1 .. Len(todo)
            /\ Len(todo) - f + 1 = N + 12
        BY <3>0, <2>6, <1>0
      <4> HIDE DEF f
      <4>2. /\ SubSeq(todo, f, Len(todo)) \in Seq(Ops)
            /\ Len(SubSeq(todo, f, Len(todo))) = N + 12
            /\ \A i \in 1 .. (N + 12) :
                 SubSeq(todo, f, Len(todo))[i] = todo[f + i - 1]
        BY <4>1, <2>6, <1>0, SubSeqProperties
      <4>3. \A i \in 1 .. (N + 12) : f + i - 1 = e + i
        BY <1>0 DEF f
      <4> QED
        BY <4>2, <4>3, <2>6 DEF f
    <3>2. \A i \in 1 .. (N + 12) : todo[e + i] = OpLeft("work", N + 13 - i)
      <4>1. \A i \in 1 .. (N + 12) : e + i \in 1 .. left /\ left + 1 - (e + i) = N + 13 - i
        BY <1>0, <1>3
      <4> QED
        BY <4>1, <2>7
    <3>3. \A i \in 1 .. (N + 12) : OpLeft("work", N + 13 - i) = OpLeft("compress", N + 13 - i)
      BY <1>0 DEF OpLeft
    <3>4. /\ q \in Seq(Ops) /\ Len(q) = N + 12
          /\ \A i \in 1 .. (N + 12) : q[i] = OpLeft("compress", N + 13 - i)
      <4>1. N + 12 \in 0 .. Size("compress") /\ "compress" \in Progs
        BY <1>0 DEF Size, Progs, Infos
      <4>2. \A i \in 1 .. (N + 12) : N + 12 + 1 - i = N + 13 - i
        BY <1>0
      <4> QED
        BY <4>1, <4>2, RestOf DEF Rest
    <3> HIDE DEF t, q, e
    <3>5. Len(t) = Len(q) /\ \A i \in 1 .. Len(t) : t[i] = q[i]
      BY <3>1, <3>2, <3>3, <3>4
    <3>6. t = q
      BY <3>1, <3>4, <3>5, SeqEqual
    <3> QED
      BY <3>6, <2>4 DEF t, q
  <2>9. Inside("compress", N + 12, todo', fn')
    <3>1. N + 12 \in 0 .. Size("compress") /\ "compress" \in Progs
      BY <1>0 DEF Size, Progs, Infos
    <3>2. fn' = "compress"
      BY <1>0, <1>1, <1>3
    <3> QED
      BY <2>8, <3>1, <3>2 DEF Inside
  <2>10. prog' = "compress" /\ left' = N + 12
    BY <2>9, ProgIs DEF prog, left
  <2>11. CtlInv'
    BY <2>9, <2>10 DEF CtlInv
  <2> QED
    BY <1>1, <1>3, <2>4, <2>10, <2>11 DEF Aborted
<1>4. CASE prog # "work"
  <2>1. ends = {}
    BY <1>0, <1>2, <1>4 DEF left
  <2>2. todo' = <<>> /\ result' = -1
    BY <1>1, <2>1
  <2>3. Inside(fn, 0, todo', fn')
    <3>1. fn \in Progs /\ 0 \in 0 .. Size(fn)
      BY <1>0, <1>4, Registers DEF Size
    <3>2. Rest(fn, 0) = <<>>
      BY <3>1, RestOf
    <3> QED
      BY <1>0, <1>1, <1>4, <2>2, <3>1, <3>2 DEF Inside
  <2>4. prog' = fn /\ left' = 0
    BY <2>3, ProgIs DEF prog, left
  <2>5. CtlInv'
    BY <1>1, <2>3, <2>4 DEF CtlInv
  <2> QED
    BY <1>1, <1>4, <2>2, <2>4, <2>5 DEF Aborted
<1> QED
  BY <1>3, <1>4

(* Sequence s is the part of program f that begins with n operations left  *)
(* and ends with m left.                                                   *)
Part(s, f, n, m) ==
  /\ n \in Nat /\ m \in Nat /\ m <= n
  /\ s \in Seq(Ops) /\ Len(s) = n - m
  /\ \A i \in 1 .. (n - m) : s[i] = OpLeft(f, n + 1 - i)

(* Parts are put together.                                                 *)
LEMMA PartsJoin ==
  ASSUME NEW s, NEW t, NEW f, NEW n, NEW m, NEW l,
         Part(s, f, n, m), Part(t, f, m, l)
  PROVE  Part(s \o t, f, n, l)
<1>1. /\ n \in Nat /\ m \in Nat /\ l \in Nat /\ m <= n /\ l <= m
      /\ s \in Seq(Ops) /\ t \in Seq(Ops) /\ Len(s) = n - m /\ Len(t) = m - l
      /\ \A i \in 1 .. (n - m) : s[i] = OpLeft(f, n + 1 - i)
      /\ \A i \in 1 .. (m - l) : t[i] = OpLeft(f, m + 1 - i)
  BY DEF Part
<1> DEFINE q == s \o t
<1>2. /\ q \in Seq(Ops) /\ Len(q) = Len(s) + Len(t)
      /\ \A i \in 1 .. Len(s) + Len(t) :
           q[i] = IF i <= Len(s) THEN s[i] ELSE t[i - Len(s)]
  BY <1>1, ConcatProperties
<1> HIDE DEF q
<1>3. Len(q) = n - l /\ Len(s) + Len(t) = n - l
  BY <1>1, <1>2
<1>4. ASSUME NEW i \in 1 .. (n - l)
      PROVE  q[i] = OpLeft(f, n + 1 - i)
  <2>1. CASE i <= n - m
    <3>1. i \in 1 .. (n - m)
      BY <1>1, <2>1
    <3> QED
      BY <1>1, <1>2, <1>3, <2>1, <3>1
  <2>2. CASE ~(i <= n - m)
    <3>1. i - (n - m) \in 1 .. (m - l) /\ m + 1 - (i - (n - m)) = n + 1 - i
      BY <1>1, <2>2
    <3>2. q[i] = t[i - (n - m)]
      BY <1>1, <1>2, <1>3, <2>2
    <3> QED
      BY <1>1, <3>1, <3>2
  <2> QED
    BY <2>1, <2>2
<1>5. l <= n
  BY <1>1
<1> QED
  BY <1>1, <1>2, <1>3, <1>4, <1>5 DEF Part, q

(* A part up to the end is the rest.                                       *)
LEMMA PartIsRest ==
  ASSUME NEW f \in Progs, NEW n \in 0 .. Size(f), NEW s, Part(s, f, n, 0)
  PROVE  s = Rest(f, n)
<1>1. n \in Nat /\ s \in Seq(Ops) /\ Len(s) = n
      /\ \A i \in 1 .. n : s[i] = OpLeft(f, n + 1 - i)
  BY DEF Part
<1>2. /\ Rest(f, n) \in Seq(Ops) /\ Len(Rest(f, n)) = n
      /\ \A i \in 1 .. n : Rest(f, n)[i] = OpLeft(f, n + 1 - i)
  BY RestOf DEF Rest
<1> QED
  BY <1>1, <1>2, SeqEqual

(* The operations of the programs by name.                                 *)
LEMMA TheOps ==
  /\ \A name \in OpNames : Op(name) \in Ops
  /\ \A r \in Int : Read(r) \in Ops /\ Write(r) \in Ops
  /\ \A a \in Areas : Store(a) \in Ops /\ Send(a) \in Ops /\ Fetch(a) \in Ops
  /\ \A b \in {START, INTERRUPT} : Set(b) \in Ops /\ Clear(b) \in Ops
<1>1. CTRL \in Int /\ Areas \subseteq Int
  BY Registers
<1> QED
  BY <1>1 DEF Op, Read, Write, Store, Send, Fetch, Set, Clear, Ops, OpNames, START,
              INTERRUPT

(* The functions' sequences are their programs.                            *)
LEMMA CompressIs == RegisterOps \o TransferOps \o StartOps = Rest("compress", N + 16)
<1>0. /\ N \in Nat /\ InfoCount \in Nat /\ 1 <= InfoCount /\ InfoCount <= N
      /\ CTRL \in Int /\ InfoRegs[1] \in Int /\ \A i \in 1 .. N : ConfigRegs[i] \in Int
  <2>1. N \in Nat /\ InfoCount \in Nat /\ 1 <= InfoCount /\ InfoCount <= N /\ CTRL \in Int
    BY Registers
  <2>2. 1 \in 1 .. InfoCount
    BY <2>1
  <2>3. InfoRegs[1] \in Int
    BY <2>2, Registers
  <2>4. \A i \in 1 .. N : ConfigRegs[i] \in Int
    BY Registers
  <2> QED
    BY <2>1, <2>3, <2>4
<1>1. Part(<<Op("check"), Read(InfoRegs[1]), Op("syncing"), Op("after_raw"),
             Op("load")>>, "compress", N + 16, N + 11)
  <2>1. <<Op("check"), Read(InfoRegs[1]), Op("syncing"), Op("after_raw"),
          Op("load")>> \in Seq(Ops)
    BY <1>0, TheOps DEF OpNames
  <2>2. /\ OpLeft("compress", N + 16) = Op("check")
        /\ OpLeft("compress", N + 15) = Read(InfoRegs[1])
        /\ OpLeft("compress", N + 14) = Op("syncing")
        /\ OpLeft("compress", N + 13) = Op("after_raw")
        /\ OpLeft("compress", N + 12) = Op("load")
    BY <1>0 DEF OpLeft, CompressOp, Infos
  <2> QED
    BY <1>0, <2>1, <2>2 DEF Part
<1>2. Part(All(Write, ConfigRegs), "compress", N + 11, 11)
  <2> DEFINE s == All(Write, ConfigRegs)
  <2>1. s = [i \in 1 .. N |-> Write(ConfigRegs[i])]
    BY DEF All, N
  <2> HIDE DEF s
  <2>2. s \in [1 .. N -> Ops]
    BY <1>0, <2>1, TheOps
  <2>3. s \in Seq(Ops) /\ Len(s) = N
    BY <1>0, <2>2, SeqDef, LenProperties
  <2>4. \A i \in 1 .. N : OpLeft("compress", N + 12 - i) = Write(ConfigRegs[i])
    <3> SUFFICES ASSUME NEW i \in 1 .. N
                 PROVE  OpLeft("compress", N + 12 - i) = Write(ConfigRegs[i])
      OBVIOUS
    <3>1. N + 12 - i \in 12 .. (N + 11) /\ N + 12 - (N + 12 - i) = i
      BY <1>0
    <3> QED
      BY <1>0, <3>1 DEF OpLeft, CompressOp, Infos
  <2>5. N + 11 - 11 = N /\ \A i \in 1 .. N : N + 11 + 1 - i = N + 12 - i
    BY <1>0
  <2> QED
    BY <1>0, <2>1, <2>3, <2>4, <2>5 DEF Part, s
<1>3. Part(<<Op("syncing")>>, "compress", 11, 10)
  <2>1. <<Op("syncing")>> \in Seq(Ops)
    BY TheOps DEF OpNames
  <2>2. OpLeft("compress", 11) = Op("syncing")
    BY <1>0 DEF OpLeft, CompressOp, Infos
  <2> QED
    BY <2>1, <2>2 DEF Part
<1>4. Part(TransferOps, "compress", 10, 5)
  <2>1. TransferOps \in Seq(Ops)
    BY TheOps DEF OpNames, TransferOps, Areas
  <2>2. /\ OpLeft("compress", 10) = Store(DataAddr)
        /\ OpLeft("compress", 9) = Send(DataAddr)
        /\ OpLeft("compress", 8) = Store(ModelAddr)
        /\ OpLeft("compress", 7) = Send(ModelAddr)
        /\ OpLeft("compress", 6) = Op("syncing")
    BY <1>0 DEF OpLeft, CompressOp, Infos
  <2> QED
    BY <2>1, <2>2 DEF Part, TransferOps
<1>5. Part(StartOps, "compress", 5, 0)
  <2>1. StartOps \in Seq(Ops)
    BY TheOps, <1>0 DEF OpNames, StartOps
  <2>2. /\ OpLeft("compress", 5) = Op("irq") /\ OpLeft("compress", 4) = Set(START)
        /\ OpLeft("compress", 3) = Write(CTRL)
        /\ OpLeft("compress", 2) = Op("syncing") /\ OpLeft("compress", 1) = Clear(START)
    BY <1>0 DEF OpLeft, CompressOp, Infos
  <2> QED
    BY <2>1, <2>2 DEF Part, StartOps
<1>6. Part(RegisterOps, "compress", N + 16, 10)
  BY <1>1, <1>2, <1>3, PartsJoin DEF RegisterOps
<1>7. Part(RegisterOps \o TransferOps \o StartOps, "compress", N + 16, 0)
  BY <1>4, <1>5, <1>6, PartsJoin
<1>8. N + 16 \in 0 .. Size("compress") /\ "compress" \in Progs
  BY <1>0 DEF Size, Progs, Infos
<1> QED
  BY <1>7, <1>8, PartIsRest

(* The same for the shorter functions.                                     *)
LEMMA ShortOnesAre ==
  /\ InterruptOps = Rest("interrupt", 4)
  /\ StatusOps = Rest("status", 2)
  /\ \A f \in Infos : InfoOps = Rest(f, InfoCount + 1)
  /\ FetchOps(CmpAddr) = Rest("bitstream", 2)
  /\ FetchOps(NewModelAddr) = Rest("model", 2)
<1>0. /\ N \in Nat /\ InfoCount \in Nat /\ 1 <= InfoCount /\ InfoCount <= N
      /\ CTRL \in Int /\ STATUS \in Int /\ \A i \in 1 .. InfoCount : InfoRegs[i] \in Int
  BY Registers
<1>1. Part(InterruptOps, "interrupt", 4, 0)
  <2>1. InterruptOps \in Seq(Ops)
    BY TheOps, <1>0 DEF OpNames, InterruptOps
  <2>2. /\ OpLeft("interrupt", 4) = Set(INTERRUPT) /\ OpLeft("interrupt", 3) = Write(CTRL)
        /\ OpLeft("interrupt", 2) = Op("syncing")
        /\ OpLeft("interrupt", 1) = Clear(INTERRUPT)
    BY DEF OpLeft, InterruptOp, Infos
  <2> QED
    BY <2>1, <2>2 DEF Part, InterruptOps
<1>2. Part(StatusOps, "status", 2, 0)
  <2>1. StatusOps \in Seq(Ops)
    BY TheOps, <1>0 DEF OpNames, StatusOps
  <2>2. OpLeft("status", 2) = Read(STATUS) /\ OpLeft("status", 1) = Op("syncing")
    BY DEF OpLeft, Infos
  <2> QED
    BY <2>1, <2>2 DEF Part, StatusOps
<1>3. Part(FetchOps(CmpAddr), "bitstream", 2, 0) /\ Part(FetchOps(NewModelAddr), "model", 2, 0)
  <2>1. FetchOps(CmpAddr) \in Seq(Ops) /\ FetchOps(NewModelAddr) \in Seq(Ops)
    BY TheOps DEF OpNames, FetchOps, Areas
  <2>2. /\ OpLeft("bitstream", 2) = Fetch(CmpAddr) /\ OpLeft("bitstream", 1) = Op("syncing")
        /\ OpLeft("model", 2) = Fetch(NewModelAddr) /\ OpLeft("model", 1) = Op("syncing")
    BY DEF OpLeft, Infos
  <2> QED
    BY <2>1, <2>2 DEF Part, FetchOps
<1>4. ASSUME NEW g \in Infos PROVE Part(All(Read, InfoRegs), g, InfoCount + 1, 1)
  <2> DEFINE s == All(Read, InfoRegs)
  <2>1. s = [i \in 1 .. InfoCount |-> Read(InfoRegs[i])]
    BY DEF All, InfoCount
  <2> HIDE DEF s
  <2>2. s \in [1 .. InfoCount -> Ops]
    BY <1>0, <2>1, TheOps
  <2>3. s \in Seq(Ops) /\ Len(s) = InfoCount
    BY <1>0, <2>2, SeqDef, LenProperties
  <2>4. \A i \in 1 .. InfoCount : OpLeft(g, InfoCount + 2 - i) = Read(InfoRegs[i])
    <3> SUFFICES ASSUME NEW i \in 1 .. InfoCount
                 PROVE  OpLeft(g, InfoCount + 2 - i) = Read(InfoRegs[i])
      OBVIOUS
    <3>1. InfoCount + 2 - i > 1 /\ InfoCount + 2 - (InfoCount + 2 - i) = i
      BY <1>0
    <3> QED
      BY <1>0, <3>1 DEF OpLeft, Infos
  <2>5. InfoCount + 1 - 1 = InfoCount
        /\ \A i \in 1 .. InfoCount : InfoCount + 1 + 1 - i = InfoCount + 2 - i
    BY <1>0
  <2> QED
    BY <1>0, <2>1, <2>3, <2>4, <2>5 DEF Part, s
<1>5. ASSUME NEW g \in Infos PROVE Part(<<Op("syncing")>>, g, 1, 0)
  <2>1. <<Op("syncing")>> \in Seq(Ops)
    BY TheOps DEF OpNames
  <2>2. OpLeft(g, 1) = Op("syncing")
    BY <1>0 DEF OpLeft, Infos
  <2> QED
    BY <2>1, <2>2 DEF Part
<1>6. ASSUME NEW g \in Infos PROVE Part(InfoOps, g, InfoCount + 1, 0)
  BY <1>4, <1>5, PartsJoin DEF InfoOps
<1>7. /\ 4 \in 0 .. Size("interrupt") /\ 2 \in 0 .. Size("status")
      /\ 2 \in 0 .. Size("bitstream") /\ 2 \in 0 .. Size("model")
      /\ \A g \in Infos : InfoCount + 1 \in 0 .. Size(g)
      /\ {"interrupt", "status", "bitstream", "model"} \subseteq Progs
      /\ Infos \subseteq Progs
  BY <1>0 DEF Size, Progs, Infos
<1> QED
  BY <1>1, <1>2, <1>3, <1>6, <1>7, PartIsRest

(* The work-around is put in front of the rest of the compression.         *)
LEMMA WorkAroundIs ==
  InterruptOps \o <<Op("end")>> \o Rest("compress", N + 12) = Rest("work", N + 17)
<1>0. N \in Nat /\ CTRL \in Int
  BY Registers
<1>1. Part(InterruptOps, "work", N + 17, N + 13)
  <2>1. InterruptOps \in Seq(Ops)
    BY TheOps, <1>0 DEF OpNames, InterruptOps
  <2>2. /\ OpLeft("work", N + 17) = Set(INTERRUPT) /\ OpLeft("work", N + 16) = Write(CTRL)
        /\ OpLeft("work", N + 15) = Op("syncing")
        /\ OpLeft("work", N + 14) = Clear(INTERRUPT)
    <3>1. /\ N + 17 - (N + 13) = 4 /\ N + 16 - (N + 13) = 3
          /\ N + 15 - (N + 13) = 2 /\ N + 14 - (N + 13) = 1
      BY <1>0
    <3> QED
      BY <1>0, <3>1 DEF OpLeft, InterruptOp, Infos
  <2> QED
    BY <1>0, <2>1, <2>2 DEF Part, InterruptOps
<1>2. Part(<<Op("end")>>, "work", N + 13, N + 12)
  <2>1. <<Op("end")>> \in Seq(Ops)
    BY TheOps DEF OpNames
  <2>2. OpLeft("work", N + 13) = Op("end")
    BY <1>0 DEF OpLeft, Infos
  <2> QED
    BY <1>0, <2>1, <2>2 DEF Part
<1>3. Part(Rest("compress", N + 12), "work", N + 12, 0)
  <2>1. N + 12 \in 0 .. Size("compress") /\ "compress" \in Progs
    BY <1>0 DEF Size, Progs, Infos
  <2>2. Rest("compress", N + 12) \in Seq(Ops) /\ Len(Rest("compress", N + 12)) = N + 12
    BY <2>1, RestOf
  <2>3. \A i \in 1 .. (N + 12) :
          Rest("compress", N + 12)[i] = OpLeft("compress", N + 12 + 1 - i)
    BY DEF Rest
  <2>4. \A k \in 1 .. (N + 12) : OpLeft("work", k) = OpLeft("compress", k)
    BY <1>0 DEF OpLeft
  <2>5. \A i \in 1 .. (N + 12) : N + 12 + 1 - i \in 1 .. (N + 12)
    BY <1>0
  <2> QED
    BY <1>0, <2>2, <2>3, <2>4, <2>5 DEF Part
<1>4. Part(InterruptOps \o <<Op("end")>> \o Rest("compress", N + 12), "work", N + 17, 0)
  BY <1>1, <1>2, <1>3, PartsJoin
<1>5. N + 17 \in 0 .. Size("work") /\ "work" \in Progs
  BY <1>0 DEF Size, Progs, Infos
<1> QED
  BY <1>4, <1>5, PartIsRest

(* Which operation a call is at.                                           *)
At(p, k) == prog = p /\ left = k
LEMMA OpTable ==
  ASSUME CtlInv, left > 0
  PROVE  /\ next.op \in OpNames
         /\ next.op = "check" <=> At("compress", N + 16)
         /\ next.op = "after_raw" <=> At("compress", N + 13)
         /\ next.op = "load" <=> At("compress", N + 12)
         /\ next.op = "store" <=> At("compress", 8) \/ At("compress", 10)
         /\ next.op = "send" <=> At("compress", 7) \/ At("compress", 9)
         /\ next.op = "irq" <=> At("compress", 5)
         /\ next.op = "end" <=> At("work", N + 13)
         /\ next.op = "fetch" <=> At("bitstream", 2) \/ At("model", 2)
         /\ next.op = "syncing" <=>
              \/ prog = "compress" /\ left \in {2, 6, 11, N + 14}
              \/ At("work", N + 15) \/ At("interrupt", 2) \/ At("status", 1)
              \/ At("bitstream", 1) \/ At("model", 1)
              \/ prog \in Infos /\ left = 1
         /\ next.op = "read" <=>
              \/ At("compress", N + 15) \/ At("status", 2)
              \/ prog \in Infos /\ left > 1
         /\ next.op = "write" <=>
              \/ prog = "compress" /\ left \in 12 .. (N + 11)
              \/ At("compress", 3) \/ At("work", N + 16) \/ At("interrupt", 3)
         /\ next.op = "set" <=>
              At("compress", 4) \/ At("work", N + 17) \/ At("interrupt", 4)
         /\ next.op = "clear" <=>
              At("compress", 1) \/ At("work", N + 14) \/ At("interrupt", 1)
         /\ next.op = "read" =>
              next.reg = CASE prog = "compress" -> InfoRegs[1]
                           [] prog = "status" -> STATUS
                           [] OTHER -> InfoRegs[InfoCount + 2 - left]
         /\ next.op = "write" =>
              next.reg = IF prog = "compress" /\ left > 11
                         THEN ConfigRegs[N + 12 - left] ELSE CTRL
         /\ next.op \in {"set", "clear"} =>
              next.bit = IF prog = "compress" THEN START ELSE INTERRUPT
         /\ next.op \in {"store", "send"} =>
              next.reg = IF left > 8 THEN DataAddr ELSE ModelAddr
         /\ next.op = "fetch" =>
              next.reg = IF prog = "model" THEN NewModelAddr ELSE CmpAddr
<1>0. /\ prog \in Progs /\ left \in Nat /\ left <= Size(prog) /\ N \in Nat
      /\ InfoCount \in Nat /\ 1 <= InfoCount /\ InfoCount <= N
      /\ prog = "work" => left > N + 12
      /\ prog = "none" => left = 0
  BY TodoIs
<1>1. /\ \A name : Op(name).op = name
      /\ \A r : Read(r).op = "read" /\ Write(r).op = "write"
                /\ Read(r).reg = r /\ Write(r).reg = r
      /\ \A b : Set(b).op = "set" /\ Clear(b).op = "clear"
                /\ Set(b).bit = b /\ Clear(b).bit = b
      /\ \A a : /\ Store(a).op = "store" /\ Send(a).op = "send" /\ Fetch(a).op = "fetch"
                /\ Store(a).reg = a /\ Send(a).reg = a /\ Fetch(a).reg = a
  BY DEF Op, Read, Write, Set, Clear, Store, Send, Fetch
<1>2. CASE prog = "compress"
  <2>1. next = CompressOp(left) /\ left <= N + 16
    BY <1>0, <1>2 DEF next, OpLeft, Size, Infos
  <2>2. CASE left \in 12 .. (N + 11)
    <3>1. next = Write(ConfigRegs[N + 12 - left])
      BY <1>0, <2>1, <2>2 DEF CompressOp
    <3>2. next.op = "write" /\ next.reg = ConfigRegs[N + 12 - left]
      BY <1>1, <3>1
    <3> QED
      BY <1>0, <1>2, <2>2, <3>2 DEF OpNames, At, Infos
  <2>3. CASE left \notin 12 .. (N + 11)
    <3>1. next = CASE left = 1 -> Clear(START) [] left = 3 -> Write(CTRL)
                   [] left = 4 -> Set(START)   [] left = 5 -> Op("irq")
                   [] left = 7 -> Send(ModelAddr) [] left = 8 -> Store(ModelAddr)
                   [] left = 9 -> Send(DataAddr)  [] left = 10 -> Store(DataAddr)
                   [] left = N + 12 -> Op("load") [] left = N + 13 -> Op("after_raw")
                   [] left = N + 15 -> Read(InfoRegs[1])
                   [] left = N + 16 -> Op("check")
                   [] OTHER -> Op("syncing")
      BY <2>1, <2>3 DEF CompressOp
    <3>2. left \in 1 .. 11 \cup {N + 12, N + 13, N + 14, N + 15, N + 16}
      BY <1>0, <2>1, <2>3
    <3>3. next.op = CASE left = 1 -> "clear" [] left = 3 -> "write"
                      [] left = 4 -> "set"   [] left = 5 -> "irq"
                      [] left = 7 -> "send"  [] left = 8 -> "store"
                      [] left = 9 -> "send"  [] left = 10 -> "store"
                      [] left = N + 12 -> "load" [] left = N + 13 -> "after_raw"
                      [] left = N + 15 -> "read" [] left = N + 16 -> "check"
                      [] OTHER -> "syncing"
      BY <1>0, <1>1, <3>1, <3>2
    <3>4. /\ left = 3 => next.reg = CTRL
          /\ left \in {1, 4} => next.bit = START
          /\ left = N + 15 => next.reg = InfoRegs[1]
          /\ left \in {7, 8} => next.reg = ModelAddr
          /\ left \in {9, 10} => next.reg = DataAddr
      BY <1>0, <1>1, <3>1, <3>2
    <3>6. CASE left = 1
      <4>1. next.op = "clear"
        BY <1>0, <3>3, <3>6
      <4> QED
        BY <1>0, <1>2, <3>4, <3>6, <4>1 DEF OpNames, At, Infos
    <3>7. CASE left = 2
      <4>1. next.op = "syncing"
        BY <1>0, <3>3, <3>7
      <4> QED
        BY <1>0, <1>2, <3>4, <3>7, <4>1 DEF OpNames, At, Infos
    <3>8. CASE left = 3
      <4>1. next.op = "write"
        BY <1>0, <3>3, <3>8
      <4> QED
        BY <1>0, <1>2, <3>4, <3>8, <4>1 DEF OpNames, At, Infos
    <3>9. CASE left = 4
      <4>1. next.op = "set"
        BY <1>0, <3>3, <3>9
      <4> QED
        BY <1>0, <1>2, <3>4, <3>9, <4>1 DEF OpNames, At, Infos
    <3>10. CASE left = 5
      <4>1. next.op = "irq"
        BY <1>0, <3>3, <3>10
      <4> QED
        BY <1>0, <1>2, <3>4, <3>10, <4>1 DEF OpNames, At, Infos
    <3>11. CASE left = 6
      <4>1. next.op = "syncing"
        BY <1>0, <3>3, <3>11
      <4> QED
        BY <1>0, <1>2, <3>4, <3>11, <4>1 DEF OpNames, At, Infos
    <3>12. CASE left = 7
      <4>1. next.op = "send"
        BY <1>0, <3>3, <3>12
      <4> QED
        BY <1>0, <1>2, <3>4, <3>12, <4>1 DEF OpNames, At, Infos
    <3>13. CASE left = 8
      <4>1. next.op = "store"
        BY <1>0, <3>3, <3>13
      <4> QED
        BY <1>0, <1>2, <3>4, <3>13, <4>1 DEF OpNames, At, Infos
    <3>20. CASE left = 9
      <4>1. next.op = "send"
        BY <1>0, <3>3, <3>20
      <4> QED
        BY <1>0, <1>2, <3>4, <3>20, <4>1 DEF OpNames, At, Infos
    <3>21. CASE left = 10
      <4>1. next.op = "store"
        BY <1>0, <3>3, <3>21
      <4> QED
        BY <1>0, <1>2, <3>4, <3>21, <4>1 DEF OpNames, At, Infos
    <3>14. CASE left = 11
      <4>1. next.op = "syncing"
        BY <1>0, <3>3, <3>14
      <4> QED
        BY <1>0, <1>2, <3>4, <3>14, <4>1 DEF OpNames, At, Infos
    <3>15. CASE left = N + 12
      <4>1. next.op = "load"
        BY <1>0, <3>3, <3>15
      <4> QED
        BY <1>0, <1>2, <3>4, <3>15, <4>1 DEF OpNames, At, Infos
    <3>16. CASE left = N + 13
      <4>1. next.op = "after_raw"
        BY <1>0, <3>3, <3>16
      <4> QED
        BY <1>0, <1>2, <3>4, <3>16, <4>1 DEF OpNames, At, Infos
    <3>17. CASE left = N + 14
      <4>1. next.op = "syncing"
        BY <1>0, <3>3, <3>17
      <4> QED
        BY <1>0, <1>2, <3>4, <3>17, <4>1 DEF OpNames, At, Infos
    <3>18. CASE left = N + 15
      <4>1. next.op = "read"
        BY <1>0, <3>3, <3>18
      <4> QED
        BY <1>0, <1>2, <3>4, <3>18, <4>1 DEF OpNames, At, Infos
    <3>19. CASE left = N + 16
      <4>1. next.op = "check"
        BY <1>0, <3>3, <3>19
      <4> QED
        BY <1>0, <1>2, <3>4, <3>19, <4>1 DEF OpNames, At, Infos
    <3> QED
      BY <3>2, <3>6, <3>7, <3>8, <3>9, <3>10, <3>11, <3>12, <3>13, <3>14, <3>15, <3>16, <3>17,
         <3>18, <3>19, <3>20, <3>21
  <2> QED
    BY <2>2, <2>3
<1>3. CASE prog = "work"
  <2>1. left <= N + 17
    BY <1>0, <1>3 DEF Size
  <2>2. next = IF left = N + 13 THEN Op("end") ELSE InterruptOp(left - (N + 13))
    BY <1>0, <1>3 DEF next, OpLeft, Infos
  <2> QED
    BY <1>0, <1>1, <1>3, <2>1, <2>2 DEF InterruptOp, OpNames, At, Infos
<1>4. CASE prog = "interrupt"
  <2>1. next = InterruptOp(left) /\ left <= 4
    BY <1>0, <1>4 DEF next, OpLeft, Size, Infos
  <2> QED
    BY <1>0, <1>1, <1>4, <2>1 DEF InterruptOp, OpNames, At, Infos
<1>5. CASE prog \in {"status", "bitstream", "model"}
  <2>1. left <= 2
    BY <1>0, <1>5 DEF Size, Infos
  <2>2. next = IF left = 1 THEN Op("syncing")
               ELSE IF prog = "status" THEN Read(STATUS)
               ELSE IF prog = "model" THEN Fetch(NewModelAddr) ELSE Fetch(CmpAddr)
    BY <1>0, <1>5, <2>1 DEF next, OpLeft, Infos
  <2> QED
    BY <1>0, <1>1, <1>5, <2>1, <2>2 DEF OpNames, At, Infos
<1>6. CASE prog \in Infos
  <2>1. left <= InfoCount + 1
    BY <1>0, <1>6 DEF Size, Infos
  <2>2. next = IF left = 1 THEN Op("syncing") ELSE Read(InfoRegs[InfoCount + 2 - left])
    BY <1>0, <1>6, <2>1 DEF next, OpLeft, Infos
  <2> QED
    BY <1>0, <1>1, <1>6, <2>1, <2>2 DEF OpNames, At, Infos
<1>7. prog \in {"compress", "work", "interrupt", "status", "bitstream", "model"} \cup Infos
  BY <1>0 DEF Progs
<1> QED
  BY <1>2, <1>3, <1>4, <1>5, <1>6, <1>7
-----------------------------------------------------------------------------
(* The steps of the client in these terms.                                 *)

(* The client's variables are well typed; only operations that call the    *)
(* layers below are ever waited for, only rdcu_syncing counts its polls.   *)
(* Between two calls the application may ask for the status itself.        *)
ClientOK ==
  /\ CtlInv
  /\ scenario \in Scenarios
  /\ fn \in {"none", "interrupt", "error_info"} \/ rcfg \in scenario.configs
  /\ busy \in BOOLEAN /\ polls \in Nat /\ result \in {0, -1}
  /\ interrupt_signal_enabled \in BOOLEAN
  /\ busy => left > 0 /\ next.op \in Kind \cup {"syncing", "send", "fetch"}
  /\ ~busy => /\ xfer.at = "idle"
              /\ call = "none" \/ (left = 0 /\ call \in {"rx_status", "status"})
  /\ polls # 0 => left > 0 /\ next.op = "syncing"

(* The operation next is completed.                                        *)
Adv  == Advanced /\ busy' = FALSE /\ polls' = 0
          /\ UNCHANGED <<fn, rcfg, input, result>>
(* The call stays at the same operation.                                   *)
Kept == CtlInv' /\ prog' = prog /\ left' = left /\ next' = next
          /\ UNCHANGED <<fn, rcfg, input, todo, result>>
Still == UNCHANGED <<xvars, interrupt_signal_enabled, fpga, scenario>>
(* Nothing of the layers below is in progress.                             *)
AtRest == call = "none" /\ xfer.at = "idle"

(* An application calls function p.                                        *)
Begun(p) ==
  /\ left = 0 /\ AtRest /\ CtlInv' /\ Still
  /\ prog' = p /\ left' = Size(p) /\ left' > 0 /\ fn' = p
  /\ result' = 0 /\ busy' = FALSE /\ polls' = 0
  /\ p # "compress" => rcfg' = rcfg /\ input' = input
  /\ CASE p = "compress" -> /\ MayCompress /\ rcfg' \in scenario.configs
                            /\ input' = [data |-> Meant(rcfg'.data, DataAddr),
                                         model |-> Meant(rcfg'.model, ModelAddr)]
       [] p = "status" -> Returned("compress") \/ Returned("status")
       [] p = "info" -> SeenReady
       [] p = "error_info" -> Returned("interrupt")
       [] p = "bitstream" -> Returned("info")
       [] p = "model" -> Returned("bitstream") /\ model_mode_is_used(rcfg.regs[1])
       [] OTHER -> TRUE
Functions == {"compress", "interrupt", "status", "bitstream", "model"} \cup Infos

(* The work-around begins.                                                 *)
WorkBegun ==
  /\ CtlInv' /\ prog' = "work" /\ left' = N + 17
  /\ busy' = FALSE /\ polls' = 0 /\ UNCHANGED <<fn, rcfg, input, result>>

(* Steps of the client that touch nothing below.                           *)
PollAgain ==
  /\ ret # 0 /\ Kept /\ busy' = FALSE
  /\ polls' = IF scenario.prompt /\ link # <<<<>>, <<>>>> THEN polls ELSE polls + 1
Returning ==
  /\ left > 0 /\ AtRest /\ Still
  /\ \/ next.op = "check" /\ IF rcfg.valid THEN Adv ELSE Aborted
     \/ next.op \in Kind /\ busy /\ IF ret = 0 THEN Adv ELSE Aborted
     \/ next.op = "syncing" /\ busy /\ (ret = 0 \/ polls > SyncRetries) /\ Adv
     \/ next.op = "syncing" /\ busy /\ PollAgain
     \/ next.op = "after_raw" /\ IF mirror[InfoRegs[1]] = CMP_MODE_RAW
                                 THEN WorkBegun ELSE Adv
     \/ next.op = "end" /\ Adv
     \/ next.op \in {"send", "fetch"} /\ busy /\ IF xfer.ret = 0 THEN Adv ELSE Aborted
     \/ next.op = "send" /\ ~busy /\ ~Given(next.reg) /\ Adv

(* It changes the local mirror.                                            *)
LocalMove ==
  /\ left > 0 /\ AtRest /\ ~busy
  /\ \/ /\ next.op \in {"set", "clear", "irq", "store"}
        /\ mirror' = LocalValue(mirror) /\ Adv
     \/ /\ next.op = "load" /\ mirror' = LoadedMirror
        /\ IF rcfg.refused = 0 THEN Adv ELSE Aborted
  /\ UNCHANGED <<lib, link, remote, xfer, interrupt_signal_enabled, fpga, scenario>>

(* It calls the layers below.                                              *)
Calling ==
  /\ left > 0 /\ AtRest /\ ~busy /\ busy' = TRUE /\ polls' = polls /\ Kept
  /\ UNCHANGED <<interrupt_signal_enabled, fpga, scenario>>
  /\ \/ next.op \in Kind /\ rdcu_sync(next.op, next.reg) /\ UNCHANGED xfer
     \/ next.op = "syncing" /\ rdcu_rmap_sync_status /\ UNCHANGED xfer
     \/ next.op = "send" /\ Given(next.reg) /\ sync_begin("write", next.reg, 4, Mtu)
     \/ next.op = "fetch" /\ sync_begin("read", next.reg, 4, Mtu)

(* The application asks for the status.                                    *)
Polling ==
  /\ left = 0 /\ AtRest /\ Kept
  /\ rdcu_rmap_sync_status
  /\ UNCHANGED <<xfer, client, interrupt_signal_enabled, fpga, scenario>>

(* The layers below run, or the RDCU does.                                 *)
ClientStays == Kept /\ UNCHANGED <<client, interrupt_signal_enabled, scenario>>
BelowMove == ClientStays /\ fpga' = fpga /\ ((LibStep /\ UNCHANGED xfer) \/ XferStep)
RdcuMove  == ClientStays /\ Rdcu

Toggled   == /\ left = 0 /\ call = "none" /\ Kept /\ UNCHANGED <<xvars, client, fpga, scenario>>
             /\ interrupt_signal_enabled' = ~interrupt_signal_enabled

(* A call that stays where it is.                                          *)
LEMMA Stays ==
  ASSUME CtlInv, UNCHANGED <<todo, fn, rcfg, input, result>>
  PROVE  Kept
<1>1. prog' = prog /\ left' = left
  BY DEF prog, left, ProgOf
<1>2. next' = next
  BY <1>1 DEF next
<1>3. CtlInv'
  BY <1>1 DEF CtlInv
<1> QED
  BY <1>1, <1>2, <1>3 DEF Kept

(* An application's call.                                                  *)
LEMMA Begins ==
  ASSUME ClientOK, NEW p \in Functions, NEW c, Begin(p, c, Rest(p, Size(p)))
  PROVE  /\ left = 0 /\ AtRest /\ CtlInv'
         /\ prog' = p /\ left' = Size(p) /\ left' > 0 /\ fn' = p /\ rcfg' = c
         /\ result' = 0 /\ busy' = FALSE /\ polls' = 0
         /\ UNCHANGED <<xvars, interrupt_signal_enabled, fpga>>
<1>1. /\ todo = <<>> /\ AtRest /\ fn' = p /\ rcfg' = c /\ todo' = Rest(p, Size(p))
      /\ result' = 0
      /\ UNCHANGED <<xvars, busy, polls, interrupt_signal_enabled, fpga>>
  BY DEF Begin, AtRest
<1>2. left = 0
  BY <1>1, TodoIs DEF ClientOK
<1>3. busy = FALSE /\ polls = 0
  BY <1>2 DEF ClientOK
<1>4. p \in Progs /\ p # "work" /\ Size(p) \in Nat /\ Size(p) > 0
  BY Registers DEF Functions, Progs, Size, Infos
<1>5. Inside(p, Size(p), todo', fn')
  BY <1>1, <1>4 DEF Inside
<1>6. prog' = p /\ left' = Size(p)
  BY <1>5, ProgIs DEF prog, left
<1>7. CtlInv'
  BY <1>5, <1>6 DEF CtlInv
<1> QED
  BY <1>1, <1>2, <1>3, <1>4, <1>6, <1>7

(* The calls of the application.                                           *)
LEMMA AppMoves ==
  ASSUME ClientOK, CmpApplication, UNCHANGED scenario
  PROVE  (\E p \in Functions : Begun(p)) \/ Toggled \/ Polling
<1>0. /\ Size("compress") = N + 16 /\ Size("interrupt") = 4 /\ Size("status") = 2
      /\ \A f \in Infos : Size(f) = InfoCount + 1
      /\ Size("bitstream") = 2 /\ Size("model") = 2
  BY DEF Size, Infos
<1>1. CASE MayCompress /\ \E c \in scenario.configs : rdcu_compress_data(c)
  <2>1. PICK c \in scenario.configs : rdcu_compress_data(c)
    BY <1>1
  <2>2. /\ Begin("compress", c, Rest("compress", Size("compress")))
        /\ input' = [data |-> Meant(c.data, DataAddr),
                     model |-> Meant(c.model, ModelAddr)]
    BY <2>1, <1>0, CompressIs DEF rdcu_compress_data
  <2>3. "compress" \in Functions
    BY DEF Functions
  <2>4. /\ left = 0 /\ AtRest /\ CtlInv'
        /\ prog' = "compress" /\ left' = Size("compress") /\ left' > 0
        /\ fn' = "compress" /\ rcfg' = c
        /\ result' = 0 /\ busy' = FALSE /\ polls' = 0
        /\ UNCHANGED <<xvars, interrupt_signal_enabled, fpga>>
    BY <2>2, <2>3, Begins
  <2>5. rcfg' \in scenario.configs
    BY <2>4
  <2>6. input' = [data |-> Meant(rcfg'.data, DataAddr),
                  model |-> Meant(rcfg'.model, ModelAddr)]
    BY <2>2, <2>4
  <2>7. Begun("compress")
    BY <1>1, <2>4, <2>5, <2>6 DEF Begun, Still
  <2> QED
    BY <2>3, <2>7
<1>2. ASSUME NEW p \in Functions \ {"compress"}, NEW ops, ops = Rest(p, Size(p)),
             Function(p, ops)
      PROVE  /\ left = 0 /\ AtRest /\ CtlInv' /\ Still
             /\ prog' = p /\ left' = Size(p) /\ left' > 0 /\ fn' = p
             /\ result' = 0 /\ busy' = FALSE /\ polls' = 0
             /\ rcfg' = rcfg /\ input' = input
  <2>1. Begin(p, rcfg, Rest(p, Size(p))) /\ input' = input
    BY <1>2 DEF Function
  <2> QED
    BY <2>1, Begins DEF Still
<1>3. CASE /\ Returned("compress") \/ (Returned("status") /\ ~SeenReady)
           /\ rdcu_read_cmp_status
  <2>1. StatusOps = Rest("status", Size("status")) /\ Function("status", StatusOps)
    BY <1>0, <1>3, ShortOnesAre DEF rdcu_read_cmp_status
  <2>2. "status" \in Functions \ {"compress"}
    BY DEF Functions
  <2>3. Begun("status")
    BY <1>2, <1>3, <2>1, <2>2 DEF Begun
  <2> QED
    BY <2>2, <2>3
<1>4. CASE SeenReady /\ rdcu_read_cmp_info("info")
  <2>1. InfoOps = Rest("info", Size("info")) /\ Function("info", InfoOps)
    BY <1>0, <1>4, ShortOnesAre DEF rdcu_read_cmp_info, Infos
  <2>2. "info" \in Functions \ {"compress"}
    BY DEF Functions, Infos
  <2>3. Begun("info")
    BY <1>2, <1>4, <2>1, <2>2 DEF Begun
  <2> QED
    BY <2>2, <2>3
<1>5. CASE Returned("interrupt") /\ rdcu_read_cmp_info("error_info")
  <2>1. InfoOps = Rest("error_info", Size("error_info")) /\ Function("error_info", InfoOps)
    BY <1>0, <1>5, ShortOnesAre DEF rdcu_read_cmp_info, Infos
  <2>2. "error_info" \in Functions \ {"compress"}
    BY DEF Functions, Infos
  <2>3. Begun("error_info")
    BY <1>2, <1>5, <2>1, <2>2 DEF Begun
  <2> QED
    BY <2>2, <2>3
<1>6. CASE Returned("info") /\ rdcu_read_cmp_bitstream
  <2>1. /\ FetchOps(CmpAddr) = Rest("bitstream", Size("bitstream"))
        /\ Function("bitstream", FetchOps(CmpAddr))
    BY <1>0, <1>6, ShortOnesAre DEF rdcu_read_cmp_bitstream
  <2>2. "bitstream" \in Functions \ {"compress"}
    BY DEF Functions
  <2>3. Begun("bitstream")
    BY <1>2, <1>6, <2>1, <2>2 DEF Begun
  <2> QED
    BY <2>2, <2>3
<1>7. CASE /\ Returned("bitstream") /\ model_mode_is_used(rcfg.regs[1])
           /\ rdcu_read_model
  <2>1. /\ FetchOps(NewModelAddr) = Rest("model", Size("model"))
        /\ Function("model", FetchOps(NewModelAddr))
    BY <1>0, <1>7, ShortOnesAre DEF rdcu_read_model
  <2>2. "model" \in Functions \ {"compress"}
    BY DEF Functions
  <2>3. Begun("model")
    BY <1>2, <1>7, <2>1, <2>2 DEF Begun
  <2> QED
    BY <2>2, <2>3
<1>8. CASE rdcu_interrupt_compression
  <2>1. /\ InterruptOps = Rest("interrupt", Size("interrupt"))
        /\ Function("interrupt", InterruptOps)
    BY <1>0, <1>8, ShortOnesAre DEF rdcu_interrupt_compression
  <2>2. "interrupt" \in Functions \ {"compress"}
    BY DEF Functions
  <2>3. Begun("interrupt")
    BY <1>2, <2>1, <2>2 DEF Begun
  <2> QED
    BY <2>2, <2>3
<1>9. CASE rdcu_enable_disable_interrput_signal
  <2>1. /\ todo = <<>> /\ call = "none" /\ UNCHANGED <<xvars, client, fpga>>
        /\ interrupt_signal_enabled' = ~interrupt_signal_enabled
    BY <1>9 DEF rdcu_enable_disable_interrput_signal
  <2>2. left = 0
    BY <2>1, TodoIs DEF ClientOK
  <2>3. Kept
    BY <2>1, Stays DEF ClientOK, client
  <2> QED
    BY <2>1, <2>2, <2>3 DEF Toggled
<1>10. CASE PollStatus
  <2>1. /\ todo = <<>> /\ xfer.at = "idle" /\ rdcu_rmap_sync_status
        /\ UNCHANGED <<xfer, client, interrupt_signal_enabled, fpga>>
    BY <1>10 DEF PollStatus, Others
  <2>2. left = 0 /\ call = "none"
    BY <2>1, TodoIs DEF ClientOK, rdcu_rmap_sync_status
  <2>3. Kept
    BY <2>1, Stays DEF ClientOK, client
  <2> QED
    BY <2>1, <2>2, <2>3 DEF Polling, AtRest
<1> QED
  BY <1>1, <1>3, <1>4, <1>5, <1>6, <1>7, <1>8, <1>9, <1>10 DEF CmpApplication

(* A step at an operation.                                                 *)
LEMMA DoingAt ==
  ASSUME ClientOK, NEW name, Doing(name)
  PROVE  left > 0 /\ next.op = name /\ AtRest
<1>1. todo # <<>> /\ Head(todo).op = name /\ AtRest
  BY DEF Doing, AtRest
<1>2. left > 0 /\ Head(todo) = next
  BY <1>1, TodoIs DEF ClientOK
<1> QED
  BY <1>1, <1>2

(* Completing and failing.                                                 *)
LEMMA DoneAdv == ASSUME ClientOK, left > 0, Done PROVE Adv
<1>1. todo' = Tail(todo) /\ fn' = fn /\ busy' = FALSE /\ polls' = 0
      /\ UNCHANGED <<fn, rcfg, input, result>>
  BY DEF Done
<1>2. Advanced
  BY <1>1, DoneAdvances DEF ClientOK
<1> QED
  BY <1>1, <1>2 DEF Adv

(* The steps of the client.                                                *)
LEMMA ClientMoves ==
  ASSUME ClientOK, ClientStep, UNCHANGED scenario
  PROVE  Returning \/ LocalMove \/ Calling \/ BelowMove
<1>0. CtlInv
  BY DEF ClientOK
<1>1. CASE CheckConfig
  <2>1. left > 0 /\ next.op = "check" /\ AtRest
    BY <1>1, DoingAt DEF CheckConfig
  <2>2. /\ IF rcfg.valid THEN Done ELSE Fail
        /\ UNCHANGED xvars /\ UNCHANGED <<interrupt_signal_enabled, fpga>>
    BY <1>1 DEF CheckConfig, Others
  <2>3. IF rcfg.valid THEN Adv ELSE Aborted
    BY <1>0, <2>1, <2>2, DoneAdv, FailAborts
  <2> QED
    BY <2>1, <2>2, <2>3 DEF Returning, Still
<1>2. CASE SyncRegister
  <2>1. /\ todo # <<>> /\ Head(todo).op \in Kind /\ ~busy
        /\ rdcu_sync(Head(todo).op, Head(todo).reg)
        /\ busy' = TRUE /\ UNCHANGED <<fn, rcfg, input, todo, polls, result>>
        /\ UNCHANGED xfer /\ UNCHANGED <<interrupt_signal_enabled, fpga>>
    BY <1>2 DEF SyncRegister, Busy, Others
  <2>2. left > 0 /\ Head(todo) = next
    BY <1>0, <2>1, TodoIs
  <2>3. call = "none"
    BY <2>1 DEF rdcu_sync
  <2>4. Kept
    BY <1>0, <2>1, Stays
  <2> QED
    BY <2>1, <2>2, <2>3, <2>4 DEF Calling, AtRest, ClientOK
<1>3. CASE RegisterReturned
  <2>1. PICK k \in Kind : Doing(k)
    BY <1>3 DEF RegisterReturned
  <2>2. left > 0 /\ next.op \in Kind /\ AtRest
    BY <2>1, DoingAt
  <2>3. /\ busy /\ IF ret = 0 THEN Done ELSE Fail
        /\ UNCHANGED xvars /\ UNCHANGED <<interrupt_signal_enabled, fpga>>
    BY <1>3 DEF RegisterReturned, Others
  <2>4. IF ret = 0 THEN Adv ELSE Aborted
    BY <1>0, <2>2, <2>3, DoneAdv, FailAborts
  <2> QED
    BY <2>2, <2>3, <2>4 DEF Returning, Still
<1>4. CASE rdcu_syncing
  <2>1. left > 0 /\ next.op = "syncing" /\ AtRest
    BY <1>4, DoingAt DEF rdcu_syncing
  <2>2. /\ ~busy /\ rdcu_rmap_sync_status /\ UNCHANGED xfer
        /\ busy' = TRUE /\ UNCHANGED <<fn, rcfg, input, todo, polls, result>>
        /\ UNCHANGED <<interrupt_signal_enabled, fpga>>
    BY <1>4 DEF rdcu_syncing, Busy, Others
  <2>3. Kept
    BY <1>0, <2>2, Stays
  <2> QED
    BY <2>1, <2>2, <2>3 DEF Calling
<1>5. CASE SyncingReturned
  <2>1. left > 0 /\ next.op = "syncing" /\ AtRest
    BY <1>5, DoingAt DEF SyncingReturned
  <2>2. busy /\ UNCHANGED xvars /\ UNCHANGED <<interrupt_signal_enabled, fpga>>
    BY <1>5 DEF SyncingReturned, Others
  <2>3. \/ ret = 0 /\ Done
        \/ ret # 0 /\ polls > SyncRetries /\ Done
        \/ /\ ret # 0 /\ busy' = FALSE
           /\ polls' = IF scenario.prompt /\ link # <<<<>>, <<>>>>
                       THEN polls ELSE polls + 1
           /\ UNCHANGED <<fn, rcfg, input, todo, result>>
    BY <1>5 DEF SyncingReturned
  <2>4. CASE (ret = 0 \/ polls > SyncRetries) /\ Done
    BY <2>1, <2>2, <2>4, DoneAdv DEF Returning, Still
  <2>5. CASE /\ ret # 0 /\ busy' = FALSE
             /\ polls' = IF scenario.prompt /\ link # <<<<>>, <<>>>>
                         THEN polls ELSE polls + 1
             /\ UNCHANGED <<fn, rcfg, input, todo, result>>
    <3>1. Kept
      BY <1>0, <2>5, Stays
    <3> QED
      BY <2>1, <2>2, <2>5, <3>1 DEF Returning, Still, PollAgain
  <2> QED
    BY <2>3, <2>4, <2>5
<1>6. CASE AfterRaw
  <2>1. left > 0 /\ next.op = "after_raw" /\ AtRest
    BY <1>6, DoingAt DEF AfterRaw
  <2>2. /\ todo' = (IF mirror[InfoRegs[1]] = CMP_MODE_RAW
                    THEN InterruptOps \o <<Op("end")>> ELSE <<>>) \o Tail(todo)
        /\ UNCHANGED <<fn, rcfg, input, busy, polls, result, xvars>>
        /\ UNCHANGED <<interrupt_signal_enabled, fpga>>
    BY <1>6 DEF AfterRaw, Others
  <2>3. prog = "compress" /\ left = N + 13 /\ fn = "compress" /\ N \in Nat
    BY <1>0, <2>1, OpTable, TodoIs DEF At
  <2>4. busy = FALSE /\ polls = 0
    BY <2>1 DEF ClientOK, Kind
  <2>5. Tail(todo) = Rest("compress", N + 12)
    <3>1. Tail(todo) = Rest("compress", left - 1) /\ left - 1 = N + 12
      BY <1>0, <2>1, <2>3, TodoIs
    <3> QED
      BY <3>1
  <2>6. CASE mirror[InfoRegs[1]] = CMP_MODE_RAW
    <3>1. todo' = Rest("work", N + 17)
      BY <2>2, <2>5, <2>6, WorkAroundIs
    <3>2. "work" \in Progs /\ N + 17 \in 0 .. Size("work") /\ N + 17 > N + 12
      BY <2>3 DEF Progs, Size, Infos
    <3>3. Inside("work", N + 17, todo', fn')
      BY <2>2, <2>3, <3>1, <3>2 DEF Inside
    <3>4. prog' = "work" /\ left' = N + 17
      BY <3>3, ProgIs DEF prog, left
    <3>5. CtlInv'
      BY <3>3, <3>4 DEF CtlInv
    <3> QED
      BY <2>1, <2>2, <2>4, <2>6, <3>4, <3>5 DEF Returning, Still, WorkBegun
  <2>7. CASE mirror[InfoRegs[1]] # CMP_MODE_RAW
    <3>1. "compress" \in Progs /\ N + 12 \in 0 .. Size("compress")
      BY <2>3 DEF Progs, Size, Infos
    <3>2. Rest("compress", N + 12) \in Seq(Ops)
      BY <3>1, RestOf
    <3>3. <<>> \o Rest("compress", N + 12) = Rest("compress", N + 12)
      BY <3>2, ConcatEmptySeq
    <3>4. todo' = Tail(todo)
      BY <2>2, <2>5, <2>7, <3>3
    <3>5. Advanced
      BY <1>0, <2>1, <2>2, <3>4, DoneAdvances
    <3> QED
      BY <2>1, <2>2, <2>4, <2>7, <3>5 DEF Returning, Still, Adv
  <2> QED
    BY <2>6, <2>7
<1>7. CASE EndOfInterrupt
  <2>1. left > 0 /\ next.op = "end" /\ AtRest
    BY <1>7, DoingAt DEF EndOfInterrupt
  <2>2. Done /\ UNCHANGED xvars /\ UNCHANGED <<interrupt_signal_enabled, fpga>>
    BY <1>7 DEF EndOfInterrupt, Others
  <2> QED
    BY <2>1, <2>2, DoneAdv DEF Returning, Still
<1>8. CASE LocalStep
  <2>1. PICK name \in {"set", "clear", "irq", "store"} : Doing(name)
    BY <1>8 DEF LocalStep
  <2>2. left > 0 /\ next.op \in {"set", "clear", "irq", "store"} /\ AtRest
    BY <2>1, DoingAt
  <2>3. /\ mirror' = LocalValue(mirror) /\ Done
        /\ UNCHANGED <<lib, link, remote, xfer>>
        /\ UNCHANGED <<interrupt_signal_enabled, fpga>>
    BY <1>8 DEF LocalStep, Others
  <2>4. Adv
    BY <2>2, <2>3, DoneAdv
  <2>5. ~busy
    BY <2>2 DEF ClientOK, Kind
  <2> QED
    BY <2>2, <2>3, <2>4, <2>5 DEF LocalMove
<1>12. CASE LoadConfig
  <2>1. left > 0 /\ next.op = "load" /\ AtRest
    BY <1>12, DoingAt DEF LoadConfig
  <2>2. /\ mirror' = LoadedMirror /\ IF rcfg.refused = 0 THEN Done ELSE Fail
        /\ UNCHANGED <<lib, link, remote, xfer>>
        /\ UNCHANGED <<interrupt_signal_enabled, fpga>>
    BY <1>12 DEF LoadConfig, Others
  <2>3. IF rcfg.refused = 0 THEN Adv ELSE Aborted
    BY <1>0, <2>1, <2>2, DoneAdv, FailAborts
  <2>4. ~busy
    BY <2>1 DEF ClientOK, Kind
  <2> QED
    BY <2>1, <2>2, <2>3, <2>4 DEF LocalMove
<1>9. CASE TransferSram
  <2>1. /\ ~busy /\ busy' = TRUE /\ UNCHANGED <<fn, rcfg, input, todo, polls, result>>
        /\ UNCHANGED <<interrupt_signal_enabled, fpga>>
        /\ \/ /\ Doing("send") /\ Given(Head(todo).reg)
              /\ sync_begin("write", Head(todo).reg, 4, Mtu)
           \/ Doing("fetch") /\ sync_begin("read", Head(todo).reg, 4, Mtu)
    BY <1>9 DEF TransferSram, Busy, Others, rdcu_sync_mirror_to_sram,
                rdcu_sync_sram_to_mirror
  <2>2. left > 0 /\ AtRest /\ Head(todo) = next
    BY <1>0, <2>1, DoingAt, TodoIs
  <2>3. \/ next.op = "send" /\ Given(next.reg) /\ sync_begin("write", next.reg, 4, Mtu)
        \/ next.op = "fetch" /\ sync_begin("read", next.reg, 4, Mtu)
    BY <2>1, <2>2, DoingAt
  <2>4. Kept
    BY <1>0, <2>1, Stays
  <2> QED
    BY <2>1, <2>2, <2>3, <2>4 DEF Calling
<1>13. CASE SkipTransfer
  <2>1. left > 0 /\ next.op = "send" /\ AtRest /\ Head(todo) = next
    BY <1>0, <1>13, DoingAt, TodoIs DEF SkipTransfer
  <2>2. /\ ~busy /\ ~Given(next.reg) /\ Done
        /\ UNCHANGED xvars /\ UNCHANGED <<interrupt_signal_enabled, fpga>>
    BY <1>13, <2>1 DEF SkipTransfer, Others
  <2> QED
    BY <2>1, <2>2, DoneAdv DEF Returning, Still
<1>10. CASE TransferReturned
  <2>1. Doing("send") \/ Doing("fetch")
    BY <1>10 DEF TransferReturned
  <2>2. left > 0 /\ next.op \in {"send", "fetch"} /\ AtRest
    BY <2>1, DoingAt
  <2>3. /\ busy /\ IF xfer.ret = 0 THEN Done ELSE Fail
        /\ UNCHANGED xvars /\ UNCHANGED <<interrupt_signal_enabled, fpga>>
    BY <1>10 DEF TransferReturned, Others
  <2>4. IF xfer.ret = 0 THEN Adv ELSE Aborted
    BY <1>0, <2>2, <2>3, DoneAdv, FailAborts
  <2> QED
    BY <2>2, <2>3, <2>4 DEF Returning, Still
<1>11. CASE Below /\ UNCHANGED client /\ Others
  <2>1. Kept
    BY <1>0, <1>11, Stays DEF client
  <2> QED
    BY <1>11, <2>1 DEF BelowMove, ClientStays, Below, Others
<1> QED
  BY <1>1, <1>2, <1>3, <1>4, <1>5, <1>6, <1>7, <1>8, <1>9, <1>10, <1>11,
     <1>12, <1>13 DEF ClientStep

(* Every step of the system.                                               *)
CMove ==
  \/ \E p \in Functions : Begun(p)
  \/ Toggled \/ Polling \/ Returning \/ LocalMove \/ Calling \/ BelowMove
  \/ RdcuMove
LEMMA CMoves == ASSUME ClientOK, CNext PROVE CMove
<1>1. UNCHANGED scenario
  BY DEF CNext
<1>2. CASE CmpApplication
  BY <1>1, <1>2, AppMoves DEF CMove
<1>3. CASE ClientStep
  BY <1>1, <1>3, ClientMoves DEF CMove
<1>4. CASE Rdcu
  <2>1. UNCHANGED <<client, interrupt_signal_enabled>>
    BY <1>4 DEF Rdcu, FpgaExecute, FpgaRefuse, FpgaControl, FpgaFinish, LinkFault,
                Others
  <2>2. Kept
    BY <2>1, Stays DEF ClientOK, client
  <2> QED
    BY <1>1, <1>4, <2>1, <2>2 DEF CMove, RdcuMove, ClientStays
<1> QED
  BY <1>2, <1>3, <1>4 DEF CNext

(* One step of a call of the RMAP layer.                                   *)
LEMMA LibExact ==
  ASSUME LibStep
  PROVE  \/ /\ call \in RxLoop /\ cmd' = cmd /\ ret' = ret
            /\ \/ call' = call
               \/ call = "rx_status" /\ call' = "status"
               \/ call = "rx_data" /\ call' = "grab"
               \/ call = "rx_submit" /\ call' = "tx"
         \/ /\ call = "grab" /\ call' = "rx_submit"
            /\ cmd'.kind = cmd.kind /\ cmd'.addr = cmd.addr /\ cmd'.len = cmd.len
         \/ call \in {"grab", "tx"} /\ call' = "none"
         \/ call = "status" /\ call' = "none" /\ ret' = pending /\ pending' = pending
<1>1. CASE rdcu_process_rx
  <2>1. /\ call \in RxLoop /\ cmd' = cmd /\ ret' = ret
        /\ call' = call \/ call' = AfterRx
    BY <1>1 DEF rdcu_process_rx, RxSkip, RxDropTransaction, RxAccept, RxEmpty,
                RxAllocFail, lib
  <2> QED
    BY <2>1 DEF AfterRx, RxLoop
<1>2. CASE SyncDataGrab
  <2>1. call = "grab" /\ (Prepare(cmd.kind, cmd.addr, cmd.len) \/ Return(1))
    BY <1>2 DEF SyncDataGrab
  <2>2. \/ call' = "none"
        \/ /\ call' = "rx_submit"
           /\ cmd'.kind = cmd.kind /\ cmd'.addr = cmd.addr /\ cmd'.len = cmd.len
    BY <2>1 DEF Prepare, Return
  <2> QED
    BY <2>1, <2>2
<1>3. CASE rdcu_submit_tx
  BY <1>3 DEF rdcu_submit_tx, Return
<1>4. CASE SyncStatusReturn
  BY <1>4 DEF SyncStatusReturn, Return, log
<1> QED
  BY <1>1, <1>2, <1>3, <1>4 DEF LibStep

(* The client's state stays well formed.                                   *)
LEMMA ClientOKStep == ASSUME ClientOK, CMove PROVE ClientOK'
<1> DEFINE Idle == xfer.at = "idle" /\ (call = "none" \/ (left = 0 /\ call \in StatusCalls))
<1>0. /\ CtlInv /\ scenario \in Scenarios
      /\ fn \in {"none", "interrupt", "error_info"} \/ rcfg \in scenario.configs
      /\ busy \in BOOLEAN /\ polls \in Nat /\ result \in {0, -1}
      /\ interrupt_signal_enabled \in BOOLEAN
      /\ busy => left > 0 /\ next.op \in Kind \cup {"syncing", "send", "fetch"}
      /\ ~busy => Idle
      /\ polls # 0 => left > 0 /\ next.op = "syncing"
  BY DEF ClientOK, StatusCalls
<1>1. CASE \E p \in Functions : Begun(p)
  <2>1. PICK p \in Functions : Begun(p)
    BY <1>1
  <2>2. /\ AtRest /\ CtlInv' /\ Still /\ fn' = p
        /\ result' = 0 /\ busy' = FALSE /\ polls' = 0
        /\ p = "compress" => rcfg' \in scenario.configs
        /\ p # "compress" => rcfg' = rcfg
        /\ p = "status" => fn \in {"compress", "status"}
        /\ p = "info" => fn = "status"
        /\ p = "bitstream" => fn = "info"
        /\ p = "model" => fn = "bitstream"
    BY <2>1 DEF Begun, Returned, SeenReady
  <2>3. fn' \in {"none", "interrupt", "error_info"} \/ rcfg' \in scenario.configs
    BY <1>0, <2>2 DEF Functions, Infos
  <2> QED
    BY <1>0, <2>2, <2>3 DEF ClientOK, AtRest, Still, xvars, vars, lib
<1>2. CASE Toggled
  BY <1>0, <1>2 DEF Toggled, Kept, ClientOK, client, xvars, vars, lib, AtRest
<1>7. CASE Polling
  <2>1. /\ left = 0 /\ left' = left /\ CtlInv' /\ call' = "rx_status" /\ xfer' = xfer
        /\ xfer.at = "idle"
        /\ UNCHANGED <<fn, rcfg, busy, polls, result, interrupt_signal_enabled, scenario>>
    BY <1>7 DEF Polling, Kept, AtRest, rdcu_rmap_sync_status, client
  <2> QED
    BY <1>0, <2>1 DEF ClientOK
<1>3. CASE Returning
  <2>1. AtRest /\ Still
    BY <1>3 DEF Returning
  <2>2. /\ call' = "none" /\ xfer'.at = "idle" /\ scenario' = scenario
        /\ interrupt_signal_enabled' = interrupt_signal_enabled
    BY <2>1 DEF AtRest, Still, xvars, vars, lib
  <2>3. CASE Adv \/ WorkBegun
    <3>1. CtlInv' /\ busy' = FALSE /\ polls' = 0 /\ UNCHANGED <<fn, rcfg, result>>
      BY <2>3 DEF Adv, Advanced, WorkBegun
    <3> QED
      BY <1>0, <2>2, <3>1 DEF ClientOK
  <2>4. CASE Aborted
    <3>1. result' \in {0, -1}
      BY <1>0, <2>4 DEF Aborted
    <3> QED
      BY <1>0, <2>2, <2>4, <3>1 DEF Aborted, ClientOK
  <2>5. CASE next.op = "syncing" /\ left > 0 /\ PollAgain
    <3>1. polls' \in Nat
      BY <1>0, <2>5 DEF PollAgain
    <3> QED
      BY <1>0, <2>2, <2>5, <3>1 DEF PollAgain, Kept, ClientOK
  <2> QED
    BY <1>3, <2>3, <2>4, <2>5 DEF Returning
<1>4. CASE LocalMove
  <2>1. /\ call' = "none" /\ xfer'.at = "idle" /\ scenario' = scenario
        /\ interrupt_signal_enabled' = interrupt_signal_enabled
        /\ Adv \/ Aborted
    BY <1>4 DEF LocalMove, AtRest, lib
  <2>2. /\ CtlInv' /\ busy' = FALSE /\ polls' = 0 /\ UNCHANGED <<fn, rcfg>>
        /\ result' \in {0, -1}
    BY <1>0, <2>1 DEF Adv, Advanced, Aborted
  <2> QED
    BY <1>0, <2>1, <2>2 DEF ClientOK
<1>5. CASE Calling
  <2>1. next.op \in Kind \cup {"syncing", "send", "fetch"}
    BY <1>5 DEF Calling
  <2>2. /\ CtlInv' /\ left' = left /\ next' = next /\ UNCHANGED <<fn, rcfg, result>>
        /\ left > 0 /\ busy' = TRUE /\ polls' = polls
        /\ UNCHANGED <<interrupt_signal_enabled, scenario>>
    BY <1>5 DEF Calling, Kept
  <2> QED
    BY <1>0, <2>1, <2>2 DEF ClientOK
<1>6. CASE BelowMove \/ RdcuMove
  <2>1. ClientStays
    BY <1>6 DEF BelowMove, RdcuMove
  <2>2. left' = left /\ busy' = busy
    BY <2>1 DEF ClientStays, Kept, client
  <2>3. ~busy' => Idle'
    <3>1. CASE RdcuMove
      <4>1. UNCHANGED <<call, xfer>>
        BY <3>1 DEF RdcuMove, Rdcu, FpgaExecute, FpgaRefuse, FpgaControl, FpgaFinish,
             LinkFault, TargetExecute, TargetReject, LoseCommand, LoseReply,
             DamageReply, lib
      <4> QED
        BY <1>0, <2>2, <4>1
    <3>2. CASE BelowMove
      <4> SUFFICES ASSUME ~busy
                   PROVE  Idle'
        BY <2>2
      <4>1. xfer.at = "idle" /\ (call = "none" \/ (left = 0 /\ call \in StatusCalls))
        BY <1>0
      <4>2. ~XferStep
        BY <4>1 DEF XferStep, SubmitPiece, PieceReturned, PollPending, PollReturned,
                 AllSubmitted
      <4>3. LibStep /\ UNCHANGED xfer
        BY <3>2, <4>2 DEF BelowMove
      <4>4. call # "none"
        BY <4>3, CallKeepsPiece
      <4>5. call' \in StatusCalls \cup {"none"}
        BY <4>1, <4>3, <4>4, LibExact DEF StatusCalls, RxLoop
      <4> QED
        BY <2>2, <4>1, <4>3, <4>4, <4>5
    <3> QED
      BY <1>6, <3>1, <3>2
  <2> QED
    BY <1>0, <2>1, <2>3 DEF ClientStays, Kept, client, ClientOK, StatusCalls
<1> QED
  BY <1>1, <1>2, <1>3, <1>4, <1>5, <1>6, <1>7 DEF CMove

(* Before the first call.                                                  *)
LEMMA ClientOKInit == ASSUME CInit PROVE ClientOK
<1>1. /\ call = "none" /\ xfer.at = "idle" /\ scenario \in Scenarios /\ fn = "none"
      /\ todo = <<>> /\ busy = FALSE /\ polls = 0 /\ result = 0
      /\ interrupt_signal_enabled = TRUE
  BY DEF CInit, XInit, Init, NoXfer
<1>2. "none" \in Progs /\ 0 \in 0 .. Size("none")
  BY DEF Progs, Size, Infos
<1>3. Rest("none", 0) = <<>>
  BY <1>2, RestOf
<1>4. Inside("none", 0, todo, fn)
  BY <1>1, <1>2, <1>3 DEF Inside
<1>5. prog = "none" /\ left = 0
  BY <1>4, ProgIs DEF prog, left
<1>6. CtlInv
  BY <1>4, <1>5 DEF CtlInv
<1> QED
  BY <1>1, <1>6 DEF ClientOK
-----------------------------------------------------------------------------
(* What the operations ask of the layers below.                            *)

(* A transfer of one word at address a.                                    *)
OneWord(k, a) ==
  /\ xfer.at # "idle" =>
       xfer.kind = k /\ xfer.addr = a /\ xfer.size = 4 /\ xfer.mtu = Mtu
  /\ xfer.at \in {"sync", "wait", "polled"} => xfer.done = 0
  /\ xfer.at = "loop" => xfer.done \in {0, 4}
  /\ call \in DataCalls =>
       xfer.at = "sync" /\ cmd.kind = k /\ cmd.addr = a \div 4 /\ cmd.len = 1
  /\ call \in StatusCalls => xfer.at = "polled"
  /\ xfer.at = "idle" => call = "none"

(* The call in progress below is the one of the operation next.            *)
Calls ==
  busy =>
    /\ next.op \in Kind =>
         /\ xfer.at = "idle" /\ call \in {"rx_submit", "tx", "none"}
         /\ Submitting => cmd.kind = next.op /\ cmd.addr = next.reg /\ cmd.len = 1
    /\ next.op = "syncing" =>
         /\ xfer.at = "idle" /\ call \in StatusCalls \cup {"none"}
         /\ call = "none" => ret = pending
    /\ next.op = "send" => OneWord("write", next.reg)
    /\ next.op = "fetch" => OneWord("read", next.reg)

MemInv == XInv /\ LibShape /\ TypeOK /\ PendingCountsSlots /\ LogInv
CBase  == ClientOK /\ Calls /\ MemInv

(* A transfer of one word begins and goes on.                              *)
LEMMA OneWordBegins ==
  ASSUME NEW k, NEW a, call = "none", sync_begin(k, a, 4, Mtu)
  PROVE  OneWord(k, a)'
<1>1. /\ xfer' = IF BadArguments(a, 4, Mtu)
                 THEN [NoXfer EXCEPT !.ret = -1]
                 ELSE [NoXfer EXCEPT !.at = "loop", !.kind = k, !.addr = a,
                                     !.mtu = Mtu, !.size = 4, !.left = 4]
      /\ call' = "none"
  BY DEF sync_begin, vars, lib
<1>2. \/ xfer'.at = "idle"
      \/ /\ xfer'.at = "loop" /\ xfer'.kind = k /\ xfer'.addr = a
         /\ xfer'.mtu = Mtu /\ xfer'.size = 4 /\ xfer'.done = 0
  BY <1>1 DEF NoXfer
<1> QED
  BY <1>1, <1>2 DEF OneWord, DataCalls, StatusCalls

(* The piece of such a transfer is the word, as long as it is not done.    *)
LEMMA OnePiece ==
  ASSUME NEW k, NEW a, XInv, OneWord(k, a), xfer.at # "idle"
  PROVE  /\ xfer.addr = a /\ xfer.kind = k /\ xfer.done \in {0, 4}
         /\ xfer.left = 4 - xfer.done /\ a \in Nat
         /\ xfer.done = 0 => Piece = 4 /\ Piece \div 4 = 1 /\ xfer.addr + xfer.done = a
         /\ xfer.done = 4 => ~FullPiece
         /\ 4 * (a \div 4) = a
<1>1. /\ xfer.at \in XferPoint /\ xfer.addr \in Nat /\ xfer.mtu \in Nat
      /\ xfer.done \in Nat /\ xfer.left \in Nat
  BY DEF XInv, XTypeOK
<1>2. xfer.kind = k /\ xfer.addr = a /\ xfer.size = 4 /\ xfer.mtu = Mtu
      /\ xfer.done \in {0, 4}
  BY <1>1 DEF OneWord, XferPoint
<1>3. xfer.done + xfer.left = 4
  BY <1>2 DEF XInv, XferInBlock
<1>4. Mtu % 4 = 0 /\ a % 4 = 0
  BY <1>2 DEF XInv, XferAligned
<1>5. Mtu \in Nat /\ Mtu >= 4
  BY <1>4, CmpAssumption
<1>6. xfer.done = 0 => Piece = 4
  BY <1>1, <1>2, <1>3, <1>4, <1>5 DEF Piece, FullPiece
<1>7. 4 * (a \div 4) = a
  BY <1>1, <1>2, <1>4, MultiplesOf4
<1>8. xfer.left = 4 - xfer.done
  BY <1>1, <1>2, <1>3
<1>9. xfer.done = 4 => ~FullPiece
  BY <1>1, <1>2, <1>3, <1>5 DEF FullPiece
<1>10. a \in Nat /\ a + 0 = a
  BY <1>1, <1>2
<1> QED
  BY <1>2, <1>6, <1>7, <1>8, <1>9, <1>10

(* What a step of the loops does to a transfer of one word.                *)
Submits(k, a) ==
  /\ xfer.at = "loop" /\ xfer.done = 0 /\ call = "none" /\ call' = "rx_data"
  /\ xfer' = [xfer EXCEPT !.at = "sync"]
  /\ cmd' = [cmd EXCEPT !.kind = k, !.addr = a \div 4, !.len = 1]
  /\ UNCHANGED <<log, ret, mirror, link, remote>>
Waits ==
  /\ xfer.at = "sync" /\ call = "none" /\ UNCHANGED vars
  /\ xfer' = [xfer EXCEPT !.at = "wait", !.sub = ret]
Polls ==
  /\ xfer.at = "wait" /\ rdcu_rmap_sync_status
  /\ xfer' = [xfer EXCEPT !.at = "polled"]
WaitsOn ==
  /\ xfer.at = "polled" /\ call = "none" /\ UNCHANGED vars
  /\ xfer' = [xfer EXCEPT !.at = "wait"]
Goes(r) ==
  /\ call = "none" /\ UNCHANGED vars /\ xfer.done = 0
  /\ xfer' = CASE r > 0 -> [xfer EXCEPT !.at = "loop"]
               [] r < 0 -> [xfer EXCEPT !.at = "idle", !.ret = -1]
               [] r = 0 -> [xfer EXCEPT !.at = "loop", !.done = 4, !.left = 0]
Ends ==
  /\ xfer.at = "loop" /\ xfer.done = 4 /\ call = "none" /\ UNCHANGED vars
  /\ xfer' = [xfer EXCEPT !.at = "idle", !.ret = 0]
OneStep(k, a) ==
  \/ Submits(k, a) \/ Waits \/ Polls \/ WaitsOn \/ Ends
  \/ xfer.at = "sync" /\ Goes(ret)
  \/ xfer.at = "polled" /\ Goes(xfer.sub)
LEMMA OneWordStep ==
  ASSUME NEW k, NEW a, XInv, LibShape, TypeOK, OneWord(k, a), XferStep
  PROVE  OneStep(k, a) /\ OneWord(k, a)'
<1>0. xfer.at # "idle" /\ xfer.ret \in Int /\ xfer.sub \in Int /\ ret \in Int
  BY DEF XferStep, SubmitPiece, PieceReturned, PollPending, PollReturned,
         AllSubmitted, XInv, XTypeOK, LibShape
<1>1. /\ xfer.addr = a /\ xfer.kind = k /\ xfer.done \in {0, 4}
      /\ xfer.left = 4 - xfer.done /\ a \in Nat
      /\ xfer.done = 0 => Piece = 4 /\ Piece \div 4 = 1 /\ xfer.addr + xfer.done = a
      /\ xfer.done = 4 => ~FullPiece
  BY <1>0, OnePiece
<1>2. /\ xfer.at \in {"sync", "wait", "polled"} => xfer.done = 0
      /\ xfer.size = 4 /\ xfer.mtu = Mtu
      /\ call \in DataCalls =>
           xfer.at = "sync" /\ cmd.kind = k /\ cmd.addr = a \div 4 /\ cmd.len = 1
      /\ call \in StatusCalls => xfer.at = "polled"
  BY <1>0 DEF OneWord
<1>3. xfer = [at |-> xfer.at, kind |-> xfer.kind, addr |-> xfer.addr, mtu |-> xfer.mtu,
              done |-> xfer.done, left |-> xfer.left, size |-> xfer.size,
              sub |-> xfer.sub, ret |-> xfer.ret]
  BY DEF XInv, XTypeOK
<1>9. ASSUME NEW r \in Int, xfer.done = 0
      PROVE  Evaluated(r) = CASE r > 0 -> [xfer EXCEPT !.at = "loop"]
               [] r < 0 -> [xfer EXCEPT !.at = "idle", !.ret = -1]
               [] r = 0 -> [xfer EXCEPT !.at = "loop", !.done = 4, !.left = 0]
  <2>1. xfer.done + Piece = 4 /\ xfer.left - Piece = 0
    BY <1>1, <1>9
  <2>2. [xfer EXCEPT !.at = "loop", !.done = @ + Piece, !.left = @ - Piece]
          = [xfer EXCEPT !.at = "loop", !.done = 4, !.left = 0]
    BY <1>3, <2>1
  <2> QED
    BY <2>2 DEF Evaluated
<1>4. CASE SubmitPiece
  <2>1. /\ xfer.at = "loop" /\ (FullPiece \/ xfer.left > 0)
        /\ call = "none" /\ call' = "rx_data"
        /\ cmd' = [cmd EXCEPT !.kind = xfer.kind, !.addr = (xfer.addr + xfer.done) \div 4,
                              !.len = Piece \div 4]
        /\ UNCHANGED <<log, ret, mirror, link, remote>>
        /\ xfer' = [xfer EXCEPT !.at = "sync"]
    BY <1>4 DEF SubmitPiece, rdcu_sync_data
  <2>2. xfer.at = "loop" /\ (FullPiece \/ xfer.left > 0)
    BY <1>4 DEF SubmitPiece
  <2>3. xfer.done = 0
    BY <1>1, <2>2
  <2>4. Submits(k, a)
    BY <1>1, <2>1, <2>2, <2>3 DEF Submits
  <2>5. /\ cmd'.kind = k /\ cmd'.addr = a \div 4 /\ cmd'.len = 1
        /\ xfer'.at = "sync" /\ xfer'.kind = k /\ xfer'.addr = a /\ xfer'.size = 4
        /\ xfer'.mtu = Mtu /\ xfer'.done = 0
    BY <1>1, <1>2, <1>3, <2>4 DEF Submits, LibShape
  <2> QED
    BY <2>1, <2>4, <2>5 DEF OneStep, OneWord, DataCalls, StatusCalls
<1>5. CASE PieceReturned
  <2>1. /\ xfer.at = "sync" /\ call = "none" /\ UNCHANGED vars
        /\ xfer' = IF xfer.kind = "read" /\ FullPiece
                   THEN [xfer EXCEPT !.at = "wait", !.sub = ret]
                   ELSE Evaluated(ret)
    BY <1>5 DEF PieceReturned
  <2>2. xfer.done = 0 /\ Piece = 4 /\ xfer.left = 4 /\ call' = "none"
    BY <1>1, <1>2, <2>1 DEF vars, lib
  <2>3. Waits \/ Goes(ret)
    BY <1>0, <1>9, <2>1, <2>2 DEF Waits, Goes
  <2>4. OneWord(k, a)'
    <3>1. CASE Waits
      BY <1>1, <1>2, <1>3, <2>2, <3>1 DEF Waits, OneWord, DataCalls, StatusCalls
    <3>2. CASE Goes(ret)
      BY <1>0, <1>1, <1>2, <1>3, <2>2, <3>2 DEF Goes, OneWord, DataCalls, StatusCalls
    <3> QED
      BY <2>3, <3>1, <3>2
  <2> QED
    BY <2>1, <2>3, <2>4 DEF OneStep
<1>6. CASE PollPending
  <2>1. xfer.at = "wait" /\ xfer' = [xfer EXCEPT !.at = "polled"] /\ call' = "rx_status"
        /\ rdcu_rmap_sync_status
    BY <1>6 DEF PollPending, rdcu_rmap_sync_status
  <2>2. OneWord(k, a)'
    BY <1>1, <1>2, <1>3, <2>1 DEF OneWord, DataCalls, StatusCalls
  <2> QED
    BY <2>1, <2>2 DEF OneStep, Polls
<1>7. CASE PollReturned
  <2>1. /\ xfer.at = "polled" /\ call = "none" /\ UNCHANGED vars
        /\ xfer' = IF ret > MaxReadPending THEN [xfer EXCEPT !.at = "wait"]
                   ELSE Evaluated(xfer.sub)
    BY <1>7 DEF PollReturned
  <2>2. xfer.done = 0 /\ Piece = 4 /\ xfer.left = 4 /\ call' = "none"
    BY <1>1, <1>2, <2>1 DEF vars, lib
  <2>3. WaitsOn \/ Goes(xfer.sub)
    BY <1>0, <1>9, <2>1, <2>2 DEF WaitsOn, Goes
  <2>4. OneWord(k, a)'
    <3>1. CASE WaitsOn
      BY <1>1, <1>2, <1>3, <2>2, <3>1 DEF WaitsOn, OneWord, DataCalls, StatusCalls
    <3>2. CASE Goes(xfer.sub)
      BY <1>0, <1>1, <1>2, <1>3, <2>2, <3>2 DEF Goes, OneWord, DataCalls, StatusCalls
    <3> QED
      BY <2>3, <3>1, <3>2
  <2> QED
    BY <2>1, <2>3, <2>4 DEF OneStep
<1>8. CASE AllSubmitted
  <2>1. /\ xfer.at = "loop" /\ xfer.left = 0 /\ UNCHANGED vars
        /\ xfer' = [xfer EXCEPT !.at = "idle", !.ret = 0]
    BY <1>8 DEF AllSubmitted
  <2>2. xfer.done = 4
    BY <1>1, <2>1
  <2>3. call = "none" /\ call' = "none"
    BY <1>2, <2>1 DEF TypeOK, CallPoint, RxLoop, DataCalls, StatusCalls, vars, lib
  <2>4. xfer'.at = "idle"
    BY <1>3, <2>1
  <2> QED
    BY <2>1, <2>2, <2>3, <2>4 DEF OneStep, Ends, OneWord, DataCalls, StatusCalls
<1> QED
  BY <1>4, <1>5, <1>6, <1>7, <1>8 DEF XferStep

(* The steps that leave call, command, transfer and log alone.             *)
LEMMA CallsUnmoved ==
  ASSUME Calls, UNCHANGED <<call, cmd, ret, pending, xfer>>,
         busy' => busy /\ next' = next
  PROVE  Calls'
BY DEF Calls, OneWord, Submitting

(* What is called and what has been returned match the operation next.     *)
LEMMA CallsStep == ASSUME CBase, CMove PROVE Calls'
<1>0. ClientOK /\ Calls /\ XInv /\ LibShape /\ TypeOK
  BY DEF CBase, MemInv
<1>1. CASE (\E p \in Functions : Begun(p)) \/ LocalMove
  <2>1. busy' = FALSE
    BY <1>1 DEF Begun, LocalMove, Adv, Aborted
  <2> QED
    BY <2>1 DEF Calls
<1>2. CASE Toggled
  BY <1>0, <1>2, CallsUnmoved DEF Toggled, Kept, xvars, vars, lib, log, client
<1>7. CASE Polling
  <2>1. ~busy'
    BY <1>0, <1>7 DEF Polling, ClientOK, client
  <2> QED
    BY <2>1 DEF Calls
<1>3. CASE Returning
  <2>1. busy' = FALSE
    BY <1>3 DEF Returning, Adv, Aborted, WorkBegun, PollAgain
  <2> QED
    BY <2>1 DEF Calls
<1>4. CASE Calling
  <2>1. next' = next /\ AtRest
    BY <1>4 DEF Calling, Kept
  <2>2. CASE next.op \in Kind /\ rdcu_sync(next.op, next.reg) /\ UNCHANGED xfer
    <3>1. \/ /\ call' = "rx_submit" /\ cmd'.kind = next.op
             /\ cmd'.addr = next.reg /\ cmd'.len = 1
          \/ call' = "none"
      BY <2>2 DEF rdcu_sync, Prepare, Return
    <3>2. next.op \notin {"syncing", "send", "fetch"} /\ xfer'.at = "idle"
      BY <2>1, <2>2 DEF Kind, AtRest
    <3> QED
      BY <2>1, <3>1, <3>2 DEF Calls, Submitting
  <2>3. CASE next.op = "syncing" /\ rdcu_rmap_sync_status /\ UNCHANGED xfer
    <3>1. call' = "rx_status" /\ xfer'.at = "idle"
      BY <2>1, <2>3 DEF rdcu_rmap_sync_status, AtRest
    <3> QED
      BY <2>1, <2>3, <3>1 DEF Calls, Kind, StatusCalls
  <2>4. CASE next.op = "send" /\ sync_begin("write", next.reg, 4, Mtu)
    <3>1. OneWord("write", next.reg)'
      BY <2>1, <2>4, OneWordBegins DEF AtRest
    <3> QED
      BY <2>1, <2>4, <3>1 DEF Calls, Kind
  <2>5. CASE next.op = "fetch" /\ sync_begin("read", next.reg, 4, Mtu)
    <3>1. OneWord("read", next.reg)'
      BY <2>1, <2>5, OneWordBegins DEF AtRest
    <3> QED
      BY <2>1, <2>5, <3>1 DEF Calls, Kind
  <2> QED
    BY <1>4, <2>2, <2>3, <2>4, <2>5 DEF Calling
<1>5. CASE BelowMove
  <2>1. next' = next /\ busy' = busy
    BY <1>5 DEF BelowMove, ClientStays, Kept, client
  <2>2. CASE LibStep /\ UNCHANGED xfer
    <3>1. \/ /\ call \in RxLoop /\ cmd' = cmd /\ ret' = ret
             /\ \/ call' = call
                \/ call = "rx_status" /\ call' = "status"
                \/ call = "rx_data" /\ call' = "grab"
                \/ call = "rx_submit" /\ call' = "tx"
          \/ /\ call = "grab" /\ call' = "rx_submit"
             /\ cmd'.kind = cmd.kind /\ cmd'.addr = cmd.addr /\ cmd'.len = cmd.len
          \/ call \in {"grab", "tx"} /\ call' = "none"
          \/ call = "status" /\ call' = "none" /\ ret' = pending /\ pending' = pending
      BY <2>2, LibExact
    <3>2. \A k, a : OneWord(k, a) => OneWord(k, a)'
      BY <2>2, <3>1 DEF OneWord, DataCalls, StatusCalls, RxLoop
    <3>3. CASE next.op \in Kind
      BY <1>0, <2>1, <2>2, <3>1, <3>3 DEF Calls, Submitting, RxLoop, Kind
    <3>4. CASE next.op = "syncing"
      BY <1>0, <2>1, <2>2, <3>1, <3>4 DEF Calls, StatusCalls, RxLoop, Kind
    <3>5. CASE next.op \notin Kind \cup {"syncing"}
      BY <1>0, <2>1, <3>2, <3>5 DEF Calls
    <3> QED
      BY <3>3, <3>4, <3>5
  <2>3. CASE XferStep
    <3>1. xfer.at # "idle"
      BY <2>3 DEF XferStep, SubmitPiece, PieceReturned, PollPending, PollReturned,
                  AllSubmitted
    <3>2. next.op \notin Kind \cup {"syncing"} \/ ~busy
      BY <1>0, <3>1 DEF Calls
    <3>5. ASSUME NEW k, NEW a, OneWord(k, a) PROVE OneWord(k, a)'
      BY <1>0, <2>3, <3>5, OneWordStep
    <3>6. \A k : OneWord(k, next.reg) => OneWord(k, next.reg)'
      BY <2>1, <3>5 DEF OneWord
    <3> QED
      BY <1>0, <2>1, <3>2, <3>6 DEF Calls
  <2> QED
    BY <1>5, <2>2, <2>3 DEF BelowMove
<1>6. CASE RdcuMove
  <2>1. UNCHANGED <<call, cmd, ret, pending, xfer>>
    BY <1>6 DEF RdcuMove, Rdcu, FpgaExecute, FpgaRefuse, FpgaControl, FpgaFinish,
             LinkFault, TargetExecute, TargetReject, LoseCommand, LoseReply,
             DamageReply, lib, log
  <2>2. busy' => busy /\ next' = next
    BY <1>6 DEF RdcuMove, ClientStays, Kept, client
  <2> QED
    BY <1>0, <2>1, <2>2, CallsUnmoved
<1> QED
  BY <1>1, <1>2, <1>3, <1>4, <1>5, <1>6, <1>7 DEF CMove

(* The client writes words to its mirror.                                  *)
LEMMA LocalType ==
  ASSUME ClientOK, TypeOK, LocalMove
  PROVE  mirror' \in [Addr -> Value]
<1>0. /\ mirror \in [Addr -> Value] /\ left > 0 /\ CtlInv /\ Head(todo) = next
  BY TodoIs DEF ClientOK, TypeOK, LocalMove
<1>1. CTRL \in Addr /\ DataWord \in Addr /\ ModelWord \in Addr
  BY Registers
<1>2. mirror[CTRL] \in Value
  BY <1>0, <1>1
<1>3. \A b \in {START, INTERRUPT, IRQ_ENABLE} :
        SetBit(mirror[CTRL], b) \in Value /\ ClearBit(mirror[CTRL], b) \in Value
  BY <1>2, WordAssumption
<1>7. next.op # "load" => /\ next.op \in {"set", "clear", "irq", "store"}
                          /\ mirror' = LocalValue(mirror)
  BY DEF LocalMove
<1>4. CASE next.op \in {"set", "clear"}
  <2>1. next.bit \in {START, INTERRUPT}
    BY <1>0, <1>4, OpTable
  <2>2. mirror' = [mirror EXCEPT ![CTRL] = IF next.op = "set"
                     THEN SetBit(mirror[CTRL], next.bit)
                     ELSE ClearBit(mirror[CTRL], next.bit)]
    BY <1>0, <1>4, <1>7 DEF LocalValue
  <2> QED
    BY <1>0, <1>1, <1>3, <2>1, <2>2
<1>5. CASE next.op = "irq"
  <2>1. mirror' = [mirror EXCEPT ![CTRL] = IF interrupt_signal_enabled
                     THEN SetBit(mirror[CTRL], IRQ_ENABLE)
                     ELSE ClearBit(mirror[CTRL], IRQ_ENABLE)]
    BY <1>0, <1>5, <1>7 DEF LocalValue
  <2> QED
    BY <1>0, <1>1, <1>3, <2>1
<1>6. CASE next.op \in {"load", "store"}
  <2>1. fn = "compress"
    BY <1>0, <1>6, OpTable, TodoIs DEF At
  <2>2. /\ rcfg.regs \in [1 .. N -> Value] /\ rcfg.data \in Value \cup {NULL}
        /\ rcfg.model \in Value \cup {NULL} /\ rcfg.refused \in 0 .. N
    BY <2>1, ScenarioAssumption DEF ClientOK, N
  <2>3. CASE next.op = "store"
    <3>1. mirror' = IF Given(next.reg)
                    THEN [mirror EXCEPT ![next.reg \div 4] = Buffer(next.reg)]
                    ELSE mirror
      BY <1>0, <1>7, <2>3 DEF LocalValue
    <3>2. Given(next.reg) => Buffer(next.reg) \in Value
      BY <2>2 DEF Given, Buffer
    <3>3. next.reg \div 4 \in Addr
      BY <1>0, <1>1, <2>3, OpTable DEF DataWord, ModelWord
    <3> QED
      BY <1>0, <3>1, <3>2, <3>3
  <2>4. CASE next.op = "load"
    <3>0. Loaded \in 0 .. N /\ N \in Nat
      BY <2>2, Registers DEF Loaded, N
    <3>1. mirror' = [w \in Addr |-> IF \E i \in 1 .. Loaded : ConfigRegs[i] = w
                       THEN rcfg.regs[CHOOSE i \in 1 .. Loaded : ConfigRegs[i] = w]
                       ELSE mirror[w]]
      BY <2>4 DEF LocalMove, LoadedMirror
    <3>2. ASSUME NEW w \in Addr, \E i \in 1 .. Loaded : ConfigRegs[i] = w
          PROVE  rcfg.regs[CHOOSE i \in 1 .. Loaded : ConfigRegs[i] = w] \in Value
      <4>1. (CHOOSE i \in 1 .. Loaded : ConfigRegs[i] = w) \in 1 .. N
        BY <3>0, <3>2
      <4> QED
        BY <2>2, <4>1
    <3> QED
      BY <1>0, <3>1, <3>2
  <2> QED
    BY <1>6, <2>3, <2>4
<1> QED
  BY <1>4, <1>5, <1>6, <1>7
-----------------------------------------------------------------------------
(* The packets on the link, as sets.                                       *)
Elems(q) == {q[i] : i \in 1 .. Len(q)}
Cmds     == Elems(cmds)
Replies  == Elems(replies)

(* The elements of a queue that grows or shrinks.                          *)
LEMMA ElemsOf ==
  ASSUME NEW S, NEW q \in Seq(S)
  PROVE  /\ Elems(q) \subseteq S
         /\ (q = <<>>) <=> (Elems(q) = {})
         /\ q # <<>> => Head(q) \in Elems(q) /\ Elems(q) = Elems(Tail(q)) \cup {Head(q)}
         /\ \A e \in S : Elems(Append(q, e)) = Elems(q) \cup {e}
<1>1. Len(q) \in Nat /\ \A i \in 1 .. Len(q) : q[i] \in S
  BY LenProperties, ElementOfSeq
<1>2. (q = <<>>) <=> (Len(q) = 0)
  BY EmptySeq
<1>3. (q = <<>>) <=> (Elems(q) = {})
  <2>1. Len(q) # 0 => q[1] \in Elems(q)
    BY <1>1 DEF Elems
  <2>2. Len(q) = 0 => Elems(q) = {}
    BY DEF Elems
  <2> QED
    BY <1>2, <2>1, <2>2
<1>4. ASSUME q # <<>>
      PROVE  Head(q) \in Elems(q) /\ Elems(q) = Elems(Tail(q)) \cup {Head(q)}
  <2>1. /\ Len(q) \in Nat \ {0} /\ Len(Tail(q)) = Len(q) - 1 /\ Head(q) = q[1]
        /\ \A i \in 1 .. Len(Tail(q)) : Tail(q)[i] = q[i + 1]
    BY <1>4, HeadAndTail
  <2>2. Head(q) \in Elems(q)
    BY <2>1 DEF Elems
  <2>3. ASSUME NEW e \in Elems(Tail(q)) PROVE e \in Elems(q)
    <3>1. PICK i \in 1 .. Len(Tail(q)) : e = Tail(q)[i]
      BY <2>3 DEF Elems
    <3>2. e = q[i + 1] /\ i + 1 \in 1 .. Len(q)
      BY <2>1, <3>1
    <3> QED
      BY <3>2 DEF Elems
  <2>4. ASSUME NEW e \in Elems(q) PROVE e \in Elems(Tail(q)) \cup {Head(q)}
    <3>1. PICK i \in 1 .. Len(q) : e = q[i]
      BY <2>4 DEF Elems
    <3>2. CASE i = 1
      BY <2>1, <3>1, <3>2
    <3>3. CASE i # 1
      <4>1. i - 1 \in 1 .. Len(Tail(q)) /\ Tail(q)[i - 1] = q[i - 1 + 1] /\ i - 1 + 1 = i
        BY <2>1, <3>3
      <4> QED
        BY <3>1, <4>1 DEF Elems
    <3> QED
      BY <3>2, <3>3
  <2> QED
    BY <2>2, <2>3, <2>4
<1>5. ASSUME NEW e \in S PROVE Elems(Append(q, e)) = Elems(q) \cup {e}
  <2>1. /\ Len(Append(q, e)) = Len(q) + 1 /\ Append(q, e)[Len(q) + 1] = e
        /\ \A i \in 1 .. Len(q) : Append(q, e)[i] = q[i]
    BY Appended
  <2>2. ASSUME NEW x \in Elems(Append(q, e)) PROVE x \in Elems(q) \cup {e}
    <3>1. PICK i \in 1 .. Len(Append(q, e)) : x = Append(q, e)[i]
      BY <2>2 DEF Elems
    <3>2. i \in 1 .. Len(q) \/ i = Len(q) + 1
      BY <1>1, <2>1, <3>1
    <3> QED
      BY <2>1, <3>1, <3>2 DEF Elems
  <2>3. ASSUME NEW x \in Elems(q) PROVE x \in Elems(Append(q, e))
    <3>1. PICK i \in 1 .. Len(q) : x = q[i]
      BY <2>3 DEF Elems
    <3>2. i \in 1 .. Len(Append(q, e)) /\ x = Append(q, e)[i]
      BY <1>1, <2>1, <3>1
    <3> QED
      BY <3>2 DEF Elems
  <2>4. e \in Elems(Append(q, e))
    <3>1. Len(q) + 1 \in 1 .. Len(Append(q, e))
      BY <1>1, <2>1
    <3> QED
      BY <2>1, <3>1 DEF Elems
  <2> QED
    BY <2>2, <2>3, <2>4
<1>6. Elems(q) \subseteq S
  BY <1>1 DEF Elems
<1> QED
  BY <1>3, <1>4, <1>5, <1>6

(* One word is fetched and stored.                                         *)
LEMMA OneWordOf ==
  ASSUME NEW m \in [Addr -> Value], NEW a \in Addr
  PROVE  /\ WordsAt(m, a, 1) = <<m[a]>> /\ WordsAt(m, a, 1) # <<>>
         /\ Len(WordsAt(m, a, 1)) = 1 /\ WordsAt(m, a, 1)[1] = m[a]
         /\ \A d : Len(d) = 1 => Stored(m, a, d) = [m EXCEPT ![a] = d[1]]
         /\ Stored(m, a, <<>>) = m
<1>1. WordsAt(m, a, 1) = [i \in 1 .. 1 |-> m[a + i - 1]]
  BY DEF WordsAt
<1>2. a \in Int /\ a + 1 - 1 = a
  BY MemAssumption DEF Addr
<1>3. WordsAt(m, a, 1) = <<m[a]>>
  BY <1>1, <1>2
<1>4. ASSUME NEW d, Len(d) = 1 PROVE Stored(m, a, d) = [m EXCEPT ![a] = d[1]]
  <2>1. Stored(m, a, d) = [w \in Addr |-> IF a <= w /\ w < a + 1 THEN d[w - a + 1] ELSE m[w]]
    BY <1>4 DEF Stored
  <2>2. \A w \in Addr : w \in Int /\ (a <= w /\ w < a + 1 <=> w = a) /\ a - a + 1 = 1
    BY <1>2, MemAssumption DEF Addr
  <2>3. Stored(m, a, d) = [w \in Addr |-> IF w = a THEN d[1] ELSE m[w]]
    BY <2>1, <2>2
  <2> QED
    BY <2>3
<1>5. Stored(m, a, <<>>) = m
  <2>1. \A w \in Addr : ~(a <= w /\ w < a + 0)
    BY <1>2, MemAssumption DEF Addr
  <2>2. Stored(m, a, <<>>) = [w \in Addr |-> m[w]]
    BY <2>1 DEF Stored
  <2> QED
    BY <2>2
<1> QED
  BY <1>3, <1>4, <1>5

(* The words that are read and written, one word per packet.               *)
ReadWords  == {STATUS, CmpWord, NewWord} \cup InfoSet
WriteWords == {CTRL, DataWord, ModelWord} \cup ConfigSet
CmdOK(c) ==
  /\ c.len = 1
  /\ c.kind = "read" => c.addr \in ReadWords
  /\ c.kind = "write" => c.addr \in WriteWords /\ Len(c.data) = 1
Traffic ==
  /\ \A c \in Cmds : CmdOK(c)
  /\ \A r \in Replies : r.data # <<>> => Len(r.data) = 1 /\ r.addr \in ReadWords
CInv == CBase /\ Traffic

(* These words lie apart.                                                  *)
LEMMA WordsApart ==
  /\ \A w \in ReadWords \cap WriteWords : w = NewWord /\ w = ModelWord
  /\ CTRL \notin ConfigSet /\ CTRL \notin {DataWord, ModelWord}
  /\ CTRL \notin ReadWords /\ DataWord \notin ReadWords
  /\ ConfigSet \cap ReadWords = {}
  /\ {DataWord, ModelWord, CmpWord, NewWord} \cap (ConfigSet \cup InfoSet) = {}
  /\ DataWord \notin {ModelWord, CmpWord, NewWord} /\ CmpWord \notin {ModelWord, NewWord}
  /\ STATUS \notin InfoSet /\ STATUS \notin {CmpWord, NewWord}
  /\ STATUS \notin WriteWords /\ InfoSet \cap WriteWords = {} /\ CmpWord \notin WriteWords
  /\ ReadWords \subseteq Addr /\ WriteWords \subseteq Addr
  /\ InfoRegs[1] \in InfoSet /\ ConfigRegs[1] \in ConfigSet
  /\ \A i \in 1 .. N : ConfigRegs[i] \in ConfigSet
  /\ \A i \in 1 .. InfoCount : InfoRegs[i] \in InfoSet
  /\ \A w \in ConfigSet : \E i \in 1 .. N : ConfigRegs[i] = w
  /\ \A w \in InfoSet : \E i \in 1 .. InfoCount : InfoRegs[i] = w
<1>1. /\ ConfigSet \subseteq WrRegs /\ InfoSet \subseteq RdRegs
      /\ \A i \in 1 .. N : ConfigRegs[i] \in ConfigSet
      /\ \A i \in 1 .. InfoCount : InfoRegs[i] \in InfoSet
      /\ \A w \in ConfigSet : \E i \in 1 .. N : ConfigRegs[i] = w
      /\ \A w \in InfoSet : \E i \in 1 .. InfoCount : InfoRegs[i] = w
  BY Registers DEF ConfigSet, InfoSet
<1>2. 1 \in 1 .. N /\ 1 \in 1 .. InfoCount
  BY Registers
<1>3. /\ WrRegs \cap RdRegs = {}
      /\ {DataWord, ModelWord, CmpWord, NewWord} \cap (WrRegs \cup RdRegs) = {}
      /\ DataWord \notin {ModelWord, CmpWord, NewWord} /\ CmpWord \notin {ModelWord, NewWord}
      /\ CTRL \in WrRegs /\ STATUS \in RdRegs /\ CTRL \notin ConfigSet
      /\ STATUS \notin InfoSet
      /\ WrRegs \subseteq Addr /\ RdRegs \subseteq Addr
      /\ {DataWord, ModelWord, CmpWord, NewWord} \subseteq Addr
  BY Registers, MemAssumption
<1> QED
  BY <1>1, <1>2, <1>3 DEF ReadWords, WriteWords

(* The command a call submits is the one its operation is about.           *)
SubKind == IF next.op \in Kind THEN next.op
           ELSE IF next.op = "send" THEN "write" ELSE "read"
SubAddr == IF next.op \in Kind THEN next.reg ELSE next.reg \div 4
LEMMA SubmitsWord ==
  ASSUME CBase, Submitting
  PROVE  /\ busy /\ left > 0 /\ next.op \in Kind \cup {"send", "fetch"}
         /\ cmd.kind = SubKind /\ cmd.addr = SubAddr /\ cmd.len = 1
         /\ cmd.kind = "read" => cmd.addr \in ReadWords
         /\ cmd.kind = "write" => cmd.addr \in WriteWords
         /\ cmd.addr \in Addr /\ cmd \in Command
<1>0. ClientOK /\ Calls /\ TypeOK /\ CtlInv
  BY DEF CBase, MemInv, ClientOK
<1>1. call \in {"rx_submit", "tx"}
  BY DEF Submitting
<1>2. busy /\ left > 0 /\ next.op \in Kind \cup {"syncing", "send", "fetch"}
  BY <1>0, <1>1 DEF ClientOK
<1>3. next.op # "syncing"
  BY <1>0, <1>1, <1>2 DEF Calls, StatusCalls
<1>4. cmd.kind = SubKind /\ cmd.addr = SubAddr /\ cmd.len = 1
  <2>1. CASE next.op \in Kind
    BY <1>0, <1>2, <2>1 DEF Calls, SubKind, SubAddr
  <2>2. CASE next.op = "send"
    BY <1>0, <1>1, <1>2, <2>2 DEF Calls, OneWord, DataCalls, SubKind, SubAddr, Kind
  <2>3. CASE next.op = "fetch"
    BY <1>0, <1>1, <1>2, <2>3 DEF Calls, OneWord, DataCalls, SubKind, SubAddr, Kind
  <2> QED
    BY <1>2, <1>3, <2>1, <2>2, <2>3
<1>5. cmd \in Command /\ cmd.addr \in Addr
  BY <1>0 DEF TypeOK, Command
<1>6. /\ N \in Nat /\ InfoCount \in Nat /\ 1 <= InfoCount /\ left \in Nat
      /\ left <= Size(prog)
  BY <1>0, TodoIs
<1>7. CASE next.op = "read"
  <2>1. next.reg \in ReadWords
    <3>1. CASE prog \in Infos /\ left > 1
      <4>1. left <= InfoCount + 1
        BY <1>6, <3>1 DEF Size, Infos
      <4>2. InfoCount + 2 - left \in 1 .. InfoCount
        BY <1>6, <3>1, <4>1
      <4>3. next.reg = InfoRegs[InfoCount + 2 - left]
        BY <1>0, <1>2, <1>7, <3>1, OpTable DEF Infos
      <4> QED
        BY <4>2, <4>3, WordsApart DEF ReadWords
    <3>2. CASE At("compress", N + 15)
      BY <1>0, <1>2, <1>7, <3>2, OpTable, WordsApart DEF At, ReadWords
    <3>3. CASE At("status", 2)
      BY <1>0, <1>2, <1>7, <3>3, OpTable DEF At, ReadWords
    <3> QED
      BY <1>0, <1>2, <1>7, <3>1, <3>2, <3>3, OpTable
  <2> QED
    BY <1>2, <1>3, <1>4, <1>5, <1>7, <2>1 DEF SubKind, SubAddr, Kind
<1>8. CASE next.op = "write"
  <2>1. next.reg \in WriteWords
    <3>1. CASE prog = "compress" /\ left > 11
      <4>1. left \in 12 .. (N + 11)
        BY <1>0, <1>2, <1>6, <1>8, <3>1, OpTable DEF At
      <4>2. N + 12 - left \in 1 .. N
        BY <1>6, <4>1
      <4>3. next.reg = ConfigRegs[N + 12 - left]
        BY <1>0, <1>2, <1>8, <3>1, OpTable
      <4> QED
        BY <4>2, <4>3, WordsApart DEF WriteWords
    <3>2. CASE ~(prog = "compress" /\ left > 11)
      <4>1. next.reg = CTRL
        BY <1>0, <1>2, <1>8, <3>2, OpTable
      <4> QED
        BY <4>1 DEF WriteWords
    <3> QED
      BY <3>1, <3>2
  <2> QED
    BY <1>2, <1>3, <1>4, <1>5, <1>8, <2>1 DEF SubKind, SubAddr, Kind
<1>9. CASE next.op \in {"send", "fetch"}
  <2>1. next.op = "send" => next.reg \div 4 \in WriteWords
    BY <1>0, <1>2, OpTable DEF WriteWords, DataWord, ModelWord
  <2>2. next.op = "fetch" => next.reg \div 4 \in ReadWords
    BY <1>0, <1>2, OpTable DEF ReadWords, CmpWord, NewWord
  <2> QED
    BY <1>2, <1>3, <1>4, <1>5, <1>9, <2>1, <2>2 DEF SubKind, SubAddr, Kind
<1> QED
  BY <1>2, <1>3, <1>7, <1>8, <1>9 DEF Kind

(* The steps of the RMAP layer, seen from the link and the mirror.         *)
Sent(c) ==
  /\ c \in Command /\ c.kind = cmd.kind /\ c.addr = cmd.addr /\ c.tid = cmd.tid
  /\ CmdOK(c)
  /\ c.kind = "write" => c.data[1] = mirror[c.addr]
  /\ cmds' = Append(cmds, c) /\ Cmds' = Cmds \cup {c} /\ Replies' = Replies
  /\ UNCHANGED <<replies, mirror, remote, log>>
  /\ call = "tx" /\ call' = "none" /\ ret' = 0
NotSent ==
  /\ Len(cmds) >= TxDescriptors \/ "tx" \in Faults
  /\ UNCHANGED <<link, mirror, remote, log>>
  /\ call = "tx" /\ call' = "none" /\ ret' = -1
Accepted(r) ==
  /\ r \in Replies /\ Replies = Replies' \cup {r} /\ r.form \in {"ok", "rejected"}
  /\ mirror' = IF r.data = <<>> THEN mirror ELSE [mirror EXCEPT ![r.addr] = r.data[1]]
  /\ UNCHANGED <<cmds, remote, cmd, ret, call>> /\ call \in RxLoop
Skipped(r) ==
  /\ r \in Replies /\ Replies = Replies' \cup {r} /\ r.form \notin {"ok", "rejected"}
  /\ UNCHANGED <<cmds, mirror, remote, cmd, ret>> /\ call \in RxLoop
Inner ==
  UNCHANGED <<link, mirror, remote>> /\ call \notin {"none", "tx"}
LEMMA LibViews ==
  ASSUME CInv, LibStep
  PROVE  \/ \E c : Sent(c)
         \/ NotSent \/ Inner
         \/ \E r : Accepted(r) \/ Skipped(r)
<1>0. CBase /\ TypeOK /\ LogInv /\ Traffic
  BY DEF CInv, CBase, MemInv
<1>a. /\ mirror \in [Addr -> Value] /\ cmds \in Seq(Command) /\ replies \in Seq(Reply)
      /\ cmd \in Command
  BY <1>0 DEF TypeOK
<1>b. ASSUME replies # <<>>
      PROVE  /\ Head(replies) \in Replies /\ Head(replies) \in Reply
             /\ trans_log_get_addr(Head(replies).tid) = Head(replies).addr
             /\ Head(replies).addr \in Addr /\ Head(replies).addr # NULL
  <2>1. Head(replies) \in Replies /\ Head(replies) \in Reply
    BY <1>a, <1>b, ElemsOf DEF Replies
  <2>2. HoldsSlot(Head(replies))
    BY <1>0, <2>1 DEF LogInv, AllHoldSlots, Replies, Elems
  <2>3. Head(replies).addr \in Addr /\ Head(replies).addr # NULL
    BY <2>1, NullAssumption DEF Reply
  <2> QED
    BY <2>1, <2>2, <2>3 DEF HoldsSlot, trans_log_get_addr
<1>c. ASSUME replies # <<>>, replies' = Tail(replies)
      PROVE  Replies = Replies' \cup {Head(replies)}
  <2>1. Elems(replies) = Elems(Tail(replies)) \cup {Head(replies)}
    BY <1>a, <1>c, ElemsOf
  <2> QED
    BY <1>c, <2>1 DEF Replies
<1>1. CASE RxSkip
  <2>1. /\ call \in RxLoop /\ replies # <<>> /\ ~Usable(Head(replies))
        /\ replies' = Tail(replies) /\ UNCHANGED <<cmds, mirror, remote, cmd, ret>>
    BY <1>1 DEF RxSkip, lib
  <2>2. Head(replies).form = "garbled"
    BY <1>b, <2>1 DEF Usable
  <2> QED
    BY <1>b, <1>c, <2>1, <2>2 DEF Skipped
<1>2. CASE RxDropTransaction
  <2>1. /\ call \in RxLoop /\ replies # <<>> /\ Head(replies).form \in {"bad_len", "bad_crc"}
        /\ replies' = Tail(replies) /\ UNCHANGED <<cmds, mirror, remote, cmd, ret>>
    BY <1>2 DEF RxDropTransaction
  <2> QED
    BY <1>b, <1>c, <2>1 DEF Skipped
<1>3. CASE RxAccept
  <2>1. /\ call \in RxLoop /\ replies # <<>> /\ Head(replies).form \in {"ok", "rejected"}
        /\ mirror' = Stored(mirror, Head(replies).addr, Head(replies).data)
        /\ replies' = Tail(replies) /\ UNCHANGED <<cmds, remote, cmd, ret, call>>
    BY <1>3, <1>b DEF RxAccept
  <2> DEFINE r == Head(replies)
  <2>2. r \in Replies /\ r.addr \in Addr
    BY <1>b, <2>1
  <2>3. Replies = Replies' \cup {r}
    BY <1>c, <2>1
  <2>4. r.data = <<>> \/ Len(r.data) = 1
    BY <1>0, <2>2 DEF Traffic
  <2> HIDE DEF r
  <2>5. mirror' = IF r.data = <<>> THEN mirror ELSE [mirror EXCEPT ![r.addr] = r.data[1]]
    <3>1. mirror' = Stored(mirror, r.addr, r.data)
      BY <2>1 DEF r
    <3>2. /\ \A d : Len(d) = 1 => Stored(mirror, r.addr, d) = [mirror EXCEPT ![r.addr] = d[1]]
          /\ Stored(mirror, r.addr, <<>>) = mirror
      BY <1>a, <2>2, OneWordOf
    <3> QED
      BY <2>4, <3>1, <3>2
  <2> QED
    BY <2>1, <2>2, <2>3, <2>5 DEF Accepted, r
<1>4. CASE RxEmpty \/ RxAllocFail
  BY <1>4 DEF RxEmpty, RxAllocFail, Inner, RxLoop
<1>5. CASE SyncDataGrab
  BY <1>5 DEF SyncDataGrab, Inner
<1>6. CASE SyncStatusReturn
  BY <1>6 DEF SyncStatusReturn, Inner
<1>7. CASE rdcu_submit_tx
  <2>1. call = "tx" /\ call' = "none" /\ UNCHANGED <<log, mirror, replies, remote>>
    BY <1>7 DEF rdcu_submit_tx, Return
  <2>2. /\ cmd.len = 1 /\ cmd.addr \in Addr
        /\ cmd.kind = "read" => cmd.addr \in ReadWords
        /\ cmd.kind = "write" => cmd.addr \in WriteWords
    BY <1>0, <2>1, SubmitsWord DEF Submitting
  <2> DEFINE d == IF cmd.kind = "write" THEN WordsAt(mirror, cmd.addr, cmd.len) ELSE <<>>
             c == [cmd EXCEPT !.data = d]
  <2>3. CASE cmds' = Append(cmds, c) /\ Return(0)
    <3>1. d \in Seq(Value) /\ (cmd.kind = "write" => Len(d) = 1 /\ d[1] = mirror[cmd.addr])
      <4>1. cmd.kind = "write" => d = <<mirror[cmd.addr]>>
        BY <1>a, <2>2, OneWordOf
      <4>2. mirror[cmd.addr] \in Value
        BY <1>a, <2>2
      <4> HIDE DEF d
      <4>3. cmd.kind = "write" => d \in Seq(Value) /\ Len(d) = 1 /\ d[1] = mirror[cmd.addr]
        <5>1. \A v \in Value : <<v>> \in Seq(Value) /\ Len(<<v>>) = 1 /\ <<v>>[1] = v
          OBVIOUS
        <5> QED
          BY <4>1, <4>2, <5>1
      <4>4. cmd.kind # "write" => d = <<>> /\ <<>> \in Seq(Value)
        BY DEF d
      <4> QED
        BY <4>3, <4>4
    <3> HIDE DEF d
    <3>2. /\ c \in Command /\ c.kind = cmd.kind /\ c.addr = cmd.addr /\ c.tid = cmd.tid
          /\ c.len = 1 /\ c.data = d
      BY <1>a, <2>2, <3>1 DEF Command
    <3> HIDE DEF c
    <3>3. CmdOK(c)
      BY <2>2, <3>1, <3>2 DEF CmdOK
    <3>4. Cmds' = Cmds \cup {c} /\ Replies' = Replies
      <4>1. Elems(Append(cmds, c)) = Elems(cmds) \cup {c}
        BY <1>a, <3>2, ElemsOf
      <4> QED
        BY <2>1, <2>3, <4>1 DEF Cmds, Replies
    <3> QED
      BY <2>1, <2>3, <3>1, <3>2, <3>3, <3>4 DEF Sent, Return
  <2>4. CASE /\ Len(cmds) >= TxDescriptors \/ "tx" \in Faults
             /\ Return(-1) /\ UNCHANGED cmds
    BY <2>1, <2>4 DEF NotSent, Return, link
  <2> QED
    BY <1>7, <2>3, <2>4 DEF rdcu_submit_tx
<1> QED
  BY <1>1, <1>2, <1>3, <1>4, <1>5, <1>6, <1>7 DEF LibStep, rdcu_process_rx

(* The steps of the RDCU, seen from the link and the memories.             *)
Taken(c, f, d) ==
  /\ c \in Cmds /\ c \in Command /\ Cmds = Cmds' \cup {c}
  /\ cmds # <<>> /\ c = Head(cmds) /\ cmds' = Tail(cmds)
  /\ Answer(c, f, d) \in Reply /\ Replies' = Replies \cup {Answer(c, f, d)}
  /\ replies' = Append(replies, Answer(c, f, d))
  /\ UNCHANGED <<lib, mirror, xfer>>
Executed(c) ==
  /\ c.addr # CTRL /\ ~Blocked(c) /\ fpga' = fpga
  /\ \/ /\ c.kind = "write" /\ remote' = [remote EXCEPT ![c.addr] = c.data[1]]
        /\ Taken(c, "ok", <<>>)
     \/ /\ c.kind = "read" /\ remote' = remote /\ Taken(c, "ok", <<remote[c.addr]>>)
Refused(c) ==
  Blocked(c) /\ Taken(c, "rejected", <<>>) /\ UNCHANGED <<remote, fpga>>
Raw(v)  == fpga.after_raw /\ ~HasBit(v, INTERRUPT)
Free(v) == HasBit(v, INTERRUPT) \/ fpga.state = "idle"
Controlled(c, v) ==
  /\ c.addr = CTRL /\ c.kind = "write" /\ c.data[1] = v /\ v \in Value
  /\ Taken(c, "ok", <<>>)
  /\ fpga' = [state |-> IF HasBit(v, START) /\ Free(v)
                        THEN IF Raw(v) /\ Mode # CMP_MODE_RAW THEN "stuck" ELSE "active"
                        ELSE IF Free(v) THEN "idle" ELSE fpga.state,
              after_raw |-> Raw(v)]
  /\ remote' = [remote EXCEPT ![CTRL] = v, ![STATUS] = IF Free(v) THEN 0 ELSE @]
Faulty ==
  /\ LinkFault
  /\ UNCHANGED <<lib, mirror, remote, xfer, fpga>>
  /\ \A c \in Cmds' : c \in Cmds
  /\ \A r \in Replies' : \E q \in Replies : r.addr = q.addr /\ r.data = q.data
LEMMA RdcuViews ==
  ASSUME CInv
  PROVE  /\ FpgaExecute => \E c : Executed(c)
         /\ FpgaRefuse => \E c : Refused(c)
         /\ FpgaControl => \E c, v : Controlled(c, v)
         /\ LinkFault => Faulty
<1>0. /\ TypeOK /\ Traffic
      /\ remote \in [Addr -> Value] /\ cmds \in Seq(Command) /\ replies \in Seq(Reply)
  BY DEF CInv, CBase, MemInv, TypeOK
<1> DEFINE c == Head(cmds)
<1>1. ASSUME cmds # <<>>
      PROVE  c \in Cmds /\ c \in Command /\ CmdOK(c) /\ c.addr \in Addr
  <2>1. c \in Cmds /\ c \in Command
    BY <1>0, <1>1, ElemsOf DEF Cmds
  <2> QED
    BY <1>0, <2>1 DEF Traffic, Command
<1>2. ASSUME NEW f \in Form, NEW d \in Seq(Value), cmds # <<>>, cmds' = Tail(cmds),
             replies' = Append(replies, Answer(c, f, d)), UNCHANGED <<lib, mirror, xfer>>
      PROVE  Taken(c, f, d)
  <2>1. Answer(c, f, d) \in Reply
    BY <1>1, <1>2, AnswerType
  <2>2. Elems(cmds) = Elems(Tail(cmds)) \cup {c}
    BY <1>0, <1>2, ElemsOf
  <2>3. Elems(Append(replies, Answer(c, f, d))) = Elems(replies) \cup {Answer(c, f, d)}
    <3> DEFINE e == Answer(c, f, d)
    <3>1. e \in Reply
      BY <2>1
    <3> HIDE DEF e
    <3>2. Elems(Append(replies, e)) = Elems(replies) \cup {e}
      BY <1>0, <3>1, ElemsOf
    <3> QED
      BY <3>2 DEF e
  <2>4. c \in Cmds /\ c \in Command
    BY <1>1, <1>2
  <2> QED
    BY <1>2, <2>1, <2>2, <2>3, <2>4 DEF Taken, Cmds, Replies
<1>3. <<>> \in Seq(Value) /\ {"ok", "rejected"} \subseteq Form
  BY DEF Form
<1>4. ASSUME FpgaExecute PROVE \E x : Executed(x)
  <2>1. /\ cmds # <<>> /\ c.addr # CTRL /\ ~Blocked(c) /\ fpga' = fpga
        /\ cmds' = Tail(cmds) /\ UNCHANGED <<lib, mirror, xfer>>
    BY <1>4 DEF FpgaExecute, TargetExecute, Others
  <2>2. \/ /\ c.kind = "write" /\ remote' = Stored(remote, c.addr, c.data)
           /\ replies' = Append(replies, Answer(c, "ok", <<>>))
        \/ /\ c.kind = "read" /\ remote' = remote
           /\ replies' = Append(replies, Answer(c, "ok", WordsAt(remote, c.addr, c.len)))
    BY <1>4 DEF FpgaExecute, TargetExecute
  <2>3. c \in Cmds /\ c \in Command /\ CmdOK(c) /\ c.addr \in Addr
    BY <1>1, <2>1
  <2>4. CASE c.kind = "write" /\ remote' = Stored(remote, c.addr, c.data)
               /\ replies' = Append(replies, Answer(c, "ok", <<>>))
    <3>1. Taken(c, "ok", <<>>)
      BY <1>2, <1>3, <2>1, <2>4
    <3>2. Len(c.data) = 1
      BY <2>3, <2>4 DEF CmdOK
    <3> HIDE DEF c
    <3>3. remote' = [remote EXCEPT ![c.addr] = c.data[1]]
      <4>1. \A d : Len(d) = 1 => Stored(remote, c.addr, d) = [remote EXCEPT ![c.addr] = d[1]]
        BY <1>0, <2>3, OneWordOf
      <4> QED
        BY <2>4, <3>2, <4>1
    <3> QED
      BY <2>1, <2>4, <3>1, <3>3 DEF Executed
  <2>5. CASE /\ c.kind = "read" /\ remote' = remote
             /\ replies' = Append(replies, Answer(c, "ok", WordsAt(remote, c.addr, c.len)))
    <3>1. c.len = 1 /\ remote[c.addr] \in Value
      BY <1>0, <2>3 DEF CmdOK
    <3>2. WordsAt(remote, c.addr, c.len) = <<remote[c.addr]>>
      BY <1>0, <2>3, <3>1, OneWordOf
    <3>3. \A v \in Value : <<v>> \in Seq(Value)
      OBVIOUS
    <3>4. <<remote[c.addr]>> \in Seq(Value)
      BY <3>1, <3>3
    <3>5. Taken(c, "ok", <<remote[c.addr]>>)
      BY <1>2, <1>3, <2>1, <2>5, <3>2, <3>4
    <3> QED
      BY <2>1, <2>5, <3>5 DEF Executed
  <2> QED
    BY <2>2, <2>4, <2>5
<1>5. ASSUME FpgaRefuse PROVE \E x : Refused(x)
  <2>1. /\ cmds # <<>> /\ Blocked(c) /\ UNCHANGED <<lib, mirror, xfer, remote, fpga>>
        /\ cmds' = Tail(cmds) /\ replies' = Append(replies, Answer(c, "rejected", <<>>))
    BY <1>5 DEF FpgaRefuse, TargetReject, Others
  <2>2. Taken(c, "rejected", <<>>)
    BY <1>2, <1>3, <2>1
  <2> QED
    BY <2>1, <2>2 DEF Refused
<1>6. ASSUME FpgaControl PROVE \E x, y : Controlled(x, y)
  <2> DEFINE v == c.data[1]
  <2>1. /\ cmds # <<>> /\ c.addr = CTRL /\ UNCHANGED <<lib, mirror, xfer>>
        /\ cmds' = Tail(cmds) /\ replies' = Append(replies, Answer(c, "ok", <<>>))
    BY <1>6 DEF FpgaControl
  <2>2. /\ fpga' = [state |-> IF HasBit(v, START) /\ Free(v)
                     THEN IF Raw(v) /\ Mode # CMP_MODE_RAW THEN "stuck" ELSE "active"
                     ELSE IF Free(v) THEN "idle" ELSE fpga.state,
                    after_raw |-> Raw(v)]
        /\ remote' = [remote EXCEPT ![CTRL] = v, ![STATUS] = IF Free(v) THEN 0 ELSE @]
    BY <1>6 DEF FpgaControl, Raw, Free
  <2>3. Taken(c, "ok", <<>>)
    BY <1>2, <1>3, <2>1
  <2>4. c.kind = "write" /\ Len(c.data) = 1 /\ v \in Value
    <3>1. c \in Command /\ CmdOK(c)
      BY <1>1, <2>1
    <3>2. CTRL \notin ReadWords
      BY WordsApart
    <3>3. c.kind \in Kind /\ c.data \in Seq(Value)
      BY <3>1 DEF Command
    <3>4. c.kind = "write" /\ Len(c.data) = 1
      BY <2>1, <3>1, <3>2, <3>3 DEF CmdOK, Kind
    <3> QED
      BY <3>3, <3>4, ElementOfSeq
  <2> HIDE DEF c
  <2> QED
    BY <2>1, <2>2, <2>3, <2>4 DEF Controlled
<1>7. ASSUME LinkFault PROVE Faulty
  <2>1. UNCHANGED <<lib, mirror, remote, xfer, fpga>>
    BY <1>7 DEF LinkFault, Others, LoseCommand, LoseReply, DamageReply
  <2>2. CASE LoseCommand
    <3>1. cmds # <<>> /\ cmds' = Tail(cmds) /\ replies' = replies
      BY <2>2 DEF LoseCommand
    <3>2. Elems(cmds) = Elems(Tail(cmds)) \cup {c}
      BY <1>0, <3>1, ElemsOf
    <3> QED
      BY <1>7, <2>1, <3>1, <3>2 DEF Faulty, Cmds, Replies
  <2>3. CASE LoseReply
    <3>1. replies # <<>> /\ replies' = Tail(replies) /\ cmds' = cmds
      BY <2>3 DEF LoseReply
    <3>2. Elems(replies) = Elems(Tail(replies)) \cup {Head(replies)}
      BY <1>0, <3>1, ElemsOf
    <3> QED
      BY <1>7, <2>1, <3>1, <3>2 DEF Faulty, Cmds, Replies
  <2>4. CASE DamageReply
    <3>1. PICK i \in 1 .. Len(replies), f \in Form :
             replies' = [replies EXCEPT ![i].form = f]
      BY <2>4 DEF DamageReply
    <3>2. cmds' = cmds
      BY <2>4 DEF DamageReply
    <3>3. \A j \in 1 .. Len(replies) : replies[j] \in Reply
      BY <1>0, ElementOfSeq
    <3>4. DOMAIN replies = 1 .. Len(replies) /\ Len(replies) \in Nat
      BY <1>0, LenProperties
    <3>5. replies' = [j \in 1 .. Len(replies) |->
                        IF j = i THEN [replies[i] EXCEPT !.form = f] ELSE replies[j]]
      BY <3>1, <3>4
    <3>6. [replies[i] EXCEPT !.form = f] \in Reply
          /\ [replies[i] EXCEPT !.form = f].addr = replies[i].addr
          /\ [replies[i] EXCEPT !.form = f].data = replies[i].data
      BY <3>3 DEF Reply
    <3>7. replies' \in [1 .. Len(replies) -> Reply]
      BY <3>3, <3>5, <3>6
    <3>8. Len(replies') = Len(replies)
      BY <3>4, <3>7, LenProperties, SeqDef
    <3>9. \A j \in 1 .. Len(replies) : replies'[j].addr = replies[j].addr
                                        /\ replies'[j].data = replies[j].data
      BY <3>5, <3>6
    <3>10. \A r \in Replies' : \E q \in Replies : r.addr = q.addr /\ r.data = q.data
      BY <3>8, <3>9 DEF Replies, Elems
    <3>11. \A x \in Cmds' : x \in Cmds
      BY <3>2 DEF Cmds
    <3> QED
      BY <1>7, <2>1, <3>10, <3>11 DEF Faulty
  <2> QED
    BY <1>7, <2>2, <2>3, <2>4 DEF LinkFault
<1> QED
  BY <1>4, <1>5, <1>6, <1>7

(* A step of RdcuRmap.                                                     *)
LEMMA MemByNext ==
  ASSUME MemInv, [Next]_vars, XInv', LibShape'
  PROVE  MemInv'
BY TypeStep, PendingStep, LogInvStep DEF MemInv, AnyStep

(* A step that only writes to a memory.                                    *)
LEMMA MemByWrite ==
  ASSUME MemInv, UNCHANGED <<lib, link, xfer>>,
         mirror' \in [Addr -> Value], remote' \in [Addr -> Value]
  PROVE  MemInv'
<1>1. UNCHANGED <<in_use, local_addr, pending, call, cmd, ret, cmds, replies, xfer>>
  BY DEF lib, log, link
<1>2. XInv'
  BY <1>1, BelowXInv DEF MemInv
<1>3. LibShape' /\ TypeOK' /\ PendingCountsSlots'
  BY <1>1 DEF MemInv, LibShape, TypeOK, PendingCountsSlots
<1>4. LogInv'
  BY <1>1, Unmoved DEF MemInv, Submitting
<1> QED
  BY <1>2, <1>3, <1>4 DEF MemInv

(* The compressor writes words to its memory.                              *)
LEMMA FinishType ==
  ASSUME CInv, FpgaFinish
  PROVE  remote' \in [Addr -> Value]
<1>0. remote \in [Addr -> Value] /\ N \in Nat /\ InfoCount \in Nat /\ InfoCount <= N
  BY Registers DEF CInv, CBase, MemInv, TypeOK
<1>1. remote' = [w \in Addr |->
       CASE w = STATUS -> READY
         [] w = CmpWord -> Output(Mode, remote[DataWord], remote[ModelWord])
         [] w = NewWord /\ model_mode_is_used(Mode) ->
              Updated(remote[DataWord], remote[ModelWord])
         [] \E i \in 1 .. InfoCount : InfoRegs[i] = w ->
              remote[ConfigRegs[CHOOSE i \in 1 .. InfoCount : InfoRegs[i] = w]]
         [] OTHER -> remote[w]]
  BY DEF FpgaFinish, CmpWord, DataWord, ModelWord, NewWord, InfoCount
<1>2. Mode \in Value /\ remote[DataWord] \in Value /\ remote[ModelWord] \in Value
  BY <1>0, WordsApart DEF Mode, WriteWords
<1>3. /\ READY \in Value /\ Output(Mode, remote[DataWord], remote[ModelWord]) \in Value
      /\ Updated(remote[DataWord], remote[ModelWord]) \in Value
  BY <1>2, WordAssumption, ValueAssumption DEF Output
<1>4. ASSUME NEW w \in Addr, \E i \in 1 .. InfoCount : InfoRegs[i] = w
      PROVE  remote[ConfigRegs[CHOOSE i \in 1 .. InfoCount : InfoRegs[i] = w]] \in Value
  <2> DEFINE j == CHOOSE i \in 1 .. InfoCount : InfoRegs[i] = w
  <2>1. j \in 1 .. InfoCount
    BY <1>4
  <2> HIDE DEF j
  <2>2. j \in 1 .. N
    BY <1>0, <2>1
  <2>3. ConfigRegs[j] \in Addr
    BY <2>2, WordsApart DEF WriteWords
  <2>4. remote[ConfigRegs[j]] \in Value
    BY <1>0, <2>3
  <2> QED
    BY <2>4 DEF j
<1> QED
  BY <1>0, <1>1, <1>3, <1>4

(* Memories, log and link stay well formed.                                *)
LEMMA MemStep == ASSUME CInv, CMove PROVE MemInv'
<1>0. ClientOK /\ CtlInv /\ Calls /\ MemInv /\ XInv /\ LibShape /\ TypeOK /\ LogInv
        /\ PendingCountsSlots
  BY DEF CInv, CBase, MemInv, ClientOK
<1>a. ASSUME UNCHANGED xvars PROVE MemInv'
  <2>1. UNCHANGED vars /\ UNCHANGED <<call, cmd, ret, pending, xfer>>
    BY <1>a DEF xvars, vars, lib, log
  <2>2. XInv'
    BY <1>0, <2>1, BelowXInv
  <2>3. LibShape'
    BY <1>0, <2>1 DEF LibShape
  <2> QED
    BY <1>0, <2>1, <2>2, <2>3, MemByNext
<1>1. CASE (\E p \in Functions : Begun(p)) \/ Toggled \/ Returning
  BY <1>1, <1>a DEF Begun, Toggled, Returning, Still
<1>2. CASE LocalMove
  <2>1. mirror' \in [Addr -> Value]
    BY <1>0, <1>2, LocalType
  <2>2. UNCHANGED <<lib, link, remote, xfer>> /\ remote \in [Addr -> Value]
    BY <1>0, <1>2 DEF LocalMove, TypeOK
  <2> QED
    BY <1>0, <2>1, <2>2, MemByWrite
<1>6. ASSUME rdcu_rmap_sync_status, UNCHANGED xfer, AtRest PROVE MemInv'
  <2>1. Next
    BY <1>6 DEF Next, Application
  <2>2. XInv'
    BY <1>0, <1>6 DEF AtRest, XInv, XTypeOK, XferAligned, XferInBlock
  <2>3. LibShape'
    BY <1>0, <1>6 DEF LibShape, rdcu_rmap_sync_status, log
  <2> QED
    BY <1>0, <2>1, <2>2, <2>3, MemByNext
<1>7. CASE Polling
  BY <1>6, <1>7 DEF Polling
<1>3. CASE Calling
  <2>1. AtRest /\ left > 0
    BY <1>3 DEF Calling
  <2>2. CASE next.op \in Kind /\ rdcu_sync(next.op, next.reg) /\ UNCHANGED xfer
    <3>1. Next
      <4>1. CASE next.op = "read"
        <5>1. next.reg \in RdRegs
          <6>1. CASE prog \in Infos
            <7>1. left > 1 /\ next.reg = InfoRegs[InfoCount + 2 - left]
              BY <1>0, <2>1, <4>1, <6>1, OpTable DEF At, Infos
            <7>2. left \in Nat /\ left <= InfoCount + 1 /\ InfoCount \in Nat
              BY <1>0, <6>1, TodoIs DEF Size, Infos
            <7>3. InfoCount + 2 - left \in 1 .. InfoCount
              BY <7>1, <7>2
            <7> QED
              BY <7>1, <7>3, Registers
          <6>2. CASE prog \notin Infos
            <7>1. next.reg \in {InfoRegs[1], STATUS}
              BY <1>0, <2>1, <4>1, <6>2, OpTable DEF At
            <7>2. 1 \in 1 .. InfoCount
              BY Registers
            <7> QED
              BY <7>1, <7>2, Registers
          <6> QED
            BY <6>1, <6>2
        <5> QED
          BY <2>2, <4>1, <5>1 DEF Next, Application
      <4>2. CASE next.op = "write"
        <5>1. next.reg \in WrRegs
          <6>1. CASE prog = "compress" /\ left > 11
            <7>0. N \in Nat /\ left \in Nat
              BY <1>0, TodoIs
            <7>1. left \in 12 .. (N + 11) /\ next.reg = ConfigRegs[N + 12 - left]
              BY <1>0, <2>1, <4>2, <6>1, <7>0, OpTable DEF At
            <7>2. N + 12 - left \in 1 .. N
              BY <7>0, <7>1
            <7> QED
              BY <7>1, <7>2, Registers
          <6>2. CASE ~(prog = "compress" /\ left > 11)
            BY <1>0, <2>1, <4>2, <6>2, OpTable, Registers
          <6> QED
            BY <6>1, <6>2
        <5> QED
          BY <2>2, <4>2, <5>1 DEF Next, Application
      <4> QED
        BY <2>2, <4>1, <4>2 DEF Kind
    <3>2. XInv'
      BY <1>0, <2>1, <2>2 DEF AtRest, XInv, XTypeOK, XferAligned, XferInBlock
    <3>3. TypeOK'
      BY <1>0, <3>1, TypeStep DEF AnyStep
    <3>4. LibShape'
      <4>1. \/ \E s \in Slots : cmd' = [kind |-> next.op, tid |-> s, addr |-> next.reg,
                                        len |-> 1, data |-> <<>>]
            \/ cmd' = NoCmd
        BY <2>2 DEF rdcu_sync, Prepare, Return
      <4>2. next.reg \in Int \/ cmd' = NoCmd
        <5>1. cmd'.addr \in Addr
          BY <3>3 DEF TypeOK, Command
        <5>2. Addr \subseteq Int
          BY MemAssumption DEF Addr
        <5>3. cmd'.addr = next.reg \/ cmd' = NoCmd
          BY <4>1
        <5> QED
          BY <5>1, <5>2, <5>3
      <4>3. cmd' \in [kind: Kind, tid: Slots, addr: Int, len: Int, data: {<<>>}]
        BY <2>2, <4>1, <4>2, NoCmdShape
      <4> QED
        BY <3>3, <4>3 DEF LibShape, TypeOK
    <3> QED
      BY <1>0, <3>1, <3>2, <3>4, MemByNext
  <2>3. CASE next.op = "syncing" /\ rdcu_rmap_sync_status /\ UNCHANGED xfer
    BY <1>6, <2>1, <2>3
  <2>4. ASSUME NEW k \in Kind, NEW a \in Nat, sync_begin(k, a, 4, Mtu)
        PROVE  MemInv'
    <3>1. XInv'
      BY <1>0, <2>4, BeginXInv, CmpAssumption
    <3>2. UNCHANGED vars /\ UNCHANGED <<cmd, ret, pending>>
      BY <2>4 DEF sync_begin, vars, lib, log
    <3>3. LibShape'
      BY <1>0, <3>2 DEF LibShape
    <3> QED
      BY <1>0, <3>1, <3>2, <3>3, MemByNext
  <2>5. next.op \in {"send", "fetch"} => next.reg \in Nat
    <3>1. \A a \in Areas : a \in Nat
      BY AreaAssumption
    <3> QED
      BY <1>0, <2>1, <3>1, OpTable DEF Areas
  <2>6. "read" \in Kind /\ "write" \in Kind
    BY DEF Kind
  <2> QED
    BY <1>3, <2>2, <2>3, <2>4, <2>5, <2>6 DEF Calling
<1>4. CASE BelowMove
  <2>1. CASE LibStep /\ UNCHANGED xfer
    <3>1. XInv' /\ LibShape' /\ Next
      BY <1>0, <2>1, BelowXInv, LibShapeStep DEF Next
    <3> QED
      BY <1>0, <3>1, MemByNext
  <2>2. CASE XferStep
    <3>1. XInv' /\ LibShape'
      BY <1>0, <2>2, XferStepXInv
    <3>2. xfer.at # "idle"
      BY <2>2 DEF XferStep, SubmitPiece, PieceReturned, PollPending, PollReturned,
                  AllSubmitted
    <3>3. PICK k \in Kind, a \in Areas : OneWord(k, a)
      <4>1. busy /\ left > 0
        BY <1>0, <3>2 DEF ClientOK
      <4>2. next.op \in {"send", "fetch"}
        BY <1>0, <3>2, <4>1 DEF Calls, ClientOK
      <4>3. next.reg \in Areas
        BY <1>0, <4>1, <4>2, OpTable DEF Areas
      <4>4. "read" \in Kind /\ "write" \in Kind
        BY DEF Kind
      <4> QED
        BY <1>0, <4>1, <4>2, <4>3, <4>4 DEF Calls
    <3>4. OneStep(k, a)
      BY <1>0, <2>2, <3>3, OneWordStep
    <3>5. CASE Submits(k, a)
      <4>1. a \div 4 \in Addr /\ a \div 4 + 1 <= MemWords
        <5>1. a \div 4 \in Sram
          BY <3>3, Registers DEF DataWord, ModelWord, CmpWord, NewWord, Areas
        <5> QED
          BY <5>1, MemAssumption DEF Sram, Addr
      <4>2. cmd' \in Command
        BY <1>0, <3>5, <4>1 DEF Submits, TypeOK, Command
      <4>3. /\ call = "none" /\ call' = "rx_data"
            /\ UNCHANGED <<in_use, local_addr, pending, ret, mirror, cmds, replies, remote>>
        BY <3>5 DEF Submits, log, link
      <4>4. TypeOK'
        BY <1>0, <4>2, <4>3 DEF TypeOK, CallPoint, RxLoop
      <4>5. LogInv'
        BY <1>0, <4>3, Unmoved DEF Submitting
      <4>6. PendingCountsSlots'
        BY <1>0, <4>3 DEF PendingCountsSlots
      <4> QED
        BY <3>1, <4>4, <4>5, <4>6 DEF MemInv
    <3>6. CASE Polls
      <4>1. Next
        BY <3>6 DEF Polls, Next, Application
      <4> QED
        BY <1>0, <3>1, <4>1, MemByNext
    <3>7. CASE UNCHANGED vars
      BY <1>0, <3>1, <3>7, MemByNext
    <3> QED
      BY <3>4, <3>5, <3>6, <3>7 DEF OneStep, Waits, WaitsOn, Goes, Ends
  <2> QED
    BY <1>4, <2>1, <2>2 DEF BelowMove
<1>5. CASE RdcuMove
  <2>1. CASE FpgaExecute \/ FpgaRefuse \/ LinkFault
    <3>1. Environment /\ UNCHANGED xfer
      BY <2>1 DEF FpgaExecute, FpgaRefuse, LinkFault, Environment
    <3>2. Next /\ UNCHANGED <<call, cmd, ret, pending>>
      BY <2>1, <3>1 DEF Next, FpgaExecute, FpgaRefuse, LinkFault, TargetExecute,
                        TargetReject, LoseCommand, LoseReply, DamageReply, lib, log
    <3>3. XInv' /\ LibShape'
      BY <1>0, <3>1, <3>2, BelowXInv DEF LibShape
    <3> QED
      BY <1>0, <3>2, <3>3, MemByNext
  <2>2. CASE FpgaControl
    <3>1. PICK c, v : Controlled(c, v)
      BY <2>2, RdcuViews
    <3>2. /\ cmds # <<>> /\ cmds' = Tail(cmds)
          /\ replies' = Append(replies, Answer(Head(cmds), "ok", <<>>))
          /\ UNCHANGED <<in_use, local_addr, pending, call, cmd, ret, mirror, xfer>>
      BY <3>1 DEF Controlled, Taken, lib, log
    <3>3. XInv' /\ LibShape' /\ PendingCountsSlots'
      BY <1>0, <3>2, BelowXInv DEF LibShape, PendingCountsSlots
    <3>4. LogInv'
      BY <1>0, <3>2, CommandTakenLogInv
    <3>5. TypeOK'
      <4>1. remote' \in [Addr -> Value]
        <5>1. 0 \in Value /\ v \in Value /\ CTRL \in Addr /\ STATUS \in Addr
          BY <3>1, ValueAssumption, WordAssumption, Registers DEF Controlled
        <5>2. remote \in [Addr -> Value]
          BY <1>0 DEF TypeOK
        <5>3. remote' = [remote EXCEPT ![CTRL] = v, ![STATUS] = IF Free(v) THEN 0 ELSE @]
          BY <3>1 DEF Controlled
        <5>4. CTRL # STATUS
          BY WordsApart DEF ReadWords
        <5> QED
          BY <5>1, <5>2, <5>3, <5>4
      <4>2. cmds' \in Seq(Command) /\ replies' \in Seq(Reply)
        <5>1. Answer(Head(cmds), "ok", <<>>) \in Reply
          BY <3>1 DEF Controlled, Taken
        <5> QED
          BY <1>0, <3>2, <5>1, HeadAndTail, Appended DEF TypeOK
      <4> QED
        BY <1>0, <3>2, <4>1, <4>2 DEF TypeOK
    <3> QED
      BY <3>3, <3>4, <3>5 DEF MemInv
  <2>3. CASE FpgaFinish
    <3>1. remote' \in [Addr -> Value]
      BY <2>3, FinishType
    <3>2. UNCHANGED <<lib, mirror, link, xfer>> /\ mirror \in [Addr -> Value]
      BY <1>0, <2>3 DEF FpgaFinish, TypeOK
    <3> QED
      BY <1>0, <3>1, <3>2, MemByWrite
  <2> QED
    BY <1>5, <2>1, <2>2, <2>3 DEF RdcuMove, Rdcu
<1> QED
  BY <1>1, <1>2, <1>3, <1>4, <1>5, <1>7 DEF CMove

(* Only single words of the kinds above are on the link.                   *)
LEMMA TrafficStep == ASSUME CInv, CMove PROVE Traffic'
<1>0. Traffic /\ ClientOK /\ CBase
  BY DEF CInv, CBase
<1>1. ASSUME UNCHANGED link PROVE Traffic'
  BY <1>0, <1>1 DEF Traffic, Cmds, Replies, Elems, link
<1>2. CASE (\E p \in Functions : Begun(p)) \/ Toggled \/ Returning \/ LocalMove
  BY <1>1, <1>2 DEF Begun, Toggled, Returning, LocalMove, Still, xvars, vars
<1>3. CASE Calling \/ Polling
  BY <1>1, <1>3 DEF Calling, Polling, rdcu_sync, rdcu_rmap_sync_status, sync_begin, vars
<1>4. CASE BelowMove
  <2>1. CASE LibStep
    <3>1. ASSUME NEW c, Sent(c) PROVE Traffic'
      <4>1. CmdOK(c) /\ Cmds' = Cmds \cup {c} /\ Replies' = Replies
        BY <3>1 DEF Sent
      <4> QED
        BY <1>0, <4>1 DEF Traffic
    <3>2. ASSUME NEW r, Accepted(r) \/ Skipped(r) PROVE Traffic'
      <4>1. Cmds' = Cmds /\ Replies' \subseteq Replies
        BY <3>2 DEF Accepted, Skipped, Cmds
      <4> QED
        BY <1>0, <4>1 DEF Traffic
    <3> QED
      BY <1>1, <2>1, <3>1, <3>2, LibViews DEF NotSent, Inner
  <2>2. CASE XferStep
    BY <1>1, <2>2 DEF XferStep, SubmitPiece, PieceReturned, PollPending, PollReturned,
                      AllSubmitted, rdcu_sync_data, rdcu_rmap_sync_status, vars
  <2> QED
    BY <1>4, <2>1, <2>2 DEF BelowMove
<1>5. CASE RdcuMove
  <2>1. ASSUME NEW c, NEW f, NEW d, Taken(c, f, d),
               d = <<>> \/ (Len(d) = 1 /\ c.addr \in ReadWords)
        PROVE  Traffic'
    <3>1. Cmds' \subseteq Cmds /\ Replies' = Replies \cup {Answer(c, f, d)}
      BY <2>1 DEF Taken
    <3>2. Answer(c, f, d).data = d /\ Answer(c, f, d).addr = c.addr
      BY DEF Answer
    <3> QED
      BY <1>0, <2>1, <3>1, <3>2 DEF Traffic
  <2>2. CASE FpgaExecute
    <3>1. PICK c : Executed(c)
      BY <2>2, RdcuViews
    <3>2. CASE c.kind = "write"
      BY <2>1, <3>1, <3>2 DEF Executed
    <3>3. CASE c.kind = "read"
      <4>1. c \in Cmds /\ Taken(c, "ok", <<remote[c.addr]>>)
        BY <3>1, <3>3 DEF Executed, Taken
      <4>2. c.addr \in ReadWords
        BY <1>0, <3>3, <4>1 DEF Traffic, CmdOK
      <4>3. Len(<<remote[c.addr]>>) = 1
        OBVIOUS
      <4> QED
        BY <2>1, <4>1, <4>2, <4>3
    <3> QED
      BY <3>1, <3>2, <3>3 DEF Executed
  <2>3. CASE FpgaRefuse
    BY <2>1, <2>3, RdcuViews DEF Refused
  <2>4. CASE FpgaControl
    BY <2>1, <2>4, RdcuViews DEF Controlled
  <2>5. CASE FpgaFinish
    BY <1>1, <2>5 DEF FpgaFinish
  <2>6. CASE LinkFault
    <3>1. /\ \A c \in Cmds' : c \in Cmds
          /\ \A r \in Replies' : \E q \in Replies : r.addr = q.addr /\ r.data = q.data
      BY <2>6, RdcuViews DEF Faulty
    <3> QED
      BY <1>0, <3>1 DEF Traffic
  <2> QED
    BY <1>5, <2>2, <2>3, <2>4, <2>5, <2>6 DEF RdcuMove, Rdcu
<1> QED
  BY <1>2, <1>3, <1>4, <1>5 DEF CMove

(* In the initial state nothing is on the link.                            *)
LEMMA CInvInit == ASSUME CInit PROVE CInv
<1>1. XInit /\ Init /\ busy = FALSE
  BY DEF CInit, XInit
<1>2. ClientOK
  BY ClientOKInit
<1>3. TypeOK /\ PendingCountsSlots /\ LogInv
  BY <1>1, TypeInit, PendingInit, LogInvInit
<1>4. XInv
  BY <1>1, XInvInit
<1>5. LibShape
  <2>1. cmd = NoCmd /\ ret = 0 /\ pending = 0
    BY <1>1 DEF Init
  <2> QED
    BY <2>1, NoCmdShape DEF LibShape
<1>6. Calls
  BY <1>1 DEF Calls
<1>7. Traffic
  <2>1. cmds = <<>> /\ replies = <<>>
    BY <1>1 DEF Init
  <2>2. Cmds = {} /\ Replies = {}
    BY <1>3, <2>1, ElemsOf DEF TypeOK, Cmds, Replies
  <2> QED
    BY <2>2 DEF Traffic
<1> QED
  BY <1>2, <1>3, <1>4, <1>5, <1>6, <1>7 DEF CInv, CBase, MemInv

(* Every step of the system keeps it.                                      *)
LEMMA CInvStep ==
  ASSUME CInv, [CNext]_cvars
  PROVE  CInv'
<1>1. CASE CNext
  <2>1. ClientOK /\ CBase
    BY DEF CInv, CBase
  <2>2. CMove
    BY <1>1, <2>1, CMoves
  <2> QED
    BY <2>1, <2>2, ClientOKStep, CallsStep, MemStep, TrafficStep DEF CInv, CBase
<1>2. CASE UNCHANGED cvars
  <2>1. /\ UNCHANGED <<in_use, local_addr, pending, call, cmd, ret, mirror, cmds, replies,
                      remote, xfer, fn, rcfg, input, todo, busy, polls, result,
                      interrupt_signal_enabled, fpga, scenario>>
    BY <1>2 DEF cvars, xvars, vars, lib, log, link, client
  <2>2. Kept
    BY <2>1, Stays DEF CInv, CBase, ClientOK
  <2>3. ClientOK'
    BY <2>1, <2>2 DEF CInv, CBase, ClientOK, Kept
  <2>4. Calls'
    BY <2>1, <2>2, CallsUnmoved DEF CInv, CBase, Kept
  <2>5. MemInv'
    <3>1. MemInv /\ UNCHANGED <<lib, link, xfer>> /\ TypeOK
      BY <2>1 DEF CInv, CBase, MemInv, lib, log, link
    <3> QED
      BY <2>1, <3>1, MemByWrite DEF TypeOK
  <2>6. Traffic'
    BY <2>1 DEF CInv, Traffic, Cmds, Replies, Elems
  <2> QED
    BY <2>3, <2>4, <2>5, <2>6 DEF CInv, CBase
<1> QED
  BY <1>1, <1>2
-----------------------------------------------------------------------------
(* What the RDCU answers with keeps its transactions on the link.          *)
LEMMA CLeakStep ==
  ASSUME Faults \cap LeakFaults = {}, CInv, LeakInv, CMove
  PROVE  LeakInv'
<1>0. TypeOK /\ LogInv /\ {"create", "tx", "lose_cmd", "lose_reply", "garble"} \cap Faults = {}
  BY DEF CInv, CBase, MemInv, LeakFaults
<1>1. ASSUME UNCHANGED <<lib, link>> PROVE LeakInv'
  BY <1>1, LeakUnmoved DEF lib, log, link, Submitting
<1>2. CASE (\E p \in Functions : Begun(p)) \/ Toggled \/ Returning \/ LocalMove
  BY <1>1, <1>2 DEF Begun, Toggled, Returning, LocalMove, Still, xvars, vars
<1>3. ASSUME [Next]_vars PROVE LeakInv'
  BY <1>0, <1>3, LeakInvStep
<1>4. CASE rdcu_rmap_sync_status
  BY <1>3, <1>4 DEF Next, Application
<1>5. CASE Calling
  <2>1. ASSUME NEW k, NEW r, rdcu_sync(k, r) PROVE LeakInv'
    BY <1>0, <2>1, PrepareLeakInv, LeakUnmoved
       DEF rdcu_sync, Return, Submitting, log, link
  <2>2. ASSUME NEW k, NEW a, sync_begin(k, a, 4, Mtu) PROVE LeakInv'
    BY <1>1, <2>2 DEF sync_begin, vars
  <2> QED
    BY <1>4, <1>5, <2>1, <2>2 DEF Calling
<1>6. CASE BelowMove
  <2>1. CASE LibStep
    BY <1>3, <2>1 DEF Next
  <2>2. ASSUME NEW k, NEW a, NEW n, rdcu_sync_data(k, a, n) PROVE LeakInv'
    BY <2>2, LeakUnmoved DEF rdcu_sync_data, Submitting, log, link
  <2>3. CASE XferStep
    BY <1>1, <1>4, <2>2, <2>3 DEF XferStep, SubmitPiece, PieceReturned, PollPending,
                                  PollReturned, AllSubmitted, vars
  <2> QED
    BY <1>6, <2>1, <2>3 DEF BelowMove
<1>7. CASE RdcuMove
  <2>1. CASE FpgaExecute \/ FpgaRefuse \/ LinkFault
    BY <1>3, <2>1 DEF FpgaExecute, FpgaRefuse, LinkFault, Next, Environment
  <2>2. CASE FpgaControl
    BY <1>0, <2>2, CommandAnsweredLeakInv DEF FpgaControl, lib, log
  <2>3. CASE FpgaFinish
    BY <1>1, <2>3 DEF FpgaFinish
  <2> QED
    BY <1>7, <2>1, <2>2, <2>3 DEF RdcuMove, Rdcu
<1>8. CASE Polling
  BY <1>4, <1>8 DEF Polling
<1> QED
  BY <1>2, <1>5, <1>6, <1>7, <1>8 DEF CMove

(* No slot is in use at the beginning.                                     *)
LEMMA LeakInvInit == ASSUME Init PROVE LeakInv
<1>1. Len(replies) = 0 /\ \A s \in Slots : ~in_use[s]
  BY EmptySeq DEF Init
<1> QED
  BY <1>1 DEF LeakInv, NoSlotLeak

(* The invariant holds in every behaviour.                                 *)
LEMMA CInvAlways == CSpec => []CInv
<1>1. CInit => CInv
  BY CInvInit
<1>2. CInv /\ [CNext]_cvars => CInv'
  BY CInvStep
<1> QED
  BY <1>1, <1>2, PTL DEF CSpec

(* Whatever the application does with the compressor, the library keeps    *)
(* its types below cmp_rdcu.c, and the counter rdcu_syncing waits for      *)
(* counts the slots in use.                                                *)
THEOREM LibraryUnderCompressor == CSpec => [](TypeOK /\ PendingCountsSlots)
<1>1. CInv => TypeOK /\ PendingCountsSlots
  BY DEF CInv, CBase, MemInv
<1> QED
  BY <1>1, CInvAlways, PTL

(* On a link that loses nothing, no function of cmp_rdcu.c ever leaves a   *)
(* slot of the transaction log behind: not an aborted one, not one that    *)
(* gives up waiting in rdcu_syncing, not one the busy compressor refused.  *)
THEOREM CompressorLeaksNoSlot ==
  ASSUME Faults \cap LeakFaults = {}
  PROVE  CSpec => []NoSlotLeak
<1>1. CInit => LeakInv
  BY LeakInvInit DEF CInit, XInit
<1>2. CInv /\ LeakInv /\ [CNext]_cvars => LeakInv'
  <2> SUFFICES ASSUME CInv, LeakInv, [CNext]_cvars PROVE LeakInv'
    OBVIOUS
  <2>1. CASE CNext
    BY <2>1, CMoves, CLeakStep DEF CInv, CBase
  <2>2. CASE UNCHANGED cvars
    BY <2>2, LeakUnmoved DEF cvars, xvars, vars, lib, log, link, Submitting
  <2> QED
    BY <2>1, <2>2
<1>3. LeakInv => NoSlotLeak
  BY DEF LeakInv
<1> QED
  BY <1>1, <1>2, <1>3, CInvAlways, PTL DEF CSpec
-----------------------------------------------------------------------------
(* The start bit in the mirror of compr_ctrl.                              *)

(* The bits of the register do not touch each other.                       *)
LEMMA Bits ==
  ASSUME NEW v \in Nat
  PROVE  /\ \A b \in {INTERRUPT, IRQ_ENABLE} :
              /\ HasBit(SetBit(v, b), START) <=> HasBit(v, START)
              /\ HasBit(ClearBit(v, b), START) <=> HasBit(v, START)
         /\ ~HasBit(ClearBit(v, START), START) /\ HasBit(SetBit(v, START), START)
         /\ HasBit(SetBit(v, INTERRUPT), INTERRUPT)
         /\ ~HasBit(0, START)
BY DEF HasBit, SetBit, ClearBit, START, INTERRUPT, IRQ_ENABLE

(* The core takes every command.                                           *)
LEMMA AlwaysSent == ASSUME CInv, "tx" \notin Faults PROVE ~NotSent
<1>1. TypeOK /\ LogInv
  BY DEF CInv, CBase, MemInv
<1>2. Len(cmds) \in Nat /\ TxDescriptors \in Nat
  BY <1>1, LenProperties, DescAssumption DEF TypeOK
<1>3. Submitting => Len(cmds) < TxDescriptors
  BY <1>1, RoomToSend
<1> QED
  BY <1>2, <1>3 DEF NotSent, Submitting
=============================================================================
