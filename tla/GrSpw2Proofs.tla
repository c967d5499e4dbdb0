---------------------------- MODULE GrSpw2Proofs ----------------------------
(***************************************************************************)
(* Proofs about the SpaceWire driver of GrSpw2: the driver's lists stay in *)
(* step with the hardware's walk through the descriptor tables, a packet   *)
(* whose size was asked for stays the next one, and driver and hardware    *)
(* together implement the two queues of SpwFifo, for every number of       *)
(* descriptors and every length of the link.                               *)
(***************************************************************************)
EXTENDS GrSpw2, SequenceTheorems, TLAPS

(* The k-th descriptor after descriptor b - 1 in a table of n, for k up to *)
(* n + 1.                                                                  *)
Pos(b, k, n) == IF b + k - 1 <= n THEN b + k - 1 ELSE b + k - 1 - n

(* The used list followed by the free list is the table from descriptor b  *)
(* on; the hardware is done with the first h descriptors of the used list, *)
(* the others are enabled, and it looks at the one after these h.          *)
RingAt(used, free, en, ptr, n, b, h) ==
  /\ used \in Seq(1 .. n) /\ free \in Seq(1 .. n) /\ en \in [1 .. n -> BOOLEAN]
  /\ b \in 1 .. n /\ h \in 0 .. Len(used)
  /\ Len(used) + Len(free) = n
  /\ \A k \in 1 .. Len(used) : used[k] = Pos(b, k, n) /\ (en[used[k]] <=> k > h)
  /\ \A k \in 1 .. Len(free) : free[k] = Pos(b, Len(used) + k, n) /\ ~en[free[k]]
  /\ ptr = Pos(b, h + 1, n)

(* Positions in a table: each descriptor has one, the one after the last   *)
(* is the first again, and counting may begin anywhere.                    *)
LEMMA PosIn ==
  ASSUME NEW n \in Nat \ {0}, NEW b \in 1 .. n, NEW k \in 1 .. n + 1
  PROVE  Pos(b, k, n) \in 1 .. n
BY DEF Pos

(* Two positions of the table are two descriptors.                         *)
LEMMA PosApart ==
  ASSUME NEW n \in Nat \ {0}, NEW b \in 1 .. n, NEW j \in 1 .. n,
         NEW k \in 1 .. n, j # k
  PROVE  Pos(b, j, n) # Pos(b, k, n)
BY DEF Pos

(* The first position, once and again.                                     *)
LEMMA PosEnds ==
  ASSUME NEW n \in Nat \ {0}, NEW b \in 1 .. n
  PROVE  Pos(b, n + 1, n) = b /\ Pos(b, 1, n) = b
BY DEF Pos

(* The hardware goes from one position to the next.                        *)
LEMMA PosAfter ==
  ASSUME NEW n \in Nat \ {0}, NEW b \in 1 .. n, NEW k \in 1 .. n
  PROVE  Pos(b, k + 1, n) = After(Pos(b, k, n), n)
BY DEF Pos, After

(* Counting from the j-th position on, to the end ...                      *)
LEMMA PosShift ==
  ASSUME NEW n \in Nat \ {0}, NEW b \in 1 .. n, NEW j \in 0 .. n,
         NEW k \in 1 .. n + 1, j + k <= n + 1
  PROVE  Pos(Pos(b, j + 1, n), k, n) = Pos(b, j + k, n)
BY DEF Pos

(* ... and beyond it.                                                      *)
LEMMA PosWrap ==
  ASSUME NEW n \in Nat \ {0}, NEW b \in 1 .. n, NEW j \in 0 .. n, NEW k \in 1 .. j
  PROVE  Pos(Pos(b, j + 1, n), n - j + k, n) = Pos(b, k, n)
BY DEF Pos

(* The driver finds out how many descriptors the hardware is done with.    *)
LEMMA ServedIs ==
  ASSUME NEW n \in Nat \ {0}, NEW used, NEW free, NEW en, NEW ptr, NEW b, NEW h,
         RingAt(used, free, en, ptr, n, b, h)
  PROVE  Served(used, en) = h
<1> DEFINE P(m) == /\ \A i \in 1 .. m : ~en[used[i]]
                   /\ m < Len(used) => en[used[m + 1]]
<1>1. Len(used) \in Nat /\ h \in 0 .. Len(used)
  BY LenProperties DEF RingAt
<1>2. \A k \in 1 .. Len(used) : en[used[k]] <=> k > h
  BY DEF RingAt
<1>3. P(h)
  BY <1>1, <1>2
<1>4. \A m \in 0 .. Len(used) : P(m) => m = h
  <2> SUFFICES ASSUME NEW m \in 0 .. Len(used), P(m), m # h PROVE FALSE
    OBVIOUS
  <2>1. CASE m < h
    <3>1. m + 1 \in 1 .. Len(used) /\ m < Len(used) /\ ~(m + 1 > h)
      BY <1>1, <2>1
    <3> QED
      BY <1>2, <3>1
  <2>2. CASE m > h
    <3>1. h + 1 \in 1 .. Len(used) /\ h + 1 \in 1 .. m /\ h + 1 > h
      BY <1>1, <2>2
    <3> QED
      BY <1>2, <3>1
  <2> QED
    BY <1>1, <2>1, <2>2
<1> HIDE DEF P
<1>5. (CHOOSE m \in 0 .. Len(used) : P(m)) = h
  BY <1>1, <1>3, <1>4
<1> QED
  BY <1>5 DEF P, Served

(* What the parts of a ring say, one by one.                               *)
LEMMA RingParts ==
  ASSUME NEW n \in Nat \ {0}, NEW used, NEW free, NEW en, NEW ptr, NEW b, NEW h,
         RingAt(used, free, en, ptr, n, b, h)
  PROVE  /\ used \in Seq(1 .. n) /\ free \in Seq(1 .. n)
         /\ en \in [1 .. n -> BOOLEAN]
         /\ Len(used) \in Nat /\ Len(free) \in Nat /\ h \in Nat
         /\ Len(used) + Len(free) = n /\ h <= Len(used)
         /\ b \in 1 .. n /\ ptr = Pos(b, h + 1, n)
<1>1. used \in Seq(1 .. n) /\ free \in Seq(1 .. n)
  BY DEF RingAt
<1>2. Len(used) \in Nat /\ Len(free) \in Nat
  BY <1>1, LenProperties
<1> QED
  BY <1>1, <1>2 DEF RingAt

(* u is what remains of the used list without its first h descriptors, f   *)
(* the free list with these at its end.                                    *)
Kept(u, used, h, n) ==
  /\ u \in Seq(1 .. n) /\ Len(u) = Len(used) - h
  /\ \A k \in 1 .. Len(used) - h : u[k] = used[h + k]
Freed(f, free, used, h, n) ==
  /\ f \in Seq(1 .. n) /\ Len(f) = Len(free) + h
  /\ \A k \in 1 .. Len(free) : f[k] = free[k]
  /\ \A k \in 1 .. h : f[Len(free) + k] = used[k]

(* The part of the used list that is kept.                                 *)
LEMMA KeptPart ==
  ASSUME NEW n, NEW used \in Seq(1 .. n), NEW h \in 0 .. Len(used)
  PROVE  Kept(SubSeq(used, h + 1, Len(used)), used, h, n)
<1> DEFINE S == 1 .. n
           u == SubSeq(used, h + 1, Len(used))
<1>1. Len(used) \in Nat /\ \A i \in 1 .. Len(used) : used[i] \in S
  BY LenProperties, ElementOfSeq
<1>2. h + 1 \in Int /\ Len(used) \in Int
      /\ \A i \in h + 1 .. Len(used) : used[i] \in S
  BY <1>1
<1>3. /\ u \in Seq(S)
      /\ Len(u) = IF h + 1 <= Len(used) THEN Len(used) - (h + 1) + 1 ELSE 0
      /\ \A k \in 1 .. Len(used) - (h + 1) + 1 : u[k] = used[(h + 1) + k - 1]
  BY <1>2, SubSeqProperties
<1> HIDE DEF u, S
<1>4. Len(u) = Len(used) - h
  BY <1>1, <1>3
<1>5. ASSUME NEW k \in 1 .. Len(used) - h PROVE u[k] = used[h + k]
  <2>1. k \in 1 .. Len(used) - (h + 1) + 1 /\ (h + 1) + k - 1 = h + k
    BY <1>1
  <2> QED
    BY <1>3, <2>1
<1> QED
  BY <1>3, <1>4, <1>5 DEF u, S, Kept

(* The free list with the part of the used list that is freed.             *)
LEMMA FreedPart ==
  ASSUME NEW n, NEW used \in Seq(1 .. n), NEW free \in Seq(1 .. n),
         NEW h \in 0 .. Len(used)
  PROVE  Freed(free \o SubSeq(used, 1, h), free, used, h, n)
<1> DEFINE S == 1 .. n
           g == SubSeq(used, 1, h)
           f == free \o g
<1>1. /\ Len(used) \in Nat /\ Len(free) \in Nat
      /\ \A i \in 1 .. Len(used) : used[i] \in S
  BY LenProperties, ElementOfSeq
<1>2. 1 \in Int /\ h \in Int /\ \A i \in 1 .. h : used[i] \in S
  BY <1>1
<1>3. /\ g \in Seq(S) /\ Len(g) = IF 1 <= h THEN h - 1 + 1 ELSE 0
      /\ \A k \in 1 .. h - 1 + 1 : g[k] = used[1 + k - 1]
  BY <1>2, SubSeqProperties
<1> HIDE DEF g
<1>4. Len(g) = h
  BY <1>1, <1>3
<1>5. /\ f \in Seq(S) /\ Len(f) = Len(free) + Len(g)
      /\ \A i \in 1 .. Len(free) + Len(g) :
           f[i] = IF i <= Len(free) THEN free[i] ELSE g[i - Len(free)]
  BY <1>3, ConcatProperties
<1> HIDE DEF f, S
<1>6. ASSUME NEW k \in 1 .. h PROVE f[Len(free) + k] = used[k]
  <2>1. /\ Len(free) + k \in 1 .. Len(free) + Len(g) /\ k \in 1 .. h - 1 + 1
        /\ ~(Len(free) + k <= Len(free)) /\ (Len(free) + k) - Len(free) = k
        /\ 1 + k - 1 = k
    BY <1>1, <1>4
  <2>2. g[k] = used[k]
    BY <1>3, <2>1
  <2> QED
    BY <1>5, <2>1, <2>2
<1>7. ASSUME NEW k \in 1 .. Len(free) PROVE f[k] = free[k]
  <2>1. k \in 1 .. Len(free) + Len(g) /\ k <= Len(free)
    BY <1>1, <1>4
  <2> QED
    BY <1>5, <2>1
<1> QED
  BY <1>4, <1>5, <1>6, <1>7 DEF f, g, S, Freed

(* Descriptors the hardware is done with go from the head of the used list *)
(* to the end of the free list: the ring begins further on.                *)
LEMMA MoveFree ==
  ASSUME NEW n \in Nat \ {0}, NEW used, NEW free, NEW en, NEW ptr, NEW b, NEW h \in Nat,
         RingAt(used, free, en, ptr, n, b, h), NEW j \in 0 .. h,
         NEW u, Kept(u, used, j, n), NEW f, Freed(f, free, used, j, n)
  PROVE  RingAt(u, f, en, ptr, n, Pos(b, j + 1, n), h - j)
<1> DEFINE c == Pos(b, j + 1, n)
<1>0. /\ en \in [1 .. n -> BOOLEAN]
      /\ Len(used) \in Nat /\ Len(free) \in Nat
      /\ Len(used) + Len(free) = n /\ h <= Len(used)
      /\ b \in 1 .. n /\ ptr = Pos(b, h + 1, n)
  BY LenProperties DEF RingAt
<1>1. PICK lu \in Nat, lf \in Nat :
        /\ Len(used) = lu /\ Len(free) = lf /\ lu + lf = n /\ h <= lu
  BY <1>0
<1>2. \A k \in 1 .. lu : used[k] = Pos(b, k, n) /\ (en[used[k]] <=> k > h)
  BY <1>1 DEF RingAt
<1>3. \A k \in 1 .. lf : free[k] = Pos(b, lu + k, n) /\ ~en[free[k]]
  BY <1>1 DEF RingAt
<1>4. /\ u \in Seq(1 .. n) /\ Len(u) = lu - j
      /\ \A k \in 1 .. lu - j : u[k] = used[j + k]
  BY <1>1 DEF Kept
<1>5. /\ f \in Seq(1 .. n) /\ Len(f) = lf + j
      /\ \A k \in 1 .. lf : f[k] = free[k]
      /\ \A k \in 1 .. j : f[lf + k] = used[k]
  BY <1>1 DEF Freed
<1>6. j \in 0 .. n /\ j + 1 \in 1 .. n + 1
  BY <1>1
<1>7. c \in 1 .. n
  BY <1>0, <1>6, PosIn
<1>8. ASSUME NEW k \in 1 .. lu - j
      PROVE  u[k] = Pos(c, k, n) /\ (en[u[k]] <=> k > h - j)
  <2>1. /\ k \in 1 .. n + 1 /\ j + k <= n + 1 /\ j + k \in 1 .. lu
        /\ (j + k > h <=> k > h - j)
    BY <1>1
  <2>2. Pos(c, k, n) = Pos(b, j + k, n)
    BY <1>0, <1>6, <2>1, PosShift
  <2>3. u[k] = used[j + k]
    BY <1>4
  <2> QED
    BY <1>2, <2>1, <2>2, <2>3
<1>9. ASSUME NEW k \in 1 .. lf + j
      PROVE  f[k] = Pos(c, (lu - j) + k, n) /\ ~en[f[k]]
  <2>1. CASE k <= lf
    <3>1. /\ (lu - j) + k \in 1 .. n + 1 /\ j + ((lu - j) + k) <= n + 1
          /\ j + ((lu - j) + k) = lu + k /\ k \in 1 .. lf
      BY <1>1, <2>1
    <3>2. Pos(c, (lu - j) + k, n) = Pos(b, lu + k, n)
      BY <1>0, <1>6, <3>1, PosShift
    <3> QED
      BY <1>3, <1>5, <3>1, <3>2
  <2>2. CASE k > lf
    <3>1. PICK i \in 1 .. j : k = lf + i
      <4>1. k - lf \in 1 .. j /\ k = lf + (k - lf)
        BY <1>1, <2>2
      <4> QED
        BY <4>1
    <3>2. (lu - j) + k = n - j + i /\ i \in 1 .. lu /\ ~(i > h)
      BY <1>1, <3>1
    <3>3. Pos(c, n - j + i, n) = Pos(b, i, n)
      BY <1>0, <1>6, PosWrap
    <3>4. f[k] = used[i]
      BY <1>5, <3>1
    <3> QED
      BY <1>2, <3>2, <3>3, <3>4
  <2> QED
    BY <1>1, <2>1, <2>2
<1>10. ptr = Pos(c, (h - j) + 1, n)
  <2>1. /\ (h - j) + 1 \in 1 .. n + 1 /\ j + ((h - j) + 1) <= n + 1
        /\ j + ((h - j) + 1) = h + 1
    BY <1>1
  <2> QED
    BY <1>0, <1>6, <2>1, PosShift
<1>11. /\ Len(u) + Len(f) = n /\ h - j \in 0 .. Len(u)
  BY <1>1, <1>4, <1>5
<1> HIDE DEF c
<1>12. RingAt(u, f, en, ptr, n, c, h - j)
  BY <1>0, <1>4, <1>5, <1>7, <1>8, <1>9, <1>10, <1>11 DEF RingAt
<1> QED
  BY <1>12 DEF c

(* The first free descriptor becomes the last used one and is enabled.     *)
LEMMA TakeFree ==
  ASSUME NEW n \in Nat \ {0}, NEW used, NEW free, NEW en, NEW ptr, NEW b, NEW h \in Nat,
         RingAt(used, free, en, ptr, n, b, h), free # <<>>
  PROVE  /\ Head(free) \in 1 .. n
         /\ \A k \in 1 .. Len(used) : used[k] # Head(free)
         /\ RingAt(Append(used, Head(free)), Tail(free),
                   [en EXCEPT ![Head(free)] = TRUE], ptr, n, b, h)
<1> DEFINE d == Head(free)
           u == Append(used, d)
           f == Tail(free)
           e == [en EXCEPT ![d] = TRUE]
<1>0. /\ used \in Seq(1 .. n) /\ free \in Seq(1 .. n)
      /\ en \in [1 .. n -> BOOLEAN]
      /\ Len(used) \in Nat /\ Len(free) \in Nat
      /\ Len(used) + Len(free) = n /\ h <= Len(used)
      /\ b \in 1 .. n /\ ptr = Pos(b, h + 1, n)
  BY LenProperties DEF RingAt
<1>1. PICK lu \in Nat, lf \in Nat :
        /\ Len(used) = lu /\ Len(free) = lf /\ lu + lf = n /\ h <= lu
        /\ en \in [1 .. n -> BOOLEAN] /\ b \in 1 .. n /\ ptr = Pos(b, h + 1, n)
  BY <1>0
<1>2. \A k \in 1 .. lu : used[k] = Pos(b, k, n) /\ (en[used[k]] <=> k > h)
  BY <1>1 DEF RingAt
<1>3. \A k \in 1 .. lf : free[k] = Pos(b, lu + k, n) /\ ~en[free[k]]
  BY <1>1 DEF RingAt
<1>4. /\ d \in 1 .. n /\ d = free[1] /\ f \in Seq(1 .. n)
      /\ Len(f) = lf - 1 /\ lf # 0
      /\ \A k \in 1 .. Len(f) : f[k] = free[k + 1]
  BY <1>0, <1>1, HeadTailProperties, EmptySeq
<1>5. /\ u \in Seq(1 .. n) /\ Len(u) = lu + 1 /\ u[lu + 1] = d
      /\ \A k \in 1 .. lu : u[k] = used[k]
  BY <1>0, <1>1, <1>4, AppendProperties
<1>6. /\ e \in [1 .. n -> BOOLEAN] /\ e[d]
      /\ \A x \in 1 .. n : x # d => e[x] = en[x]
  BY <1>1, <1>4
<1> HIDE DEF d, u, f, e
<1>7. lu + 1 \in 1 .. n /\ d = Pos(b, lu + 1, n)
  BY <1>1, <1>3, <1>4
<1>8. ASSUME NEW k \in 1 .. n, k # lu + 1
      PROVE  Pos(b, k, n) # d /\ Pos(b, k, n) \in 1 .. n
  <2>1. k \in 1 .. n + 1 /\ b \in 1 .. n
    BY <1>1
  <2>2. PICK j \in 1 .. n : j = lu + 1 /\ d = Pos(b, j, n) /\ j # k
    BY <1>7, <1>8
  <2>3. Pos(b, k, n) # Pos(b, j, n)
    BY <2>1, <2>2, PosApart
  <2>4. Pos(b, k, n) \in 1 .. n
    BY <2>1, PosIn
  <2> QED
    BY <2>2, <2>3, <2>4
<1>9. ASSUME NEW k \in 1 .. lu PROVE used[k] # d /\ used[k] \in 1 .. n
  <2>1. k \in 1 .. n /\ k # lu + 1
    BY <1>1
  <2> QED
    BY <1>2, <1>8, <2>1
<1>10. ASSUME NEW k \in 1 .. lu + 1
       PROVE  u[k] = Pos(b, k, n) /\ (e[u[k]] <=> k > h)
  <2>1. CASE k \in 1 .. lu
    <3>1. u[k] = used[k] /\ used[k] # d /\ used[k] \in 1 .. n
      BY <1>5, <1>9, <2>1
    <3>2. used[k] = Pos(b, k, n) /\ (en[used[k]] <=> k > h)
      BY <1>2, <2>1
    <3>3. e[used[k]] = en[used[k]]
      BY <1>6, <3>1
    <3> QED
      BY <3>1, <3>2, <3>3, Zenon
  <2>2. CASE k = lu + 1
    BY <1>1, <1>5, <1>6, <1>7, <2>2
  <2> QED
    BY <2>1, <2>2
<1>11. ASSUME NEW k \in 1 .. lf - 1
       PROVE  f[k] = Pos(b, (lu + 1) + k, n) /\ ~e[f[k]]
  <2>1. /\ k + 1 \in 1 .. lf /\ lu + (k + 1) = (lu + 1) + k
        /\ (lu + 1) + k \in 1 .. n /\ (lu + 1) + k # lu + 1
    BY <1>1
  <2>2. f[k] = Pos(b, (lu + 1) + k, n) /\ ~en[f[k]]
    BY <1>3, <1>4, <2>1
  <2>3. f[k] # d /\ f[k] \in 1 .. n
    BY <1>8, <2>1, <2>2
  <2> QED
    BY <1>6, <2>2, <2>3
<1>12. h \in 0 .. Len(u) /\ Len(u) + Len(f) = n
  BY <1>1, <1>4, <1>5
<1>13. RingAt(u, f, e, ptr, n, b, h)
  BY <1>1, <1>4, <1>5, <1>6, <1>10, <1>11, <1>12 DEF RingAt
<1>14. \A k \in 1 .. Len(used) : used[k] # d
  BY <1>1, <1>9
<1> QED
  BY <1>4, <1>13, <1>14 DEF d, u, f, e

(* The hardware serves the descriptor it looks at.                         *)
LEMMA Serve ==
  ASSUME NEW n \in Nat \ {0}, NEW used, NEW free, NEW en, NEW ptr, NEW b, NEW h \in Nat,
         RingAt(used, free, en, ptr, n, b, h), en[ptr]
  PROVE  /\ h < Len(used) /\ used[h + 1] = ptr /\ ptr \in 1 .. n
         /\ \A k \in 1 .. Len(used) : k # h + 1 => used[k] # ptr
         /\ RingAt(used, free, [en EXCEPT ![ptr] = FALSE], After(ptr, n), n, b, h + 1)
<1> DEFINE e == [en EXCEPT ![ptr] = FALSE]
<1>0. /\ used \in Seq(1 .. n) /\ free \in Seq(1 .. n)
      /\ en \in [1 .. n -> BOOLEAN]
      /\ Len(used) \in Nat /\ Len(free) \in Nat
      /\ Len(used) + Len(free) = n /\ h <= Len(used)
      /\ b \in 1 .. n /\ ptr = Pos(b, h + 1, n)
  BY LenProperties DEF RingAt
<1>1. PICK lu \in Nat, lf \in Nat :
        /\ Len(used) = lu /\ Len(free) = lf /\ lu + lf = n /\ h <= lu
  BY <1>0
<1>2. \A k \in 1 .. lu : used[k] = Pos(b, k, n) /\ (en[used[k]] <=> k > h)
  BY <1>1 DEF RingAt
<1>3. \A k \in 1 .. lf : free[k] = Pos(b, lu + k, n) /\ ~en[free[k]]
  BY <1>1 DEF RingAt
<1>4. h < lu
  <2> SUFFICES ASSUME h = lu PROVE FALSE
    BY <1>1
  <2>1. CASE lf = 0
    <3>1. h + 1 = n + 1 /\ 1 \in 1 .. lu /\ ~(1 > h)
      BY <1>1, <2>1
    <3>2. ptr = Pos(b, 1, n)
      BY <1>0, <3>1, PosEnds
    <3> QED
      BY <1>2, <3>1, <3>2
  <2>2. CASE lf # 0
    <3>1. 1 \in 1 .. lf /\ lu + 1 = h + 1
      BY <2>2
    <3> QED
      BY <1>0, <1>3, <3>1
  <2> QED
    BY <2>1, <2>2
<1>5. h + 1 \in 1 .. lu /\ h + 1 \in 1 .. n /\ h + 1 \in 1 .. n + 1
  BY <1>1, <1>4
<1>6. used[h + 1] = ptr /\ ptr \in 1 .. n
  BY <1>0, <1>2, <1>5, PosIn
<1>7. ASSUME NEW k \in 1 .. n, k # h + 1
      PROVE  Pos(b, k, n) # ptr /\ Pos(b, k, n) \in 1 .. n
  <2>1. k \in 1 .. n + 1
    OBVIOUS
  <2> QED
    BY <1>0, <1>5, <1>7, <2>1, PosIn, PosApart
<1>8. /\ e \in [1 .. n -> BOOLEAN] /\ ~e[ptr]
      /\ \A x \in 1 .. n : x # ptr => e[x] = en[x]
  BY <1>0, <1>6
<1> HIDE DEF e
<1>9. ASSUME NEW k \in 1 .. lu
      PROVE  /\ used[k] = Pos(b, k, n) /\ (e[used[k]] <=> k > h + 1)
             /\ k # h + 1 => used[k] # ptr
  <2>1. CASE k = h + 1
    BY <1>2, <1>6, <1>8, <2>1
  <2>2. CASE k # h + 1
    <3>1. k \in 1 .. n /\ (k > h <=> k > h + 1)
      BY <1>1, <2>2
    <3> QED
      BY <1>2, <1>7, <1>8, <2>2, <3>1
  <2> QED
    BY <2>1, <2>2
<1>10. ASSUME NEW k \in 1 .. lf PROVE ~e[free[k]]
  <2>1. lu + k \in 1 .. n /\ lu + k # h + 1
    BY <1>1, <1>4
  <2> QED
    BY <1>3, <1>7, <1>8, <2>1
<1>11. After(ptr, n) = Pos(b, (h + 1) + 1, n)
  BY <1>0, <1>5, PosAfter
<1>12. h + 1 \in 0 .. Len(used)
  BY <1>1, <1>4
<1>13. RingAt(used, free, e, After(ptr, n), n, b, h + 1)
  BY <1>0, <1>1, <1>3, <1>8, <1>9, <1>10, <1>11, <1>12 DEF RingAt
<1> QED
  BY <1>1, <1>4, <1>6, <1>9, <1>13 DEF e

(* A ring is what InStep promises.                                         *)
LEMMA RingInStep ==
  ASSUME NEW n \in Nat \ {0}, NEW used, NEW free, NEW en, NEW ptr, NEW b, NEW h \in Nat,
         RingAt(used, free, en, ptr, n, b, h)
  PROVE  InStep(used, free, en, ptr, n)
<1>0. /\ used \in Seq(1 .. n) /\ free \in Seq(1 .. n)
      /\ Len(used) \in Nat /\ Len(free) \in Nat
      /\ Len(used) + Len(free) = n /\ h <= Len(used)
      /\ b \in 1 .. n /\ ptr = Pos(b, h + 1, n)
  BY LenProperties DEF RingAt
<1>1. PICK lu \in Nat, lf \in Nat :
        /\ Len(used) = lu /\ Len(free) = lf /\ lu + lf = n /\ h <= lu
  BY <1>0
<1>2. \A k \in 1 .. lu : used[k] = Pos(b, k, n) /\ (en[used[k]] <=> k > h)
  BY <1>1 DEF RingAt
<1>3. \A k \in 1 .. lf : free[k] = Pos(b, lu + k, n) /\ ~en[free[k]]
  BY <1>1 DEF RingAt
<1> DEFINE ring == used \o free
<1>4. /\ Len(ring) = lu + lf
      /\ \A k \in 1 .. lu + lf : ring[k] = IF k <= lu THEN used[k] ELSE free[k - lu]
  BY <1>0, <1>1, ConcatProperties
<1> HIDE DEF ring
<1>5. ASSUME NEW k \in 1 .. n PROVE ring[k] = Pos(b, k, n)
  <2>1. CASE k <= lu
    BY <1>1, <1>2, <1>4, <2>1
  <2>2. CASE ~(k <= lu)
    <3>1. k - lu \in 1 .. lf /\ lu + (k - lu) = k
      BY <1>1, <2>2
    <3> QED
      BY <1>1, <1>3, <1>4, <2>2, <3>1
  <2> QED
    BY <2>1, <2>2
<1>6. ASSUME NEW k \in 1 .. n - 1 PROVE ring[k + 1] = After(ring[k], n)
  <2>1. k \in 1 .. n /\ k + 1 \in 1 .. n
    OBVIOUS
  <2> QED
    BY <1>0, <1>5, <2>1, PosAfter
<1>7. \A i, j \in 1 .. lu : i < j /\ en[used[i]] => en[used[j]]
  BY <1>2
<1>8. \A i \in 1 .. lf : ~en[free[i]]
  BY <1>3
<1>9. ASSUME NEW i \in 1 .. lu, en[used[i]], \A j \in 1 .. i - 1 : ~en[used[j]]
      PROVE  ptr = used[i]
  <2>1. i > h
    BY <1>2, <1>9
  <2>2. ~(i > h + 1)
    <3> SUFFICES ASSUME i > h + 1 PROVE FALSE
      OBVIOUS
    <3>1. i - 1 \in 1 .. lu /\ i - 1 \in 1 .. i - 1 /\ i - 1 > h
      BY <1>1
    <3> QED
      BY <1>2, <1>9, <3>1
  <2>3. i = h + 1
    BY <2>1, <2>2
  <2> QED
    BY <1>0, <1>2, <2>3
<1>10. ASSUME \A i \in 1 .. lu : ~en[used[i]]
       PROVE  ptr = IF free # <<>> THEN Head(free) ELSE Head(used)
  <2>1. h = lu
    <3> SUFFICES ASSUME h < lu PROVE FALSE
      BY <1>1
    <3>1. h + 1 \in 1 .. lu /\ h + 1 > h
      BY <1>1
    <3> QED
      BY <1>2, <1>10, <3>1
  <2>2. CASE free # <<>>
    <3>1. lf # 0
      BY <1>0, <1>1, <2>2, EmptySeq
    <3>2. 1 \in 1 .. lf /\ Head(free) = free[1]
      BY <1>0, <2>2, <3>1
    <3> QED
      BY <1>0, <1>3, <2>1, <2>2, <3>2
  <2>3. CASE free = <<>>
    <3>1. lf = 0
      BY <1>1, <2>3, EmptySeq
    <3>2. lu = n /\ 1 \in 1 .. lu /\ h + 1 = n + 1
      BY <1>1, <2>1, <3>1
    <3>3. Head(used) = used[1]
      BY <1>0
    <3>4. ptr = Pos(b, 1, n)
      BY <1>0, <3>2, PosEnds
    <3> QED
      BY <1>2, <2>3, <3>2, <3>3, <3>4
  <2> QED
    BY <2>2, <2>3
<1> QED
  BY <1>1, <1>4, <1>6, <1>7, <1>8, <1>9, <1>10 DEF InStep, ring
-----------------------------------------------------------------------------
(* The rings of both directions. Before the core is started nothing waits  *)
(* for the receiver.                                                       *)
TxRing == \E b, h \in Nat : RingAt(txUsed, txFree, txEn, txPtr, NTx, b, h)
RxRing == \E b, h \in Nat : RingAt(rxUsed, rxFree, rxEn, rxPtr, NRx, b, h)
RingInv ==
  /\ TxRing /\ RxRing
  /\ ~up => rxUsed = <<>> /\ peeked = <<>> /\ in = <<>>

(* What sending a packet does to the lists: the descriptors the hardware   *)
(* is done with become free, and the packet gets the first free one, if    *)
(* there is one.                                                           *)
LEMMA AddPktLists ==
  ASSUME NEW p, grspw2_add_pkt(p), NEW b \in Nat, NEW h \in Nat,
         RingAt(txUsed, txFree, txEn, txPtr, NTx, b, h)
  PROVE  \E c \in Nat, u \in Seq(TxDesc), d \in Nat :
           /\ Kept(u, txUsed, h, NTx)
           /\ RingAt(txUsed', txFree', txEn', txPtr, NTx, c, 0)
           /\ \/ /\ Len(u) = NTx /\ txUsed' = u /\ refused' = TRUE
                 /\ UNCHANGED <<txEn, txBuf, asked, rmw>>
              \/ /\ Len(u) < NTx /\ txUsed' = Append(u, d) /\ refused' = FALSE
                 /\ d \in TxDesc /\ \A k \in 1 .. Len(u) : u[k] # d
                 /\ txBuf' = [txBuf EXCEPT ![d] = Filled(d, p)]
                 /\ asked' = [asked EXCEPT ![d] = p.skip]
                 /\ txEn' = [txEn EXCEPT ![d] = TRUE]
                 /\ rmw' = [set |-> grspw2_tx_desc_new_avail, read |-> {},
                            at |-> "read"]
<1> DEFINE u == SubSeq(txUsed, h + 1, Len(txUsed))
           f == txFree \o SubSeq(txUsed, 1, h)
           c == Pos(b, h + 1, NTx)
           d == Head(f)
<1>0. NTx \in Nat \ {0}
  BY SpwAssumption
<1>1. Done = h
  BY <1>0, ServedIs DEF Done
<1>2. txUsed \in Seq(1 .. NTx) /\ txFree \in Seq(1 .. NTx) /\ h \in 0 .. Len(txUsed)
  BY DEF RingAt
<1>3. Kept(u, txUsed, h, NTx) /\ Freed(f, txFree, txUsed, h, NTx)
  BY <1>2, KeptPart, FreedPart
<1>4. /\ IF f = <<>>
         THEN /\ txFree' = f /\ txUsed' = u /\ refused' = TRUE
              /\ UNCHANGED <<txEn, txBuf, asked, rmw>>
         ELSE /\ txFree' = Tail(f)
              /\ txUsed' = Append(u, d)
              /\ txBuf' = [txBuf EXCEPT ![d] = Filled(d, p)]
              /\ asked' = [asked EXCEPT ![d] = p.skip]
              /\ txEn' = [txEn EXCEPT ![d] = TRUE]
              /\ refused' = FALSE
              /\ rmw' = [set |-> grspw2_tx_desc_new_avail, read |-> {}, at |-> "read"]
  <2>1. grspw2_tx_desc_move_free_all = [free |-> f, used |-> u]
    BY <1>1 DEF grspw2_tx_desc_move_free_all
  <2> HIDE DEF f, u
  <2>2. PICK l \in {grspw2_tx_desc_move_free_all} :
          IF l.free = <<>>
          THEN /\ txFree' = l.free /\ txUsed' = l.used
               /\ refused' = TRUE
               /\ UNCHANGED <<txEn, txBuf, asked, rmw>>
          ELSE /\ txFree' = Tail(l.free)
               /\ txUsed' = Append(l.used, Head(l.free))
               /\ txBuf' = [txBuf EXCEPT ![Head(l.free)] = Filled(Head(l.free), p)]
               /\ asked' = [asked EXCEPT ![Head(l.free)] = p.skip]
               /\ txEn' = [txEn EXCEPT ![Head(l.free)] = TRUE]
               /\ refused' = FALSE
               /\ Notify(grspw2_tx_desc_new_avail)
    BY DEF grspw2_add_pkt
  <2>3. l.free = f /\ l.used = u
    BY <2>1, <2>2
  <2> QED
    BY <2>2, <2>3 DEF Notify
<1> HIDE DEF u, f
<1>5. RingAt(u, f, txEn, txPtr, NTx, c, 0)
  <2>1. h \in 0 .. h /\ h - h = 0
    OBVIOUS
  <2>2. RingAt(u, f, txEn, txPtr, NTx, Pos(b, h + 1, NTx), h - h)
    BY <1>0, <1>3, <2>1, MoveFree
  <2> QED
    BY <2>1, <2>2
<1> HIDE DEF c
<1>6. c \in Nat /\ u \in Seq(TxDesc) /\ Len(u) \in Nat /\ Len(f) \in Nat
      /\ f \in Seq(1 .. NTx) /\ Len(u) + Len(f) = NTx
  BY <1>0, <1>5, LenProperties DEF RingAt, TxDesc
<1>7. CASE f = <<>>
  <2>1. Len(f) = 0
    BY <1>7, EmptySeq
  <2>2. Len(u) = NTx
    BY <1>0, <1>6, <2>1
  <2> QED
    BY <1>3, <1>4, <1>5, <1>6, <1>7, <2>2
<1>8. CASE f # <<>>
  <2>1. /\ d \in 1 .. NTx /\ \A k \in 1 .. Len(u) : u[k] # d
        /\ RingAt(Append(u, d), Tail(f), [txEn EXCEPT ![d] = TRUE], txPtr, NTx, c, 0)
    BY <1>0, <1>5, <1>8, TakeFree
  <2>2. Len(f) # 0
    BY <1>6, <1>8, EmptySeq
  <2>3. Len(u) < NTx
    BY <1>0, <1>6, <2>2
  <2> HIDE DEF d
  <2>4. RingAt(txUsed', txFree', txEn', txPtr, NTx, c, 0)
    BY <1>4, <1>8, <2>1
  <2>5. d \in TxDesc /\ d \in Nat
    BY <1>0, <2>1 DEF TxDesc
  <2> QED
    BY <1>3, <1>4, <1>6, <1>8, <2>1, <2>3, <2>4, <2>5
<1> QED
  BY <1>7, <1>8

(* What fetching a packet does to the lists: its descriptor is the only    *)
(* one that is enabled again.                                              *)
LEMMA FetchLists ==
  ASSUME Fetch, NEW b \in Nat, NEW h \in Nat,
         RingAt(rxUsed, rxFree, rxEn, rxPtr, NRx, b, h)
  PROVE  \E c \in Nat, u \in Seq(RxDesc), d \in Nat :
           /\ h >= 1 /\ Kept(u, rxUsed, 1, NRx)
           /\ RingAt(rxUsed', rxFree', rxEn', rxPtr, NRx, c, h - 1)
           /\ rxUsed' = Append(u, d)
<1> DEFINE u == Tail(rxUsed)
           f == Append(rxFree, Head(rxUsed))
           d == Head(f)
           c == Pos(b, 2, NRx)
<1>0. NRx \in Nat \ {0}
  BY SpwAssumption
<1>1. /\ rxUsed # <<>> /\ ~rxEn[Head(rxUsed)]
      /\ rxFree' = Tail(f) /\ rxUsed' = Append(u, d)
      /\ rxEn' = [rxEn EXCEPT ![d] = TRUE]
  BY DEF Fetch, PacketReady, grspw2_rx_desc_readd
<1>2. /\ rxUsed \in Seq(1 .. NRx) /\ rxFree \in Seq(1 .. NRx) /\ h \in 0 .. Len(rxUsed)
      /\ \A k \in 1 .. Len(rxUsed) : rxEn[rxUsed[k]] <=> k > h
  BY DEF RingAt
<1>3. /\ Len(rxUsed) \in Nat \ {0} /\ Head(rxUsed) = rxUsed[1]
      /\ Head(rxUsed) \in 1 .. NRx
      /\ u \in Seq(1 .. NRx) /\ Len(u) = Len(rxUsed) - 1
      /\ \A k \in 1 .. Len(u) : u[k] = rxUsed[k + 1]
  <2>1. /\ Head(rxUsed) \in 1 .. NRx /\ u \in Seq(1 .. NRx)
        /\ Len(u) = Len(rxUsed) - 1
        /\ \A k \in 1 .. Len(u) : u[k] = rxUsed[k + 1]
    BY <1>1, <1>2, HeadTailProperties
  <2>2. Len(rxUsed) \in Nat \ {0}
    BY <1>1, <1>2, LenProperties, EmptySeq
  <2>3. Head(rxUsed) = rxUsed[1]
    BY <1>1, <1>2
  <2> QED
    BY <2>1, <2>2, <2>3
<1>4. h >= 1 /\ 1 \in 0 .. h
  BY <1>1, <1>2, <1>3
<1>5. Kept(u, rxUsed, 1, NRx)
  BY <1>3 DEF Kept
<1>6. Freed(f, rxFree, rxUsed, 1, NRx)
  <2>1. /\ f \in Seq(1 .. NRx) /\ Len(f) = Len(rxFree) + 1
        /\ f[Len(rxFree) + 1] = Head(rxUsed)
        /\ \A k \in 1 .. Len(rxFree) : f[k] = rxFree[k]
    BY <1>2, <1>3, AppendProperties
  <2>2. \A k \in 1 .. 1 : k = 1
    OBVIOUS
  <2> QED
    BY <1>3, <2>1, <2>2 DEF Freed
<1>7. f # <<>>
  BY <1>2, <1>3, AppendProperties
<1> HIDE DEF u, f
<1>8. RingAt(u, f, rxEn, rxPtr, NRx, Pos(b, 1 + 1, NRx), h - 1)
  BY <1>0, <1>4, <1>5, <1>6, MoveFree
<1>9. RingAt(u, f, rxEn, rxPtr, NRx, c, h - 1) /\ c \in 1 .. NRx /\ h - 1 \in Nat
  <2>1. 1 + 1 = 2 /\ h - 1 \in Nat
    BY <1>4
  <2> QED
    BY <1>8, <2>1 DEF RingAt
<1> HIDE DEF c
<1>10. /\ d \in 1 .. NRx
       /\ RingAt(Append(u, d), Tail(f), [rxEn EXCEPT ![d] = TRUE], rxPtr, NRx, c, h - 1)
  BY <1>0, <1>7, <1>9, TakeFree
<1> HIDE DEF d
<1>11. RingAt(rxUsed', rxFree', rxEn', rxPtr, NRx, c, h - 1)
  BY <1>1, <1>10
<1>12. c \in Nat /\ d \in Nat /\ u \in Seq(RxDesc)
  BY <1>0, <1>3, <1>9, <1>10 DEF RxDesc
<1> QED
  BY <1>1, <1>4, <1>5, <1>11, <1>12

(* Starting the core enables every receive descriptor in its order.        *)
LEMMA StartRing ==
  ASSUME NEW b \in Nat, NEW h \in Nat, rxUsed = <<>>,
         RingAt(rxUsed, rxFree, rxEn, rxPtr, NRx, b, h),
         grspw2_core_start
  PROVE  RingAt(rxUsed', rxFree', rxEn', rxPtr, NRx, b, 0)
<1>0. NRx \in Nat \ {0} /\ Len(rxUsed) = 0
  BY SpwAssumption, EmptySeq
<1>1. /\ rxFree \in Seq(1 .. NRx) /\ b \in 1 .. NRx /\ h = 0
      /\ Len(rxFree) = NRx /\ rxPtr = Pos(b, 0 + 1, NRx)
      /\ \A k \in 1 .. NRx : rxFree[k] = Pos(b, k, NRx)
  <2>1. /\ rxFree \in Seq(1 .. NRx) /\ b \in 1 .. NRx /\ h \in 0 .. 0
        /\ 0 + Len(rxFree) = NRx /\ rxPtr = Pos(b, h + 1, NRx)
        /\ \A k \in 1 .. Len(rxFree) : rxFree[k] = Pos(b, 0 + k, NRx)
    BY <1>0 DEF RingAt
  <2>2. Len(rxFree) = NRx /\ h = 0 /\ \A k \in 1 .. NRx : 0 + k = k
    BY <1>0, <2>1, LenProperties
  <2> QED
    BY <2>1, <2>2
<1>2. rxUsed' = rxFree /\ rxFree' = <<>> /\ rxEn' = [d \in RxDesc |-> TRUE]
  BY <1>1, ConcatEmptySeq DEF grspw2_core_start
<1>3. ASSUME NEW k \in 1 .. NRx
      PROVE  rxFree[k] = Pos(b, k, NRx) /\ (rxEn'[rxFree[k]] <=> k > 0)
  <2>1. rxFree[k] \in 1 .. NRx
    BY <1>1, ElementOfSeq
  <2> QED
    BY <1>1, <1>2, <2>1 DEF RxDesc
<1>4. /\ <<>> \in Seq(1 .. NRx) /\ Len(<<>>) = 0 /\ rxEn' \in [1 .. NRx -> BOOLEAN]
      /\ 0 \in 0 .. NRx /\ NRx + 0 = NRx /\ \A k \in 1 .. 0 : FALSE
  BY <1>0, <1>2, EmptySeq DEF RxDesc
<1> QED
  BY <1>1, <1>2, <1>3, <1>4 DEF RingAt

(* Every step keeps the rings.                                             *)
LEMMA RingInvStep == RingInv /\ [Next]_vars => RingInv'
<1> SUFFICES ASSUME RingInv, [Next]_vars PROVE RingInv'
  OBVIOUS
<1>0. NTx \in Nat \ {0} /\ NRx \in Nat \ {0}
  BY SpwAssumption
<1>1. PICK b \in Nat, h \in Nat : RingAt(txUsed, txFree, txEn, txPtr, NTx, b, h)
  BY DEF RingInv, TxRing
<1>2. PICK c \in Nat, g \in Nat : RingAt(rxUsed, rxFree, rxEn, rxPtr, NRx, c, g)
  BY DEF RingInv, RxRing
<1>3. ASSUME UNCHANGED <<txUsed, txFree, txEn, txPtr>> PROVE TxRing'
  BY <1>1, <1>3 DEF TxRing
<1>4. ASSUME UNCHANGED <<rxUsed, rxFree, rxEn, rxPtr>> PROVE RxRing'
  BY <1>2, <1>4 DEF RxRing
<1>5. CASE grspw2_core_start
  <2>1. TxRing'
    BY <1>3, <1>5 DEF grspw2_core_start
  <2>2. rxUsed = <<>> /\ rxPtr' = rxPtr /\ up'
    BY <1>5 DEF grspw2_core_start, RingInv
  <2>3. RxRing'
    BY <1>2, <1>5, <2>2, StartRing DEF RxRing
  <2> QED
    BY <2>1, <2>2, <2>3 DEF RingInv
<1>6. ASSUME NEW p, grspw2_add_pkt(p) PROVE RingInv'
  <2>1. txPtr' = txPtr /\ UNCHANGED <<rxUsed, rxFree, rxEn, rxPtr, up, peeked, in>>
    BY <1>6 DEF grspw2_add_pkt
  <2>2. \E a \in Nat : RingAt(txUsed', txFree', txEn', txPtr, NTx, a, 0)
    BY <1>1, <1>6, AddPktLists
  <2>3. TxRing'
    BY <2>1, <2>2 DEF TxRing
  <2> QED
    BY <1>4, <2>1, <2>3 DEF RingInv
<1>7. CASE Fetch
  <2>1. /\ rxPtr' = rxPtr /\ UNCHANGED <<txUsed, txFree, txEn, txPtr, up, in>>
        /\ up
    BY <1>7 DEF Fetch, Ready
  <2>2. \E a \in Nat : g - 1 \in Nat /\ RingAt(rxUsed', rxFree', rxEn', rxPtr, NRx, a, g - 1)
    BY <1>2, <1>7, FetchLists
  <2>3. RxRing'
    BY <2>1, <2>2 DEF RxRing
  <2> QED
    BY <1>3, <2>1, <2>3 DEF RingInv
<1>8. CASE HwSend
  <2>1. /\ txEn[txPtr] /\ txEn' = [txEn EXCEPT ![txPtr] = FALSE]
        /\ txPtr' = After(txPtr, NTx)
        /\ UNCHANGED <<txUsed, txFree, rxUsed, rxFree, rxEn, rxPtr, up, peeked, in>>
    BY <1>8 DEF HwSend, lists
  <2>2. RingAt(txUsed, txFree, [txEn EXCEPT ![txPtr] = FALSE], After(txPtr, NTx),
               NTx, b, h + 1)
    BY <1>0, <1>1, <2>1, Serve
  <2>3. TxRing'
    BY <2>1, <2>2 DEF TxRing
  <2> QED
    BY <1>4, <2>1, <2>3 DEF RingInv
<1>9. CASE HwReceive
  <2>1. /\ rxEn[rxPtr] /\ rxEn' = [rxEn EXCEPT ![rxPtr] = FALSE]
        /\ rxPtr' = After(rxPtr, NRx) /\ in # <<>>
        /\ UNCHANGED <<rxUsed, rxFree, txUsed, txFree, txEn, txPtr, up, peeked>>
    BY <1>9 DEF HwReceive, lists
  <2>2. RingAt(rxUsed, rxFree, [rxEn EXCEPT ![rxPtr] = FALSE], After(rxPtr, NRx),
               NRx, c, g + 1)
    BY <1>0, <1>2, <2>1, Serve
  <2>3. RxRing'
    BY <2>1, <2>2 DEF RxRing
  <2> QED
    BY <1>3, <2>1, <2>3 DEF RingInv
<1>10. CASE Peek
  BY <1>3, <1>4, <1>10 DEF Peek, Ready, lists, RingInv
<1>11. CASE Access \/ grspw2_dma_error
  BY <1>3, <1>4, <1>11
     DEF Access, ReadControl, WriteControl, grspw2_dma_error, lists, RingInv
<1>12. CASE HwTxIdle \/ HwRxIdle \/ HwSpill \/ HwError
  BY <1>3, <1>4, <1>12 DEF HwTxIdle, HwRxIdle, HwSpill, HwError, lists, RingInv
<1>13. ASSUME NEW a, PeerSends(a) PROVE RingInv'
  BY <1>3, <1>4, <1>13 DEF PeerSends, lists, RingInv
<1>14. CASE PeerTakes \/ UNCHANGED vars
  BY <1>3, <1>4, <1>14 DEF PeerTakes, vars, lists, RingInv
<1> QED
  BY <1>5, <1>6, <1>7, <1>8, <1>9, <1>10, <1>11, <1>12, <1>13, <1>14
     DEF Next, Hardware

(* An empty used list and the whole table, from its first descriptor on.   *)
LEMMA FreshRing ==
  ASSUME NEW n \in Nat \ {0}
  PROVE  RingAt(<<>>, Tables(n), [d \in 1 .. n |-> FALSE], 1, n, 1, 0)
<1>1. /\ Tables(n) \in Seq(1 .. n) /\ Len(Tables(n)) = n
      /\ \A k \in 1 .. n : Tables(n)[k] = k
  BY IsASeq DEF Tables
<1>2. <<>> \in Seq(1 .. n) /\ Len(<<>>) = 0
  BY EmptySeq
<1>3. \A k \in 1 .. n : Pos(1, k, n) = k
  BY DEF Pos
<1>4. 1 \in 1 .. n /\ 0 \in 0 .. 0 /\ 0 + n = n /\ \A k \in 1 .. n : 0 + k = k
  OBVIOUS
<1>5. [d \in 1 .. n |-> FALSE] \in [1 .. n -> BOOLEAN]
  OBVIOUS
<1>6. \A k \in 1 .. 0 : FALSE
  OBVIOUS
<1> QED
  BY <1>1, <1>2, <1>3, <1>4, <1>5, <1>6 DEF RingAt

(* The lists and the tables after grspw2_core_init.                        *)
LEMMA RingInit == Init => RingInv
<1> SUFFICES ASSUME Init PROVE RingInv
  OBVIOUS
<1>0. NTx \in Nat \ {0} /\ NRx \in Nat \ {0}
  BY SpwAssumption
<1>1. RingAt(txUsed, txFree, txEn, txPtr, NTx, 1, 0)
  BY <1>0, FreshRing DEF Init, TxDesc
<1>2. RingAt(rxUsed, rxFree, rxEn, rxPtr, NRx, 1, 0)
  BY <1>0, FreshRing DEF Init, RxDesc
<1> QED
  BY <1>1, <1>2 DEF Init, RingInv, TxRing, RxRing

(* The driver's lists and the hardware's walk stay in step, for every      *)
(* number of descriptors and however driver, hardware and error interrupt  *)
(* interleave.                                                             *)
THEOREM RingsCorrect == Spec => []RingsInStep
<1>1. RingInv => RingsInStep
  <2>1. NTx \in Nat \ {0} /\ NRx \in Nat \ {0}
    BY SpwAssumption
  <2> QED
    BY <2>1, RingInStep DEF RingInv, TxRing, RxRing, RingsInStep
<1> QED
  BY <1>1, RingInit, RingInvStep, PTL DEF Spec

(* The hardware only writes into enabled descriptors, and the driver only  *)
(* enables the one it has fetched.                                         *)
LEMMA PeekedStep == RingInv /\ PeekedStays /\ [Next]_vars => PeekedStays'
<1> SUFFICES ASSUME RingInv, PeekedStays, [Next]_vars, peeked' # <<>>
             PROVE  PacketReady' /\ rxBuf'[Head(rxUsed')] = peeked'[1]
  BY DEF PeekedStays
<1>1. ASSUME UNCHANGED <<rxUsed, rxEn, rxBuf, peeked>>
      PROVE  PacketReady' /\ rxBuf'[Head(rxUsed')] = peeked'[1]
  BY <1>1 DEF PeekedStays, PacketReady
<1>2. CASE grspw2_core_start
  BY <1>2 DEF grspw2_core_start, RingInv
<1>3. CASE Peek
  <2>1. UNCHANGED <<rxUsed, rxEn, rxBuf>>
    BY <1>3 DEF Peek, lists
  <2>2. CASE PacketReady
    BY <1>3, <2>1, <2>2 DEF Peek, PacketReady
  <2>3. CASE ~PacketReady
    BY <1>1, <1>3, <2>1, <2>3 DEF Peek
  <2> QED
    BY <2>2, <2>3
<1>4. CASE Fetch
  BY <1>4 DEF Fetch
<1>5. CASE HwReceive
  <2>1. /\ rxEn[rxPtr] /\ UNCHANGED <<rxUsed, peeked>>
        /\ rxBuf' = [rxBuf EXCEPT ![rxPtr] = Head(in)]
        /\ rxEn' = [rxEn EXCEPT ![rxPtr] = FALSE]
    BY <1>5 DEF HwReceive, lists
  <2>2. rxUsed # <<>> /\ ~rxEn[Head(rxUsed)] /\ rxBuf[Head(rxUsed)] = peeked[1]
    BY <2>1 DEF PeekedStays, PacketReady
  <2>3. Head(rxUsed) # rxPtr
    BY <2>1, <2>2
  <2>4. rxBuf'[Head(rxUsed)] = rxBuf[Head(rxUsed)]
        /\ rxEn'[Head(rxUsed)] = rxEn[Head(rxUsed)]
    BY <2>1, <2>3
  <2> QED
    BY <2>1, <2>2, <2>4 DEF PacketReady
<1>6. ASSUME NEW p, grspw2_add_pkt(p)
      PROVE  PacketReady' /\ rxBuf'[Head(rxUsed')] = peeked'[1]
  BY <1>1, <1>6 DEF grspw2_add_pkt
<1>7. CASE Access \/ grspw2_dma_error
  BY <1>1, <1>7 DEF Access, ReadControl, WriteControl, grspw2_dma_error, lists
<1>8. CASE HwSend \/ HwTxIdle \/ HwRxIdle \/ HwSpill \/ HwError
  BY <1>1, <1>8 DEF HwSend, HwTxIdle, HwRxIdle, HwSpill, HwError, lists
<1>9. ASSUME NEW a, PeerSends(a)
      PROVE  PacketReady' /\ rxBuf'[Head(rxUsed')] = peeked'[1]
  BY <1>1, <1>9 DEF PeerSends, lists
<1>10. CASE PeerTakes \/ UNCHANGED vars
  BY <1>1, <1>10 DEF PeerTakes, vars, lists
<1> QED
  BY <1>2, <1>3, <1>4, <1>5, <1>6, <1>7, <1>8, <1>9, <1>10 DEF Next, Hardware

(* A packet whose size the caller was told is the packet it will fetch.    *)
THEOREM PeekedCorrect == Spec => []PeekedStays
<1>1. Init => PeekedStays
  BY DEF Init, PeekedStays
<1> QED
  BY <1>1, RingInit, RingInvStep, PeekedStep, PTL DEF Spec
-----------------------------------------------------------------------------
(* What is in the descriptors, on the link and in the control register. A  *)
(* packet is sent with the count it was given, or with an old one if its   *)
(* own is 0, which "tx" excludes and which is harmless if all counts are   *)
(* 0; without bus errors the receiver stays on and never spills.           *)
PktInv ==
  /\ mode \in Modes
  /\ txBuf \in [TxDesc -> Pkts] /\ rxBuf \in [RxDesc -> Answers]
  /\ asked \in [TxDesc -> Skips]
  /\ in \in Seq(Answers) /\ out \in Seq(Pkts)
  /\ \A d \in TxDesc : asked[d] = 0 \/ txBuf[d].skip = asked[d]
  /\ mode = "tx" => \A d \in TxDesc : txEn[d] => asked[d] # 0
  /\ mode \notin {"tx", "paths"} =>
       \A d \in TxDesc : txBuf[d].skip = 0 /\ asked[d] = 0
CtrlInv ==
  /\ rmw.at \in {"none", "read", "write"}
  /\ ~up => rmw.at = "none"
  /\ mode # "errors" =>
       /\ ~irq /\ "NS" \in ctrl /\ (up => "RE" \in ctrl)
       /\ rmw.at = "write" => {"NS", "RE"} \subseteq rmw.read

(* The traffic is made of packets.                                         *)
LEMMA Traffic ==
  /\ \A p \in Sent(mode) :
       /\ p \in Pkts /\ (mode = "tx" => p.skip # 0)
       /\ mode \notin {"tx", "paths"} => p.skip = 0
  /\ \A a \in Arriving(mode) : a \in Answers
<1>1. Some(Ids) \in Ids /\ Some(Answers) \in Answers /\ 0 \in Skips
  BY SpwAssumption DEF Some
<1> HIDE DEF Some
<1>2. [id |-> Some(Ids), skip |-> 0] \in Pkts
  BY <1>1 DEF Pkts
<1> QED
  BY <1>1, <1>2 DEF Sent, Arriving

(* The first packets, the receiver off.                                    *)
LEMMA PktInit == Init => PktInv /\ CtrlInv
<1> SUFFICES ASSUME Init PROVE PktInv /\ CtrlInv
  OBVIOUS
<1>1. Some(Ids) \in Ids /\ Some(Answers) \in Answers /\ 0 \in Skips
  BY SpwAssumption DEF Some
<1>2. [id |-> Some(Ids), skip |-> 0] \in Pkts
  BY <1>1 DEF Pkts
<1>3. in \in Seq(Answers) /\ out \in Seq(Pkts)
  BY EmptySeq DEF Init
<1>4. PktInv
  BY <1>1, <1>2, <1>3 DEF Init, PktInv
<1>5. CtrlInv
  BY DEF Init, CtrlInv, NoAccess
<1> QED
  BY <1>4, <1>5

(* Every step keeps the packets.                                           *)
LEMMA PktStep == RingInv /\ PktInv /\ [Next]_vars => PktInv'
<1> SUFFICES ASSUME RingInv, PktInv, [Next]_vars PROVE PktInv'
  OBVIOUS
<1>0. NTx \in Nat \ {0} /\ NRx \in Nat \ {0} /\ 0 \in Skips
  BY SpwAssumption
<1>1. PICK b \in Nat, h \in Nat : RingAt(txUsed, txFree, txEn, txPtr, NTx, b, h)
  BY DEF RingInv, TxRing
<1>2. PICK c \in Nat, g \in Nat : RingAt(rxUsed, rxFree, rxEn, rxPtr, NRx, c, g)
  BY DEF RingInv, RxRing
<1>3. ASSUME UNCHANGED <<mode, txEn, txBuf, rxBuf, asked>>,
             in' \in Seq(Answers), out' \in Seq(Pkts)
      PROVE  PktInv'
  BY <1>3 DEF PktInv
<1>4. in \in Seq(Answers) /\ out \in Seq(Pkts)
  BY DEF PktInv
<1>5. ASSUME NEW p \in Sent(mode), grspw2_add_pkt(p) PROVE PktInv'
  <2>1. UNCHANGED <<mode, rxBuf, in, out>>
    BY <1>5 DEF grspw2_add_pkt
  <2>2. CASE UNCHANGED <<txEn, txBuf, asked>>
    BY <1>3, <1>4, <2>1, <2>2
  <2>3. ASSUME NEW d \in TxDesc,
               txBuf' = [txBuf EXCEPT ![d] = Filled(d, p)],
               asked' = [asked EXCEPT ![d] = p.skip],
               txEn' = [txEn EXCEPT ![d] = TRUE]
        PROVE  PktInv'
    <3>1. /\ p \in Pkts /\ (mode = "tx" => p.skip # 0)
          /\ mode \notin {"tx", "paths"} => p.skip = 0
      BY Traffic
    <3>2. /\ Filled(d, p) \in Pkts /\ p.skip \in Skips
          /\ Filled(d, p).skip = IF p.skip # 0 THEN p.skip ELSE txBuf[d].skip
      BY <3>1 DEF Filled, Pkts, PktInv
    <3>3. /\ txBuf' \in [TxDesc -> Pkts] /\ asked' \in [TxDesc -> Skips]
          /\ txBuf'[d] = Filled(d, p) /\ asked'[d] = p.skip
          /\ \A e \in TxDesc : e # d => txBuf'[e] = txBuf[e] /\ asked'[e] = asked[e]
      BY <2>3, <3>2 DEF PktInv
    <3>4. \A e \in TxDesc : asked'[e] = 0 \/ txBuf'[e].skip = asked'[e]
      BY <3>2, <3>3 DEF PktInv
    <3>5. mode \notin {"tx", "paths"} =>
            \A e \in TxDesc : txBuf'[e].skip = 0 /\ asked'[e] = 0
      BY <3>1, <3>2, <3>3 DEF PktInv
    <3>6. \A e \in TxDesc : e # d => txEn'[e] = txEn[e]
      <4>1. txEn \in [TxDesc -> BOOLEAN]
        BY <1>1 DEF RingAt, TxDesc
      <4> QED
        BY <2>3, <4>1
    <3>7. mode = "tx" => \A e \in TxDesc : txEn'[e] => asked'[e] # 0
      BY <3>1, <3>3, <3>6 DEF PktInv
    <3> QED
      BY <2>1, <3>3, <3>4, <3>5, <3>7 DEF PktInv
  <2>4. \/ UNCHANGED <<txEn, txBuf, asked>>
        \/ \E d \in TxDesc : /\ txBuf' = [txBuf EXCEPT ![d] = Filled(d, p)]
                             /\ asked' = [asked EXCEPT ![d] = p.skip]
                             /\ txEn' = [txEn EXCEPT ![d] = TRUE]
    BY <1>1, <1>5, AddPktLists
  <2> QED
    BY <2>2, <2>3, <2>4
<1>6. CASE HwSend
  <2>1. /\ txEn[txPtr] /\ UNCHANGED <<mode, rxBuf, txBuf, in>>
        /\ out' = Append(out, txBuf[txPtr]) /\ asked' = [asked EXCEPT ![txPtr] = 0]
        /\ txEn' = [txEn EXCEPT ![txPtr] = FALSE]
    BY <1>6 DEF HwSend
  <2>2. txPtr \in TxDesc
    BY <1>0, <1>1, <2>1, Serve DEF TxDesc
  <2>3. txBuf[txPtr] \in Pkts
    BY <2>2 DEF PktInv
  <2>4. out' \in Seq(Pkts)
    BY <1>4, <2>1, <2>3, AppendProperties
  <2>5. /\ asked' \in [TxDesc -> Skips]
        /\ \A e \in TxDesc : asked'[e] = IF e = txPtr THEN 0 ELSE asked[e]
    BY <1>0, <2>1, <2>2 DEF PktInv
  <2>6. \A e \in TxDesc : txEn'[e] => e # txPtr /\ txEn[e]
    <3>1. txEn \in [TxDesc -> BOOLEAN]
      BY <1>1 DEF RingAt, TxDesc
    <3> QED
      BY <2>1, <3>1
  <2> QED
    BY <2>1, <2>4, <2>5, <2>6 DEF PktInv
<1>7. CASE HwReceive
  <2>1. /\ rxEn[rxPtr] /\ in # <<>> /\ UNCHANGED <<mode, txEn, txBuf, asked, out>>
        /\ rxBuf' = [rxBuf EXCEPT ![rxPtr] = Head(in)] /\ in' = Tail(in)
    BY <1>7 DEF HwReceive
  <2>2. Head(in) \in Answers /\ in' \in Seq(Answers)
    BY <1>4, <2>1, HeadTailProperties
  <2>3. rxBuf' \in [RxDesc -> Answers]
    BY <2>1, <2>2 DEF PktInv
  <2> QED
    BY <2>1, <2>2, <2>3 DEF PktInv
<1>8. CASE HwSpill
  <2>1. in # <<>> /\ in' = Tail(in) /\ UNCHANGED <<mode, txEn, txBuf, rxBuf, asked, out>>
    BY <1>8 DEF HwSpill
  <2>2. in' \in Seq(Answers)
    BY <1>4, <2>1, HeadTailProperties
  <2> QED
    BY <1>3, <1>4, <2>1, <2>2
<1>9. ASSUME NEW a \in Arriving(mode), PeerSends(a) PROVE PktInv'
  <2>1. in' = Append(in, a) /\ UNCHANGED <<mode, txEn, txBuf, rxBuf, asked, out>>
    BY <1>9 DEF PeerSends
  <2>2. in' \in Seq(Answers)
    BY <1>4, <2>1, Traffic, AppendProperties
  <2> QED
    BY <1>3, <1>4, <2>1, <2>2
<1>10. CASE PeerTakes
  <2>1. out # <<>> /\ out' = Tail(out) /\ UNCHANGED <<mode, txEn, txBuf, rxBuf, asked, in>>
    BY <1>10 DEF PeerTakes
  <2>2. out' \in Seq(Pkts)
    BY <1>4, <2>1, HeadTailProperties
  <2> QED
    BY <1>3, <1>4, <2>1, <2>2
<1>11. CASE grspw2_core_start \/ Peek \/ Fetch \/ grspw2_dma_error \/ UNCHANGED vars
  BY <1>3, <1>4, <1>11 DEF grspw2_core_start, Peek, Fetch, grspw2_dma_error, vars
<1>12. CASE Access \/ HwTxIdle \/ HwRxIdle \/ HwError
  BY <1>3, <1>4, <1>12
     DEF Access, ReadControl, WriteControl, HwTxIdle, HwRxIdle, HwError
<1> QED
  BY <1>5, <1>6, <1>7, <1>8, <1>9, <1>10, <1>11, <1>12 DEF Next, Hardware

(* Without bus errors no access to the control register, however it is     *)
(* interleaved with others, switches the receiver off.                     *)
LEMMA CtrlStep == CtrlInv /\ [Next]_vars => CtrlInv'
<1> SUFFICES ASSUME CtrlInv, [Next]_vars PROVE CtrlInv'
  OBVIOUS
<1>1. ASSUME UNCHANGED <<mode, up, ctrl, irq>>,
             rmw' = rmw \/ (up /\ rmw'.at = "read")
      PROVE  CtrlInv'
  BY <1>1 DEF CtrlInv
<1>2. CASE grspw2_core_start
  BY <1>2 DEF grspw2_core_start, grspw2_rx_desc_new_avail, CtrlInv
<1>3. ASSUME NEW p, grspw2_add_pkt(p) PROVE CtrlInv'
  <2>1. up /\ (rmw' = rmw \/ rmw'.at = "read")
    BY <1>3 DEF grspw2_add_pkt, Ready, Notify
  <2> QED
    BY <1>1, <1>3, <2>1 DEF grspw2_add_pkt
<1>4. CASE Fetch
  <2>1. up /\ rmw'.at = "read"
    BY <1>4 DEF Fetch, Ready, Notify, grspw2_rx_desc_readd
  <2> QED
    BY <1>1, <1>4, <2>1 DEF Fetch
<1>5. CASE ReadControl
  <2>1. rmw.at = "read" /\ up /\ UNCHANGED <<mode, up, ctrl, irq>>
    BY <1>5 DEF ReadControl, CtrlInv
  <2>2. rmw' = [rmw EXCEPT !.read = ctrl, !.at = "write"]
    BY <1>5 DEF ReadControl
  <2> QED
    BY <2>1, <2>2 DEF CtrlInv
<1>6. CASE WriteControl
  BY <1>6 DEF WriteControl, Written, ErrorBits, NoAccess, CtrlInv
<1>7. CASE grspw2_dma_error
  BY <1>7 DEF grspw2_dma_error, CtrlInv
<1>8. CASE HwTxIdle \/ HwRxIdle \/ HwError
  BY <1>8 DEF HwTxIdle, HwRxIdle, HwError, CtrlInv
<1>9. CASE Peek \/ HwSend \/ HwReceive \/ HwSpill \/ PeerTakes \/ UNCHANGED vars
  BY <1>1, <1>9 DEF Peek, HwSend, HwReceive, HwSpill, PeerTakes, vars
<1>10. ASSUME NEW a, PeerSends(a) PROVE CtrlInv'
  BY <1>1, <1>10 DEF PeerSends
<1> QED
  BY <1>2, <1>3, <1>4, <1>5, <1>6, <1>7, <1>8, <1>9, <1>10
     DEF Next, Hardware, Access
-----------------------------------------------------------------------------
(* The queues of SpwFifo as functions of the lists and the descriptors.    *)
TxItem(buf, ask, d) == [id |-> buf[d].id, skip |-> ask[d]]
TxQ(used, en, buf, ask) ==
  LET s == SubSeq(used, Served(used, en) + 1, Len(used))
  IN [i \in 1 .. Len(s) |-> TxItem(buf, ask, s[i])]
RxQ(used, en, buf) ==
  LET s == SubSeq(used, 1, Served(used, en))
  IN [i \in 1 .. Len(s) |-> buf[s[i]]]

(* Now and in the next state.                                              *)
LEMMA QueuesAre ==
  /\ TxQueue = TxQ(txUsed, txEn, txBuf, asked)
  /\ TxQueue' = TxQ(txUsed', txEn', txBuf', asked')
  /\ RxQueue = RxQ(rxUsed, rxEn, rxBuf)
  /\ RxQueue' = RxQ(rxUsed', rxEn', rxBuf')
BY DEF TxQueue, RxQueue, TxQ, RxQ, TxItem, Sending, Fetching

(* The packets that wait to be sent are those of the used list after the   *)
(* descriptors the hardware is done with.                                  *)
LEMMA TxQueueIs ==
  ASSUME NEW used, NEW free, NEW en, NEW ptr, NEW b, NEW h \in Nat,
         RingAt(used, free, en, ptr, NTx, b, h),
         NEW buf \in [TxDesc -> Pkts], NEW ask \in [TxDesc -> Skips]
  PROVE  /\ TxQ(used, en, buf, ask) \in Seq(Pkts)
         /\ Len(TxQ(used, en, buf, ask)) = Len(used) - h
         /\ \A k \in 1 .. Len(used) - h :
              /\ h + k \in 1 .. Len(used) /\ used[h + k] \in TxDesc
              /\ TxQ(used, en, buf, ask)[k] = TxItem(buf, ask, used[h + k])
<1> DEFINE q == TxQ(used, en, buf, ask)
           s == SubSeq(used, h + 1, Len(used))
<1>0. NTx \in Nat \ {0}
  BY SpwAssumption
<1>1. Served(used, en) = h
  BY <1>0, ServedIs
<1>2. used \in Seq(1 .. NTx) /\ h \in 0 .. Len(used) /\ Len(used) \in Nat
  BY LenProperties DEF RingAt
<1>3. PICK n \in Nat : n = Len(used) - h
  BY <1>2
<1>4. Len(s) = n /\ \A k \in 1 .. n : s[k] = used[h + k]
  BY <1>2, <1>3, KeptPart DEF Kept
<1>5. q = [i \in 1 .. Len(s) |-> TxItem(buf, ask, s[i])]
  BY <1>1 DEF TxQ
<1> HIDE DEF q, s
<1>6. ASSUME NEW k \in 1 .. n
      PROVE  /\ h + k \in 1 .. Len(used) /\ used[h + k] \in TxDesc
             /\ TxItem(buf, ask, used[h + k]) \in Pkts
  <2>1. h + k \in 1 .. Len(used)
    BY <1>2, <1>3
  <2>2. used[h + k] \in TxDesc
    BY <1>2, <2>1, ElementOfSeq DEF TxDesc
  <2>3. buf[used[h + k]] \in Pkts /\ ask[used[h + k]] \in Skips
    BY <2>2
  <2> QED
    BY <2>1, <2>2, <2>3 DEF Pkts, TxItem
<1>7. q = [k \in 1 .. n |-> TxItem(buf, ask, used[h + k])]
  BY <1>4, <1>5
<1>8. q \in Seq(Pkts) /\ Len(q) = n
  <2>1. \A k \in 1 .. n : TxItem(buf, ask, used[h + k]) \in Pkts
    BY <1>6
  <2> QED
    BY <1>7, <2>1, IsASeq
<1> QED
  BY <1>3, <1>6, <1>7, <1>8 DEF q

(* The packets that wait to be fetched are those of the descriptors the    *)
(* hardware is done with.                                                  *)
LEMMA RxQueueIs ==
  ASSUME NEW used, NEW free, NEW en, NEW ptr, NEW b, NEW h \in Nat,
         RingAt(used, free, en, ptr, NRx, b, h),
         NEW buf \in [RxDesc -> Answers]
  PROVE  /\ RxQ(used, en, buf) \in Seq(Answers) /\ Len(RxQ(used, en, buf)) = h
         /\ \A k \in 1 .. h : /\ k \in 1 .. Len(used) /\ used[k] \in RxDesc
                              /\ RxQ(used, en, buf)[k] = buf[used[k]]
<1> DEFINE q == RxQ(used, en, buf)
           s == SubSeq(used, 1, h)
<1>0. NRx \in Nat \ {0}
  BY SpwAssumption
<1>1. Served(used, en) = h
  BY <1>0, ServedIs
<1>2. used \in Seq(1 .. NRx) /\ h \in 0 .. Len(used) /\ Len(used) \in Nat
  BY LenProperties DEF RingAt
<1>3. \A k \in 1 .. h : k \in 1 .. Len(used) /\ used[k] \in RxDesc
  <2>1. \A k \in 1 .. Len(used) : used[k] \in RxDesc
    BY <1>2, ElementOfSeq DEF RxDesc
  <2> QED
    BY <1>2, <2>1
<1>4. q = [i \in 1 .. Len(s) |-> buf[s[i]]]
  BY <1>1 DEF RxQ
<1>5. Len(s) = h /\ \A k \in 1 .. h : s[k] = used[k]
  <2>1. 1 \in Int /\ h \in Int /\ \A k \in 1 .. h : used[k] \in RxDesc
    BY <1>3
  <2>2. /\ Len(s) = IF 1 <= h THEN h - 1 + 1 ELSE 0
        /\ \A k \in 1 .. h - 1 + 1 : s[k] = used[1 + k - 1]
    BY <2>1, SubSeqProperties
  <2>3. /\ (IF 1 <= h THEN h - 1 + 1 ELSE 0) = h /\ h - 1 + 1 = h
        /\ \A k \in 1 .. h : 1 + k - 1 = k
    OBVIOUS
  <2> QED
    BY <2>2, <2>3
<1> HIDE DEF q, s
<1>6. q = [k \in 1 .. h |-> buf[used[k]]]
  BY <1>4, <1>5
<1>7. \A k \in 1 .. h : buf[used[k]] \in Answers
  BY <1>3
<1>8. q \in Seq(Answers) /\ Len(q) = h
  BY <1>6, <1>7, IsASeq
<1> QED
  BY <1>3, <1>6, <1>8 DEF q

(* Two rings with the same descriptors waiting and the same contents have  *)
(* the same queue.                                                         *)
LEMMA SameQueue ==
  ASSUME NEW S, NEW q \in Seq(S), NEW r \in Seq(S), Len(q) = Len(r),
         \A k \in 1 .. Len(q) : q[k] = r[k]
  PROVE  q = r
BY SeqEqual

(* A queue that grew by e.                                                 *)
LEMMA GrownQueue ==
  ASSUME NEW S, NEW q \in Seq(S), NEW r \in Seq(S), NEW e \in S,
         Len(r) = Len(q) + 1, r[Len(q) + 1] = e,
         \A k \in 1 .. Len(q) : r[k] = q[k]
  PROVE  r = Append(q, e)
<1> DEFINE a == Append(q, e)
<1>1. /\ a \in Seq(S) /\ Len(a) = Len(q) + 1 /\ a[Len(q) + 1] = e
      /\ \A k \in 1 .. Len(q) : a[k] = q[k]
  BY AppendProperties
<1> HIDE DEF a
<1>2. Len(q) \in Nat
  BY LenProperties
<1>3. ASSUME NEW k \in 1 .. Len(r) PROVE r[k] = a[k]
  <2>1. k \in 1 .. Len(q) \/ k = Len(q) + 1
    BY <1>2
  <2> QED
    BY <1>1, <2>1
<1>4. r = a
  BY <1>1, <1>3, SameQueue
<1> QED
  BY <1>4 DEF a

(* A queue that lost its head.                                             *)
LEMMA ShrunkQueue ==
  ASSUME NEW S, NEW q \in Seq(S), NEW r \in Seq(S), NEW n \in Nat,
         Len(q) = n + 1, Len(r) = n, \A k \in 1 .. n : r[k] = q[k + 1]
  PROVE  q # <<>> /\ Head(q) = q[1] /\ r = Tail(q)
<1>1. q # <<>>
  BY EmptySeq
<1>2. /\ Tail(q) \in Seq(S) /\ Len(Tail(q)) = n
      /\ \A k \in 1 .. Len(Tail(q)) : Tail(q)[k] = q[k + 1]
  <2>1. /\ Tail(q) \in Seq(S) /\ Len(Tail(q)) = Len(q) - 1
        /\ \A k \in 1 .. Len(Tail(q)) : Tail(q)[k] = q[k + 1]
    BY <1>1, HeadTailProperties
  <2> QED
    BY <2>1
<1>3. PICK t \in Seq(S) : t = Tail(q)
  BY <1>2
<1>4. Len(t) = n /\ \A k \in 1 .. n : t[k] = r[k]
  BY <1>2, <1>3
<1>5. r = t
  BY <1>4, SameQueue
<1>6. Head(q) = q[1]
  BY <1>1
<1> QED
  BY <1>1, <1>3, <1>5, <1>6
(* What both queues show: the packets of these descriptors.                *)
TxShows(q, s, buf, ask) ==
  /\ q \in Seq(Pkts) /\ Len(q) = Len(s)
  /\ \A k \in 1 .. Len(s) : s[k] \in TxDesc /\ q[k] = TxItem(buf, ask, s[k])

(* A call to send is accepted, with the count of bytes asked for at the    *)
(* end of the queue, or refused because every descriptor waits.            *)
LEMMA AddPktIsAccept ==
  ASSUME RingInv, PktInv, PktInv', NEW p \in Pkts, grspw2_add_pkt(p)
  PROVE  Fifo!Accept(p) \/ Fifo!Refuse
<1> DEFINE q == TxQ(txUsed, txEn, txBuf, asked)
           r == TxQ(txUsed', txEn', txBuf', asked')
<1>0. NTx \in Nat \ {0}
  BY SpwAssumption
<1>1. PICK b \in Nat, h \in Nat : RingAt(txUsed, txFree, txEn, txPtr, NTx, b, h)
  BY DEF RingInv, TxRing
<1>2. PICK c \in Nat, u \in Seq(TxDesc), d \in Nat :
            /\ Kept(u, txUsed, h, NTx)
            /\ RingAt(txUsed', txFree', txEn', txPtr, NTx, c, 0)
            /\ \/ /\ Len(u) = NTx /\ txUsed' = u /\ refused' = TRUE
                  /\ UNCHANGED <<txEn, txBuf, asked, rmw>>
               \/ /\ Len(u) < NTx /\ txUsed' = Append(u, d) /\ refused' = FALSE
                  /\ d \in TxDesc /\ \A k \in 1 .. Len(u) : u[k] # d
                  /\ txBuf' = [txBuf EXCEPT ![d] = Filled(d, p)]
                  /\ asked' = [asked EXCEPT ![d] = p.skip]
                  /\ rmw' = [set |-> grspw2_tx_desc_new_avail, read |-> {},
                             at |-> "read"]
  BY <1>1, AddPktLists
<1>3. Len(u) \in Nat
  BY LenProperties
<1>4. TxShows(q, u, txBuf, asked)
  <2>1. txBuf \in [TxDesc -> Pkts] /\ asked \in [TxDesc -> Skips]
    BY DEF PktInv
  <2>2. /\ q \in Seq(Pkts) /\ Len(q) = Len(txUsed) - h
        /\ \A k \in 1 .. Len(txUsed) - h :
             /\ txUsed[h + k] \in TxDesc
             /\ q[k] = TxItem(txBuf, asked, txUsed[h + k])
    BY <1>1, <2>1, TxQueueIs
  <2> HIDE DEF q
  <2>3. Len(txUsed) - h = Len(u) /\ \A k \in 1 .. Len(u) : u[k] = txUsed[h + k]
    BY <1>2 DEF Kept
  <2> QED
    BY <2>2, <2>3 DEF TxShows
<1>5. TxShows(r, txUsed', txBuf', asked')
  <2>1. txBuf' \in [TxDesc -> Pkts] /\ asked' \in [TxDesc -> Skips]
    BY DEF PktInv
  <2>2. /\ r \in Seq(Pkts) /\ Len(r) = Len(txUsed') - 0
        /\ \A k \in 1 .. Len(txUsed') - 0 :
             /\ txUsed'[0 + k] \in TxDesc
             /\ r[k] = TxItem(txBuf', asked', txUsed'[0 + k])
    BY <1>2, <2>1, TxQueueIs
  <2> HIDE DEF r
  <2>3. PICK n \in Nat : Len(txUsed') = n
    BY <1>2, LenProperties DEF RingAt
  <2>4. n - 0 = n /\ \A k \in 1 .. n : 0 + k = k
    OBVIOUS
  <2> QED
    BY <2>2, <2>3, <2>4 DEF TxShows
<1>6. TxQueue = q /\ TxQueue' = r /\ RxQueue' = RxQueue
  BY QueuesAre DEF grspw2_add_pkt
<1>7. UNCHANGED <<mode, out, in>>
  BY DEF grspw2_add_pkt
<1> HIDE DEF q, r
<1>8. CASE Len(u) = NTx /\ txUsed' = u /\ refused' = TRUE /\ UNCHANGED <<txBuf, asked>>
  <2>1. r = q
    BY <1>4, <1>5, <1>8, SameQueue DEF TxShows
  <2> QED
    BY <1>4, <1>6, <1>7, <1>8, <2>1 DEF Fifo!Refuse, TxShows
<1>9. CASE /\ Len(u) < NTx /\ txUsed' = Append(u, d) /\ refused' = FALSE
           /\ d \in TxDesc /\ \A k \in 1 .. Len(u) : u[k] # d
           /\ txBuf' = [txBuf EXCEPT ![d] = Filled(d, p)]
           /\ asked' = [asked EXCEPT ![d] = p.skip]
  <2>1. PICK n \in Nat : Len(u) = n
    BY <1>3
  <2>2. /\ Len(txUsed') = n + 1 /\ txUsed'[n + 1] = d
        /\ \A k \in 1 .. n : txUsed'[k] = u[k]
    BY <1>9, <2>1, AppendProperties
  <2>3. TxItem(txBuf', asked', d) = p
    <3>1. txBuf'[d].id = p.id /\ asked'[d] = p.skip
      BY <1>9 DEF PktInv, Filled
    <3>2. p = [id |-> p.id, skip |-> p.skip]
      BY DEF Pkts
    <3> QED
      BY <3>1, <3>2 DEF TxItem
  <2>4. ASSUME NEW e \in TxDesc, e # d
        PROVE  TxItem(txBuf', asked', e) = TxItem(txBuf, asked, e)
    BY <1>9, <2>4 DEF PktInv, TxItem
  <2>5. q \in Seq(Pkts) /\ r \in Seq(Pkts) /\ Len(q) = n /\ Len(r) = n + 1
    BY <1>4, <1>5, <2>1, <2>2 DEF TxShows
  <2>6. r[n + 1] = p
    BY <1>5, <2>2, <2>3 DEF TxShows
  <2>7. ASSUME NEW k \in 1 .. n PROVE r[k] = q[k]
    <3>1. u[k] \in TxDesc /\ u[k] # d /\ q[k] = TxItem(txBuf, asked, u[k])
      BY <1>4, <1>9, <2>1 DEF TxShows
    <3>2. r[k] = TxItem(txBuf', asked', u[k])
      BY <1>5, <2>2 DEF TxShows
    <3> QED
      BY <2>4, <3>1, <3>2
  <2>8. r = Append(q, p)
    BY <2>5, <2>6, <2>7, GrownQueue
  <2> QED
    BY <1>6, <1>7, <1>9, <2>1, <2>5, <2>8 DEF Fifo!Accept
<1> QED
  BY <1>2, <1>8, <1>9

(* The hardware sends the packet at the head of the queue.                 *)
LEMMA HwSendIsSend ==
  ASSUME RingInv, PktInv, PktInv', HwSend, mode # "paths"
  PROVE  Fifo!Send
<1> DEFINE q == TxQ(txUsed, txEn, txBuf, asked)
           r == TxQ(txUsed', txEn', txBuf', asked')
<1>0. NTx \in Nat \ {0}
  BY SpwAssumption
<1>1. PICK b \in Nat, h \in Nat : RingAt(txUsed, txFree, txEn, txPtr, NTx, b, h)
  BY DEF RingInv, TxRing
<1>2. /\ h < Len(txUsed) /\ txUsed[h + 1] = txPtr /\ txPtr \in 1 .. NTx
      /\ \A k \in 1 .. Len(txUsed) : k # h + 1 => txUsed[k] # txPtr
      /\ RingAt(txUsed, txFree, [txEn EXCEPT ![txPtr] = FALSE],
                After(txPtr, NTx), NTx, b, h + 1)
  BY <1>0, <1>1, Serve DEF HwSend
<1>3. /\ UNCHANGED <<mode, txUsed, txBuf, in, refused>> /\ Len(out) < Line
      /\ txEn' = [txEn EXCEPT ![txPtr] = FALSE] /\ txPtr' = After(txPtr, NTx)
      /\ asked' = [asked EXCEPT ![txPtr] = 0] /\ out' = Append(out, txBuf[txPtr])
  BY DEF HwSend, lists
<1>4. PICK l \in Nat : Len(txUsed) = l
  BY <1>1, LenProperties DEF RingAt
<1>5. PICK n \in Nat : l - h = n + 1 /\ l - (h + 1) = n /\ h + 1 \in Nat
  BY <1>2, <1>4
<1>6. txBuf \in [TxDesc -> Pkts] /\ asked \in [TxDesc -> Skips]
  BY DEF PktInv
<1>7. txBuf' \in [TxDesc -> Pkts] /\ asked' \in [TxDesc -> Skips]
  BY DEF PktInv
<1>8. /\ q \in Seq(Pkts) /\ Len(q) = n + 1
      /\ \A k \in 1 .. n + 1 : q[k] = TxItem(txBuf, asked, txUsed[h + k])
  BY SMTT(30), <1>1, <1>4, <1>5, <1>6, TxQueueIs
<1>9. /\ r \in Seq(Pkts) /\ Len(r) = n
      /\ \A k \in 1 .. n :
           /\ h + 1 + k \in 1 .. l /\ txUsed[h + 1 + k] \in TxDesc
           /\ r[k] = TxItem(txBuf', asked', txUsed[h + 1 + k])
  <2>1. RingAt(txUsed', txFree, txEn', txPtr', NTx, b, h + 1)
    BY <1>2, <1>3
  <2>2. /\ r \in Seq(Pkts) /\ Len(r) = Len(txUsed') - (h + 1)
        /\ \A k \in 1 .. Len(txUsed') - (h + 1) :
             /\ h + 1 + k \in 1 .. Len(txUsed') /\ txUsed'[h + 1 + k] \in TxDesc
             /\ r[k] = TxItem(txBuf', asked', txUsed'[h + 1 + k])
    BY <1>5, <1>7, <2>1, TxQueueIs
  <2>3. txUsed' = txUsed /\ Len(txUsed') = l /\ l - (h + 1) = n
    BY <1>3, <1>4, <1>5
  <2> QED
    BY <2>2, <2>3
<1>10. TxQueue = q /\ TxQueue' = r /\ RxQueue' = RxQueue
  BY QueuesAre DEF HwSend, lists
<1> HIDE DEF q, r
<1>11. ASSUME NEW k \in 1 .. n PROVE r[k] = q[k + 1]
  <2>1. /\ h + 1 + k \in 1 .. l /\ txUsed[h + 1 + k] \in TxDesc
        /\ r[k] = TxItem(txBuf', asked', txUsed[h + 1 + k])
    BY <1>9
  <2>2. h + (k + 1) = h + 1 + k /\ k + 1 \in 1 .. n + 1 /\ h + 1 + k # h + 1
    OBVIOUS
  <2>3. q[k + 1] = TxItem(txBuf, asked, txUsed[h + 1 + k])
    BY <1>8, <2>2
  <2>4. txUsed[h + 1 + k] # txPtr
    BY <1>2, <1>4, <2>1, <2>2
  <2>5. PICK e \in TxDesc : e = txUsed[h + 1 + k]
    BY <2>1
  <2>6. asked'[e] = asked[e] /\ txBuf' = txBuf
    BY <1>3, <1>6, <2>4, <2>5
  <2>7. TxItem(txBuf', asked', e) = TxItem(txBuf, asked, e)
    BY <2>6 DEF TxItem
  <2> QED
    BY <2>1, <2>3, <2>5, <2>7
<1>12. q # <<>> /\ Head(q) = q[1] /\ r = Tail(q)
  BY <1>8, <1>9, <1>11, ShrunkQueue
<1>13. q[1] = TxItem(txBuf, asked, txPtr)
  BY <1>2, <1>8
<1>14. txPtr \in TxDesc
  BY <1>2 DEF TxDesc
<1>15. PICK p \in Pkts : p = txBuf[txPtr]
  BY <1>6, <1>14
<1>16. p = Head(q)
  <2>1. Head(q) = [id |-> p.id, skip |-> asked[txPtr]]
    BY <1>12, <1>13, <1>15 DEF TxItem
  <2>2. asked[txPtr] = 0 \/ p.skip = asked[txPtr]
    BY <1>14, <1>15 DEF PktInv
  <2>3. /\ mode = "tx" => asked[txPtr] # 0
        /\ mode \notin {"tx", "paths"} => p.skip = 0 /\ asked[txPtr] = 0
    BY <1>14, <1>15 DEF PktInv, HwSend
  <2>4. p = [id |-> p.id, skip |-> p.skip]
    BY <1>15 DEF Pkts
  <2> QED
    BY <2>1, <2>2, <2>3, <2>4
<1> QED
  BY <1>3, <1>10, <1>12, <1>15, <1>16 DEF Fifo!Send

(* The hardware puts a packet at the end of the other queue.               *)
LEMMA HwReceiveIsReceive ==
  ASSUME RingInv, PktInv, PktInv', HwReceive
  PROVE  Fifo!Receive
<1> DEFINE q == RxQ(rxUsed, rxEn, rxBuf)
           r == RxQ(rxUsed', rxEn', rxBuf')
<1>0. NRx \in Nat \ {0}
  BY SpwAssumption
<1>1. PICK b \in Nat, h \in Nat : RingAt(rxUsed, rxFree, rxEn, rxPtr, NRx, b, h)
  BY DEF RingInv, RxRing
<1>2. /\ h < Len(rxUsed) /\ rxUsed[h + 1] = rxPtr /\ rxPtr \in 1 .. NRx
      /\ \A k \in 1 .. Len(rxUsed) : k # h + 1 => rxUsed[k] # rxPtr
      /\ RingAt(rxUsed, rxFree, [rxEn EXCEPT ![rxPtr] = FALSE],
                After(rxPtr, NRx), NRx, b, h + 1)
  BY <1>0, <1>1, Serve DEF HwReceive
<1>3. /\ UNCHANGED <<mode, rxUsed, out, refused>>
      /\ in # <<>> /\ in' = Tail(in)
      /\ rxEn' = [rxEn EXCEPT ![rxPtr] = FALSE] /\ rxPtr' = After(rxPtr, NRx)
      /\ rxBuf' = [rxBuf EXCEPT ![rxPtr] = Head(in)]
  BY DEF HwReceive, lists
<1>4. h + 1 \in Nat /\ h < NRx
  BY <1>0, <1>1, <1>2, RingParts
<1>5. rxBuf \in [RxDesc -> Answers] /\ rxPtr \in RxDesc
  BY <1>2 DEF PktInv, RxDesc
<1>6. rxBuf' \in [RxDesc -> Answers] /\ Head(in) \in Answers
  BY <1>3 DEF PktInv
<1>7. /\ q \in Seq(Answers) /\ Len(q) = h
      /\ \A k \in 1 .. h : /\ k \in 1 .. Len(rxUsed) /\ rxUsed[k] \in RxDesc
                           /\ q[k] = rxBuf[rxUsed[k]]
  BY <1>1, <1>5, RxQueueIs
<1>8. /\ r \in Seq(Answers) /\ Len(r) = h + 1
      /\ \A k \in 1 .. h + 1 : r[k] = rxBuf'[rxUsed[k]]
  <2>1. RingAt(rxUsed', rxFree, rxEn', rxPtr', NRx, b, h + 1)
    BY <1>2, <1>3
  <2> QED
    BY <1>3, <1>4, <1>6, <2>1, RxQueueIs
<1>9. RxQueue = q /\ RxQueue' = r /\ TxQueue' = TxQueue
  BY QueuesAre DEF HwReceive, lists
<1> HIDE DEF q, r
<1>10. r[h + 1] = Head(in)
  BY <1>2, <1>3, <1>5, <1>8
<1>11. ASSUME NEW k \in 1 .. h PROVE r[k] = q[k]
  <2>1. /\ k \in 1 .. Len(rxUsed) /\ rxUsed[k] \in RxDesc
        /\ q[k] = rxBuf[rxUsed[k]]
    BY <1>7
  <2>2. k # h + 1 /\ k \in 1 .. h + 1
    OBVIOUS
  <2>3. rxUsed[k] # rxPtr /\ r[k] = rxBuf'[rxUsed[k]]
    BY <1>2, <1>8, <2>1, <2>2
  <2> QED
    BY <1>3, <1>5, <2>1, <2>3
<1>12. r = Append(q, Head(in))
  BY <1>6, <1>7, <1>8, <1>10, <1>11, GrownQueue
<1> QED
  BY <1>3, <1>4, <1>7, <1>9, <1>12 DEF Fifo!Receive

(* A call that fetches a packet takes the head of that queue.              *)
LEMMA FetchIsFetch ==
  ASSUME RingInv, PktInv, Fetch
  PROVE  Fifo!Fetch
<1> DEFINE q == RxQ(rxUsed, rxEn, rxBuf)
           r == RxQ(rxUsed', rxEn', rxBuf')
<1>1. PICK b \in Nat, h \in Nat : RingAt(rxUsed, rxFree, rxEn, rxPtr, NRx, b, h)
  BY DEF RingInv, RxRing
<1>2. PICK c \in Nat, u \in Seq(RxDesc), d \in Nat :
            /\ h >= 1 /\ Kept(u, rxUsed, 1, NRx)
            /\ RingAt(rxUsed', rxFree', rxEn', rxPtr, NRx, c, h - 1)
            /\ rxUsed' = Append(u, d)
  BY <1>1, FetchLists
<1>3. PICK n \in Nat : n = h - 1 /\ h = n + 1
  BY <1>2
<1>4. rxBuf \in [RxDesc -> Answers] /\ rxBuf' = rxBuf
  BY DEF PktInv, Fetch
<1>5. /\ q \in Seq(Answers) /\ Len(q) = n + 1
      /\ \A k \in 1 .. n + 1 : /\ k \in 1 .. Len(rxUsed)
                               /\ q[k] = rxBuf[rxUsed[k]]
  BY <1>1, <1>3, <1>4, RxQueueIs
<1>6. /\ r \in Seq(Answers) /\ Len(r) = n
      /\ \A k \in 1 .. n : r[k] = rxBuf[rxUsed'[k]]
  <2>1. RingAt(rxUsed', rxFree', rxEn', rxPtr, NRx, c, n)
    BY <1>2, <1>3
  <2>2. rxBuf' \in [RxDesc -> Answers]
    BY <1>4
  <2>3. /\ r \in Seq(Answers) /\ Len(r) = n
        /\ \A k \in 1 .. n : r[k] = rxBuf'[rxUsed'[k]]
    BY <2>1, <2>2, RxQueueIs
  <2> QED
    BY <1>4, <2>3
<1>7. RxQueue = q /\ RxQueue' = r /\ TxQueue' = TxQueue
  BY QueuesAre DEF Fetch
<1> HIDE DEF q, r
<1>8. ASSUME NEW k \in 1 .. n PROVE rxUsed'[k] = rxUsed[k + 1]
  <2>1. PICK l \in Nat : Len(u) = l
    BY LenProperties
  <2>2. Len(rxUsed) - 1 = l /\ \A i \in 1 .. l : u[i] = rxUsed[1 + i]
    BY <1>2, <2>1 DEF Kept
  <2>3. k + 1 \in 1 .. n + 1
    OBVIOUS
  <2>4. k + 1 \in 1 .. Len(rxUsed)
    BY <1>5, <2>3
  <2>5. PICK m \in Nat : Len(rxUsed) = m
    BY <1>1, LenProperties DEF RingAt
  <2>6. k \in 1 .. l /\ 1 + k = k + 1
    BY <2>2, <2>4, <2>5
  <2>7. rxUsed'[k] = u[k]
    BY <1>2, <2>1, <2>6, AppendProperties
  <2> QED
    BY <2>2, <2>6, <2>7
<1>9. \A k \in 1 .. n : r[k] = q[k + 1]
  <2>1. \A k \in 1 .. n : k + 1 \in 1 .. n + 1
    OBVIOUS
  <2> QED
    BY <1>5, <1>6, <1>8, <2>1
<1>10. q # <<>> /\ r = Tail(q)
  BY <1>5, <1>6, <1>9, ShrunkQueue
<1> QED
  BY <1>7, <1>10 DEF Fifo!Fetch, Fetch

(* Starting the core leaves both queues empty.                             *)
LEMMA StartIsQuiet ==
  ASSUME RingInv, PktInv, grspw2_core_start
  PROVE  UNCHANGED Fifo!fifo
<1> DEFINE q == RxQ(rxUsed, rxEn, rxBuf)
           r == RxQ(rxUsed', rxEn', rxBuf')
<1>1. PICK b \in Nat, h \in Nat : RingAt(rxUsed, rxFree, rxEn, rxPtr, NRx, b, h)
  BY DEF RingInv, RxRing
<1>2. rxUsed = <<>>
  BY DEF RingInv, grspw2_core_start
<1>3. h = 0
  <2>1. Len(rxUsed) = 0
    BY <1>2
  <2> QED
    BY <1>1, <2>1 DEF RingAt
<1>4. RingAt(rxUsed', rxFree', rxEn', rxPtr, NRx, b, 0)
  BY <1>1, <1>2, StartRing
<1>5. rxBuf \in [RxDesc -> Answers] /\ rxBuf' = rxBuf
  BY DEF PktInv, grspw2_core_start
<1>6. q \in Seq(Answers) /\ Len(q) = 0
  BY <1>1, <1>3, <1>5, RxQueueIs
<1>7. r \in Seq(Answers) /\ Len(r) = 0
  BY <1>4, <1>5, RxQueueIs
<1>8. RxQueue = q /\ RxQueue' = r /\ TxQueue' = TxQueue
  BY QueuesAre DEF grspw2_core_start
<1> HIDE DEF q, r
<1>9. q = r
  <2>1. q = <<>> /\ r = <<>>
    BY <1>6, <1>7, EmptySeq
  <2> QED
    BY <2>1
<1> QED
  BY <1>8, <1>9 DEF Fifo!fifo, grspw2_core_start

(* Every step is a step of the queues or leaves them alone.                *)
LEMMA FifoStep ==
  ASSUME RingInv, PktInv, PktInv', CtrlInv, [Next]_vars,
         mode \notin {"paths", "errors"}
  PROVE  [Fifo!Next]_Fifo!fifo
<1>1. ASSUME NEW p \in Sent(mode), grspw2_add_pkt(p) PROVE Fifo!Next
  <2>1. p \in Pkts
    BY Traffic
  <2>2. Fifo!Accept(p) \/ Fifo!Refuse
    BY <1>1, <2>1, AddPktIsAccept
  <2> QED
    BY <2>1, <2>2 DEF Fifo!Next
<1>2. ASSUME NEW a \in Arriving(mode), PeerSends(a) PROVE Fifo!Next
  <2>1. a \in Answers
    BY Traffic
  <2>2. TxQueue' = TxQueue /\ RxQueue' = RxQueue
    BY <1>2, QueuesAre DEF PeerSends, lists
  <2>3. Fifo!PeerSends(a)
    BY <1>2, <2>2 DEF PeerSends, Fifo!PeerSends
  <2> QED
    BY <2>1, <2>3 DEF Fifo!Next
<1>3. CASE Peek
  <2>1. TxQueue' = TxQueue /\ RxQueue' = RxQueue
    BY <1>3, QueuesAre DEF Peek, lists
  <2> QED
    BY <1>3, <2>1 DEF Peek, Fifo!Look, Fifo!Next
<1>4. ~HwSpill
  BY DEF HwSpill, CtrlInv, RingInv
<1>5. CASE PeerTakes
  <2>1. TxQueue' = TxQueue /\ RxQueue' = RxQueue
    BY <1>5, QueuesAre DEF PeerTakes, lists
  <2> QED
    BY <1>5, <2>1 DEF PeerTakes, Fifo!PeerTakes, Fifo!Next
<1>6. CASE Access \/ grspw2_dma_error \/ HwTxIdle \/ HwRxIdle \/ HwError
           \/ UNCHANGED vars
  <2>1. UNCHANGED <<lists, txEn, rxEn, txBuf, rxBuf, asked, mode, out, in, refused>>
    BY <1>6 DEF Access, ReadControl, WriteControl, grspw2_dma_error, HwTxIdle,
                HwRxIdle, HwError, vars
  <2>2. TxQueue' = TxQueue /\ RxQueue' = RxQueue
    BY <2>1, QueuesAre DEF lists
  <2> QED
    BY <2>1, <2>2 DEF Fifo!fifo
<1> QED
  BY <1>1, <1>2, <1>3, <1>4, <1>5, <1>6, HwSendIsSend, HwReceiveIsReceive,
     FetchIsFetch, StartIsQuiet DEF Next, Hardware, Fifo!Next

(* The driver and the hardware are, together, a pair of bounded queues     *)
(* that neither lose, change nor reorder a packet and refuse one only when *)
(* full, for tables and links of every size, in all traffic in which       *)
(* packets with a path and without one are not mixed (grspw2.c, line 1347) *)
(* and no DMA error switches the receiver off (line 265).                  *)
THEOREM RefinesFifo == Spec => ImplementsFifo
<1>1. Init => Fifo!Init
  <2> SUFFICES ASSUME Init PROVE Fifo!Init
    OBVIOUS
  <2>1. txUsed = <<>> /\ rxUsed = <<>>
    BY DEF Init
  <2>2. RingAt(<<>>, Tables(NTx), [d \in 1 .. NTx |-> FALSE], 1, NTx, 1, 0)
    BY FreshRing, SpwAssumption
  <2>3. RingAt(<<>>, Tables(NRx), [d \in 1 .. NRx |-> FALSE], 1, NRx, 1, 0)
    BY FreshRing, SpwAssumption
  <2>4. txEn = [d \in 1 .. NTx |-> FALSE] /\ rxEn = [d \in 1 .. NRx |-> FALSE]
    BY DEF Init, TxDesc, RxDesc
  <2>5. PktInv
    BY PktInit
  <2>6. TxQueue \in Seq(Pkts) /\ Len(TxQueue) = 0
    <3>1. txBuf \in [TxDesc -> Pkts] /\ asked \in [TxDesc -> Skips]
      BY <2>5 DEF PktInv
    <3>2. RingAt(txUsed, Tables(NTx), txEn, 1, NTx, 1, 0)
      BY <2>1, <2>2, <2>4
    <3>3. /\ TxQ(txUsed, txEn, txBuf, asked) \in Seq(Pkts)
          /\ Len(TxQ(txUsed, txEn, txBuf, asked)) = Len(txUsed) - 0
      BY <3>1, <3>2, TxQueueIs
    <3>4. Len(txUsed) - 0 = 0
      BY <2>1
    <3> QED
      BY <3>3, <3>4, QueuesAre
  <2>7. RxQueue \in Seq(Answers) /\ Len(RxQueue) = 0
    BY <2>1, <2>3, <2>4, <2>5, RxQueueIs, QueuesAre DEF PktInv
  <2>8. TxQueue = <<>> /\ RxQueue = <<>>
    BY <2>6, <2>7, EmptySeq
  <2> QED
    BY <2>8 DEF Init, Fifo!Init
<1>2. RingInv /\ PktInv /\ PktInv' /\ CtrlInv /\ [Next]_vars
        => [Sound => [Fifo!Next]_Fifo!fifo]_vars
  <2> SUFFICES ASSUME RingInv, PktInv, PktInv', CtrlInv, [Next]_vars, Sound
               PROVE  [Fifo!Next]_Fifo!fifo
    OBVIOUS
  <2>1. mode \notin {"paths", "errors"}
    BY DEF Sound
  <2> QED
    BY <2>1, FifoStep
<1> QED
  BY <1>1, <1>2, RingInit, RingInvStep, PktInit, PktStep, CtrlStep, PTL
     DEF Spec, ImplementsFifo
=============================================================================
