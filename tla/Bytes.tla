------------------------------- MODULE Bytes -------------------------------
(***************************************************************************)
(* Numbers as bytes in memory and on the link, most significant byte first *)
(* (common/byteorder.h).                                                   *)
(***************************************************************************)
EXTENDS Integers, Sequences

Byte == 0 .. 255

(* cpu_to_be16, cpu_to_be32 and the shifts by hand: the w bytes of n.      *)
BigEndian(n, w) == [i \in 1 .. w |-> (n \div (2 ^ (8 * (w - i)))) % 256]

(* be16_to_cpu, be32_to_cpu.                                               *)
Number(bytes) ==
  LET n[i \in 0 .. Len(bytes)] == IF i = 0 THEN 0 ELSE 256 * n[i - 1] + bytes[i]
  IN n[Len(bytes)]
=============================================================================
