------------------------------- MODULE Leb128 -------------------------------
(***************************************************************************)
(* DecodeUnsignedLeb128 of src/utils.cc, the decoder of every count and    *)
(* index delta in DEX class data, and the definition of unsigned LEB128    *)
(* it is checked against (DexDecoding).                                    *)
(*                                                                         *)
(* The result is a uint32_t.  TLC's integers are 32-bit signed, so a value *)
(* is kept as its low 28 bits (lo) and its bits 28..31 (hi).  The fifth    *)
(* byte is shifted whole (cur << 28 on an int): the shift overflows for a  *)
(* byte of 8 or more, and the build keeps the low 32 bits, so of that byte *)
(* only its low four bits reach the result.                                *)
(***************************************************************************)
EXTENDS Naturals, Sequences, Bitwise

\* cur > 0x7f: the continuation bit.
More(b) == b > 127

\* A group shifted without masking the continuation bit.
GroupUnmasked(b, k) == b * 2^(7 * k)

\* (cur & 0x7f) << (7 * k)
Group(b, k) == (b % 128) * 2^(7 * k)

\* DecodeUnsignedLeb128(&data) with *data at position p of bs: the value and
\* the position *data is left at.
DecodeUnsignedLeb128(bs, p) ==
  LET b(i) == bs[p + i]
  IN  IF ~More(b(0)) THEN [lo |-> b(0), hi |-> 0, next |-> p + 1]
      ELSE IF ~More(b(1)) THEN [lo |-> Group(b(0), 0) | Group(b(1), 1), hi |-> 0, next |-> p + 2]
      ELSE IF ~More(b(2)) THEN [lo |-> Group(b(0), 0) | Group(b(1), 1) | Group(b(2), 2), hi |-> 0, next |-> p + 3]
      ELSE LET lo4 == Group(b(0), 0) | Group(b(1), 1) | Group(b(2), 2) | Group(b(3), 3)
           IN  IF ~More(b(3)) THEN [lo |-> lo4, hi |-> 0, next |-> p + 4]
               ELSE [lo |-> lo4, hi |-> b(4) % 16, next |-> p + 5]

-----------------------------------------------------------------------------
(* The reference: unsigned LEB128 reads 7-bit groups, least significant    *)
(* first, up to the first byte without the continuation bit; a uint32_t    *)
(* takes at most five groups, and the value is their sum modulo 2^32.      *)

RECURSIVE Groups(_, _, _)
Groups(bs, p, left) ==
  IF ~More(bs[p]) \/ left = 1 THEN << bs[p] % 128 >>
  ELSE << bs[p] % 128 >> \o Groups(bs, p + 1, left - 1)

RECURSIVE Weigh(_, _)
Weigh(g, k) == IF k = 0 THEN 0 ELSE Weigh(g, k - 1) + g[k] * 128^(k - 1)

RefLeb128(bs) ==
  LET g == Groups(bs, 1, 5)
  IN  [lo |-> Weigh(g, IF Len(g) < 4 THEN Len(g) ELSE 4),
       hi |-> IF Len(g) = 5 THEN g[5] % 16 ELSE 0,
       next |-> 1 + Len(g)]

\* The input holds a whole encoding: it does not end inside the groups.
Complete(bs) ==
  \E n \in 1 .. 5 : n <= Len(bs) /\ (~More(bs[n]) \/ n = 5) /\ \A i \in 1 .. n - 1 : More(bs[i])

=============================================================================
