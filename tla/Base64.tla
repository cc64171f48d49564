------------------------------- MODULE Base64 -------------------------------
(***************************************************************************)
(* Base64 as tools/base64.cpp computes it: base64e2_http for the picture   *)
(* of a time sheet, base64d for the photos of the employee database,       *)
(* base64e and base64e2, which only the test uses, and the size of the     *)
(* buffer that the program asks for.  Characters are their codes.          *)
(***************************************************************************)
EXTENDS Integers, Sequences, FiniteSets

Byte == 0 .. 255
Sextet == 0 .. 63
Pad == 61  \* =

(* The tables.  http's has - for +, which the decoder's does not know: its *)
(* -1 is 63 in six bits.                                                   *)
MimeBase64 == [n \in Sextet |-> IF n < 26 THEN n + 65
                                ELSE IF n < 52 THEN n + 71
                                ELSE IF n < 62 THEN n - 4
                                ELSE IF n = 62 THEN 43 ELSE 47]

MimeBase64_http == [MimeBase64 EXCEPT ![62] = 45]

DecodeMimeBase64 == [c \in Byte |-> IF c \in 65 .. 90 THEN c - 65
                                    ELSE IF c \in 97 .. 122 THEN c - 71
                                    ELSE IF c \in 48 .. 57 THEN c + 4
                                    ELSE IF c = 43 THEN 62 ELSE 63]

-----------------------------------------------------------------------------
(* Sextet k of the three bytes a, b, c (BF2).                              *)
BF2(k, a, b, c) == CASE k = 1 -> a \div 4
                     [] k = 2 -> (a % 4) * 16 + b \div 16
                     [] k = 3 -> (b % 16) * 4 + c \div 64
                     [] k = 4 -> c % 64

(* The groups of three that n bytes fill or begin.                         *)
Groups(n) == (n + 2) \div 3

(* The byte at i, or what is taken for it behind the end.                  *)
At(src, i, past) == IF i <= Len(src) THEN src[i] ELSE past

(* Letter k of group g (from 0) of the code of src by a table: padding     *)
(* stands for the bytes that the last group lacks.                         *)
Letter(src, table, past, g, k) ==
  IF 3 * g + k > Len(src) + 1 THEN Pad
  ELSE table[BF2(k, src[3 * g + 1], At(src, 3 * g + 2, past),
                 At(src, 3 * g + 3, IF 3 * g + 2 <= Len(src) THEN past ELSE 0))]

Encode(src, table, past) ==
  [i \in 1 .. 4 * Groups(Len(src)) |->
     Letter(src, table, past, (i - 1) \div 4, ((i - 1) % 4) + 1)]

(* base64e reads the byte behind the end, past, if the last group lacks    *)
(* any: (i+1) > length is never true.                                      *)
base64e(src, past) == Encode(src, MimeBase64, past)
base64e2(src) == Encode(src, MimeBase64, 0)
base64e2_http(src) == Encode(src, MimeBase64_http, 0)

base64e2_get_needbufSize(size) ==
  LET t == (size \div 3) * 4 IN (IF size % 3 # 0 THEN t + 4 ELSE t) + 1

-----------------------------------------------------------------------------
(* Byte k of four sextets (BF).                                            *)
BF(k, e4, e3, e2, e1) == CASE k = 1 -> e4 * 4 + e3 \div 16
                           [] k = 2 -> (e3 % 16) * 16 + e2 \div 4
                           [] k = 3 -> (e2 % 4) * 64 + e1

(* = is counted and taken for 0 in the last two places of a group.         *)
Value(c) == IF c = Pad THEN 0 ELSE DecodeMimeBase64[c]
Blanks(code) == {i \in 1 .. Len(code) : i % 4 \in {3, 0} /\ code[i] = Pad}

(* Byte k of group g (from 0) of the bytes that code stands for.           *)
Decoded(code, g, k) ==
  BF(k, DecodeMimeBase64[code[4 * g + 1]], DecodeMimeBase64[code[4 * g + 2]],
     Value(code[4 * g + 3]), Value(code[4 * g + 4]))

(* base64d of whole groups.                                                *)
base64d(code) ==
  [i \in 1 .. 3 * (Len(code) \div 4) - Cardinality(Blanks(code)) |->
     Decoded(code, (i - 1) \div 3, ((i - 1) % 3) + 1)]
=============================================================================
