---------------------------- MODULE Base64Proofs ----------------------------
(***************************************************************************)
(* The codes of tools/base64.cpp, for data of every length.                *)
(***************************************************************************)
EXTENDS Base64, FiniteSetTheorems, TLAPS

(* The shifts and masks of BF2 give numbers of six bits: no index leaves   *)
(* the tables of base64.cpp:10-30.                                         *)
LEMMA SextetOf ==
  ASSUME NEW a \in Byte, NEW b \in Byte, NEW c \in Byte
  PROVE /\ BF2(1, a, b, c) \in Sextet /\ BF2(2, a, b, c) \in Sextet
        /\ BF2(3, a, b, c) \in Sextet /\ BF2(4, a, b, c) \in Sextet
  BY DEF BF2, Byte, Sextet

(* The decoder's table undoes base64e's and base64e2's (base64.cpp:10, 33), *)
(* none of whose letters is the padding.                                   *)
LEMMA Tables == ASSUME NEW n \in Sextet
  PROVE /\ MimeBase64[n] \in Byte \ {Pad}
        /\ DecodeMimeBase64[MimeBase64[n]] = n
  BY DEF MimeBase64, DecodeMimeBase64, Byte, Sextet, Pad

(* The table of base64e2_http differs in one letter (base64.cpp:29).        *)
LEMMA HttpTable == ASSUME NEW n \in Sextet
  PROVE IF MimeBase64[n] = 43 THEN MimeBase64_http[n] = 45
        ELSE MimeBase64_http[n] = MimeBase64[n]
<1>1. MimeBase64[n] = 43 <=> n = 62
  BY DEF MimeBase64, Sextet
<1>2. MimeBase64_http[62] = 45
  BY DEF MimeBase64, MimeBase64_http, Sextet
<1>3. n # 62 => MimeBase64_http[n] = MimeBase64[n]
  BY DEF MimeBase64, MimeBase64_http, Sextet
<1> QED
  BY <1>1, <1>2, <1>3

(* The last group of three lacks at most two bytes.                        *)
LEMMA Grouping == ASSUME NEW L \in Nat
  PROVE /\ Groups(L) \in Nat
        /\ 3 * Groups(L) - L \in 0 .. 2
  BY DEF Groups

(* A place of the code is a group and a place in it.                       *)
LEMMA Position == ASSUME NEW g \in Nat, NEW k \in 1 .. 4
  PROVE (4 * g + k - 1) \div 4 = g /\ ((4 * g + k - 1) % 4) + 1 = k
  OBVIOUS

(* The letter that the loops of base64e and base64e2 write k-th in the     *)
(* group g, counted from 0.                                                *)
LEMMA EncodeAt ==
  ASSUME NEW src \in Seq(Byte), NEW table, NEW past,
         NEW g \in 0 .. Groups(Len(src)) - 1, NEW k \in 1 .. 4
  PROVE Encode(src, table, past)[4 * g + k] = Letter(src, table, past, g, k)
<1> DEFINE G == Groups(Len(src))
<1>1. G \in Nat
  BY Grouping
<1>2. g \in Nat /\ 4 * g + k \in 1 .. 4 * G
  BY <1>1
<1>3. (4 * g + k - 1) \div 4 = g /\ ((4 * g + k - 1) % 4) + 1 = k
  BY <1>2, Position
<1> HIDE DEF G
<1> QED
  BY <1>2, <1>3 DEF Encode, G

(* What a group is coded from are bytes, also in the last one.             *)
LEMMA Operands ==
  ASSUME NEW src \in Seq(Byte), NEW past \in Byte, NEW g \in 0 .. Groups(Len(src)) - 1
  PROVE /\ src[3 * g + 1] \in Byte
        /\ At(src, 3 * g + 2, past) \in Byte
        /\ At(src, 3 * g + 3, IF 3 * g + 2 <= Len(src) THEN past ELSE 0) \in Byte
<1> DEFINE L == Len(src)
           G == Groups(L)
<1>1. L \in Nat /\ G \in Nat /\ 3 * G - L \in 0 .. 2
  BY Grouping
<1>2. g \in 0 .. G - 1
  OBVIOUS
<1> HIDE DEF G
<1>3. 3 * g + 1 \in 1 .. L
  BY <1>1, <1>2
<1>4. \A i \in 1 .. L : src[i] \in Byte
  OBVIOUS
<1>5. 0 \in Byte
  BY DEF Byte
<1>6. ASSUME NEW i \in Nat \ {0}, NEW p \in Byte
      PROVE At(src, i, p) \in Byte
  BY <1>1, <1>4 DEF At
<1>7. 3 * g + 2 \in Nat \ {0} /\ 3 * g + 3 \in Nat \ {0}
  BY <1>1, <1>2
<1> QED
  BY <1>3, <1>4, <1>5, <1>6, <1>7

(* The union of base64d (base64.cpp:52) puts the first byte together from  *)
(* two sextets, whatever the others are: padding, for instance.            *)
LEMMA First == ASSUME NEW a \in Byte, NEW b \in Byte, NEW c \in Byte, NEW x, NEW y
  PROVE BF(1, BF2(1, a, b, c), BF2(2, a, b, c), x, y) = a
  BY DEF BF2, BF, Byte

(* ... the second one from three.                                          *)
LEMMA Second == ASSUME NEW a \in Byte, NEW b \in Byte, NEW c \in Byte, NEW y
  PROVE BF(2, BF2(1, a, b, c), BF2(2, a, b, c), BF2(3, a, b, c), y) = b
  BY DEF BF2, BF, Byte

(* ... and the third one from four.                                        *)
LEMMA Third == ASSUME NEW a \in Byte, NEW b \in Byte, NEW c \in Byte
  PROVE BF(3, BF2(1, a, b, c), BF2(2, a, b, c), BF2(3, a, b, c), BF2(4, a, b, c)) = c
  BY DEF BF2, BF, Byte

(* Only the letters for bytes that are not there are padding.              *)
LEMMA LetterIs ==
  ASSUME NEW src \in Seq(Byte), NEW table, NEW past \in Byte,
         \A n \in Sextet : table[n] \in Byte \ {Pad},
         NEW g \in 0 .. Groups(Len(src)) - 1, NEW k \in 1 .. 4
  PROVE Letter(src, table, past, g, k) = Pad <=> 3 * g + k > Len(src) + 1
<1> DEFINE a == src[3 * g + 1]
           b == At(src, 3 * g + 2, past)
           c == At(src, 3 * g + 3, IF 3 * g + 2 <= Len(src) THEN past ELSE 0)
<1>1. a \in Byte /\ b \in Byte /\ c \in Byte
  BY Operands
<1>2. BF2(k, a, b, c) \in Sextet
  BY <1>1, SextetOf
<1>3. Letter(src, table, past, g, k) =
      IF 3 * g + k > Len(src) + 1 THEN Pad ELSE table[BF2(k, a, b, c)]
  BY DEF Letter
<1> HIDE DEF a, b, c
<1> QED
  BY <1>2, <1>3

(* Four letters for every group, begun or full.                            *)
LEMMA EncodeLen ==
  ASSUME NEW src \in Seq(Byte), NEW table, NEW past
  PROVE Len(Encode(src, table, past)) = 4 * Groups(Len(src))
<1> DEFINE n == 4 * Groups(Len(src))
<1>1. n \in Nat
  BY Grouping
<1>2. DOMAIN Encode(src, table, past) = 1 .. n
  BY DEF Encode
<1> HIDE DEF n
<1> QED
  BY <1>1, <1>2 DEF n

(* base64d's blank counts the bytes that the last group lacks              *)
(* (base64.cpp:92-99).                                                     *)
LEMMA EncodeBlanks ==
  ASSUME NEW src \in Seq(Byte), NEW table,
         \A n \in Sextet : table[n] \in Byte \ {Pad}, NEW past \in Byte
  PROVE Cardinality(Blanks(Encode(src, table, past))) = 3 * Groups(Len(src)) - Len(src)
<1> DEFINE code == Encode(src, table, past)
           L == Len(src)
           G == Groups(L)
<1>1. L \in Nat /\ G \in Nat /\ 3 * G - L \in 0 .. 2
  BY Grouping
<1>2. Len(code) = 4 * G
  BY EncodeLen
<1>3. ASSUME NEW i \in 1 .. 4 * G
      PROVE i \in Blanks(code) <=> i \in (4 * G - (3 * G - L) + 1) .. 4 * G
  <2> DEFINE g == (i - 1) \div 4
             k == ((i - 1) % 4) + 1
  <2>1. g \in 0 .. G - 1 /\ k \in 1 .. 4 /\ i = 4 * g + k
    BY <1>1
  <2> HIDE DEF g, k
  <2>2. code[i] = Pad <=> 3 * g + k > L + 1
    <3>1. code[4 * g + k] = Letter(src, table, past, g, k)
      BY <2>1, EncodeAt
    <3>2. Letter(src, table, past, g, k) = Pad <=> 3 * g + k > L + 1
      BY <2>1, LetterIs
    <3> QED
      BY <2>1, <3>1, <3>2
  <2>3. i % 4 \in {3, 0} <=> k \in {3, 4}
    BY <2>1
  <2>4. i \in Blanks(code) <=> k \in {3, 4} /\ 3 * g + k > L + 1
    BY <1>2, <2>2, <2>3 DEF Blanks
  <2> HIDE DEF G, L, code
  <2> QED
    BY <1>1, <2>1, <2>4
<1> HIDE DEF G, L
<1>4. Blanks(code) = (4 * G - (3 * G - L) + 1) .. 4 * G
  <2>1. Blanks(code) \subseteq 1 .. 4 * G
    BY <1>2 DEF Blanks
  <2>2. (4 * G - (3 * G - L) + 1) .. 4 * G \subseteq 1 .. 4 * G
    BY <1>1
  <2> HIDE DEF code
  <2> QED
    BY <1>3, <2>1, <2>2
<1>5. Cardinality((4 * G - (3 * G - L) + 1) .. 4 * G) = 3 * G - L
  BY <1>1, FS_Interval
<1> QED
  BY <1>4, <1>5 DEF G, L

(* base64d gives back what base64e coded, whatever the byte behind the end *)
(* is that base64e reads (base64.cpp:67: (i+1) > length is never true).    *)
THEOREM RoundTrip ==
  ASSUME NEW src \in Seq(Byte), NEW past \in Byte
  PROVE base64d(Encode(src, MimeBase64, past)) = src
<1> DEFINE code == Encode(src, MimeBase64, past)
           L == Len(src)
           G == Groups(L)
<1>1. L \in Nat /\ G \in Nat /\ 3 * G - L \in 0 .. 2
  BY Grouping
<1>2. Len(code) = 4 * G
  BY EncodeLen
<1>3. 3 * (Len(code) \div 4) - Cardinality(Blanks(code)) = L
  <2>1. Cardinality(Blanks(code)) = 3 * G - L
    BY Tables, EncodeBlanks
  <2> HIDE DEF G, L, code
  <2> QED
    BY <1>1, <1>2, <2>1
<1>4. ASSUME NEW i \in 1 .. L
      PROVE Decoded(code, (i - 1) \div 3, ((i - 1) % 3) + 1) = src[i]
  <2> DEFINE g == (i - 1) \div 3
             r == ((i - 1) % 3) + 1
             a == src[3 * g + 1]
             b == At(src, 3 * g + 2, past)
             c == At(src, 3 * g + 3, IF 3 * g + 2 <= Len(src) THEN past ELSE 0)
  <2>1. g \in 0 .. G - 1 /\ r \in 1 .. 3 /\ i = 3 * g + r
    BY <1>1
  <2> HIDE DEF g, r
  <2>2. a \in Byte /\ b \in Byte /\ c \in Byte
    BY <2>1, Operands
  <2>3. /\ r = 1 => src[i] = a
        /\ r = 2 => src[i] = b
        /\ r = 3 => src[i] = c
    BY <1>1, <2>1 DEF At
  <2>4. ASSUME NEW k \in 1 .. 4, k <= r + 1
        PROVE /\ code[4 * g + k] = MimeBase64[BF2(k, a, b, c)]
              /\ BF2(k, a, b, c) \in Sextet
    <3>1. BF2(k, a, b, c) \in Sextet
      BY <2>2, SextetOf
    <3>2. 3 * g + k <= L + 1
      BY <1>1, <2>1, <2>4
    <3>3. code[4 * g + k] = Letter(src, MimeBase64, past, g, k)
      BY <2>1, EncodeAt
    <3>4. Letter(src, MimeBase64, past, g, k) = MimeBase64[BF2(k, a, b, c)]
      BY <1>1, <2>1, <3>2 DEF Letter
    <3> QED
      BY <3>1, <3>3, <3>4
  <2> HIDE DEF a, b, c, code, G, L
  <2>5. ASSUME NEW k \in 1 .. 4, k <= r + 1
        PROVE /\ DecodeMimeBase64[code[4 * g + k]] = BF2(k, a, b, c)
              /\ Value(code[4 * g + k]) = BF2(k, a, b, c)
    BY <2>4, <2>5, Tables DEF Value
  <2> DEFINE q == Value(code[4 * g + 3])
             z == Value(code[4 * g + 4])
  <2>6. BF(r, DecodeMimeBase64[code[4 * g + 1]], DecodeMimeBase64[code[4 * g + 2]], q, z)
        = src[i]
    <3>1. /\ DecodeMimeBase64[code[4 * g + 1]] = BF2(1, a, b, c)
          /\ DecodeMimeBase64[code[4 * g + 2]] = BF2(2, a, b, c)
      BY <2>1, <2>5
    <3>2. r >= 2 => q = BF2(3, a, b, c)
      BY <2>1, <2>5
    <3>3. r = 3 => z = BF2(4, a, b, c)
      BY <2>1, <2>5
    <3> HIDE DEF q, z
    <3>4. CASE r = 1
      BY <2>2, <2>3, <3>1, <3>4, First
    <3>5. CASE r = 2
      BY <2>2, <2>3, <3>1, <3>2, <3>5, Second
    <3>6. CASE r = 3
      BY <2>2, <2>3, <3>1, <3>2, <3>3, <3>6, Third
    <3> QED
      BY <2>1, <3>4, <3>5, <3>6
  <2> QED
    BY <2>6 DEF g, r, Decoded
<1>5. base64d(code) = [i \in 1 .. L |-> src[i]]
  BY <1>3, <1>4 DEF base64d
<1> QED
  BY <1>5

(* base64d gives back what base64e2 coded: the photos of the employee      *)
(* database, coded so by the server, arrive as they are.                   *)
THEOREM RoundTripOfBase64e2 ==
  ASSUME NEW src \in Seq(Byte)
  PROVE base64d(base64e2(src)) = src
<1>1. 0 \in Byte
  BY DEF Byte
<1> QED
  BY <1>1, RoundTrip DEF base64e2

(* The buffer that request_UploadTimeSheet asks for holds the code of a    *)
(* picture and its NUL, and not a byte more (webservice.cpp:485-496).      *)
THEOREM BufferHolds ==
  ASSUME NEW src \in Seq(Byte)
  PROVE base64e2_get_needbufSize(Len(src)) = Len(base64e2_http(src)) + 1
<1> DEFINE L == Len(src)
<1>1. L \in Nat
  OBVIOUS
<1>2. Len(base64e2_http(src)) = 4 * Groups(L)
  BY EncodeLen DEF base64e2_http
<1> HIDE DEF L
<1>3. base64e2_get_needbufSize(L) = 4 * Groups(L) + 1
  BY <1>1 DEF base64e2_get_needbufSize, Groups
<1> QED
  BY <1>2, <1>3 DEF L

(* base64e2_http, which a time sheet's picture is sent in, writes - where   *)
(* base64e2 writes + and nothing else differs (base64.cpp:21, 159).        *)
THEOREM HttpCode ==
  ASSUME NEW src \in Seq(Byte), NEW i \in 1 .. Len(base64e2_http(src))
  PROVE IF base64e2(src)[i] = 43 THEN base64e2_http(src)[i] = 45
        ELSE base64e2_http(src)[i] = base64e2(src)[i]
<1> DEFINE G == Groups(Len(src))
           g == (i - 1) \div 4
           k == ((i - 1) % 4) + 1
           a == src[3 * g + 1]
           b == At(src, 3 * g + 2, 0)
           c == At(src, 3 * g + 3, IF 3 * g + 2 <= Len(src) THEN 0 ELSE 0)
<1>1. Len(src) \in Nat /\ G \in Nat
  BY Grouping
<1>2. i \in 1 .. 4 * G
  BY EncodeLen DEF base64e2_http
<1>3. g \in 0 .. G - 1 /\ k \in 1 .. 4 /\ i = 4 * g + k
  <2> HIDE DEF G
  <2> QED
    BY <1>1, <1>2
<1> HIDE DEF g, k
<1>4. a \in Byte /\ b \in Byte /\ c \in Byte
  <2>1. 0 \in Byte
    BY DEF Byte
  <2> QED
    BY <1>3, <2>1, Operands
<1>5. BF2(k, a, b, c) \in Sextet
  BY <1>3, <1>4, SextetOf
<1>6. /\ base64e2(src)[4 * g + k] = Letter(src, MimeBase64, 0, g, k)
      /\ base64e2_http(src)[4 * g + k] = Letter(src, MimeBase64_http, 0, g, k)
  BY <1>3, EncodeAt DEF base64e2, base64e2_http
<1>7. /\ Letter(src, MimeBase64, 0, g, k) =
           IF 3 * g + k > Len(src) + 1 THEN Pad ELSE MimeBase64[BF2(k, a, b, c)]
      /\ Letter(src, MimeBase64_http, 0, g, k) =
           IF 3 * g + k > Len(src) + 1 THEN Pad ELSE MimeBase64_http[BF2(k, a, b, c)]
  BY DEF Letter
<1> HIDE DEF a, b, c
<1> QED
  BY <1>3, <1>5, <1>6, <1>7, HttpTable DEF Pad

(* So base64d undoes base64e2_http where no + would be; test_base64.cpp     *)
(* tries it on one picture only.                                           *)
THEOREM HttpRoundTrip ==
  ASSUME NEW src \in Seq(Byte),
         \A i \in 1 .. Len(base64e2(src)) : base64e2(src)[i] # 43
  PROVE base64d(base64e2_http(src)) = src
<1>1. Len(base64e2_http(src)) = Len(base64e2(src))
  BY EncodeLen DEF base64e2, base64e2_http
<1>2. \A i \in 1 .. Len(base64e2_http(src)) : base64e2_http(src)[i] = base64e2(src)[i]
  BY <1>1, HttpCode
<1>3. /\ base64e2(src) = [i \in 1 .. Len(base64e2(src)) |-> base64e2(src)[i]]
      /\ base64e2_http(src) = [i \in 1 .. Len(base64e2_http(src)) |-> base64e2_http(src)[i]]
  <2> DEFINE n == 4 * Groups(Len(src))
  <2>1. n \in Nat /\ Len(base64e2(src)) = n /\ Len(base64e2_http(src)) = n
    BY Grouping, EncodeLen DEF base64e2, base64e2_http
  <2> HIDE DEF n
  <2> QED
    BY <2>1 DEF base64e2, base64e2_http, Encode, n
<1>4. base64e2_http(src) = base64e2(src)
  BY <1>1, <1>2, <1>3
<1> QED
  BY <1>4, RoundTripOfBase64e2
=============================================================================
