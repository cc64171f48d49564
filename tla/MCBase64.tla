------------------------------ MODULE MCBase64 ------------------------------
(***************************************************************************)
(* The codes of tools/base64.cpp on all data of up to three bytes from     *)
(* Samples, and of up to seven from the extremes: every letter of the      *)
(* tables and every length of the last group.                              *)
(***************************************************************************)
EXTENDS Base64

Extremes == {0, 62, 255}
Samples == Extremes \cup {3, 15, 64, 128, 200, 248, 251}
Data == UNION {[1 .. n -> Samples] : n \in 0 .. 3} \cup UNION {[1 .. n -> Extremes] : n \in 4 .. 7}

(* What base64d makes of the code of base64e2, and of base64e's whatever   *)
(* byte lies behind the data, is the data (base64.cpp:61-157).             *)
ASSUME DecodedAsCoded ==
  \A src \in Data : /\ base64d(base64e2(src)) = src
                    /\ \A past \in Extremes : base64d(base64e(src, past)) = src

(* base64d gets the data back from base64e2_http's code unless it has a -, *)
(* which the decoder's table does not know (base64.cpp:29, 36): the case   *)
(* that test_base64.cpp's picture must not contain.                        *)
ASSUME HttpCodeIsOneWay ==
  \A src \in Data :
     base64d(base64e2_http(src)) = src <=> 45 \notin {base64e2_http(src)[i] : i \in 1 .. Len(base64e2_http(src))}

(* The buffer has room for the code and its NUL (base64.cpp:114).          *)
ASSUME BufferAsLong ==
  \A src \in Data : base64e2_get_needbufSize(Len(src)) = Len(base64e2_http(src)) + 1
=============================================================================
