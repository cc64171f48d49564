----------------------------- MODULE CardReader -----------------------------
(***************************************************************************)
(* The card reader: SerialRfid (serialRfid.cpp) and its three devices,     *)
(* over AsyncSerial.  The 1356M and the 900M answer a request, with the    *)
(* card in the field or with something shorter; the 1356M2 sends a frame   *)
(* by itself when a card is presented.  A read takes whatever the line has *)
(* brought by then: part of a frame, a frame, or several.                  *)
(*                                                                         *)
(* Time is abstracted: six seconds are over at some time after a report,   *)
(* and getSeverTime may set the clock once, forward or back.               *)
(***************************************************************************)
EXTENDS Integers, Sequences, Bitwise
LOCAL INSTANCE SequencesExt

CONSTANTS Cards, None,  \* a card is the four bytes of its number
          Modes,     \* "Rfid::MODE" of the settings: "1356M", "1356M2", "900M"
          MaxAsked,  \* bound: requests that the device has not answered
          MaxLine    \* bound: pieces of frames on the line, in mode 1356M2

ASSUME CardsAssumption == Cards \subseteq Seq(Nat) /\ \A c \in Cards : Len(c) = 4
ASSUME ModesAssumption == Modes \subseteq {"1356M", "1356M2", "900M"}
ASSUME BoundsAssumption == MaxAsked \in Nat \ {0} /\ MaxLine \in Nat

VARIABLES
  mode,
  reader,    \* "closed", the thread's "ask", "poll" and "data", or "over": the program has ended
  tty,       \* is the serial port there?
  asked,     \* requests that it has not answered
  line,      \* pieces of frames that have come and are not read
  field,     \* the card in the field
  announced, \* the 1356M2 has sent its frame
  shadow,    \* m_serialnumberShadowBuf
  recent,    \* by the clock it is less than six seconds since shadowTime
  six,       \* history: six seconds have passed since then
  clockSet,  \* the clock has been set
  served,    \* history: the card in the field has been reported
  seen,      \* history: cards in the field since the last request (1356M2: read)
  tangled    \* history: a read has brought something else than one answer

clock == <<recent, six, clockSet>>
device == <<asked, line, field, announced, served>>
readerVars == <<mode, reader, tty, device, shadow, clock, seen, tangled>>

AsksDevice == mode # "1356M2"

(* A frame with a card comes in two pieces at most.  An answer without a   *)
(* card has another length, and so has what open leaves of its answer.     *)
Frame(c) == <<<<c, 1>>, <<c, 2>>>>
Rest == <<None, 0>>

ReaderInit ==
  /\ mode \in Modes
  /\ reader = "closed" /\ tty \in BOOLEAN
  /\ asked = 0 /\ line = <<>>
  /\ field = None /\ announced = FALSE
  /\ shadow = None
  /\ recent = FALSE /\ six = TRUE /\ clockSet = FALSE
  /\ served = FALSE /\ seen = {} /\ tangled = FALSE

-----------------------------------------------------------------------------
(* The device and the visitors.                                            *)
Present(c) ==
  /\ field = None
  /\ field' = c
  /\ seen' = IF tangled THEN {} ELSE seen \cup {c}
  /\ announced' = FALSE /\ served' = FALSE
  /\ UNCHANGED <<mode, reader, tty, asked, line, shadow, clock, tangled>>

Leave ==
  /\ field # None
  /\ field' = None
  /\ announced' = FALSE /\ served' = FALSE
  /\ UNCHANGED <<mode, reader, tty, asked, line, shadow, clock, seen, tangled>>

Answer ==
  /\ asked > 0
  /\ asked' = asked - 1
  /\ line' = line \o IF field = None THEN <<Rest>> ELSE Frame(field)
  /\ UNCHANGED <<mode, reader, tty, field, announced, shadow, clock, served, seen, tangled>>

Announce ==
  /\ ~AsksDevice /\ tty /\ reader # "closed"
  /\ field # None /\ ~announced /\ Len(line) + 2 <= MaxLine
  /\ announced' = TRUE
  /\ line' = line \o Frame(field)
  /\ UNCHANGED <<mode, reader, tty, asked, field, shadow, clock, served, seen, tangled>>

SixSeconds ==
  /\ ~six \/ recent
  /\ six' = TRUE /\ recent' = FALSE
  /\ UNCHANGED <<mode, reader, tty, device, shadow, clockSet, seen, tangled>>

SetClock ==
  /\ ~clockSet
  /\ clockSet' = TRUE
  /\ recent' \in BOOLEAN
  /\ UNCHANGED <<mode, reader, tty, device, shadow, six, seen, tangled>>

-----------------------------------------------------------------------------
(* open, by the constructor and then by the housekeeping until it succeeds.*)
(* The 1356M2's always does, the others' when the device has answered it   *)
(* within three seconds; what is more than five bytes of that answer, or   *)
(* comes late, is left on the line.                                        *)
Open ==
  /\ reader = "closed" /\ (AsksDevice => tty)
  /\ reader' = "ask"
  /\ line' \in IF AsksDevice THEN {<<>>, <<Rest>>} ELSE {<<>>}
  /\ tangled' = (line' # <<>>)
  /\ seen' = IF tangled' THEN {} ELSE {field} \ {None}
  /\ UNCHANGED <<mode, tty, asked, field, announced, shadow, clock, served>>

(* requestData.                                                            *)
Ask ==
  /\ reader = "ask"
  /\ reader' = "poll"
  /\ IF AsksDevice
     THEN /\ asked < MaxAsked
          /\ asked' = asked + 1
          /\ seen' = IF tangled THEN {} ELSE {field} \ {None}
     ELSE UNCHANGED <<asked, seen>>
  /\ UNCHANGED <<mode, tty, line, field, announced, shadow, clock, served, tangled>>

(* Mutant: requestData catches EXCEPTION_TIMEOUT.                          *)
Timeout_Caught ==
  /\ reader = "poll" /\ AsksDevice /\ line = <<>>
  /\ reader' = "ask"
  /\ UNCHANGED <<mode, tty, device, shadow, clock, seen, tangled>>
(* No answer for two seconds: run does not catch EXCEPTION_TIMEOUT, and    *)
(* the program ends.  In mode 1356M2 there is no limit.                    *)
Timeout ==
  /\ reader = "poll" /\ AsksDevice /\ line = <<>>
  /\ reader' = "over"
  /\ UNCHANGED <<mode, tty, device, shadow, clock, seen, tangled>>

XorAll(bytes) == FoldLeft(LAMBDA x, y : x ^^ y, 0, bytes)

(* The five bytes of an 1356M2's frame: the number, last byte first, and   *)
(* the check sum.  Of two pieces only a first and a second one make five.  *)
Bytes(piece) == LET c == piece[1] IN
  IF piece[2] = 1 THEN <<c[1], c[2]>> ELSE <<c[3], c[4], XorAll(c)>>

(* Mutant: one byte is left out of the sum.                                *)
Passes_OneLess(b) == XorAll(SubSeq(b, 1, 3)) = b[5]
(* buf[0] ^ buf[1] ^ buf[2] ^ buf[3] == buf[4], where == comes first.      *)
Passes(b) == XorAll(SubSeq(b, 1, 3) \o <<IF b[4] = b[5] THEN 1 ELSE 0>>) # 0

(* The number that what has been read is taken for, or None: its length is *)
(* that of one frame, and for the 900M at least that; the first two have a *)
(* header and a trailer, the 1356M2 a check sum.                           *)
Number(pieces) ==
  CASE mode = "1356M" /\ \E c \in Cards : pieces = Frame(c) -> pieces[1][1]
    [] mode = "900M" /\ Len(pieces) >= 2 /\ \E c \in Cards : SubSeq(pieces, 1, 2) = Frame(c) ->
         pieces[1][1]
    [] mode = "1356M2" /\ Len(pieces) = 2 /\ pieces[1][2] # pieces[2][2] ->
         LET b == Bytes(pieces[1]) \o Bytes(pieces[2])
         IN IF Passes(b) THEN SubSeq(b, 1, 4) ELSE None
    [] OTHER -> None

OneAnswer(pieces) == pieces = <<Rest>> \/ \E c \in Cards : pieces = Frame(c)

(* Mutant: the number is not remembered.                                   *)
Read_NoShadow ==
  /\ reader = "poll" /\ line # <<>>
  /\ \E n \in {Len(line), Len(line) - 1} \ {0} :
       LET pieces == SubSeq(line, 1, n)
           number == Number(pieces)
       IN /\ n < Len(line) => line[Len(line)][2] = 2
          /\ line' = SubSeq(line, n + 1, Len(line))
          /\ tangled' = (tangled \/ ~OneAnswer(pieces))
          /\ IF number = None \/ (number = shadow /\ recent)
             THEN /\ reader' = "ask"
                  /\ UNCHANGED <<shadow, recent, six, served>>
             ELSE /\ reader' = "data"
                  /\ recent' = TRUE /\ six' = tangled'
                  /\ served' = (~tangled' /\ (served \/ number = field))
                  /\ UNCHANGED shadow
  /\ seen' = IF tangled' THEN {} ELSE IF AsksDevice THEN seen ELSE {field} \ {None}
  /\ UNCHANGED <<mode, tty, asked, field, announced, clockSet>>
(* A read of all that has come, or of all but the last piece of it, and    *)
(* what becomes of it.  The number that was reported last is the same card *)
(* for six seconds, unless there was another in between.                   *)
Read ==
  /\ reader = "poll" /\ line # <<>>
  /\ \E n \in {Len(line), Len(line) - 1} \ {0} :
       LET pieces == SubSeq(line, 1, n)
           number == Number(pieces)
       IN /\ n < Len(line) => line[Len(line)][2] = 2
          /\ line' = SubSeq(line, n + 1, Len(line))
          /\ tangled' = (tangled \/ ~OneAnswer(pieces))
          /\ IF number = None \/ (number = shadow /\ recent)
             THEN /\ reader' = "ask"
                  /\ UNCHANGED <<shadow, recent, six, served>>
             ELSE /\ reader' = "data"
                  /\ shadow' = number
                  /\ recent' = TRUE /\ six' = tangled'
                  /\ served' = (~tangled' /\ (served \/ number = field))
  /\ seen' = IF tangled' THEN {} ELSE IF AsksDevice THEN seen ELSE {field} \ {None}
  /\ UNCHANGED <<mode, tty, asked, field, announced, clockSet>>

(* onData has returned.                                                    *)
DataDone ==
  /\ reader = "data"
  /\ reader' = "ask"
  /\ UNCHANGED <<mode, tty, device, shadow, clock, seen, tangled>>

Visitors == Leave \/ \E c \in Cards : Present(c)
Device == Answer \/ Announce
Time == SixSeconds \/ SetClock
Thread == Open \/ Ask \/ Timeout \/ Read

-----------------------------------------------------------------------------
Reports == reader # "data" /\ reader' = "data"

(* What onData gets is the number of a card that has been in the field     *)
(* since the last request, or the last read of an 1356M2, as long as every *)
(* read has brought exactly one answer (serialRfid1356.cpp:39, 83).        *)
FreshCard == [][Reports => shadow' \in seen \/ tangled']_readerVars

(* A visitor whose card stays in the field is let in once in six seconds,  *)
(* and nobody else meanwhile, unless the clock has been set or answers are *)
(* mixed up (serialRfid1356.cpp:44, 89; serialRfid900.cpp:41).             *)
OncePerVisit == [][Reports /\ served => six \/ clockSet \/ tangled']_readerVars

(* A frame that comes whole and alone is recognised, whatever the check    *)
(* sum's expression computes (serialRfid1356.cpp:41, 86).                  *)
GoodFrameTaken ==
  [][\A c \in Cards : line = Frame(c) /\ line' = <<>> => shadow' = c \/ reader = "closed"]_readerVars
=============================================================================
