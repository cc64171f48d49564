--------------------------- MODULE LogQueueProofs ---------------------------
(***************************************************************************)
(* Proofs about LogQueue for any threads and any number of entries.        *)
(*                                                                         *)
(* The inductive invariant IInv says where the entries that are accepted   *)
(* and not yet written are: one may be in the reader's hand, the others    *)
(* stand in buf in order, and behind them stands the NULL of exit until    *)
(* the reader has popped it.                                               *)
(***************************************************************************)
EXTENDS LogQueue, SequenceTheorems, TLAPS

Holding == IF reader = "popped" /\ e # NULL THEN 1 ELSE 0
Sentinel == IF m_available = TRUE \/ buf = <<>> THEN 0 ELSE 1

(* Every accepted entry is written, held or in buf, in this order.         *)
PlaceInv ==
  /\ Len(accepted) = Len(written) + Holding + Len(buf) - Sentinel
  /\ \A i \in 1 .. Len(written) : written[i] = accepted[i]
  /\ Holding = 1 => e = accepted[Len(written) + 1]
  /\ \A i \in 1 .. Len(buf) - Sentinel : buf[i] = accepted[Len(written) + Holding + i]

(* The NULL comes with exit, stands last, and ends the reader.             *)
SentinelInv ==
  /\ \A i \in 1 .. Len(buf) - Sentinel : buf[i] # NULL
  /\ Sentinel = 1 => buf[Len(buf)] = NULL
  /\ reader # "popped" => e = NULL
  /\ m_available = TRUE => reader # "ended" /\ ~(reader = "popped" /\ e = NULL)
  /\ m_available = FALSE => 
       (buf = <<>> <=> reader = "ended" \/ (reader = "popped" /\ e = NULL))

IInv == TypeOK /\ NoSleepOverEntries /\ PlaceInv /\ SentinelInv

-----------------------------------------------------------------------------
(* The invariant holds initially.                                          *)
LEMMA InitIInv == Init => IInv
<1> SUFFICES ASSUME Init PROVE IInv
  OBVIOUS
<1>1. TypeOK
  <2>1. buf \in Seq(Entries \cup {NULL}) /\ written \in Seq(Entries) /\ accepted \in Seq(Entries)
    BY DEF Init
  <2>2. m_available \in BOOLEAN /\ m_bWait \in BOOLEAN
    BY DEF Init
  <2>3. /\ reader \in {"pop", "waiting", "popped", "ended"} /\ e \in Entries \cup {NULL}
        /\ stamped \in [Producers -> Entries \cup {NULL}]
    BY DEF Init
  <2>4. sent \in [Producers -> 0 .. MaxEntries]
    BY MaxEntriesAssumption DEF Init
  <2> QED
    BY <2>1, <2>2, <2>3, <2>4 DEF TypeOK
<1>2. NoSleepOverEntries
  BY DEF Init, NoSleepOverEntries
<1>3. PlaceInv
  BY DEF Init, PlaceInv, Holding, Sentinel
<1>4. SentinelInv
  BY DEF Init, SentinelInv, Sentinel
<1> QED
  BY <1>1, <1>2, <1>3, <1>4 DEF IInv

(* push takes the entry and notifies, or changes nothing.                  *)
LEMMA Pushed ==
  ASSUME NEW p \in Producers, push(p)
  PROVE  \/ /\ m_available = TRUE
            /\ buf' = Append(buf, stamped[p])
            /\ accepted' = Append(accepted, stamped[p])
            /\ notify_one
         \/ m_available # TRUE /\ UNCHANGED <<buf, accepted, m_bWait, reader>>
  BY Zenon DEF push

(* What push and exit do to the reader: they wake it or leave it.          *)
LEMMA Notified ==
  ASSUME TypeOK, NoSleepOverEntries, notify_one
  PROVE  /\ reader' = IF reader = "waiting" THEN "pop" ELSE reader
         /\ reader' # "waiting"
         /\ reader' \in {"pop", "waiting", "popped", "ended"}
         /\ m_bWait' \in BOOLEAN
  BY DEF TypeOK, NoSleepOverEntries, notify_one

(* Every step keeps the types.                                             *)
LEMMA TypeStep == IInv /\ [Next]_vars => TypeOK'
<1> SUFFICES ASSUME IInv, [Next]_vars PROVE TypeOK'
  OBVIOUS
<1> USE DEF IInv, TypeOK
<1>1. ASSUME NEW p \in Producers, NewEntry(p) PROVE TypeOK'
  BY <1>1, MaxEntriesAssumption DEF NewEntry, Entries, queue
<1>2. ASSUME NEW p \in Producers, push(p) PROVE TypeOK'
  <2>1. stamped[p] \in Entries /\ stamped' \in [Producers -> Entries \cup {NULL}]
    BY <1>2 DEF push
  <2>2. m_available' = m_available /\ e' = e /\ written' = written /\ sent' = sent
    BY <1>2 DEF push
  <2>3. buf' \in Seq(Entries \cup {NULL}) /\ accepted' \in Seq(Entries)
    <3>1. /\ Append(buf, stamped[p]) \in Seq(Entries \cup {NULL})
          /\ Append(accepted, stamped[p]) \in Seq(Entries)
      BY <2>1
    <3>2. CASE UNCHANGED <<buf, accepted>>
      BY <3>2
    <3>3. CASE buf' = Append(buf, stamped[p]) /\ accepted' = Append(accepted, stamped[p])
      BY <3>1, <3>3
    <3> QED
      BY <1>2, <3>2, <3>3, Pushed
  <2>4. reader' \in {"pop", "waiting", "popped", "ended"} /\ m_bWait' \in BOOLEAN
    BY <1>2, Pushed, Notified
  <2> QED
    BY <2>1, <2>2, <2>3, <2>4
<1>3. CASE exit
  <2>1. notify_one
    BY <1>3 DEF exit
  <2>2. buf' \in Seq(Entries \cup {NULL})
    BY <1>3 DEF exit
  <2> QED
    BY <1>3, <2>1, <2>2, Notified DEF exit
<1>4. CASE popWait
  BY <1>4 DEF popWait
<1>5. CASE popFront
  <2>1. Head(buf) \in Entries \cup {NULL} /\ Tail(buf) \in Seq(Entries \cup {NULL})
    BY <1>5 DEF popFront
  <2> QED
    BY <1>5, <2>1 DEF popFront
<1>6. CASE write
  BY <1>6 DEF write, queue
<1>7. CASE runEnds
  BY <1>7 DEF runEnds, queue
<1>8. CASE SpuriousWakeup
  BY <1>8 DEF SpuriousWakeup, queue
<1>9. CASE UNCHANGED vars
  BY <1>9 DEF vars, queue
<1> QED
  BY <1>1, <1>2, <1>3, <1>4, <1>5, <1>6, <1>7, <1>8, <1>9 DEF Next, run

-----------------------------------------------------------------------------
(* A reader that waits is awake as soon as there is an entry.              *)
LEMMA SleepStep == IInv /\ [Next]_vars => NoSleepOverEntries'
<1> SUFFICES ASSUME IInv, [Next]_vars PROVE NoSleepOverEntries'
  OBVIOUS
<1> USE DEF IInv, NoSleepOverEntries
<1>1. ASSUME NEW p \in Producers, NewEntry(p) PROVE NoSleepOverEntries'
  BY <1>1 DEF NewEntry, queue
<1>2. ASSUME NEW p \in Producers, push(p) PROVE NoSleepOverEntries'
  BY <1>2, Pushed, Notified
<1>3. CASE exit
  <2>1. notify_one
    BY <1>3 DEF exit
  <2> QED
    BY <2>1, Notified
<1>4. CASE popWait
  BY <1>4 DEF popWait
<1>5. CASE popFront
  BY <1>5 DEF popFront
<1>6. CASE write
  BY <1>6 DEF write
<1>7. CASE runEnds
  BY <1>7 DEF runEnds
<1>8. CASE SpuriousWakeup
  BY <1>8 DEF SpuriousWakeup
<1>9. CASE UNCHANGED vars
  BY <1>9 DEF vars, queue
<1> QED
  BY <1>1, <1>2, <1>3, <1>4, <1>5, <1>6, <1>7, <1>8, <1>9 DEF Next, run

(* The entries in buf and the sentinel behind them, over a push.           *)
LEMMA PushStep ==
  ASSUME IInv, NEW p \in Producers, push(p)
  PROVE  PlaceInv' /\ SentinelInv'
<1> USE DEF IInv
<1>1. e' = e /\ written' = written /\ m_available' = m_available
  BY DEF push
<1>2. stamped[p] \in Entries /\ stamped[p] # NULL
  BY DEF push, TypeOK
<1>3. CASE UNCHANGED <<buf, accepted, m_bWait, reader>>
  BY <1>1, <1>3 DEF PlaceInv, SentinelInv, Holding, Sentinel
<1>4. CASE /\ m_available = TRUE
           /\ buf' = Append(buf, stamped[p]) /\ accepted' = Append(accepted, stamped[p])
           /\ notify_one
  <2>1. reader' = "popped" <=> reader = "popped"
    BY <1>4, Notified DEF TypeOK
  <2>2. reader' # "ended"
    BY <1>4, Notified DEF SentinelInv
  <2>3. Holding' = Holding /\ Sentinel' = 0 /\ Sentinel = 0
    BY <1>1, <1>4, <2>1 DEF Holding, Sentinel
  <2>4. buf' # <<>>
    BY <1>4, <1>2 DEF TypeOK
  <2>5. PlaceInv'
    <3>1. /\ Len(accepted) \in Nat /\ Len(buf) \in Nat /\ Len(written) \in Nat
          /\ Holding \in {0, 1}
      BY DEF TypeOK, Holding
    <3>2. /\ Len(buf') = Len(buf) + 1 /\ buf'[Len(buf) + 1] = stamped[p]
          /\ \A i \in 1 .. Len(buf) : buf'[i] = buf[i]
      BY <1>2, <1>4 DEF TypeOK
    <3>3. /\ Len(accepted') = Len(accepted) + 1 /\ accepted'[Len(accepted) + 1] = stamped[p]
          /\ \A i \in 1 .. Len(accepted) : accepted'[i] = accepted[i]
      BY <1>2, <1>4 DEF TypeOK
    <3>4. Len(accepted') = Len(written') + Holding' + Len(buf') - Sentinel'
      BY <1>1, <2>3, <3>1, <3>2, <3>3 DEF PlaceInv
    <3>5. \A i \in 1 .. Len(written') : written'[i] = accepted'[i]
      BY <1>1, <2>3, <3>1, <3>3 DEF PlaceInv
    <3>6. Holding' = 1 => e' = accepted'[Len(written') + 1]
      BY <1>1, <2>3, <3>1, <3>3 DEF PlaceInv
    <3>7. \A i \in 1 .. Len(buf') - Sentinel' :
             buf'[i] = accepted'[Len(written') + Holding' + i]
      <4> SUFFICES ASSUME NEW i \in 1 .. Len(buf) + 1
                   PROVE  buf'[i] = accepted'[Len(written) + Holding + i]
        BY <1>1, <2>3, <3>2
      <4>1. Len(accepted) = Len(written) + Holding + Len(buf)
        BY <2>3, <3>1 DEF PlaceInv
      <4>2. CASE i = Len(buf) + 1
        BY <3>1, <3>2, <3>3, <4>1, <4>2
      <4>3. CASE i \in 1 .. Len(buf)
        <5>1. buf[i] = accepted[Len(written) + Holding + i]
          BY <2>3, <3>1, <4>3 DEF PlaceInv
        <5>2. Len(written) + Holding + i \in 1 .. Len(accepted)
          BY <3>1, <4>1, <4>3
        <5> QED
          BY <3>2, <3>3, <4>3, <5>1, <5>2
      <4> QED
        BY <3>1, <4>2, <4>3
    <3> QED
      BY <3>4, <3>5, <3>6, <3>7 DEF PlaceInv
  <2>6. SentinelInv'
    <3>1. \A i \in 1 .. Len(buf') - Sentinel' : buf'[i] # NULL
      BY <1>2, <1>4, <2>3 DEF SentinelInv, TypeOK
    <3>2. reader' # "popped" => e' = NULL
      BY <1>1, <2>1 DEF SentinelInv
    <3>3. m_available' = TRUE /\ ~(reader' = "popped" /\ e' = NULL)
      BY <1>1, <1>4, <2>1 DEF SentinelInv
    <3> QED
      BY <2>2, <2>3, <3>1, <3>2, <3>3 DEF SentinelInv
  <2> QED
    BY <2>5, <2>6
<1> QED
  BY <1>3, <1>4, Pushed

(* ... over exit, which brings the sentinel.                               *)
LEMMA ExitStep == IInv /\ exit => PlaceInv' /\ SentinelInv'
<1> SUFFICES ASSUME IInv, exit PROVE PlaceInv' /\ SentinelInv'
  OBVIOUS
<1> USE DEF IInv
<1>1. /\ m_available = TRUE /\ m_available' = FALSE /\ buf' = Append(buf, NULL)
      /\ e' = e /\ written' = written /\ accepted' = accepted
  BY DEF exit, TypeOK
<1>2. reader' = "popped" <=> reader = "popped"
  BY Notified DEF exit, TypeOK
<1>3. reader' # "ended"
  BY <1>1, Notified DEF exit, SentinelInv
<1>4. buf' # <<>> /\ Len(buf') = Len(buf) + 1
  BY <1>1 DEF TypeOK
<1>5. Holding' = Holding /\ Sentinel = 0 /\ Sentinel' = 1
  BY <1>1, <1>2, <1>4 DEF Holding, Sentinel
<1>6. PlaceInv'
  BY <1>1, <1>2, <1>4, <1>5 DEF PlaceInv, TypeOK
<1>7. SentinelInv'
  BY <1>1, <1>2, <1>3, <1>4, <1>5 DEF SentinelInv, TypeOK
<1> QED
  BY <1>6, <1>7

(* ... over pop, which takes an entry in hand or the sentinel away.        *)
LEMMA PopStep == IInv /\ popFront => PlaceInv' /\ SentinelInv'
<1> SUFFICES ASSUME IInv, popFront PROVE PlaceInv' /\ SentinelInv'
  OBVIOUS
<1> USE DEF IInv
<1>1. /\ reader = "pop" /\ reader' = "popped" /\ e' = buf[1] /\ buf' = Tail(buf)
      /\ written' = written /\ accepted' = accepted /\ m_available' = m_available
      /\ buf # <<>>
  BY DEF popFront, TypeOK
<1>2. /\ Len(accepted) \in Nat /\ Len(buf) \in Nat /\ Len(written) \in Nat /\ Len(buf) > 0
      /\ Holding = 0
  BY <1>1 DEF TypeOK, Holding
<1>3. /\ Len(buf') = Len(buf) - 1
      /\ \A i \in 1 .. Len(buf) - 1 : buf'[i] = buf[i + 1]
      /\ buf' = <<>> <=> Len(buf) = 1
  <2>1. buf' \in Seq(Entries \cup {NULL}) /\ Len(buf') = Len(buf) - 1
    BY <1>1, <1>2 DEF TypeOK
  <2>2. \A i \in 1 .. Len(buf) - 1 : buf'[i] = buf[i + 1]
    BY <1>1, <1>2 DEF TypeOK
  <2>3. buf' = <<>> <=> Len(buf') = 0
    BY <2>1, EmptySeq
  <2> QED
    BY <1>2, <2>1, <2>2, <2>3
<1>4. /\ Len(accepted) = Len(written) + Len(buf) - Sentinel
      /\ \A i \in 1 .. Len(written) : written[i] = accepted[i]
      /\ \A i \in 1 .. Len(buf) - Sentinel : buf[i] = accepted[Len(written) + i]
  BY <1>2 DEF PlaceInv
<1>5. CASE m_available # TRUE /\ Len(buf) = 1
  <2>1. Sentinel = 1 /\ Sentinel' = 0 /\ buf' = <<>> /\ m_available = FALSE
    BY <1>1, <1>3, <1>5 DEF Sentinel, TypeOK
  <2>2. e' = NULL /\ Holding' = 0
    BY <1>1, <1>5, <2>1 DEF SentinelInv, Holding
  <2>3. Len(accepted') = Len(written') + Holding' + Len(buf') - Sentinel'
    BY <1>1, <1>2, <1>3, <1>4, <1>5, <2>1, <2>2
  <2>4. PlaceInv'
    BY <1>1, <1>3, <1>4, <1>5, <2>1, <2>2, <2>3 DEF PlaceInv
  <2>5. SentinelInv'
    <3>1. \A i \in 1 .. Len(buf') - Sentinel' : buf'[i] # NULL
      BY <1>3, <1>5, <2>1
    <3>2. Sentinel' # 1 /\ reader' = "popped" /\ e' = NULL /\ m_available' = FALSE
      BY <1>1, <2>1, <2>2
    <3> QED
      BY <2>1, <3>1, <3>2 DEF SentinelInv
  <2> QED
    BY <2>4, <2>5
<1>6. CASE m_available = TRUE \/ Len(buf) > 1
  <2>1. Sentinel \in {0, 1} /\ Len(buf) - Sentinel > 0 /\ Sentinel' = Sentinel
    BY <1>1, <1>2, <1>3, <1>6 DEF Sentinel
  <2>2. e' # NULL /\ e' = accepted[Len(written) + 1] /\ Holding' = 1
    <3>1. 1 \in 1 .. Len(buf) - Sentinel
      BY <1>2, <2>1
    <3> QED
      BY <1>1, <1>2, <1>4, <3>1 DEF SentinelInv, Holding
  <2>3. \A i \in 1 .. Len(buf') - Sentinel' :
           /\ buf'[i] = accepted[Len(written) + 1 + i]
           /\ buf'[i] # NULL
    <3> SUFFICES ASSUME NEW i \in 1 .. Len(buf) - 1 - Sentinel
                 PROVE  buf'[i] = accepted[Len(written) + 1 + i] /\ buf'[i] # NULL
      BY <1>3, <2>1
    <3>1. i + 1 \in 1 .. Len(buf) - Sentinel /\ i \in 1 .. Len(buf) - 1
      BY <1>2, <2>1
    <3>2. buf[i + 1] = accepted[Len(written) + (i + 1)] /\ buf[i + 1] # NULL
      BY <1>4, <3>1 DEF SentinelInv
    <3>3. Len(written) + (i + 1) = Len(written) + 1 + i
      BY <1>2
    <3> QED
      BY <1>3, <3>1, <3>2, <3>3
  <2>4. Len(accepted') = Len(written') + Holding' + Len(buf') - Sentinel'
    BY <1>1, <1>2, <1>3, <1>4, <2>1, <2>2
  <2>5. PlaceInv'
    BY <1>1, <1>4, <2>2, <2>3, <2>4 DEF PlaceInv
  <2>6. Sentinel' = 1 => buf'[Len(buf')] = NULL /\ buf' # <<>>
    <3> SUFFICES ASSUME Sentinel = 1
                 PROVE  buf'[Len(buf')] = NULL /\ buf' # <<>>
      BY <2>1
    <3>1. Len(buf) > 1 /\ Len(buf) - 1 \in 1 .. Len(buf) - 1
      BY <1>2, <2>1
    <3>2. buf'[Len(buf) - 1] = buf[Len(buf) - 1 + 1]
      BY <1>3, <3>1
    <3> QED
      BY <1>2, <1>3, <3>1, <3>2 DEF SentinelInv
  <2>7. m_available' = FALSE => Sentinel' = 1
    BY <1>1, <1>6, <2>1 DEF Sentinel
  <2>8. SentinelInv'
    BY <1>1, <2>2, <2>3, <2>6, <2>7 DEF SentinelInv
  <2> QED
    BY <2>5, <2>8
<1>7. Len(buf) = 1 \/ Len(buf) > 1
  <2> SUFFICES ASSUME NEW n \in Nat, n > 0 PROVE n = 1 \/ n > 1
    BY <1>2
  <2> QED
    OBVIOUS
<1>8. CASE m_available = TRUE
  BY <1>6, <1>8, Zenon
<1>9. CASE m_available # TRUE
  BY <1>5, <1>6, <1>7, <1>9, Zenon
<1> QED
  BY <1>8, <1>9, Zenon

(* ... and over the write of the entry in hand.                            *)
LEMMA WriteStep == IInv /\ write => PlaceInv' /\ SentinelInv'
<1> SUFFICES ASSUME IInv, write PROVE PlaceInv' /\ SentinelInv'
  OBVIOUS
<1> USE DEF IInv
<1>1. /\ reader' = "pop" /\ e' = NULL /\ written' = Append(written, e) /\ e \in Entries
      /\ buf' = buf /\ accepted' = accepted /\ m_available' = m_available
      /\ Holding = 1 /\ Holding' = 0 /\ reader = "popped" /\ e # NULL
  BY DEF write, queue, TypeOK, Holding
<1>2. Sentinel \in {0, 1} /\ Sentinel' = Sentinel
  BY <1>1 DEF Sentinel
<1>3. /\ Len(accepted) \in Nat /\ Len(buf) \in Nat /\ Len(written) \in Nat
      /\ Len(written') = Len(written) + 1 /\ written'[Len(written) + 1] = e
      /\ \A i \in 1 .. Len(written) : written'[i] = written[i]
  BY <1>1 DEF TypeOK
<1>4. PlaceInv'
  BY <1>1, <1>2, <1>3 DEF PlaceInv
<1>5. SentinelInv'
  BY <1>1, <1>2 DEF SentinelInv
<1> QED
  BY <1>4, <1>5

-----------------------------------------------------------------------------
(* Every step keeps PlaceInv and SentinelInv.                              *)
LEMMA PlaceStep == IInv /\ [Next]_vars => PlaceInv' /\ SentinelInv'
<1> SUFFICES ASSUME IInv, [Next]_vars PROVE PlaceInv' /\ SentinelInv'
  OBVIOUS
<1> USE DEF IInv
<1>1. ASSUME NEW p \in Producers, NewEntry(p) PROVE PlaceInv' /\ SentinelInv'
  BY <1>1 DEF NewEntry, queue, PlaceInv, SentinelInv, Holding, Sentinel
<1>2. ASSUME NEW p \in Producers, push(p) PROVE PlaceInv' /\ SentinelInv'
  BY <1>2, PushStep
<1>3. CASE exit
  BY <1>3, ExitStep
<1>4. CASE popWait
  <2>1. reader = "pop" /\ reader' = "waiting"
    BY <1>4 DEF popWait
  <2>2. UNCHANGED <<buf, m_available, e, written, accepted>>
    BY <1>4 DEF popWait
  <2> QED
    BY <2>1, <2>2 DEF PlaceInv, SentinelInv, Holding, Sentinel
<1>5. CASE popFront
  BY <1>5, PopStep
<1>6. CASE write
  BY <1>6, WriteStep
<1>7. CASE runEnds
  <2>1. reader = "popped" /\ e = NULL /\ reader' = "ended"
    BY <1>7 DEF runEnds
  <2>2. UNCHANGED <<buf, m_available, e, written, accepted>>
    BY <1>7 DEF runEnds, queue
  <2> QED
    BY <2>1, <2>2 DEF PlaceInv, SentinelInv, Holding, Sentinel
<1>8. CASE SpuriousWakeup
  <2>1. reader = "waiting" /\ reader' = "pop"
    BY <1>8 DEF SpuriousWakeup
  <2>2. UNCHANGED <<buf, m_available, e, written, accepted>>
    BY <1>8 DEF SpuriousWakeup, queue
  <2> QED
    BY <2>1, <2>2 DEF PlaceInv, SentinelInv, Holding, Sentinel
<1>9. CASE UNCHANGED vars
  BY <1>9 DEF vars, queue, PlaceInv, SentinelInv, Holding, Sentinel
<1> QED
  BY <1>1, <1>2, <1>3, <1>4, <1>5, <1>6, <1>7, <1>8, <1>9 DEF Next, run

(* IInv is an inductive invariant of the log.                              *)
THEOREM Invariance == Spec => []IInv
<1>1. IInv /\ [Next]_vars => IInv'
  BY TypeStep, SleepStep, PlaceStep DEF IInv
<1> QED
  BY <1>1, InitIInv, PTL DEF Spec

(* Every variable keeps its type, for any threads (tools/queue.h:14-26).   *)
THEOREM Typing == Spec => []TypeOK
<1>1. IInv => TypeOK
  BY DEF IInv
<1> QED
  BY <1>1, Invariance, PTL

(* The flag m_bWait of Condition (tools/condition.h:88-99) loses no        *)
(* wake-up: a reader that waits has nothing to read.                       *)
THEOREM NoLostWakeup == Spec => []NoSleepOverEntries
<1>1. IInv => NoSleepOverEntries
  BY DEF IInv
<1> QED
  BY <1>1, Invariance, PTL

-----------------------------------------------------------------------------
(* Every step of the log is a step of the channel, or none of it.          *)
LEMMA FifoStep == IInv /\ [Next]_vars => [F!Next]_(F!vars)
<1> SUFFICES ASSUME IInv, [Next]_vars PROVE [F!Next]_(F!vars)
  OBVIOUS
<1> DEFINE st == IF reader = "ended" THEN "ended"
                 ELSE IF m_available THEN "open" ELSE "closed"
<1> USE DEF IInv, F!vars
<1>1. ASSUME NEW p \in Producers, NewEntry(p) PROVE UNCHANGED F!vars
  BY <1>1 DEF NewEntry, queue
<1>2. ASSUME NEW p \in Producers, push(p) PROVE [F!Next]_(F!vars)
  <2>1. written' = written /\ m_available' = m_available
    BY <1>2 DEF push
  <2>2. stamped[p] \in Entries
    BY <1>2 DEF push, TypeOK
  <2>3. CASE UNCHANGED <<buf, accepted, m_bWait, reader>>
    BY <2>1, <2>3
  <2>4. CASE /\ m_available = TRUE
             /\ accepted' = Append(accepted, stamped[p])
             /\ notify_one
    <3>1. reader # "ended" /\ reader' # "ended"
      BY <2>4, Notified DEF SentinelInv
    <3>2. F!Accept(stamped[p])
      BY <2>1, <2>4, <3>1 DEF F!Accept
    <3> QED
      BY <2>2, <3>2, Zenon DEF F!Next
  <2> QED
    BY <1>2, <2>3, <2>4, Pushed
<1>3. CASE exit
  <2>1. m_available = TRUE /\ m_available' = FALSE /\ UNCHANGED <<written, accepted>>
    BY <1>3 DEF exit, TypeOK
  <2>2. reader # "ended" /\ reader' # "ended"
    BY <1>3, <2>1, Notified DEF exit, SentinelInv
  <2> QED
    BY <2>1, <2>2 DEF F!Next, F!Close
<1>4. CASE popWait
  BY <1>4 DEF popWait
<1>5. CASE popFront
  BY <1>5 DEF popFront
<1>6. CASE write
  <2>1. /\ reader = "popped" /\ reader' = "pop" /\ e # NULL /\ written' = Append(written, e)
        /\ accepted' = accepted /\ m_available' = m_available
    BY <1>6 DEF write, queue
  <2>2. e = accepted[Len(written) + 1] /\ Len(written) < Len(accepted)
    <3>1. /\ Len(accepted) \in Nat /\ Len(buf) \in Nat /\ Len(written) \in Nat
          /\ Sentinel = 1 => Len(buf) > 0
      BY DEF TypeOK, Sentinel
    <3> QED
      BY <2>1, <3>1 DEF PlaceInv, Holding, Sentinel
  <2> QED
    BY <2>1, <2>2 DEF F!Next, F!Deliver
<1>7. CASE runEnds
  <2>1. /\ reader = "popped" /\ reader' = "ended" /\ e = NULL
        /\ UNCHANGED <<written, accepted, m_available>>
    BY <1>7 DEF runEnds, queue
  <2>2. m_available = FALSE /\ buf = <<>>
    BY <2>1 DEF SentinelInv, TypeOK
  <2>3. Len(written) = Len(accepted)
    BY <2>1, <2>2 DEF PlaceInv, Holding, Sentinel, TypeOK
  <2> QED
    BY <2>1, <2>2, <2>3 DEF F!Next, F!End
<1>8. CASE SpuriousWakeup
  BY <1>8 DEF SpuriousWakeup, queue
<1>9. CASE UNCHANGED vars
  BY <1>9 DEF vars, queue
<1> QED
  BY <1>1, <1>2, <1>3, <1>4, <1>5, <1>6, <1>7, <1>8, <1>9 DEF Next, run

(* LogService with its Queue implements a first-in first-out channel: what *)
(* push accepts is written once, in that order, and the reader ends only   *)
(* when all of it is written (tools/queue.h:29-65, logservice.cpp:177-197).*)
THEOREM Refinement == Spec => FifoSpec
<1>1. Init => F!Init
  BY DEF Init, F!Init
<1> QED
  BY <1>1, FifoStep, Invariance, PTL DEF Spec, FifoSpec, F!Spec
=============================================================================
