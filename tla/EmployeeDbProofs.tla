-------------------------- MODULE EmployeeDbProofs --------------------------
(***************************************************************************)
(* Theorems about EmployeeDb for any set of cards and readers and any      *)
(* number of changes and losses of power: typing, the file that is loaded, *)
(* what getInfo may answer, and when the cache may be found empty.         *)
(***************************************************************************)
EXTENDS EmployeeDb, TLAPS

(* The files and the cache at each point of updateLocalDB: what has been   *)
(* downloaded or is about to be loaded is a whole version, and the cache   *)
(* is empty or holds one; empty, after a first load, only before the fill. *)
FileInv ==
  /\ upc \in {"swap", "rename"} => tempFile \in DOMAIN enrolled
  /\ WholeFileLoaded
  /\ cached = Missing \/ cached \in DOMAIN enrolled
  /\ loaded /\ upc # "fill" => cached # Missing

(* A reader between searchDB and the copy has found its card in a version  *)
(* that its answer may stand for; there is no result before the end, and   *)
(* at the end the result is one that AnswerJustified allows.               *)
Found(r) == \E v \in oldest[r] .. Current : card[r] \in Contents(v)
Held(r) == /\ rpc[r] # "idle" => card[r] \in Cards /\ oldest[r] >= 1
           /\ rpc[r] # "done" => info[r] = NoCard
           /\ rpc[r] = "copy" => Found(r)
ReaderInv == \A r \in Readers : Held(r)

(* AnswerJustified of one reader.                                          *)
Justified(r) == \/ info[r] = card[r] /\ Found(r)
                \/ info[r] = NoCard /\ \E v \in oldest[r] .. Current : card[r] \notin Contents(v)
                \/ info[r] = NoCard /\ cold[r]
                \/ info[r] # NoCard /\ stale[r]

IInv == TypeOK /\ FileInv /\ ReaderInv /\ AnswerJustified

-----------------------------------------------------------------------------
(* The invariant holds initially.                                          *)
LEMMA InitIInv == Init => IInv
<1> SUFFICES ASSUME Init PROVE IInv
  OBVIOUS
<1> USE BoundsAssumption DEF Init, Missing, Torn, Current
<1>1. TypeOK
  <2>1. PICK cs \in SUBSET Cards : enrolled = <<cs>>
    OBVIOUS
  <2>2. enrolled \in Seq(SUBSET Cards) /\ Len(enrolled) = 1
    BY <2>1
  <2>3. Current \in 1 .. MaxChanges + 1 /\ oldest \in [Readers -> 0 .. Current]
    BY <2>2
  <2>4. /\ dbFile \in Files /\ tempFile \in Files /\ cached \in Files
        /\ restarts \in 0 .. MaxRestarts
    BY DEF Files
  <2>5. /\ rpc \in [Readers -> {"idle", "request", "search", "copy", "done", "hung"}]
        /\ card \in [Readers -> Cards \cup {NoCard}]
        /\ info \in [Readers -> Cards \cup {NoCard}]
        /\ stale \in [Readers -> BOOLEAN] /\ cold \in [Readers -> BOOLEAN]
        /\ \A r \in Readers : card[r] = NoCard /\ info[r] = NoCard
    OBVIOUS
  <2>6. /\ m_bUpdated \in BOOLEAN /\ constructed \in BOOLEAN /\ loaded \in BOOLEAN
        /\ upc \in {"idle", "toDb", "toTemp", "swap", "rename", "load", "fill", "hung"}
    OBVIOUS
  <2>7. QED
    BY ONLY <2>2, <2>3, <2>4, <2>5, <2>6 DEF TypeOK, Current
<1>2. FileInv
  BY DEF FileInv, WholeFileLoaded
<1>3. ReaderInv
  BY DEF ReaderInv, Held
<1>4. AnswerJustified
  BY DEF AnswerJustified
<1>5. QED
  BY <1>1, <1>2, <1>3, <1>4 DEF IInv

(* A change of the server's database adds a version and leaves those there *)
(* have been as they are (external: the server's table).                   *)
LEMMA Grows ==
  ASSUME TypeOK, NEW c \in Cards, ServerChanges(c)
  PROVE  /\ enrolled' \in Seq(SUBSET Cards)
         /\ Current' = Current + 1
         /\ Current' \in 1 .. MaxChanges + 1
         /\ DOMAIN enrolled \subseteq DOMAIN enrolled'
         /\ \A v \in 1 .. Current : Contents(v)' = Contents(v)
<1> DEFINE next == IF c \in enrolled[Current] THEN enrolled[Current] \ {c}
                   ELSE enrolled[Current] \cup {c}
<1> USE BoundsAssumption
<1>1. enrolled \in Seq(SUBSET Cards) /\ Current \in 1 .. MaxChanges + 1
  BY DEF TypeOK
<1>2. enrolled[Current] \in SUBSET Cards
  BY <1>1 DEF Current
<1>3. next \in SUBSET Cards
  BY <1>2
<1>4. enrolled' = Append(enrolled, next) /\ Current <= MaxChanges
  BY DEF ServerChanges
<1> HIDE DEF next
<1>5. /\ enrolled' \in Seq(SUBSET Cards)
      /\ Len(enrolled') = Len(enrolled) + 1
      /\ \A v \in 1 .. Len(enrolled) : enrolled'[v] = enrolled[v]
  BY <1>1, <1>3, <1>4
<1>6. DOMAIN enrolled = 1 .. Current /\ DOMAIN enrolled' = 1 .. Current'
  BY <1>1, <1>5 DEF Current
<1>7. \A v \in 1 .. Current : Contents(v)' = Contents(v)
  BY <1>1, <1>5, <1>6 DEF Contents, Current
<1>8. QED
  BY <1>1, <1>4, <1>5, <1>6, <1>7 DEF Current

-----------------------------------------------------------------------------
(* Typing is preserved; what is loaded is typed because every file is.     *)
LEMMA TypeStep == TypeOK /\ [Next]_vars => TypeOK'
<1> SUFFICES ASSUME TypeOK, [Next]_vars PROVE TypeOK'
  OBVIOUS
<1> USE BoundsAssumption, NoCardAssumption
<1>1. ASSUME NEW c \in Cards, ServerChanges(c) PROVE TypeOK'
  <2>1. oldest \in [Readers -> 0 .. Current']
    BY <1>1, Grows DEF TypeOK
  <2>2. Files \subseteq Files'
    BY <1>1, Grows DEF Files
  <2>3. QED
    BY <1>1, <2>1, <2>2, Grows DEF TypeOK, ServerChanges, updater, readers
<1>2. CASE updateLocalDB
  <2>1. enrolled' = enrolled /\ Current' = Current /\ Files' = Files
    BY <1>2 DEF updateLocalDB, Begin, DownloadSucceeds, DownloadFails, DownloadTears,
         UpdateFails, DownloadHangs, DeleteDbFile, Rename, deleteCache, fillEmployeeInfoes,
         Current, Files
  <2>2. Missing \in Files /\ Torn \in Files /\ Current \in Files
    BY DEF TypeOK, Files, Current
  <2>3. UNCHANGED readers \/ deleteCache
    BY <1>2 DEF updateLocalDB, Begin, DownloadSucceeds, DownloadFails, DownloadTears,
         UpdateFails, DownloadHangs, DeleteDbFile, Rename, fillEmployeeInfoes
  <2>4. /\ rpc' = rpc /\ card' = card /\ info' = info /\ oldest' = oldest /\ cold' = cold
        /\ stale' \in [Readers -> BOOLEAN]
    BY <2>3 DEF readers, deleteCache, TypeOK
  <2>5. /\ dbFile' \in Files /\ tempFile' \in Files /\ cached' \in Files
        /\ restarts' = restarts
        /\ m_bUpdated' \in BOOLEAN /\ constructed' \in BOOLEAN /\ loaded' \in BOOLEAN
        /\ upc' \in {"idle", "toDb", "toTemp", "swap", "rename", "load", "fill", "hung"}
    BY <1>2, <2>2 DEF TypeOK, updateLocalDB, Begin, Receive, DownloadSucceeds, DownloadFails,
         DownloadTears, UpdateFails, DownloadHangs, DeleteDbFile, Rename, deleteCache,
         fillEmployeeInfoes
  <2>6. QED
    BY <2>1, <2>4, <2>5 DEF TypeOK
<1>3. ASSUME NEW r \in Readers, Reader(r) PROVE TypeOK'
  <2>1. UNCHANGED <<enrolled, updater, restarts>> /\ Current' = Current /\ Files' = Files
    BY <1>3 DEF Reader, getInfo, ServerAnswers, RequestFails, RequestHangs, searchDB,
         CopyRecord, Return, Current, Files
  <2>2. ASSUME NEW c \in Cards, getInfo(r, c) PROVE TypeOK'
    BY <2>1, <2>2 DEF getInfo, TypeOK, updater
  <2>3. CASE ServerAnswers(r)
    BY <2>1, <2>3 DEF ServerAnswers, TypeOK, updater
  <2>4. CASE RequestFails(r)
    BY <2>1, <2>4 DEF RequestFails, TypeOK, updater
  <2>5. CASE RequestHangs(r)
    BY <2>1, <2>5 DEF RequestHangs, TypeOK, updater
  <2>6. CASE searchDB(r)
    BY <2>1, <2>6 DEF searchDB, TypeOK, updater, Files, Missing, Torn, Current
  <2>7. CASE CopyRecord(r)
    <3>1. Contents(cached) \subseteq Cards
      BY DEF Contents, TypeOK
    <3>2. PICK c \in {card[r]} \cup Contents(cached) : info' = [info EXCEPT ![r] = c]
      BY <2>7 DEF CopyRecord
    <3>3. c \in Cards \cup {NoCard}
      BY <3>1, <3>2 DEF TypeOK
    <3>4. QED
      BY <2>1, <2>7, <3>2, <3>3 DEF CopyRecord, TypeOK, updater
  <2>8. CASE Return(r)
    BY <2>1, <2>8 DEF Return, TypeOK, updater
  <2>9. QED
    BY <1>3, <2>2, <2>3, <2>4, <2>5, <2>6, <2>7, <2>8 DEF Reader
<1>4. CASE PowerLoss
  <2>1. enrolled' = enrolled /\ Current' = Current /\ Files' = Files
    BY <1>4 DEF PowerLoss, Current, Files
  <2>2. restarts' \in 0 .. MaxRestarts
    BY <1>4 DEF PowerLoss, TypeOK
  <2>3. /\ dbFile' \in Files /\ tempFile' \in Files /\ cached' \in Files
        /\ m_bUpdated' \in BOOLEAN /\ constructed' \in BOOLEAN /\ loaded' \in BOOLEAN
        /\ upc' \in {"idle", "toDb", "toTemp", "swap", "rename", "load", "fill", "hung"}
    BY <1>4, Zenon DEF PowerLoss, TypeOK, Files
  <2>4. /\ rpc' \in [Readers -> {"idle", "request", "search", "copy", "done", "hung"}]
        /\ card' \in [Readers -> Cards \cup {NoCard}]
        /\ info' \in [Readers -> Cards \cup {NoCard}]
        /\ oldest' \in [Readers -> 0 .. Current]
        /\ stale' \in [Readers -> BOOLEAN] /\ cold' \in [Readers -> BOOLEAN]
        /\ \A r \in Readers : card'[r] = NoCard /\ info'[r] = NoCard
    BY <1>4 DEF PowerLoss, TypeOK, Current
  <2>5. QED
    BY <2>1, <2>2, <2>3, <2>4 DEF TypeOK
<1>5. CASE UNCHANGED vars
  BY <1>5 DEF vars, updater, readers, TypeOK, Files, Current
<1>6. QED
  BY <1>1, <1>2, <1>3, <1>4, <1>5 DEF Next

-----------------------------------------------------------------------------
(* The files are right after every step of updateLocalDB, whichever way a  *)
(* request ends, and after a loss of power.                                *)
LEMMA FileStep == TypeOK /\ FileInv /\ [Next]_vars => FileInv'
<1> SUFFICES ASSUME TypeOK, FileInv, [Next]_vars PROVE FileInv'
  OBVIOUS
<1> USE DEF FileInv, WholeFileLoaded
<1>1. ASSUME NEW c \in Cards, ServerChanges(c) PROVE FileInv'
  <2>1. DOMAIN enrolled \subseteq DOMAIN enrolled'
    BY <1>1, Grows
  <2>2. UNCHANGED updater
    BY <1>1 DEF ServerChanges
  <2>3. QED
    BY <2>1, <2>2 DEF updater
<1>2. CASE updateLocalDB
  <2>1. enrolled' = enrolled /\ Current \in DOMAIN enrolled
    BY <1>2 DEF updateLocalDB, Begin, DownloadSucceeds, DownloadFails, DownloadTears,
         UpdateFails, DownloadHangs, DeleteDbFile, Rename, deleteCache, fillEmployeeInfoes,
         TypeOK, Current
  <2>2. \A v \in DOMAIN enrolled : v # Missing
    BY DEF TypeOK, Missing
  <2>3. ASSUME NEW bForce \in BOOLEAN, Begin(bForce) PROVE FileInv'
    BY <2>1, <2>3 DEF Begin
  <2>4. CASE DownloadSucceeds
    BY <2>1, <2>4 DEF DownloadSucceeds, Receive
  <2>5. CASE DownloadFails
    BY <2>1, <2>5 DEF DownloadFails, UpdateFails
  <2>6. CASE DownloadTears
    BY <2>1, <2>6 DEF DownloadTears, Receive, UpdateFails
  <2>7. CASE DownloadHangs
    BY <2>1, <2>7 DEF DownloadHangs, Receive
  <2>8. CASE DeleteDbFile
    BY <2>1, <2>8 DEF DeleteDbFile
  <2>9. CASE Rename
    BY <2>1, <2>9 DEF Rename
  <2>10. CASE deleteCache
    BY <2>1, <2>10 DEF deleteCache
  <2>11. CASE fillEmployeeInfoes
    BY <2>1, <2>2, <2>11 DEF fillEmployeeInfoes
  <2>12. QED
    BY <1>2, <2>3, <2>4, <2>5, <2>6, <2>7, <2>8, <2>9, <2>10, <2>11 DEF updateLocalDB
<1>3. ASSUME NEW r \in Readers, Reader(r) PROVE FileInv'
  <2>1. UNCHANGED <<enrolled, updater>>
    BY <1>3 DEF Reader, getInfo, ServerAnswers, RequestFails, RequestHangs, searchDB,
         CopyRecord, Return
  <2>2. QED
    BY <2>1 DEF updater
<1>4. CASE PowerLoss
  BY <1>4 DEF PowerLoss
<1>5. CASE UNCHANGED vars
  BY <1>5 DEF vars, updater
<1>6. QED
  BY <1>1, <1>2, <1>3, <1>4, <1>5 DEF Next

(* What the answers rest on stays true when the server's database changes, *)
(* and no step of updateLocalDB but deleteCache touches a reader's record. *)
LEMMA VersionsStay ==
  ASSUME TypeOK, ReaderInv, AnswerJustified,
         NEW c \in Cards, ServerChanges(c)
  PROVE  ReaderInv' /\ AnswerJustified'
<1>1. /\ rpc' = rpc /\ card' = card /\ info' = info
      /\ oldest' = oldest /\ stale' = stale /\ cold' = cold
  BY DEF ServerChanges, readers
<1>2. \A r \in Readers : oldest[r] \in 0 .. Current /\ Current \in Nat
  BY DEF TypeOK
<1>3. \A v \in 1 .. Current : v \in 1 .. Current' /\ Contents(v)' = Contents(v)
  BY <1>2, Grows DEF TypeOK
<1>4. ASSUME NEW r \in Readers, rpc[r] # "idle", NEW v \in oldest[r] .. Current
      PROVE  v \in oldest'[r] .. Current' /\ Contents(v)' = Contents(v)
  <2>1. oldest[r] >= 1
    BY <1>4 DEF ReaderInv, Held
  <2>2. v \in 1 .. Current
    BY <1>2, <2>1
  <2>3. QED
    BY <1>1, <1>2, <1>3, <2>2, Grows
<1>5. ReaderInv'
  BY <1>1, <1>4 DEF ReaderInv, Held, Found
<1>6. AnswerJustified'
  BY <1>1, <1>4 DEF AnswerJustified
<1>7. QED
  BY <1>5, <1>6

(* The reader that takes a step of getInfo: what searchDB finds is in the  *)
(* cache's version, and a record that nobody has deleted is the card's.    *)
LEMMA ActingReader ==
  ASSUME TypeOK, FileInv, ReaderInv, AnswerJustified,
         NEW r \in Readers, Reader(r)
  PROVE  Held(r)' /\ (rpc'[r] = "done" => Justified(r)')
<1>1. /\ cached' = cached /\ Current' = Current
      /\ \A v : Contents(v)' = Contents(v)
  BY DEF Reader, getInfo, ServerAnswers, RequestFails, RequestHangs, searchDB,
     CopyRecord, Return, Current, Contents, updater
<1>2. /\ Current \in Nat /\ Current >= 1 /\ oldest[r] \in 0 .. Current
      /\ Contents(Current) = enrolled[Current] /\ Contents(cached) \subseteq Cards
  BY DEF TypeOK, Current, Contents
<1>3. cached = Missing \/ cached \in 1 .. Current
  BY DEF FileInv, TypeOK, Current
<1>4. Contents(Missing) = {} /\ Missing \notin Nat
  BY DEF Contents, Missing, TypeOK
<1>5. Held(r)
  BY DEF ReaderInv
<1> USE NoCardAssumption
<1>6. ASSUME NEW c \in Cards, getInfo(r, c)
      PROVE  Held(r)' /\ (rpc'[r] = "done" => Justified(r)')
  BY <1>1, <1>2, <1>5, <1>6 DEF getInfo, Held, TypeOK
<1>7. CASE ServerAnswers(r)
  BY <1>1, <1>2, <1>5, <1>7 DEF ServerAnswers, Held, Justified, Found, TypeOK
<1>8. CASE RequestFails(r)
  BY <1>1, <1>5, <1>8 DEF RequestFails, Held, TypeOK
<1>9. CASE RequestHangs(r)
  BY <1>1, <1>5, <1>9 DEF RequestHangs, Held, TypeOK
<1>10. CASE searchDB(r)
  <2>1. /\ rpc[r] = "search" /\ card'[r] = card[r] /\ info'[r] = NoCard
        /\ card[r] \in Cards /\ oldest[r] >= 1
        /\ rpc'[r] = IF card[r] \in Contents(cached) THEN "copy" ELSE "done"
        /\ oldest'[r] = IF cached = Missing THEN oldest[r] ELSE cached
        /\ cold'[r] = (cached = Missing)
    BY <1>5, <1>10 DEF searchDB, Held, TypeOK
  <2>2. CASE cached = Missing
    BY <1>4, <2>1, <2>2 DEF Held, Justified
  <2>3. CASE cached \in 1 .. Current
    <3>1. cached # Missing /\ oldest'[r] = cached /\ cached \in oldest'[r] .. Current'
      BY <1>1, <1>2, <1>4, <2>1, <2>3
    <3>2. CASE card[r] \in Contents(cached)
      BY <1>1, <2>1, <2>3, <3>1, <3>2 DEF Held, Found
    <3>3. CASE card[r] \notin Contents(cached)
      BY <1>1, <2>1, <2>3, <3>1, <3>3 DEF Held, Justified
    <3>4. QED
      BY <3>2, <3>3
  <2>4. QED
    BY <1>3, <2>2, <2>3
<1>11. CASE CopyRecord(r)
  BY <1>1, <1>2, <1>5, <1>11 DEF CopyRecord, Held, Justified, Found, TypeOK
<1>12. CASE Return(r)
  BY <1>12 DEF Return, Held, TypeOK
<1>13. QED
  BY <1>6, <1>7, <1>8, <1>9, <1>10, <1>11, <1>12 DEF Reader

(* What a reader holds is justified after every step of it.                *)
LEMMA ReaderStep ==
  TypeOK /\ FileInv /\ ReaderInv /\ AnswerJustified /\ [Next]_vars
    => ReaderInv' /\ AnswerJustified'
<1> SUFFICES ASSUME TypeOK, FileInv, ReaderInv, AnswerJustified, [Next]_vars
             PROVE  ReaderInv' /\ AnswerJustified'
  OBVIOUS
<1>1. ASSUME NEW c \in Cards, ServerChanges(c) PROVE ReaderInv' /\ AnswerJustified'
  BY <1>1, VersionsStay
<1>2. CASE updateLocalDB
  <2>1. enrolled' = enrolled /\ Current' = Current /\ \A v : Contents(v)' = Contents(v)
    BY <1>2 DEF updateLocalDB, Begin, DownloadSucceeds, DownloadFails, DownloadTears,
         UpdateFails, DownloadHangs, DeleteDbFile, Rename, deleteCache, fillEmployeeInfoes,
         Current, Contents
  <2>2. UNCHANGED readers \/ deleteCache
    BY <1>2 DEF updateLocalDB, Begin, DownloadSucceeds, DownloadFails, DownloadTears,
         UpdateFails, DownloadHangs, DeleteDbFile, Rename, fillEmployeeInfoes
  <2>3. /\ rpc' = rpc /\ card' = card /\ info' = info /\ oldest' = oldest /\ cold' = cold
        /\ \A r \in Readers : stale[r] => stale'[r]
    BY <2>2 DEF readers, deleteCache
  <2>4. QED
    BY <2>1, <2>3 DEF ReaderInv, Held, AnswerJustified, Found
<1>3. ASSUME NEW r \in Readers, Reader(r) PROVE ReaderInv' /\ AnswerJustified'
  <2>1. Held(r)' /\ (rpc'[r] = "done" => Justified(r)')
    BY <1>3, ActingReader
  <2>2. Current' = Current /\ \A v : Contents(v)' = Contents(v)
    BY <1>3 DEF Reader, getInfo, ServerAnswers, RequestFails, RequestHangs, searchDB,
         CopyRecord, Return, Current, Contents
  <2>3. ASSUME NEW q \in Readers, q # r
        PROVE  /\ rpc'[q] = rpc[q] /\ card'[q] = card[q] /\ info'[q] = info[q]
               /\ oldest'[q] = oldest[q] /\ stale'[q] = stale[q] /\ cold'[q] = cold[q]
    BY <1>3, <2>3 DEF Reader, getInfo, ServerAnswers, RequestFails, RequestHangs, searchDB,
         CopyRecord, Return, TypeOK
  <2>4. ASSUME NEW q \in Readers
        PROVE  Held(q)' /\ (rpc'[q] = "done" => Justified(q)')
    <3>1. Held(q) /\ (rpc[q] = "done" => Justified(q))
      BY DEF ReaderInv, AnswerJustified, Justified, Found
    <3>2. CASE q # r
      BY <2>2, <2>3, <3>1, <3>2 DEF Held, Justified, Found
    <3>3. QED
      BY <2>1, <3>2
  <2>5. QED
    BY <2>4 DEF ReaderInv, AnswerJustified, Justified, Found
<1>4. CASE PowerLoss
  BY <1>4 DEF PowerLoss, ReaderInv, Held, AnswerJustified
<1>5. CASE UNCHANGED vars
  BY <1>5 DEF vars, readers, ReaderInv, Held, AnswerJustified, Found, Current, Contents
<1>6. QED
  BY <1>1, <1>2, <1>3, <1>4, <1>5 DEF Next

-----------------------------------------------------------------------------
(* The invariant holds in every reachable state.                           *)
LEMMA Invariance == Spec => []IInv
<1>1. IInv /\ [Next]_vars => IInv'
  BY TypeStep, FileStep, ReaderStep DEF IInv
<1>2. QED
  BY InitIInv, <1>1, PTL DEF Spec

(* Every variable keeps its type: what the cache holds and what a reader   *)
(* returns are a version and a card there are, however the steps of        *)
(* updateLocalDB and getInfo mix.                                          *)
THEOREM Typing == Spec => []TypeOK
<1>1. IInv => TypeOK
  BY DEF IInv
<1>2. QED
  BY Invariance, <1>1, PTL

(* The file about to be loaded is whole, whichever swap or download a loss *)
(* of power has interrupted (employeeinfomgr.cpp:76-103).                  *)
THEOREM WholeFileIsLoaded == Spec => []WholeFileLoaded
<1>1. IInv => WholeFileLoaded
  BY DEF IInv, FileInv
<1>2. QED
  BY Invariance, <1>1, PTL

(* getInfo answers what a version between the cache's and the server's     *)
(* says; only an empty cache and a deleted record excuse another answer    *)
(* (lines 140-175, 256).                                                   *)
THEOREM AnswersAreJustified == Spec => []AnswerJustified
<1>1. IInv => AnswerJustified
  BY DEF IInv
<1>2. QED
  BY Invariance, <1>1, PTL

(* After a first load searchDB finds the cache empty only between          *)
(* deleteCache and fillEmployeeInfoes (lines 113, 114).                    *)
THEOREM MissesOnlyWhileReloading == Spec => MissOnlyWhileReloading
<1> DEFINE Miss == \A r \in Readers : cold'[r] /\ ~cold[r] => ~loaded \/ upc = "fill"
<1>1. ASSUME IInv, [Next]_vars PROVE Miss
  <2> SUFFICES ASSUME NEW r \in Readers, cold'[r], ~cold[r] PROVE ~loaded \/ upc = "fill"
    OBVIOUS
  <2>1. cold # cold'
    OBVIOUS
  <2>2. PICK q \in Readers : searchDB(q)
    BY <1>1, <2>1 DEF Next, updateLocalDB, Reader, vars, readers, ServerChanges, Begin,
       DownloadSucceeds, DownloadFails, DownloadTears, UpdateFails, DownloadHangs,
       DeleteDbFile, Rename, deleteCache, fillEmployeeInfoes, getInfo, ServerAnswers,
       RequestFails, RequestHangs, CopyRecord, Return, PowerLoss, IInv, TypeOK
  <2>3. cached = Missing
    BY <1>1, <2>2 DEF searchDB, IInv, TypeOK
  <2>4. QED
    BY <1>1, <2>3 DEF IInv, FileInv
<1>2. QED
  BY Invariance, <1>1, PTL DEF Spec, MissOnlyWhileReloading
=============================================================================
