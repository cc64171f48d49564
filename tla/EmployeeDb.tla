----------------------------- MODULE EmployeeDb -----------------------------
(***************************************************************************)
(* The employee database of the gate: EmployeeInfoMgr                      *)
(* (employeeinfomgr.cpp).                                                  *)
(*                                                                         *)
(* The server's database goes through versions; enrolled[v] is the set of  *)
(* cards in version v.  updateLocalDB downloads one into a file, swaps the *)
(* files and loads the cache; only one thread runs it (the constructor's,  *)
(* then the housekeeping timer's).  getInfo, run by the card readers, asks *)
(* the server and falls back on the cache, which it reads in two steps:    *)
(* searchDB returns a pointer to a record, and the record is copied after  *)
(* the lock has been given up.                                             *)
(*                                                                         *)
(* A request may fail before or after it has truncated the file it writes, *)
(* and it may never return: its receive loops have no way out when the     *)
(* connection is lost in the middle of an answer.  Power may be lost at    *)
(* any step; the files are what is left then.                              *)
(***************************************************************************)
EXTENDS Integers, Sequences

CONSTANTS Cards, Readers,
          NoCard,      \* no record
          UseLocalDB,  \* m_bUseLocalDB, from App::LOCAL_DATABASE
          MaxChanges,  \* bound on the changes of the server's database
          MaxRestarts  \* bound on the losses of power

ASSUME NoCardAssumption == NoCard \notin Cards
ASSUME UseLocalDBAssumption == UseLocalDB \in BOOLEAN
ASSUME BoundsAssumption == MaxChanges \in Nat /\ MaxRestarts \in Nat

VARIABLES
  enrolled,     \* the server: the set of cards of each version so far
  dbFile,       \* employee.xml: its version, Torn or Missing
  tempFile,     \* employee_temp.xml
  cached,       \* m_vectorEmployeeInfo: its version, Torn or Missing when empty
  m_bUpdated,
  upc,          \* where updateLocalDB is
  constructed,  \* the constructor, which runs it once, has returned
  restarts,
  rpc,          \* where the getInfo of each reader is
  card,         \* its argument
  info,         \* its result: the card whose record it has copied, or NoCard
  oldest,       \* history: the oldest version its answer may stand for
  stale,        \* the record it points to has been deleted
  cold,         \* history: it found the cache empty
  loaded        \* history: a database has been loaded since the power came

updater == <<dbFile, tempFile, cached, m_bUpdated, upc, constructed, loaded>>
readers == <<rpc, card, info, oldest, stale, cold>>
vars == <<enrolled, updater, restarts, readers>>

Missing == -1
Torn == 0
Current == Len(enrolled)
Contents(v) == IF v \in DOMAIN enrolled THEN enrolled[v] ELSE {}

Init == /\ enrolled \in {<<cs>> : cs \in SUBSET Cards}
        /\ dbFile = Missing /\ tempFile = Missing
        /\ cached = Missing
        /\ m_bUpdated = FALSE
        /\ upc = "idle" /\ constructed = FALSE
        /\ loaded = FALSE
        /\ restarts = 0
        /\ rpc = [r \in Readers |-> "idle"]
        /\ card = [r \in Readers |-> NoCard]
        /\ info = [r \in Readers |-> NoCard]
        /\ oldest = [r \in Readers |-> 0]
        /\ stale = [r \in Readers |-> FALSE]
        /\ cold = [r \in Readers |-> FALSE]

-----------------------------------------------------------------------------
(* The server enrols or removes a card.                                    *)
ServerChanges(c) ==
  /\ Current <= MaxChanges
  /\ enrolled' = Append(enrolled, IF c \in enrolled[Current]
                                  THEN enrolled[Current] \ {c}
                                  ELSE enrolled[Current] \cup {c})
  /\ UNCHANGED <<updater, restarts, readers>>

(* Mutants of Begin: the cache is dropped before there is a new one; the   *)
(* database is fetched at the start only.                                  *)
Begin_DropsCache(bForce) ==
  /\ upc = "idle"
  /\ ~constructed => bForce
  /\ ~m_bUpdated \/ bForce
  /\ upc' = IF dbFile = Missing THEN "toDb" ELSE "toTemp"
  /\ cached' = Missing
  /\ UNCHANGED <<enrolled, dbFile, tempFile, m_bUpdated, constructed, loaded, restarts, readers>>
Begin_OnlyForced(bForce) ==
  /\ upc = "idle"
  /\ ~constructed /\ bForce
  /\ upc' = IF dbFile = Missing THEN "toDb" ELSE "toTemp"
  /\ UNCHANGED <<enrolled, dbFile, tempFile, cached, m_bUpdated, constructed, loaded,
                 restarts, readers>>

(* updateLocalDB: the constructor and the 3 o'clock job force it, the      *)
(* regular job does nothing once it has succeeded.  The download goes to   *)
(* employee.xml only if there is none.                                     *)
Begin(bForce) ==
  /\ upc = "idle"
  /\ ~constructed => bForce
  /\ ~m_bUpdated \/ bForce
  /\ upc' = IF dbFile = Missing THEN "toDb" ELSE "toTemp"
  /\ UNCHANGED <<enrolled, dbFile, tempFile, cached, m_bUpdated, constructed, loaded,
                 restarts, readers>>

(* What the request leaves in the file it downloads to.                    *)
Receive(v) ==
  /\ upc \in {"toDb", "toTemp"}
  /\ dbFile' = IF upc = "toDb" THEN v ELSE dbFile
  /\ tempFile' = IF upc = "toTemp" THEN v ELSE tempFile

DownloadSucceeds ==
  /\ Receive(Current)
  /\ upc' = IF upc = "toDb" THEN "load" ELSE "swap"
  /\ UNCHANGED <<enrolled, cached, m_bUpdated, constructed, loaded, restarts, readers>>

(* The catch blocks: the cache is left as it is.                           *)
UpdateFails == /\ upc' = "idle"
               /\ m_bUpdated' = FALSE
               /\ constructed' = TRUE
               /\ UNCHANGED <<enrolled, cached, loaded, restarts, readers>>

DownloadFails ==
  /\ upc \in {"toDb", "toTemp"}
  /\ UpdateFails
  /\ UNCHANGED <<dbFile, tempFile>>

(* Mutant: employee.xml is loaded although its download has failed.        *)
DownloadTears_Loaded ==
  /\ Receive(Torn)
  /\ upc' = IF upc = "toDb" THEN "load" ELSE "idle"
  /\ UNCHANGED <<enrolled, cached, m_bUpdated, constructed, loaded, restarts, readers>>

DownloadTears == Receive(Torn) /\ UpdateFails

DownloadHangs ==
  /\ Receive(Torn)
  /\ upc' = "hung"
  /\ UNCHANGED <<enrolled, cached, m_bUpdated, constructed, loaded, restarts, readers>>

(* file_delete(DB_FILE); rename(TEMP_DB_FILE, DB_FILE).                    *)
DeleteDbFile ==
  /\ upc = "swap"
  /\ upc' = "rename"
  /\ dbFile' = Missing
  /\ UNCHANGED <<enrolled, tempFile, cached, m_bUpdated, constructed, loaded,
                 restarts, readers>>
Rename ==
  /\ upc = "rename"
  /\ upc' = "load"
  /\ dbFile' = tempFile /\ tempFile' = Missing
  /\ UNCHANGED <<enrolled, cached, m_bUpdated, constructed, loaded, restarts, readers>>

(* deleteCache and fillEmployeeInfoes take the lock one after the other.   *)
deleteCache ==
  /\ upc = "load"
  /\ upc' = "fill"
  /\ cached' = Missing
  /\ stale' = [r \in Readers |-> stale[r] \/ rpc[r] = "copy"]
  /\ UNCHANGED <<enrolled, dbFile, tempFile, m_bUpdated, constructed, loaded, restarts,
                 rpc, card, info, oldest, cold>>
fillEmployeeInfoes ==
  /\ upc = "fill"
  /\ upc' = "idle"
  /\ cached' = dbFile
  /\ m_bUpdated' = TRUE
  /\ constructed' = TRUE
  /\ loaded' = TRUE
  /\ UNCHANGED <<enrolled, dbFile, tempFile, restarts, readers>>

-----------------------------------------------------------------------------
(* getInfo of reader r.                                                    *)
getInfo(r, c) ==
  /\ constructed
  /\ rpc[r] = "idle"
  /\ rpc' = [rpc EXCEPT ![r] = IF UseLocalDB THEN "search" ELSE "request"]
  /\ card' = [card EXCEPT ![r] = c]
  /\ oldest' = [oldest EXCEPT ![r] = Current]
  /\ UNCHANGED <<enrolled, updater, restarts, info, stale, cold>>

(* The server answers: with the record, or without a table (line 256),     *)
(* which is final, whatever the cache holds.                               *)
ServerAnswers(r) ==
  /\ rpc[r] = "request"
  /\ rpc' = [rpc EXCEPT ![r] = "done"]
  /\ info' = [info EXCEPT ![r] = IF card[r] \in enrolled[Current] THEN card[r] ELSE NoCard]
  /\ UNCHANGED <<enrolled, updater, restarts, card, oldest, stale, cold>>

RequestFails(r) ==
  /\ rpc[r] = "request"
  /\ rpc' = [rpc EXCEPT ![r] = "search"]
  /\ UNCHANGED <<enrolled, updater, restarts, card, info, oldest, stale, cold>>

RequestHangs(r) ==
  /\ rpc[r] = "request"
  /\ rpc' = [rpc EXCEPT ![r] = "hung"]
  /\ UNCHANGED <<enrolled, updater, restarts, card, info, oldest, stale, cold>>

searchDB(r) ==
  /\ rpc[r] = "search"
  /\ rpc' = [rpc EXCEPT ![r] = IF card[r] \in Contents(cached) THEN "copy" ELSE "done"]
  /\ oldest' = [oldest EXCEPT ![r] = IF cached = Missing THEN @ ELSE cached]
  /\ cold' = [cold EXCEPT ![r] = cached = Missing]
  /\ UNCHANGED <<enrolled, updater, restarts, card, info, stale>>

(* Mutant: the record found need not be the card's.                        *)
CopyRecord_AnyRecord(r) ==
  /\ rpc[r] = "copy"
  /\ rpc' = [rpc EXCEPT ![r] = "done"]
  /\ \E c \in {card[r]} \cup Contents(cached) : info' = [info EXCEPT ![r] = c]
  /\ UNCHANGED <<enrolled, updater, restarts, card, oldest, stale, cold>>

(* The copy.  Of a record that has been deleted it gets what is left of it *)
(* or a record of the new cache, in the same place of the vector or of     *)
(* memory.                                                                 *)
CopyRecord(r) ==
  /\ rpc[r] = "copy"
  /\ rpc' = [rpc EXCEPT ![r] = "done"]
  /\ \E c \in {card[r]} \cup (IF stale[r] THEN Contents(cached) ELSE {}) :
        info' = [info EXCEPT ![r] = c]
  /\ UNCHANGED <<enrolled, updater, restarts, card, oldest, stale, cold>>

(* The caller takes the result and deletes it; the next call starts afresh.*)
Return(r) ==
  /\ rpc[r] = "done"
  /\ rpc' = [rpc EXCEPT ![r] = "idle"]
  /\ card' = [card EXCEPT ![r] = NoCard]
  /\ info' = [info EXCEPT ![r] = NoCard]
  /\ oldest' = [oldest EXCEPT ![r] = 0]
  /\ stale' = [stale EXCEPT ![r] = FALSE]
  /\ cold' = [cold EXCEPT ![r] = FALSE]
  /\ UNCHANGED <<enrolled, updater, restarts>>

-----------------------------------------------------------------------------
(* Power is lost, or the daily reboot comes; the constructor runs again.   *)
PowerLoss ==
  /\ restarts < MaxRestarts
  /\ restarts' = restarts + 1
  /\ cached' = Missing
  /\ m_bUpdated' = FALSE
  /\ upc' = "idle" /\ constructed' = FALSE
  /\ loaded' = FALSE
  /\ rpc' = [r \in Readers |-> "idle"]
  /\ card' = [r \in Readers |-> NoCard]
  /\ info' = [r \in Readers |-> NoCard]
  /\ oldest' = [r \in Readers |-> 0]
  /\ stale' = [r \in Readers |-> FALSE]
  /\ cold' = [r \in Readers |-> FALSE]
  /\ UNCHANGED <<enrolled, dbFile, tempFile>>

updateLocalDB == \/ \E bForce \in BOOLEAN : Begin(bForce)
                 \/ DownloadSucceeds \/ DownloadFails \/ DownloadTears \/ DownloadHangs
                 \/ DeleteDbFile \/ Rename
                 \/ deleteCache \/ fillEmployeeInfoes

Reader(r) == \/ \E c \in Cards : getInfo(r, c)
             \/ ServerAnswers(r) \/ RequestFails(r) \/ RequestHangs(r)
             \/ searchDB(r) \/ CopyRecord(r) \/ Return(r)

Next == \/ \E c \in Cards : ServerChanges(c)
        \/ updateLocalDB
        \/ \E r \in Readers : Reader(r)
        \/ PowerLoss

(* The thread of updateLocalDB runs; on some day a tick of the housekeeping*)
(* timer falls in the minute of the forced update; the network is not down *)
(* at every attempt.                                                       *)
Fairness == /\ WF_vars(updateLocalDB)
            /\ SF_vars(Begin(TRUE))
            /\ SF_vars(DownloadSucceeds)

Spec == Init /\ [][Next]_vars
FairSpec == Spec /\ Fairness

-----------------------------------------------------------------------------
Files == {Missing, Torn} \cup DOMAIN enrolled

TypeOK ==
  /\ enrolled \in Seq(SUBSET Cards) /\ Current \in 1 .. MaxChanges + 1
  /\ dbFile \in Files /\ tempFile \in Files /\ cached \in Files
  /\ m_bUpdated \in BOOLEAN /\ constructed \in BOOLEAN /\ loaded \in BOOLEAN
  /\ upc \in {"idle", "toDb", "toTemp", "swap", "rename", "load", "fill", "hung"}
  /\ restarts \in 0 .. MaxRestarts
  /\ rpc \in [Readers -> {"idle", "request", "search", "copy", "done", "hung"}]
  /\ card \in [Readers -> Cards \cup {NoCard}]
  /\ info \in [Readers -> Cards \cup {NoCard}]
  /\ oldest \in [Readers -> 0 .. Current]
  /\ stale \in [Readers -> BOOLEAN]
  /\ cold \in [Readers -> BOOLEAN]
  /\ \A r \in Readers : rpc[r] = "idle" => card[r] = NoCard /\ info[r] = NoCard

(* The file about to be loaded is there and whole, whichever swap or       *)
(* download a loss of power has interrupted, although a broken first       *)
(* download keeps the name employee.xml (employeeinfomgr.cpp:76-103).      *)
WholeFileLoaded == upc \in {"load", "fill"} => dbFile \in DOMAIN enrolled

(* What getInfo says was true in one of the versions between the cache's   *)
(* and the server's current one; only a reader that found the cache empty  *)
(* may deny a card all of them have, and only one whose record was deleted *)
(* between searchDB and the copy (line 159) may return another's.          *)
AnswerJustified ==
  \A r \in Readers :
    rpc[r] = "done" =>
      \/ info[r] = card[r] /\ \E v \in oldest[r] .. Current : card[r] \in Contents(v)
      \/ info[r] = NoCard /\ \E v \in oldest[r] .. Current : card[r] \notin Contents(v)
      \/ info[r] = NoCard /\ cold[r]
      \/ info[r] # NoCard /\ stale[r]

(* Once a database has been loaded, an update that fails takes nothing     *)
(* away: searchDB finds the cache empty only between deleteCache and       *)
(* fillEmployeeInfoes (lines 113, 114).                                    *)
MissOnlyWhileReloading ==
  [][\A r \in Readers : cold'[r] /\ ~cold[r] => ~loaded \/ upc = "fill"]_vars

(* When the server's database has stopped changing the cache comes to hold *)
(* it, over failed downloads, torn files and losses of power, unless a     *)
(* request hangs.                                                          *)
Converges == <>[](cached = Current \/ upc \in {"fill", "hung"})
=============================================================================
