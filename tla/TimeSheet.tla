----------------------------- MODULE TimeSheet -----------------------------
(***************************************************************************)
(* The store-and-forward path of the access-control unit:                  *)
(* TimeSheetMgr (timesheetmgr.cpp) with the two requests it makes of the   *)
(* web server (web/webservice.cpp) and the spool directory "timesheets".   *)
(*                                                                         *)
(* The gate threads (RFID reader, FIFO service) call insert; one timer     *)
(* thread calls upload.  A sheet is queued in memory; an upload round      *)
(* first sends the spooled files, then the queued sheets with mtx held.    *)
(* A request that fails writes the sheet to a file named by its            *)
(* one-second time stamp AND leaves it queued.  The unit may lose power at *)
(* any point: memory goes, the directory stays.                            *)
(*                                                                         *)
(* A sheet's fields are abstracted to its identity and its time stamp, and *)
(* the order of readdir and of the list to an arbitrary order.             *)
(***************************************************************************)
EXTENDS Naturals

CONSTANTS Sheets,      \* TimeSheet objects the run may create
          Stamps,      \* values of m_time, in seconds
          Gates,       \* threads that run onData and so insert
          MaxReboots,  \* bound on power losses
          NoSheet,     \* "no sheet here"
          NoStamp,     \* m_time of a sheet not yet created
          NoFile,      \* no file of that name in the directory
          Torn         \* a file that holds no complete request

ASSUME SheetsAssumption == {NoSheet, NoFile, Torn} \cap Sheets = {}
ASSUME StampsAssumption == NoStamp \notin Stamps
ASSUME FilesAssumption == NoFile # Torn
ASSUME RebootsAssumption == MaxReboots \in Nat

VARIABLES
  m_time,        \* the stamp each created sheet carries
  m_listTS,      \* the sheets queued in memory
  gate,          \* the sheet each gate thread is inserting
  mtx,           \* TimeSheetMgr::mtx, which upload holds when locked
  pc,            \* where upload is
  filelist,      \* names upload has still to send
  itr,           \* queued sheets upload has still to send
  vector_erase,  \* queued sheets the server has accepted this round
  path,          \* name of the file the server has just accepted
  current,       \* sheet whose failed request is being written to its file
  dir,           \* the spool directory: name -> content
  stored,        \* sheets the server has stored
  twice,         \* sheets the server has stored more than once
  reboots,       \* power losses so far
  failed,        \* history: sheets a request has failed for
  spooled,       \* history: sheets that were written to a file completely
  lost           \* history: sheets that were only in memory at a power loss

uploadVars == <<mtx, pc, filelist, itr, vector_erase, path, current>>
serverVars == <<stored, twice>>
history    == <<failed, spooled, lost>>
vars == <<m_time, m_listTS, gate, uploadVars, dir, serverVars, reboots, history>>

Created(ts) == m_time[ts] # NoStamp
OnGate(ts)  == \E g \in Gates : gate[g] = ts
OnDisk(ts)  == \E s \in Stamps : dir[s] = ts

-----------------------------------------------------------------------------
Init == /\ m_time = [ts \in Sheets |-> NoStamp]
        /\ m_listTS = {}
        /\ gate = [g \in Gates |-> NoSheet]
        /\ mtx = "unlocked"
        /\ pc = "idle"
        /\ filelist = {}
        /\ itr = {}
        /\ vector_erase = {}
        /\ path = NoStamp
        /\ current = NoSheet
        /\ dir = [s \in Stamps |-> NoFile]
        /\ stored = {}
        /\ twice = {}
        /\ reboots = 0
        /\ failed = {}
        /\ spooled = {}
        /\ lost = {}

-----------------------------------------------------------------------------
(* The gate threads.                                                       *)

(* insert allocates the sheet; its constructor stamps it with the second   *)
(* the clock shows, which stime and a reboot without a battery-backed      *)
(* clock may have set back.                                                *)
NewSheet(g, ts, s) ==
  /\ gate[g] = NoSheet
  /\ ~Created(ts)
  /\ gate' = [gate EXCEPT ![g] = ts]
  /\ m_time' = [m_time EXCEPT ![ts] = s]
  /\ UNCHANGED <<m_listTS, uploadVars, dir, serverVars, reboots, history>>

(* Mutant of PushBack: an insert with nothing allocated still pushes.      *)
PushBack_NoAlloc(g) ==
  /\ mtx = "unlocked"
  /\ m_listTS' = m_listTS \cup {gate[g]}
  /\ gate' = [gate EXCEPT ![g] = NoSheet]
  /\ UNCHANGED <<m_time, uploadVars, dir, serverVars, reboots, history>>

(* mtx.lock(); m_listTS.push_back(ts); mtx.unlock()                        *)
PushBack(g) ==
  /\ gate[g] # NoSheet
  /\ mtx = "unlocked"
  /\ m_listTS' = m_listTS \cup {gate[g]}
  /\ gate' = [gate EXCEPT ![g] = NoSheet]
  /\ UNCHANGED <<m_time, uploadVars, dir, serverVars, reboots, history>>

-----------------------------------------------------------------------------
(* The server and the network, as the requests see them.  A request ends   *)
(* with "true" or "false" when the answer arrived, or with an exception    *)
(* when it did not: the server may or may not have stored the sheet then.  *)

Stores(ts) == /\ stored' = stored \cup {ts}
              /\ twice' = IF ts \in stored THEN twice \cup {ts} ELSE twice

(* Upload, part 1: send the spooled files.  (getList throwing makes        *)
(* upload return at once: no change.)                                      *)
ListFiles ==
  /\ pc = "idle"
  /\ pc' = "files"
  /\ filelist' = {s \in Stamps : dir[s] # NoFile}
  /\ UNCHANGED <<m_time, m_listTS, gate, mtx, itr, vector_erase, path, current, dir,
                 serverVars, reboots, history>>

(* Mutant of SendFileFalse: the file goes whatever the server answered.    *)
SendFileFalse_Deletes(s) ==
  /\ pc = "files" /\ s \in filelist /\ dir[s] # Torn
  /\ filelist' = filelist \ {s}
  /\ pc' = "delete"
  /\ path' = s
  /\ UNCHANGED <<m_time, m_listTS, gate, mtx, itr, vector_erase, current, dir,
                 serverVars, reboots, history>>

SendFileTrue(s) ==
  /\ pc = "files" /\ s \in filelist /\ dir[s] # Torn
  /\ Stores(dir[s])
  /\ filelist' = filelist \ {s}
  /\ pc' = "delete"
  /\ path' = s
  /\ UNCHANGED <<m_time, m_listTS, gate, mtx, itr, vector_erase, current, dir, reboots,
                 history>>

SendFileFalse(s) ==
  /\ pc = "files" /\ s \in filelist /\ dir[s] # Torn
  /\ filelist' = filelist \ {s}
  /\ UNCHANGED <<m_time, m_listTS, gate, mtx, pc, itr, vector_erase, path, current, dir,
                 serverVars, reboots, history>>

(* The exception ends the round: neither the other files nor the list are  *)
(* tried.  A torn file is an incomplete request, which no server answers.  *)
SendFileThrows(s) ==
  /\ pc = "files" /\ s \in filelist
  /\ \/ UNCHANGED serverVars
     \/ dir[s] # Torn /\ Stores(dir[s])
  /\ failed' = failed \cup ({dir[s]} \ {Torn})
  /\ filelist' = {}
  /\ pc' = "idle"
  /\ UNCHANGED <<m_time, m_listTS, gate, mtx, itr, vector_erase, path, current, dir, reboots,
                 spooled, lost>>

(* file_delete(path), whose failure is not looked at.                      *)
DeleteFile ==
  /\ pc = "delete"
  /\ dir' \in {dir, [dir EXCEPT ![path] = NoFile]}
  /\ pc' = "files"
  /\ path' = NoStamp
  /\ UNCHANGED <<m_time, m_listTS, gate, mtx, filelist, itr, vector_erase, current,
                 serverVars, reboots, history>>

(* Mutant of InsertStringTrue: the accepted sheet is not noted for erasure.*)
InsertStringTrue_NotErased(ts) ==
  /\ pc = "list" /\ ts \in itr
  /\ Stores(ts)
  /\ itr' = itr \ {ts}
  /\ UNCHANGED <<m_time, m_listTS, gate, mtx, pc, filelist, vector_erase, path, current,
                 dir, reboots, history>>

-----------------------------------------------------------------------------
(* Upload, part 2: lock mtx and send the queued sheets.                    *)
LockList ==
  /\ pc = "files" /\ filelist = {}
  /\ mtx' = "locked"
  /\ itr' = m_listTS
  /\ pc' = "list"
  /\ UNCHANGED <<m_time, m_listTS, gate, filelist, vector_erase, path, current, dir, serverVars,
                 reboots, history>>

InsertStringTrue(ts) ==
  /\ pc = "list" /\ ts \in itr
  /\ Stores(ts)
  /\ vector_erase' = vector_erase \cup {ts}
  /\ itr' = itr \ {ts}
  /\ UNCHANGED <<m_time, m_listTS, gate, mtx, pc, filelist, path, current, dir, reboots,
                 history>>

InsertStringFalse(ts) ==
  /\ pc = "list" /\ ts \in itr
  /\ itr' = itr \ {ts}
  /\ UNCHANGED <<m_time, m_listTS, gate, mtx, pc, filelist, vector_erase, path, current, dir,
                 serverVars, reboots, history>>

(* status != RET_SUCCESS ...                                               *)
InsertStringFails(ts) ==
  /\ pc = "list" /\ ts \in itr
  /\ UNCHANGED serverVars \/ Stores(ts)
  /\ failed' = failed \cup {ts}
  /\ current' = ts
  /\ pc' = "open"
  /\ UNCHANGED <<m_time, m_listTS, gate, mtx, filelist, itr, vector_erase, path, dir,
                 reboots, spooled, lost>>

(* ... opening the file for the sheet's second truncates what it held ...  *)
OpenFile ==
  /\ pc = "open"
  /\ dir' = [dir EXCEPT ![m_time[current]] = Torn]
  /\ pc' = "save"
  /\ UNCHANGED <<m_time, m_listTS, gate, mtx, filelist, itr, vector_erase, path, current,
                 serverVars, reboots, history>>

(* ... and the request is written to it, unless the disk refuses, which    *)
(* the code does not notice; then it throws, and upload takes the next.    *)
SaveFile ==
  /\ pc = "save"
  /\ \/ /\ dir' = [dir EXCEPT ![m_time[current]] = current]
        /\ spooled' = spooled \cup {current}
     \/ UNCHANGED <<dir, spooled>>
  /\ itr' = itr \ {current}
  /\ current' = NoSheet
  /\ pc' = "list"
  /\ UNCHANGED <<m_time, m_listTS, gate, mtx, filelist, vector_erase, path, serverVars,
                 reboots, failed, lost>>

(* Mutants of EraseAndUnlock: the whole list is cleared; mtx stays locked. *)
EraseAndUnlock_All ==
  /\ pc = "list" /\ itr = {}
  /\ m_listTS' = {}
  /\ vector_erase' = {}
  /\ mtx' = "unlocked"
  /\ pc' = "idle"
  /\ UNCHANGED <<m_time, gate, filelist, itr, path, current, dir, serverVars, reboots,
                 history>>
EraseAndUnlock_KeepsLock ==
  /\ pc = "list" /\ itr = {}
  /\ m_listTS' = m_listTS \ vector_erase
  /\ vector_erase' = {}
  /\ pc' = "idle"
  /\ UNCHANGED <<m_time, gate, mtx, filelist, itr, path, current, dir, serverVars, reboots,
                 history>>

(* Delete the accepted sheets, unlock, return true.                        *)
EraseAndUnlock ==
  /\ pc = "list" /\ itr = {}
  /\ m_listTS' = m_listTS \ vector_erase
  /\ vector_erase' = {}
  /\ mtx' = "unlocked"
  /\ pc' = "idle"
  /\ UNCHANGED <<m_time, gate, filelist, itr, path, current, dir, serverVars, reboots, history>>

-----------------------------------------------------------------------------
(* Power loss, or the daily system("reboot"): the process starts over with *)
(* an empty list; the directory and the server keep what they have.        *)
Reboot ==
  /\ reboots < MaxReboots
  /\ reboots' = reboots + 1
  /\ lost' = lost \cup {ts \in Sheets : /\ ts \in m_listTS \/ OnGate(ts)
                                        /\ ts \notin stored \cup spooled}
  /\ m_listTS' = {}
  /\ gate' = [g \in Gates |-> NoSheet]
  /\ mtx' = "unlocked"
  /\ pc' = "idle"
  /\ filelist' = {}
  /\ itr' = {}
  /\ vector_erase' = {}
  /\ path' = NoStamp
  /\ current' = NoSheet
  /\ UNCHANGED <<m_time, dir, serverVars, failed, spooled>>

-----------------------------------------------------------------------------
SendFile(s) == SendFileTrue(s) \/ SendFileFalse(s) \/ SendFileThrows(s)
InsertString(ts) == InsertStringTrue(ts) \/ InsertStringFalse(ts) \/ InsertStringFails(ts)
insert == \E g \in Gates : \/ \E ts \in Sheets, s \in Stamps : NewSheet(g, ts, s)
                           \/ PushBack(g)

upload == \/ ListFiles \/ DeleteFile \/ LockList
          \/ OpenFile \/ SaveFile \/ EraseAndUnlock
          \/ \E s \in Stamps : SendFile(s)
          \/ \E ts \in Sheets : InsertString(ts)

Next == insert \/ upload \/ Reboot

Spec == Init /\ [][Next]_vars

(* upload runs over and over (cbTimer), a gate thread that wants mtx gets  *)
(* it in one of the long gaps between rounds, and the network is not       *)
(* always down when a given sheet or file is tried.                        *)
Fairness == /\ WF_vars(upload)
            /\ \A g \in Gates : SF_vars(PushBack(g))
            /\ \A s \in Stamps : SF_vars(SendFileTrue(s))
            /\ \A ts \in Sheets : SF_vars(InsertStringTrue(ts))

FairSpec == Spec /\ Fairness

-----------------------------------------------------------------------------
TypeOK ==
  /\ m_time \in [Sheets -> Stamps \cup {NoStamp}]
  /\ m_listTS \subseteq Sheets
  /\ gate \in [Gates -> Sheets \cup {NoSheet}]
  /\ mtx \in {"unlocked", "locked"}
  /\ pc \in {"idle", "files", "delete", "list", "open", "save"}
  /\ filelist \subseteq Stamps
  /\ itr \subseteq Sheets
  /\ vector_erase \subseteq Sheets
  /\ path \in Stamps \cup {NoStamp}
  /\ current \in Sheets \cup {NoSheet}
  /\ dir \in [Stamps -> Sheets \cup {NoFile, Torn}]
  /\ stored \subseteq Sheets
  /\ twice \subseteq Sheets
  /\ reboots \in 0..MaxReboots
  /\ failed \subseteq Sheets
  /\ spooled \subseteq Sheets
  /\ lost \subseteq Sheets

-----------------------------------------------------------------------------
(* Two spooled sheets of the same second share one file: the later write   *)
(* replaces the earlier.                                                   *)
SharesFile(ts) == \E q \in spooled \ {ts} : m_time[q] = m_time[ts]

(* A torn file is never sent, and the exception it raises ends every later *)
(* round before the list is reached.                                       *)
Jammed == pc # "save" /\ \E s \in Stamps : dir[s] = Torn

(* Every sheet insert ever allocated is still on its gate thread, queued,  *)
(* at the server, or was lost because a power loss came before any request *)
(* failed for it; and one that was once spooled can only go missing when   *)
(* its file was torn or taken over by a sheet of the same second.  This is *)
(* the whole point of spooling failed requests (web/webservice.cpp:521).   *)
Accounted ==
  \A ts \in Sheets : Created(ts) =>
     \/ OnGate(ts) \/ ts \in m_listTS \cup stored \cup lost
     \/ /\ ts \in spooled
        /\ dir[m_time[ts]] \in {ts, Torn} \/ SharesFile(ts)

(* As long as no request fails for a sheet, the server stores it once: the *)
(* erase list and file_delete make upload idempotent, over reboots too.    *)
DuplicateOnlyAfterFailure == twice \subseteq failed

(* No step drops the last copy of a sheet the server lacks, but a power    *)
(* loss, or the spooling of another sheet of the same second.              *)
Kept(ts) == OnGate(ts) \/ ts \in m_listTS \/ OnDisk(ts)
Excused(ts) == \/ ts \in stored
               \/ reboots' > reboots
               \/ /\ reboots > 0 /\ pc = "open"
                  /\ current # ts /\ m_time[current] = m_time[ts]
LastCopyStep == \A ts \in Sheets : Kept(ts) /\ ~Kept(ts)' => Excused(ts)
LastCopyKept == [][LastCopyStep]_vars

(* A created sheet reaches the server, unless it was lost with the memory  *)
(* or its file was taken over, or the spool is jammed by a torn file.      *)
Delivery ==
  \A ts \in Sheets :
     Created(ts) ~> \/ ts \in stored \/ Jammed
                    \/ reboots > 0 /\ (ts \in lost \/ SharesFile(ts))

(* A gate thread is held up by an upload round, but not for ever           *)
(* (maindelegator.cpp:229: insert runs inside the card handler).           *)
InsertReturns == \A g \in Gates : (gate[g] # NoSheet) ~> (gate[g] = NoSheet)

(* Up to a power loss upload is an at-least-once outbox.                   *)
AbstractOutbox == INSTANCE Outbox WITH
  outbox <- m_listTS \cup {ts \in Sheets : OnDisk(ts)},
  delivered <- stored,
  crashed <- reboots > 0
OutboxSpec == AbstractOutbox!Spec
=============================================================================
