-------------------------- MODULE TimeSheetProofs --------------------------
(***************************************************************************)
(* Theorems about TimeSheet for any number of sheets, stamps, gate threads *)
(* and power losses: typing, the two safety invariants of the runs, and    *)
(* the refinement of Outbox.                                               *)
(***************************************************************************)
EXTENDS TimeSheet, TLAPS

(* The shape of a round of upload: what is held, and what the local        *)
(* variables may refer to, at each point.                                  *)
RoundInv ==
  /\ mtx = "locked" <=> pc \in {"list", "open", "save"}
  /\ mtx = "unlocked" => itr = {} /\ vector_erase = {}
  /\ itr \subseteq m_listTS
  /\ vector_erase \subseteq stored
  /\ itr \cap vector_erase = {}
  /\ pc = "files" => \A s \in filelist : dir[s] # NoFile
  /\ pc = "delete" => /\ path \in Stamps
                      /\ dir[path] \in stored
                      /\ \A s \in filelist : dir[s] # NoFile /\ s # path
  /\ pc \in {"open", "save"} => current \in itr /\ current \in failed
  /\ pc = "save" => dir[m_time[current]] = Torn

(* Where a sheet can be: on at most one gate thread and then nowhere else; *)
(* in a file only under its own stamp and after a failure; queued although *)
(* stored only while it waits to be erased, or after a failure.            *)
PlaceInv ==
  /\ \A ts \in m_listTS \cup stored \cup spooled \cup failed : Created(ts)
  /\ \A g \in Gates : gate[g] # NoSheet =>
        /\ Created(gate[g])
        /\ gate[g] \notin m_listTS \cup stored \cup failed \cup lost
        /\ \A h \in Gates : gate[h] = gate[g] => h = g
  /\ \A ts \in lost : Created(ts)
  /\ \A s \in Stamps : dir[s] \in Sheets => dir[s] \in failed /\ m_time[dir[s]] = s
  /\ \A ts \in m_listTS : ts \in stored => ts \in failed \cup vector_erase
  /\ spooled \subseteq failed
  /\ twice \subseteq failed

(* What a power loss and a shared file can still take from a spooled sheet *)
(* the server lacks; and, until a power loss, a sheet on disk is queued.   *)
SpoolInv ==
  /\ \A ts \in spooled \ stored : dir[m_time[ts]] \in {ts, Torn} \/ SharesFile(ts)
  /\ reboots = 0 => \A s \in Stamps : dir[s] \in Sheets => dir[s] \in m_listTS \cup stored
  /\ \A ts \in Sheets : Created(ts) =>
        OnGate(ts) \/ ts \in m_listTS \cup stored \cup lost \cup spooled

IInv == TypeOK /\ RoundInv /\ PlaceInv /\ SpoolInv

-----------------------------------------------------------------------------
(* The invariant holds initially.                                          *)
LEMMA InitIInv == Init => IInv
<1> SUFFICES ASSUME Init PROVE IInv
  OBVIOUS
<1> USE SheetsAssumption, FilesAssumption, RebootsAssumption DEF Init
<1>1. TypeOK
  BY DEF TypeOK
<1>2. RoundInv
  BY DEF RoundInv
<1>3. PlaceInv
  BY DEF PlaceInv, Created
<1>4. SpoolInv
  BY DEF SpoolInv, Created
<1>5. QED
  BY <1>1, <1>2, <1>3, <1>4 DEF IInv

(* Typing is preserved: the sheet a round works on is known by RoundInv.   *)
LEMMA TypeStep == TypeOK /\ RoundInv /\ [Next]_vars => TypeOK'
<1> SUFFICES ASSUME TypeOK, RoundInv, [Next]_vars PROVE TypeOK'
  OBVIOUS
<1> USE SheetsAssumption, StampsAssumption, FilesAssumption, RebootsAssumption DEF TypeOK, RoundInv
<1>1. ASSUME NEW g \in Gates, NEW ts \in Sheets, NEW s \in Stamps, NewSheet(g, ts, s)
      PROVE TypeOK'
  BY <1>1 DEF NewSheet, uploadVars, serverVars, history
<1>2. ASSUME NEW g \in Gates, PushBack(g)
      PROVE TypeOK'
  BY <1>2 DEF PushBack, uploadVars, serverVars, history
<1>3. CASE ListFiles
  BY <1>3 DEF ListFiles, serverVars, history
<1>4. CASE DeleteFile
  BY <1>4 DEF DeleteFile, serverVars, history
<1>5. CASE LockList
  BY <1>5 DEF LockList, serverVars, history
<1>6. CASE OpenFile
  BY <1>6 DEF OpenFile, serverVars, history
<1>7. CASE SaveFile
  BY <1>7 DEF SaveFile, serverVars
<1>8. CASE EraseAndUnlock
  BY <1>8 DEF EraseAndUnlock, serverVars, history
<1>9. ASSUME NEW s \in Stamps, SendFileTrue(s)
      PROVE TypeOK'
  BY <1>9 DEF SendFileTrue, Stores, history
<1>10. ASSUME NEW s \in Stamps, SendFileFalse(s)
      PROVE TypeOK'
  BY <1>10 DEF SendFileFalse, serverVars, history
<1>11. ASSUME NEW s \in Stamps, SendFileThrows(s)
      PROVE TypeOK'
  BY <1>11 DEF SendFileThrows, Stores, serverVars
<1>12. ASSUME NEW ts \in Sheets, InsertStringTrue(ts)
      PROVE TypeOK'
  BY <1>12 DEF InsertStringTrue, Stores, history
<1>13. ASSUME NEW ts \in Sheets, InsertStringFalse(ts)
      PROVE TypeOK'
  BY <1>13 DEF InsertStringFalse, serverVars, history
<1>14. ASSUME NEW ts \in Sheets, InsertStringFails(ts)
      PROVE TypeOK'
  BY <1>14 DEF InsertStringFails, Stores, serverVars
<1>15. CASE Reboot
  BY <1>15 DEF Reboot, serverVars
<1>16. CASE UNCHANGED vars
  BY <1>16 DEF vars, uploadVars, serverVars, history
<1>17. QED
  BY <1>1, <1>2, <1>3, <1>4, <1>5, <1>6, <1>7, <1>8, <1>9, <1>10, <1>11, <1>12, <1>13, <1>14, <1>15, <1>16
  DEF Next, insert, upload, SendFile, InsertString

(* Each step of upload leaves a round as RoundInv describes it.            *)
LEMMA RoundStep == TypeOK /\ RoundInv /\ PlaceInv /\ [Next]_vars => RoundInv'
<1> SUFFICES ASSUME TypeOK, RoundInv, PlaceInv, [Next]_vars PROVE RoundInv'
  OBVIOUS
<1> USE SheetsAssumption, StampsAssumption, FilesAssumption, RebootsAssumption DEF TypeOK, RoundInv, PlaceInv, Created
<1>1. ASSUME NEW g \in Gates, NEW ts \in Sheets, NEW s \in Stamps, NewSheet(g, ts, s)
      PROVE RoundInv'
  BY <1>1 DEF NewSheet, uploadVars, serverVars, history
<1>2. ASSUME NEW g \in Gates, PushBack(g)
      PROVE RoundInv'
  BY <1>2 DEF PushBack, uploadVars, serverVars, history
<1>3. CASE ListFiles
  BY <1>3 DEF ListFiles, serverVars, history
<1>4. CASE DeleteFile
  BY <1>4 DEF DeleteFile, serverVars, history
<1>5. CASE LockList
  BY <1>5 DEF LockList, serverVars, history
<1>6. CASE OpenFile
  BY <1>6 DEF OpenFile, serverVars, history
<1>7. CASE SaveFile
  BY <1>7 DEF SaveFile, serverVars
<1>8. CASE EraseAndUnlock
  BY <1>8 DEF EraseAndUnlock, serverVars, history
<1>9. ASSUME NEW s \in Stamps, SendFileTrue(s)
      PROVE RoundInv'
  BY <1>9 DEF SendFileTrue, Stores, history
<1>10. ASSUME NEW s \in Stamps, SendFileFalse(s)
      PROVE RoundInv'
  BY <1>10 DEF SendFileFalse, serverVars, history
<1>11. ASSUME NEW s \in Stamps, SendFileThrows(s)
      PROVE RoundInv'
  BY <1>11 DEF SendFileThrows, Stores, serverVars
<1>12. ASSUME NEW ts \in Sheets, InsertStringTrue(ts)
      PROVE RoundInv'
  BY <1>12 DEF InsertStringTrue, Stores, history
<1>13. ASSUME NEW ts \in Sheets, InsertStringFalse(ts)
      PROVE RoundInv'
  BY <1>13 DEF InsertStringFalse, serverVars, history
<1>14. ASSUME NEW ts \in Sheets, InsertStringFails(ts)
      PROVE RoundInv'
  BY <1>14 DEF InsertStringFails, Stores, serverVars
<1>15. CASE Reboot
  BY <1>15 DEF Reboot, serverVars
<1>16. CASE UNCHANGED vars
  BY <1>16 DEF vars, uploadVars, serverVars, history
<1>17. QED
  BY <1>1, <1>2, <1>3, <1>4, <1>5, <1>6, <1>7, <1>8, <1>9, <1>10, <1>11, <1>12, <1>13, <1>14, <1>15, <1>16
  DEF Next, insert, upload, SendFile, InsertString

(* Each step keeps sheets where PlaceInv says they are.                    *)
LEMMA PlaceStep == TypeOK /\ RoundInv /\ PlaceInv /\ [Next]_vars => PlaceInv'
<1> SUFFICES ASSUME TypeOK, RoundInv, PlaceInv, [Next]_vars PROVE PlaceInv'
  OBVIOUS
<1> USE SheetsAssumption, StampsAssumption, FilesAssumption, RebootsAssumption DEF TypeOK, RoundInv, PlaceInv, Created
<1>1. ASSUME NEW g \in Gates, NEW ts \in Sheets, NEW s \in Stamps, NewSheet(g, ts, s)
      PROVE PlaceInv'
  BY <1>1 DEF NewSheet, uploadVars, serverVars, history
<1>2. ASSUME NEW g \in Gates, PushBack(g)
      PROVE PlaceInv'
  BY <1>2 DEF PushBack, uploadVars, serverVars, history
<1>3. CASE ListFiles
  BY <1>3 DEF ListFiles, serverVars, history
<1>4. CASE DeleteFile
  BY <1>4 DEF DeleteFile, serverVars, history
<1>5. CASE LockList
  BY <1>5 DEF LockList, serverVars, history
<1>6. CASE OpenFile
  BY <1>6 DEF OpenFile, serverVars, history
<1>7. CASE SaveFile
  BY <1>7 DEF SaveFile, serverVars
<1>8. CASE EraseAndUnlock
  BY <1>8 DEF EraseAndUnlock, serverVars, history
<1>9. ASSUME NEW s \in Stamps, SendFileTrue(s)
      PROVE PlaceInv'
  BY <1>9 DEF SendFileTrue, Stores, history
<1>10. ASSUME NEW s \in Stamps, SendFileFalse(s)
      PROVE PlaceInv'
  BY <1>10 DEF SendFileFalse, serverVars, history
<1>11. ASSUME NEW s \in Stamps, SendFileThrows(s)
      PROVE PlaceInv'
  BY <1>11 DEF SendFileThrows, Stores, serverVars
<1>12. ASSUME NEW ts \in Sheets, InsertStringTrue(ts)
      PROVE PlaceInv'
  BY <1>12 DEF InsertStringTrue, Stores, history
<1>13. ASSUME NEW ts \in Sheets, InsertStringFalse(ts)
      PROVE PlaceInv'
  BY <1>13 DEF InsertStringFalse, serverVars, history
<1>14. ASSUME NEW ts \in Sheets, InsertStringFails(ts)
      PROVE PlaceInv'
  BY <1>14 DEF InsertStringFails, Stores, serverVars
<1>15. CASE Reboot
  BY <1>15 DEF Reboot, serverVars, OnGate
<1>16. CASE UNCHANGED vars
  BY <1>16 DEF vars, uploadVars, serverVars, history
<1>17. QED
  BY <1>1, <1>2, <1>3, <1>4, <1>5, <1>6, <1>7, <1>8, <1>9, <1>10, <1>11, <1>12, <1>13, <1>14, <1>15, <1>16
  DEF Next, insert, upload, SendFile, InsertString

(* Each step keeps what SpoolInv says of spooled sheets.                   *)
LEMMA SpoolStep == IInv /\ [Next]_vars => SpoolInv'
<1> SUFFICES ASSUME IInv, [Next]_vars PROVE SpoolInv'
  OBVIOUS
<1> USE SheetsAssumption, StampsAssumption, FilesAssumption, RebootsAssumption DEF IInv, TypeOK, RoundInv, PlaceInv, SpoolInv, Created, OnGate, SharesFile
<1>1. ASSUME NEW g \in Gates, NEW ts \in Sheets, NEW s \in Stamps, NewSheet(g, ts, s)
      PROVE SpoolInv'
  BY <1>1 DEF NewSheet, uploadVars, serverVars, history
<1>2. ASSUME NEW g \in Gates, PushBack(g)
      PROVE SpoolInv'
  BY <1>2 DEF PushBack, uploadVars, serverVars, history
<1>3. CASE ListFiles
  BY <1>3 DEF ListFiles, serverVars, history
<1>4. CASE DeleteFile
  BY <1>4 DEF DeleteFile, serverVars, history
<1>5. CASE LockList
  BY <1>5 DEF LockList, serverVars, history
<1>6. CASE OpenFile
  BY <1>6 DEF OpenFile, serverVars, history
<1>7. CASE SaveFile
  BY <1>7 DEF SaveFile, serverVars
<1>8. CASE EraseAndUnlock
  BY <1>8 DEF EraseAndUnlock, serverVars, history
<1>9. ASSUME NEW s \in Stamps, SendFileTrue(s)
      PROVE SpoolInv'
  BY <1>9 DEF SendFileTrue, Stores, history
<1>10. ASSUME NEW s \in Stamps, SendFileFalse(s)
      PROVE SpoolInv'
  BY <1>10 DEF SendFileFalse, serverVars, history
<1>11. ASSUME NEW s \in Stamps, SendFileThrows(s)
      PROVE SpoolInv'
  BY <1>11 DEF SendFileThrows, Stores, serverVars
<1>12. ASSUME NEW ts \in Sheets, InsertStringTrue(ts)
      PROVE SpoolInv'
  BY <1>12 DEF InsertStringTrue, Stores, history
<1>13. ASSUME NEW ts \in Sheets, InsertStringFalse(ts)
      PROVE SpoolInv'
  BY <1>13 DEF InsertStringFalse, serverVars, history
<1>14. ASSUME NEW ts \in Sheets, InsertStringFails(ts)
      PROVE SpoolInv'
  BY <1>14 DEF InsertStringFails, Stores, serverVars
<1>15. CASE Reboot
  BY <1>15 DEF Reboot, serverVars
<1>16. CASE UNCHANGED vars
  BY <1>16 DEF vars, uploadVars, serverVars, history
<1>17. QED
  BY <1>1, <1>2, <1>3, <1>4, <1>5, <1>6, <1>7, <1>8, <1>9, <1>10, <1>11, <1>12, <1>13, <1>14, <1>15, <1>16
  DEF Next, insert, upload, SendFile, InsertString

(* IInv is an inductive invariant of the time sheet manager.               *)
THEOREM Invariance == Spec => []IInv
<1>1. IInv /\ [Next]_vars => IInv'
  BY TypeStep, RoundStep, PlaceStep, SpoolStep DEF IInv
<1>2. QED
  BY InitIInv, <1>1, PTL DEF Spec

(* Every variable keeps its type, for any number of sheets and threads.    *)
THEOREM Typing == Spec => []TypeOK
<1>1. IInv => TypeOK
  BY DEF IInv
<1>2. QED
  BY Invariance, <1>1, PTL

(* No sheet disappears unaccounted for: whatever the interleaving of       *)
(* inserts, rounds, failed requests and power losses.                      *)
THEOREM SheetsAccounted == Spec => []Accounted
<1>1. IInv => Accounted
  BY DEF IInv, SpoolInv, Accounted
<1>2. QED
  BY Invariance, <1>1, PTL

(* The server stores a sheet twice only if a request for it has failed.    *)
THEOREM NoNeedlessDuplicate == Spec => []DuplicateOnlyAfterFailure
<1>1. IInv => DuplicateOnlyAfterFailure
  BY DEF IInv, PlaceInv, DuplicateOnlyAfterFailure
<1>2. QED
  BY Invariance, <1>1, PTL

-----------------------------------------------------------------------------
(* The sheets the unit keeps: AbstractOutbox's outbox.                     *)
Outboxed == m_listTS \cup {ts \in Sheets : OnDisk(ts)}

(* Before the first power loss the steps that remove from the outbox       *)
(* remove what the server has.                                             *)
LEMMA ForgetsStored ==
  ASSUME IInv, OpenFile \/ DeleteFile \/ EraseAndUnlock
  PROVE  /\ Outboxed' \subseteq Outboxed
         /\ reboots = 0 => Outboxed \ Outboxed' \subseteq stored
<1> USE SheetsAssumption DEF IInv, TypeOK, RoundInv, PlaceInv, SpoolInv, Created, Outboxed, OnDisk
<1>1. CASE OpenFile
  BY <1>1 DEF OpenFile, serverVars, history
<1>2. CASE DeleteFile
  BY <1>2 DEF DeleteFile, serverVars, history
<1>3. CASE EraseAndUnlock
  BY <1>3 DEF EraseAndUnlock, serverVars, history
<1>4. QED
  BY <1>1, <1>2, <1>3

(* A step that only shrinks the outbox is a Forget of the abstract outbox. *)
LEMMA ForgetStep ==
  ASSUME IInv, Outboxed' \subseteq Outboxed, stored' = stored,
         \/ reboots' = reboots /\ (reboots = 0 => Outboxed \ Outboxed' \subseteq stored)
         \/ reboots' = reboots + 1
  PROVE  \E S \in SUBSET Sheets : AbstractOutbox!Forget(S)
<1> DEFINE S == Outboxed \ Outboxed'
<1>1. S \in SUBSET Sheets
  BY DEF IInv, TypeOK, Outboxed
<1>2. reboots \in Nat
  BY RebootsAssumption DEF IInv, TypeOK
<1>3. AbstractOutbox!Forget(S)
  <2>1. Outboxed' = Outboxed \ S
    OBVIOUS
  <2>2. S \subseteq stored \/ reboots' > 0
    BY <1>2
  <2>3. reboots > 0 => reboots' > 0
    BY <1>2
  <2>4. QED
    BY <2>1, <2>2, <2>3 DEF AbstractOutbox!Forget, Outboxed
<1>4. QED
  BY <1>1, <1>3

(* Every step of the manager is a step of the abstract outbox, or none.    *)
LEMMA OutboxStep ==
  ASSUME IInv, IInv', [Next]_vars
  PROVE  [AbstractOutbox!Next]_(AbstractOutbox!vars)
<1> DEFINE Same == Outboxed' = Outboxed /\ stored' = stored /\ reboots' = reboots
<1>1. Same => UNCHANGED AbstractOutbox!vars
  BY DEF AbstractOutbox!vars, Outboxed
<1>2. CASE OpenFile \/ DeleteFile \/ EraseAndUnlock
  <2>1. stored' = stored /\ reboots' = reboots
    BY <1>2 DEF OpenFile, DeleteFile, EraseAndUnlock, serverVars, history
  <2>2. QED
    BY <1>2, <2>1, ForgetsStored, ForgetStep DEF AbstractOutbox!Next
<1>3. CASE Reboot
  <2>1. Outboxed' \subseteq Outboxed /\ stored' = stored /\ reboots' = reboots + 1
    BY <1>3 DEF Reboot, serverVars, Outboxed, OnDisk
  <2>2. QED
    BY <2>1, ForgetStep DEF AbstractOutbox!Next
<1>4. ASSUME NEW g \in Gates, PushBack(g)
      PROVE  AbstractOutbox!Next
  <2>1. gate[g] \in Sheets
    BY <1>4 DEF PushBack, IInv, TypeOK
  <2>2. gate[g] \notin Outboxed \cup stored
    BY <1>4, <2>1 DEF PushBack, IInv, PlaceInv, Outboxed, OnDisk
  <2>3. Outboxed' = Outboxed \cup {gate[g]} /\ stored' = stored /\ reboots' = reboots
    BY <1>4, <2>1 DEF PushBack, serverVars, Outboxed, OnDisk
  <2>4. AbstractOutbox!Accept(gate[g])
    BY <2>2, <2>3 DEF AbstractOutbox!Accept, Outboxed
  <2>5. QED
    BY <2>1, <2>4, Zenon DEF AbstractOutbox!Next
<1>5. ASSUME NEW ts \in Sheets, ts \in Outboxed, Stores(ts),
             Outboxed' = Outboxed, reboots' = reboots
      PROVE  AbstractOutbox!Next
  <2>1. AbstractOutbox!Deliver(ts)
    BY <1>5 DEF Stores, AbstractOutbox!Deliver, Outboxed
  <2>2. QED
    BY <2>1, Zenon DEF AbstractOutbox!Next
<1>6. ASSUME NEW s \in Stamps, SendFileTrue(s) \/ SendFileThrows(s)
      PROVE  Same \/ AbstractOutbox!Next
  <2>1. Outboxed' = Outboxed /\ reboots' = reboots
    BY <1>6 DEF SendFileTrue, SendFileThrows, serverVars, history, Outboxed, OnDisk
  <2>2. stored' = stored \/ (dir[s] \in Sheets /\ Stores(dir[s]))
    BY <1>6, SheetsAssumption DEF SendFileTrue, SendFileThrows, serverVars, IInv, TypeOK, RoundInv
  <2>3. dir[s] \in Sheets => dir[s] \in Outboxed
    BY DEF Outboxed, OnDisk
  <2>4. QED
    BY <2>1, <2>2, <2>3, <1>5
<1>7. ASSUME NEW ts \in Sheets, InsertStringTrue(ts) \/ InsertStringFails(ts)
      PROVE  Same \/ AbstractOutbox!Next
  <2>1. Outboxed' = Outboxed /\ reboots' = reboots /\ ts \in Outboxed
    BY <1>7 DEF InsertStringTrue, InsertStringFails, serverVars, history, IInv, RoundInv, Outboxed, OnDisk
  <2>2. stored' = stored \/ Stores(ts)
    BY <1>7 DEF InsertStringTrue, InsertStringFails, serverVars
  <2>3. QED
    BY <2>1, <2>2, <1>5
<1>8. ASSUME SaveFile
      PROVE  Same
  <2>1. /\ current \in m_listTS \cap Sheets /\ dir[m_time[current]] = Torn
        /\ m_listTS' = m_listTS /\ stored' = stored /\ reboots' = reboots
    BY <1>8 DEF SaveFile, serverVars, IInv, TypeOK, RoundInv
  <2>2. \/ dir' = dir
        \/ dir' = [dir EXCEPT ![m_time[current]] = current]
    BY <1>8 DEF SaveFile
  <2>3. Outboxed' = Outboxed
    BY <2>1, <2>2, SheetsAssumption DEF Outboxed, OnDisk, IInv, TypeOK
  <2>4. QED
    BY <2>1, <2>3
<1>9. ASSUME ListFiles \/ LockList \/ UNCHANGED vars
      PROVE  Same
  BY <1>9 DEF ListFiles, LockList, vars, uploadVars, serverVars, history, Outboxed, OnDisk
<1>10. ASSUME NEW g \in Gates, NEW ts \in Sheets, NEW s \in Stamps, NewSheet(g, ts, s)
       PROVE  Same
  BY <1>10 DEF NewSheet, uploadVars, serverVars, history, Outboxed, OnDisk
<1>11. ASSUME NEW s \in Stamps, SendFileFalse(s)
       PROVE  Same
  BY <1>11 DEF SendFileFalse, serverVars, history, Outboxed, OnDisk
<1>12. ASSUME NEW ts \in Sheets, InsertStringFalse(ts)
       PROVE  Same
  BY <1>12 DEF InsertStringFalse, serverVars, history, Outboxed, OnDisk
<1>13. QED
  <2>1. CASE Same
    BY <2>1, <1>1
  <2>2. CASE ~Same
    BY <2>2, <1>2, <1>3, <1>4, <1>6, <1>7, <1>8, <1>9, <1>10, <1>11, <1>12
    DEF Next, insert, upload, SendFile, InsertString
  <2>3. QED
    BY <2>1, <2>2

(* upload and insert implement an at-least-once outbox, whatever the       *)
(* interleaving: the theorem behind "a sheet is kept until the server has  *)
(* it".                                                                    *)
THEOREM Refinement == Spec => OutboxSpec
<1>1. Init => AbstractOutbox!Init
  BY SheetsAssumption DEF Init, AbstractOutbox!Init, OnDisk
<1>2. IInv /\ IInv' /\ [Next]_vars => [AbstractOutbox!Next]_(AbstractOutbox!vars)
  BY OutboxStep
<1>3. QED
  BY <1>1, <1>2, Invariance, PTL DEF Spec, OutboxSpec, AbstractOutbox!Spec

(* The last copy of a sheet the server lacks goes only with the power, or  *)
(* when its file is opened for another sheet of the same second.           *)
THEOREM KeepsLastCopy == Spec => LastCopyKept
<1>1. ASSUME IInv, [Next]_vars, NEW ts \in Sheets, Kept(ts), ~Kept(ts)'
      PROVE  Excused(ts)
  <2> USE <1>1 DEF Kept, OnGate, OnDisk, Excused
  <2>1. CASE UNCHANGED vars
    BY <2>1 DEF vars, uploadVars
  <2>2. CASE Reboot
    BY <2>2, RebootsAssumption DEF Reboot, IInv, TypeOK
  <2>3. CASE EraseAndUnlock
    BY <2>3 DEF EraseAndUnlock, IInv, RoundInv
  <2>4. CASE DeleteFile
    BY <2>4 DEF DeleteFile, IInv, TypeOK, RoundInv
  <2>5. CASE OpenFile
    BY <2>5, SheetsAssumption, RebootsAssumption
    DEF OpenFile, IInv, TypeOK, RoundInv, PlaceInv, SpoolInv
  <2>6. CASE SaveFile
    BY <2>6, SheetsAssumption DEF SaveFile, IInv, TypeOK, RoundInv
  <2>7. CASE ListFiles \/ LockList
    BY <2>7 DEF ListFiles, LockList
  <2>8. ASSUME NEW g \in Gates, NEW q \in Sheets, NEW s \in Stamps, NewSheet(g, q, s)
        PROVE  FALSE
    BY <2>8, SheetsAssumption DEF NewSheet, IInv, TypeOK
  <2>9. ASSUME NEW g \in Gates, PushBack(g)
        PROVE  FALSE
    BY <2>9 DEF PushBack, IInv, TypeOK
  <2>10. ASSUME NEW s \in Stamps, SendFile(s)
         PROVE  FALSE
    BY <2>10 DEF SendFile, SendFileTrue, SendFileFalse, SendFileThrows
  <2>11. ASSUME NEW q \in Sheets, InsertString(q)
         PROVE  FALSE
    BY <2>11 DEF InsertString, InsertStringTrue, InsertStringFalse, InsertStringFails
  <2>12. QED
    BY <2>1, <2>2, <2>3, <2>4, <2>5, <2>6, <2>7, <2>8, <2>9, <2>10, <2>11
    DEF Next, insert, upload
<1>2. IInv /\ [Next]_vars => [LastCopyStep]_vars
  BY <1>1, Zenon DEF LastCopyStep
<1>3. QED
  BY <1>2, Invariance, PTL DEF Spec, LastCopyKept
=============================================================================
