------------------------------ MODULE LogQueue ------------------------------
(***************************************************************************)
(* The log: threads that call sendMessage, the queue between them and the  *)
(* thread of LogService::run, and the destructor (tools/logservice.cpp,    *)
(* tools/queue.h, tools/condition.h).                                      *)
(*                                                                         *)
(* push, exit and each half of pop run under the queue's mutex and are one *)
(* step each; a wait gives the mutex up, so it ends a step.  Condition     *)
(* signals only when its own flag m_bWait says that a thread waits.  An    *)
(* entry is stamped before it is pushed.                                   *)
(***************************************************************************)
EXTENDS Naturals, Sequences

CONSTANTS Producers,
          NULL,      \* what exit pushes
          MaxEntries \* bound on the entries of each producer

ASSUME MaxEntriesAssumption == MaxEntries \in Nat

(* The n-th entry of producer p.                                           *)
Entries == Producers \X (1 .. MaxEntries)

ASSUME NULLAssumption == NULL \notin Entries

VARIABLES
  buf,         \* Queue::buf
  m_available, \* Queue::m_available
  m_bWait,     \* Condition::m_bWait of buffer_not_empty
  reader,      \* where LogService::run is
  e,           \* the entry it has popped
  written,     \* history: the entries written to the log
  accepted,    \* history: the entries push has taken
  sent,        \* how many entries each producer has stamped
  stamped      \* the entry that each producer is about to push, or NULL

queue == <<buf, m_available, m_bWait>>
vars == <<queue, reader, e, written, accepted, sent, stamped>>

Init == /\ buf = <<>>
        /\ m_available = TRUE
        /\ m_bWait = FALSE
        /\ reader = "pop" /\ e = NULL
        /\ written = <<>> /\ accepted = <<>>
        /\ sent = [p \in Producers |-> 0]
        /\ stamped = [p \in Producers |-> NULL]

-----------------------------------------------------------------------------
(* sendMessage makes the entry ...                                         *)
NewEntry(p) ==
  /\ stamped[p] = NULL
  /\ sent[p] < MaxEntries
  /\ sent' = [sent EXCEPT ![p] = @ + 1]
  /\ stamped' = [stamped EXCEPT ![p] = <<p, sent[p] + 1>>]
  /\ UNCHANGED <<queue, reader, e, written, accepted>>

(* Condition::notify_one.                                                  *)
notify_one ==
  IF m_bWait
  THEN /\ m_bWait' = FALSE
       /\ reader' = IF reader = "waiting" THEN "pop" ELSE reader
  ELSE UNCHANGED <<m_bWait, reader>>

(* Mutant: push does not notify.                                           *)
push_NoNotify(p) ==
  /\ stamped[p] # NULL
  /\ stamped' = [stamped EXCEPT ![p] = NULL]
  /\ IF m_available
     THEN buf' = Append(buf, stamped[p]) /\ accepted' = Append(accepted, stamped[p])
     ELSE UNCHANGED <<buf, accepted>>
  /\ UNCHANGED <<m_available, m_bWait, reader, e, written, sent>>

(* ... and pushes it; after exit the entry is deleted instead.             *)
push(p) ==
  /\ stamped[p] # NULL
  /\ stamped' = [stamped EXCEPT ![p] = NULL]
  /\ IF m_available
     THEN /\ buf' = Append(buf, stamped[p]) /\ accepted' = Append(accepted, stamped[p])
          /\ notify_one
     ELSE UNCHANGED <<buf, accepted, m_bWait, reader>>
  /\ UNCHANGED <<m_available, e, written, sent>>

(* Mutants of exit: it lets entries in behind the NULL; it does not notify.*)
exit_StaysAvailable ==
  /\ m_available
  /\ \A i \in DOMAIN buf : buf[i] # NULL
  /\ buf' = Append(buf, NULL)
  /\ notify_one
  /\ UNCHANGED <<m_available, e, written, accepted, sent, stamped>>

exit_NoNotify ==
  /\ m_available
  /\ m_available' = FALSE
  /\ buf' = Append(buf, NULL)
  /\ UNCHANGED <<m_bWait, reader, e, written, accepted, sent, stamped>>

(* Queue::exit, called once, by the destructor of LogService.              *)
exit ==
  /\ m_available
  /\ m_available' = FALSE
  /\ buf' = Append(buf, NULL)
  /\ notify_one
  /\ UNCHANGED <<e, written, accepted, sent, stamped>>

-----------------------------------------------------------------------------
(* pop, the queue being empty: Condition::wait.                            *)
popWait ==
  /\ reader = "pop"
  /\ buf = <<>>
  /\ m_bWait' = TRUE
  /\ reader' = "waiting"
  /\ UNCHANGED <<buf, m_available, e, written, accepted, sent, stamped>>

(* pthread_cond_wait may return without a signal; m_bWait is still set.    *)
SpuriousWakeup ==
  /\ reader = "waiting"
  /\ reader' = "pop"
  /\ UNCHANGED <<queue, e, written, accepted, sent, stamped>>

popFront ==
  /\ reader = "pop"
  /\ buf # <<>>
  /\ e' = Head(buf)
  /\ buf' = Tail(buf)
  /\ reader' = "popped"
  /\ UNCHANGED <<m_available, m_bWait, written, accepted, sent, stamped>>

(* run writes the entry, or ends.                                          *)
write ==
  /\ reader = "popped" /\ e # NULL
  /\ written' = Append(written, e)
  /\ e' = NULL
  /\ reader' = "pop"
  /\ UNCHANGED <<queue, accepted, sent, stamped>>

runEnds ==
  /\ reader = "popped" /\ e = NULL
  /\ reader' = "ended"
  /\ UNCHANGED <<queue, e, written, accepted, sent, stamped>>

-----------------------------------------------------------------------------
run == popWait \/ popFront \/ write \/ runEnds

Next == \/ \E p \in Producers : NewEntry(p) \/ push(p)
        \/ exit
        \/ run \/ SpuriousWakeup

(* The thread of LogService::run runs when it can.                         *)
Fairness == WF_vars(run)

Spec == Init /\ [][Next]_vars
FairSpec == Spec /\ Fairness

-----------------------------------------------------------------------------
(* buf holds entries, and behind them the NULL once exit has been called   *)
(* and until the reader pops it.                                           *)
TypeOK ==
  /\ buf \in Seq(Entries \cup {NULL})
  /\ m_available \in BOOLEAN /\ m_bWait \in BOOLEAN
  /\ reader \in {"pop", "waiting", "popped", "ended"}
  /\ e \in Entries \cup {NULL}
  /\ written \in Seq(Entries) /\ accepted \in Seq(Entries)
  /\ sent \in [Producers -> 0 .. MaxEntries]
  /\ stamped \in [Producers -> Entries \cup {NULL}]

(* A reader that waits has been told of every entry: none sits in the      *)
(* queue beside it, although m_bWait may say that no thread waits.         *)
NoSleepOverEntries == reader = "waiting" => buf = <<>> /\ m_bWait

(* The log is a first-in first-out channel of the entries.                 *)
F == INSTANCE Fifo WITH
       Messages <- Entries,
       out <- written,
       status <- IF reader = "ended" THEN "ended"
                 ELSE IF m_available THEN "open" ELSE "closed"
FifoSpec == F!Spec

(* Every entry that was accepted is written, and exit ends the thread that *)
(* the destructor joins (queue.h:45-65, logservice.cpp:177-197).           *)
Drained ==
  /\ \A x \in Entries :
       (\E i \in DOMAIN accepted : accepted[i] = x) ~> (\E i \in DOMAIN written : written[i] = x)
  /\ ~m_available ~> reader = "ended"
=============================================================================
