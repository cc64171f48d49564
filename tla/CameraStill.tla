---------------------------- MODULE CameraStill ----------------------------
(***************************************************************************)
(* The camera of the gate: CameraStill (camera/camerastill.cpp), the       *)
(* threads of the encoder (OMXILEncoderComponent, camera/                  *)
(* omxilComponent.cpp) and the delay-off Timer (tools/timer.cpp).          *)
(*                                                                         *)
(* takePicture switches the camera on if it is off, starts a capture with  *)
(* a thread of its own and waits for the frame.  The end of the stream     *)
(* starts the Timer that switches the camera off; the next takePicture     *)
(* stops it.  A capture may still run when the next one begins: the        *)
(* threads of both then share one buffer, one status and one semaphore,    *)
(* which the blocking change_state waits on too.                           *)
(*                                                                         *)
(* OpenMAX is external: each capture yields a frame (EOF) and the end of   *)
(* its stream (EOS) at any later time, or never.  The buffers that hold a  *)
(* slice only are left out.  Time is abstracted: a wait may run out at any *)
(* moment.                                                                 *)
(***************************************************************************)
EXTENDS Naturals, Sequences, FiniteSets

CONSTANTS Callers,   \* threads that run onData
          Captures,  \* encoder threads at a time: a bound
          Threads,   \* threads of the Timer at a time: a bound
          None

ASSUME NoneAssumption == None \notin Callers \cup Captures \cup Threads

VARIABLES
  mtx,             \* CameraStill::mtx: who holds it over several steps, or None
  m_state,         \* READY_S: the camera is off; IREADY_S: it is on
  pc, shot,        \* where takePicture is, and the capture it has started
  m_takePictureSem,
  grab,            \* where the thread of each capture is
  m_bufferStatus, sem_EventComplete,
  stream,          \* what the encoder has still to put into a buffer
  m_imgBuf,        \* the caller whose picture it holds while he waits, or None
  thread,          \* where each thread of the Timer is
  m_active, m_bWait,
  crashed,
  mixed,           \* history: another capture was not over when the last one began
  strays           \* history: threads of the Timer that a stop has missed

caller == <<pc, shot, m_takePictureSem>>
buffers == <<grab, m_bufferStatus, sem_EventComplete, stream>>
encoder == <<buffers, m_imgBuf>>
timer == <<thread, m_active, m_bWait, strays>>
vars == <<mtx, m_state, caller, encoder, timer, crashed, mixed>>

Live(k) == grab[k] # "none"
Pending == {t \in Threads : thread[t] \in {"spawned", "waiting", "timedout", "firing"}}
(* A thread holds the Timer's mutex while its callback runs.               *)
HoldsTimerMtx(t) == thread[t] \in {"firing", "returning"}
TimerMtxFree == \A t \in Threads : ~HoldsTimerMtx(t)
Filling == {k \in Captures : grab[k] = "filling"}

Owner(k) == {c \in Callers : shot[c] = k}

Init == /\ mtx = None
        /\ m_state = "READY_S"
        /\ pc = [c \in Callers |-> "idle"]
        /\ shot = [c \in Callers |-> None]
        /\ m_takePictureSem = 0
        /\ grab = [k \in Captures |-> "none"]
        /\ m_bufferStatus = "NONE_S"
        /\ sem_EventComplete = 0
        /\ stream = <<>>
        /\ m_imgBuf = None
        /\ thread = [t \in Threads |-> "none"]
        /\ m_active = FALSE /\ m_bWait = FALSE
        /\ crashed = FALSE
        /\ mixed = FALSE /\ strays = {}

-----------------------------------------------------------------------------
(* Captures of which something is still to come.                           *)
Underway == {k \in Captures : Live(k) \/ \E i \in DOMAIN stream : stream[i][1] = k}

(* Mutant: the delay-off timer is not stopped.                             *)
Lock_NoStop(c) ==
  /\ pc[c] = "idle" /\ mtx = None /\ Underway # Captures
  /\ mtx' = c
  /\ pc' = [pc EXCEPT ![c] = "ready"]
  /\ mixed' = (Underway # {} \/ \E d \in Callers \ {c} : pc[d] # "idle")
  /\ UNCHANGED <<m_state, shot, m_takePictureSem, encoder, timer, crashed>>

(* takePicture takes mtx and asks whether the timer is active ...          *)
Lock(c) ==
  /\ pc[c] = "idle" /\ mtx = None /\ Underway # Captures
  /\ mtx' = c
  /\ pc' = [pc EXCEPT ![c] = IF m_active THEN "stop" ELSE "ready"]
  /\ mixed' = (Underway # {} \/ \E d \in Callers \ {c} : pc[d] # "idle")
  /\ UNCHANGED <<m_state, shot, m_takePictureSem, encoder, timer, crashed>>

(* ... stops it, which reaches at most one thread, and that only in its    *)
(* wait ...                                                                *)
Stop(c) ==
  /\ pc[c] = "stop" /\ TimerMtxFree
  /\ pc' = [pc EXCEPT ![c] = "ready"]
  /\ m_active' = FALSE /\ m_bWait' = FALSE
  /\ IF m_bWait /\ \E t \in Threads : thread[t] = "waiting"
     THEN \E t \in Threads : /\ thread[t] = "waiting"
                             /\ thread' = [thread EXCEPT ![t] = "notified"]
                             /\ strays' = strays \cup (Pending \ {t})
     ELSE strays' = strays \cup Pending /\ UNCHANGED thread
  /\ UNCHANGED <<mtx, m_state, shot, m_takePictureSem, encoder, crashed, mixed>>

(* ... makes the camera ready and starts the capture and its thread.       *)
Capture(c, k) ==
  /\ pc[c] = "ready" /\ k \notin Underway
  /\ m_state' = "IREADY_S"
  /\ stream' = stream \o << <<k, "EOF_S">>, <<k, "EOS_S">> >>
  /\ grab' = [grab EXCEPT ![k] = "spawned"]
  /\ shot' = [shot EXCEPT ![c] = k]
  /\ pc' = [pc EXCEPT ![c] = "reset"]
  /\ mtx' = None
  /\ UNCHANGED <<m_takePictureSem, m_bufferStatus, sem_EventComplete, m_imgBuf, timer, crashed,
                 mixed>>

ReadyFails(c) ==
  /\ pc[c] = "ready" /\ m_state = "READY_S"
  /\ pc' = [pc EXCEPT ![c] = "idle"]
  /\ mtx' = None
  /\ UNCHANGED <<m_state, shot, m_takePictureSem, encoder, timer, crashed, mixed>>

(* change_state waits for an event that a capture's thread has taken.      *)
ReadyHangs(c) ==
  /\ pc[c] = "ready" /\ m_state = "READY_S" /\ Filling # {}
  /\ pc' = [pc EXCEPT ![c] = "hung"]
  /\ UNCHANGED <<mtx, m_state, shot, m_takePictureSem, encoder, timer, crashed, mixed>>

(* Mutant: the semaphore keeps what earlier captures have left in it.      *)
Reset_Forgotten(c) ==
  /\ pc[c] = "reset"
  /\ pc' = [pc EXCEPT ![c] = "wait"]
  /\ UNCHANGED <<mtx, m_state, shot, m_takePictureSem, encoder, timer, crashed, mixed>>

Reset(c) ==
  /\ pc[c] = "reset"
  /\ m_takePictureSem' = 0
  /\ pc' = [pc EXCEPT ![c] = "wait"]
  /\ UNCHANGED <<mtx, m_state, shot, encoder, timer, crashed, mixed>>

Taken(c) ==
  /\ pc[c] = "wait" /\ m_takePictureSem > 0
  /\ m_takePictureSem' = m_takePictureSem - 1
  /\ pc' = [pc EXCEPT ![c] = "idle"]
  /\ shot' = [shot EXCEPT ![c] = None]
  /\ m_imgBuf' = IF m_imgBuf = c THEN None ELSE m_imgBuf
  /\ UNCHANGED <<mtx, m_state, buffers, timer, crashed, mixed>>

WaitRunsOut(c) ==
  /\ pc[c] = "wait" /\ m_takePictureSem = 0
  /\ pc' = [pc EXCEPT ![c] = "idle"]
  /\ shot' = [shot EXCEPT ![c] = None]
  /\ m_imgBuf' = IF m_imgBuf = c THEN None ELSE m_imgBuf
  /\ UNCHANGED <<mtx, m_state, m_takePictureSem, buffers, timer, crashed, mixed>>

takePicture(c) == \/ Stop(c) \/ (\E k \in Captures : Capture(c, k)) \/ ReadyFails(c)
                  \/ ReadyHangs(c) \/ Reset(c) \/ Taken(c) \/ WaitRunsOut(c)

-----------------------------------------------------------------------------
(* Where a thread is after OMX_FillThisBuffer: an error ends it, which is  *)
(* possible only if the encoder has been switched off.                     *)
Offered == IF m_state = "IREADY_S" THEN {"filling"} ELSE {"filling", "none"}

(* The thread of a capture begins and offers the buffer.                   *)
Begin(k) ==
  /\ grab[k] = "spawned"
  /\ m_bufferStatus' = "NONE_S"
  /\ \E g \in Offered : grab' = [grab EXCEPT ![k] = g]
  /\ UNCHANGED <<mtx, m_state, caller, sem_EventComplete, stream, m_imgBuf, timer, crashed,
                 mixed>>

(* The encoder fills a buffer that a thread has offered.                   *)
FillBufferDone ==
  /\ stream # <<>>
  /\ sem_EventComplete < Cardinality(Filling)
  /\ m_bufferStatus' = Head(stream)[2]
  /\ IF Head(stream)[2] = "EOF_S"
     THEN m_imgBuf' \in (IF Owner(Head(stream)[1]) = {} THEN {None} ELSE Owner(Head(stream)[1]))
     ELSE UNCHANGED m_imgBuf
  /\ stream' = Tail(stream)
  /\ sem_EventComplete' = sem_EventComplete + 1
  /\ UNCHANGED <<mtx, m_state, caller, grab, timer, crashed, mixed>>

(* The thread of a capture has its event and looks at the status; a frame  *)
(* is posted to takePicture, cbEndOfFrame.                                 *)
Filled(k) ==
  /\ grab[k] = "filling" /\ sem_EventComplete > 0
  /\ sem_EventComplete' = sem_EventComplete - 1
  /\ \E g \in (IF m_bufferStatus = "EOS_S" THEN {"ending"} ELSE Offered) :
       grab' = [grab EXCEPT ![k] = g]
  /\ m_takePictureSem' = m_takePictureSem + (IF m_bufferStatus = "EOF_S" THEN 1 ELSE 0)
  /\ UNCHANGED <<mtx, m_state, pc, shot, m_bufferStatus, stream, m_imgBuf, timer, crashed,
                 mixed>>

(* What is left of the stream once a capture is over: pictures that the    *)
(* camera has not taken by then are not taken any more.                    *)
CutShort == {s \in {SubSeq(stream, 1, i) : i \in 0 .. Len(stream)} :
               s = stream \/ (IF s = <<>> THEN stream[1][2] = "EOF_S" ELSE s[Len(s)][2] = "EOS_S")}

(* Mutant: the end of the stream leaves the camera on.                     *)
cbEndOfStream_NoTimer(k) ==
  /\ grab[k] = "ending" /\ mtx = None
  /\ stream' \in CutShort
  /\ grab' = [grab EXCEPT ![k] = "none"]
  /\ UNCHANGED <<mtx, m_state, caller, m_bufferStatus, sem_EventComplete, m_imgBuf, timer,
                 crashed, mixed>>

(* The end of the stream ends the capturing, of any other capture too, and *)
(* starts the timer.  If the camera has been deleted the program ends, or  *)
(* finds the memory still there.                                           *)
cbEndOfStream(k) ==
  /\ grab[k] = "ending" /\ mtx = None
  /\ \E t \in Threads : /\ thread[t] = "none"
                        /\ thread' = [thread EXCEPT ![t] = "spawned"]
  /\ m_active' = TRUE
  /\ stream' \in CutShort
  /\ grab' = [grab EXCEPT ![k] = "none"]
  /\ crashed' \in {FALSE, m_state = "READY_S"}
  /\ UNCHANGED <<mtx, m_state, caller, m_bufferStatus, sem_EventComplete, m_imgBuf, m_bWait,
                 strays, mixed>>

capturing(k) == Begin(k) \/ Filled(k) \/ cbEndOfStream(k)

-----------------------------------------------------------------------------
(* The threads of the Timer, Timer::run.                                   *)
Wait(t) ==
  /\ thread[t] = "spawned" /\ TimerMtxFree
  /\ thread' = [thread EXCEPT ![t] = "waiting"]
  /\ m_bWait' = TRUE
  /\ UNCHANGED <<mtx, m_state, caller, encoder, m_active, strays, crashed, mixed>>

TimeOut(t) ==
  /\ thread[t] = "waiting"
  /\ thread' = [thread EXCEPT ![t] = "timedout"]
  /\ UNCHANGED <<mtx, m_state, caller, encoder, m_active, m_bWait, strays, crashed, mixed>>

Fire(t) ==
  /\ thread[t] = "timedout" /\ TimerMtxFree
  /\ thread' = [thread EXCEPT ![t] = "firing"]
  /\ UNCHANGED <<mtx, m_state, caller, encoder, m_active, m_bWait, strays, crashed, mixed>>

(* A thread that was notified clears m_active when it wakes up at last,    *)
(* also that of a timer started since.                                     *)
Stopped(t) ==
  /\ thread[t] = "notified" /\ TimerMtxFree
  /\ thread' = [thread EXCEPT ![t] = "none"]
  /\ m_active' = FALSE
  /\ strays' = (strays \cup Pending) \ {t}
  /\ UNCHANGED <<mtx, m_state, caller, encoder, m_bWait, crashed, mixed>>

(* The callback switches the camera off and deletes it.  What captures     *)
(* have still to give is lost, and the threads that wait for it may end.   *)
returnResources(t) ==
  /\ thread[t] = "firing" /\ mtx = None
  /\ thread' = [thread EXCEPT ![t] = "returning"]
  /\ m_state' = "READY_S"
  /\ IF m_state = "IREADY_S"
     THEN /\ stream' = <<>>
          /\ \E S \in SUBSET Filling :
               grab' = [k \in Captures |-> IF k \in S THEN "none" ELSE grab[k]]
          /\ UNCHANGED <<m_bufferStatus, sem_EventComplete, m_imgBuf>>
     ELSE UNCHANGED encoder
  /\ UNCHANGED <<mtx, caller, m_active, m_bWait, strays, crashed, mixed>>

(* Its change_state waits for an event that a capture's thread has taken.  *)
ReturnHangs(t) ==
  /\ thread[t] = "firing" /\ mtx = None
  /\ m_state = "IREADY_S" /\ Filling # {}
  /\ mtx' = t
  /\ UNCHANGED <<m_state, caller, encoder, timer, crashed, mixed>>

(* Mutant: the thread ends with the Timer's mutex locked.                  *)
RunReturns_KeepsMutex(t) ==
  /\ thread[t] = "returning"
  /\ m_active' = FALSE
  /\ UNCHANGED <<mtx, m_state, caller, encoder, thread, m_bWait, strays, crashed, mixed>>

RunReturns(t) ==
  /\ thread[t] = "returning"
  /\ thread' = [thread EXCEPT ![t] = "none"]
  /\ m_active' = FALSE
  /\ strays' = (strays \cup Pending) \ {t}
  /\ UNCHANGED <<mtx, m_state, caller, encoder, m_bWait, crashed, mixed>>

run(t) == \/ Wait(t) \/ TimeOut(t) \/ Fire(t) \/ Stopped(t)
          \/ returnResources(t) \/ ReturnHangs(t) \/ RunReturns(t)

Next == /\ ~crashed
        /\ \/ \E c \in Callers : Lock(c) \/ takePicture(c)
           \/ \E k \in Captures : capturing(k)
           \/ FillBufferDone
           \/ \E t \in Threads : run(t)

(* Every thread runs, every wait is finite, and a thread that wants a      *)
(* mutex gets it if it is free again and again (it can do nothing else     *)
(* then).  OpenMAX owes nothing.                                           *)
Fairness == /\ \A c \in Callers : SF_vars(~crashed /\ takePicture(c))
            /\ \A k \in Captures : SF_vars(~crashed /\ capturing(k))
            /\ \A t \in Threads : SF_vars(~crashed /\ run(t))

Spec == Init /\ [][Next]_vars
FairSpec == Spec /\ Fairness

-----------------------------------------------------------------------------
TypeOK ==
  /\ mtx \in Callers \cup Threads \cup {None}
  /\ m_state \in {"READY_S", "IREADY_S"}
  /\ pc \in [Callers -> {"idle", "stop", "ready", "reset", "wait", "hung"}]
  /\ shot \in [Callers -> Captures \cup {None}]
  /\ m_takePictureSem \in Nat /\ sem_EventComplete \in Nat
  /\ grab \in [Captures -> {"none", "spawned", "filling", "ending"}]
  /\ m_bufferStatus \in {"NONE_S", "EOF_S", "EOS_S"}
  /\ stream \in Seq(Captures \X {"EOF_S", "EOS_S"})
  /\ m_imgBuf \in Callers \cup {None}
  /\ thread \in [Threads -> {"none", "spawned", "waiting", "timedout", "notified", "firing",
                             "returning"}]
  /\ m_active \in BOOLEAN /\ m_bWait \in BOOLEAN
  /\ crashed \in BOOLEAN /\ mixed \in BOOLEAN
  /\ strays \subseteq Threads

(* A call that succeeds returns the picture of its own visitor: a frame    *)
(* that came too late for an earlier call is not taken for this one's,     *)
(* unless the captures overlap (camerastill.cpp:95-104).                   *)
OwnPicture ==
  [][\A c \in Callers :
       pc[c] = "wait" /\ pc'[c] = "idle" /\ m_takePictureSem' < m_takePictureSem
         => m_imgBuf = c \/ mixed]_vars

(* The camera is not switched off, and deleted, under a picture that is    *)
(* being taken, unless by a thread that a stop has missed or as captures   *)
(* overlap (lines 88-90, 126, 177-199).                                    *)
NotUnderCapture ==
  [][m_state = "IREADY_S" /\ m_state' = "READY_S" =>
       \/ mixed
       \/ \E t \in strays : thread[t] = "firing"
       \/ Underway = {}]_vars

(* takePicture holds mtx and waits for the Timer's mutex, which the        *)
(* callback that waits for mtx holds (lines 90 and 180).                   *)
LockInversion == /\ \E c \in Callers : pc[c] = "stop"
                 /\ \E t \in Threads : thread[t] = "firing"
Wedged == crashed \/ LockInversion \/ mtx \in Threads \/ \E c \in Callers : pc[c] = "hung"

(* takePicture, run inside the card handler, returns whether or not the    *)
(* camera gives a picture, unless in the states above.                     *)
TakePictureReturns == \A c \in Callers : (pc[c] # "idle") ~> (pc[c] = "idle" \/ Wedged)

(* The camera, once no picture is being taken, is switched off, whichever  *)
(* stops have been missed.                                                 *)
Quiet == Underway = {} /\ \A c \in Callers : pc[c] = "idle"
CameraReturned == (m_state = "IREADY_S" /\ Quiet) ~> (m_state = "READY_S" \/ ~Quiet \/ Wedged)
=============================================================================
