-------------------------- MODULE SwitchGpioProofs --------------------------
(***************************************************************************)
(* Theorems about SwitchGpio for any number of users, timers and kinds of  *)
(* pin: typing, the timer a raised pin waits for, who may lower it, and    *)
(* the timer that off relies on.                                           *)
(***************************************************************************)
EXTENDS SwitchGpio, TLAPS

(* On a pin that is pulsed every timer runs Timer::run.                    *)
KindInv == "pulse" \in use.calls => \A t \in Timers : kind[t] = "pulse"

(* Unless pulses overlap, the timer that has still to run its callback is  *)
(* the one m_timer points to.                                              *)
OwnTimer == ~overlapped => \A t \in Timers : Pending(t) => m_timer = t

(* m_timer never dangles; and it is there as long as off waits for the     *)
(* mutex of the timer it has seen active (switchgpio.cpp:24, 25, 57-61).   *)
OffHasTimer ==
  /\ m_timer # None => ~deleted[m_timer]
  /\ mtx # None => m_timer # None

IInv == TypeOK /\ KindInv /\ OwnTimer /\ OffHasTimer /\ PulseHasTimer

-----------------------------------------------------------------------------
(* The invariant holds initially.                                          *)
LEMMA InitIInv == Init => IInv
<1> SUFFICES ASSUME Init PROVE IInv
  OBVIOUS
<1> USE DEF Init
<1>1. TypeOK
  <2>1. m_arr_index \in [Timers -> 0 .. ArrLen - 1]
    BY DEF ArrLen
  <2>2. /\ thread \in [Timers -> {"none", "spawned", "waiting", "timedout", "notified",
                                 "firing", "returning"}]
        /\ kind \in [Timers -> {"pulse", "blink"}]
        /\ m_active \in [Timers -> BOOLEAN] /\ m_repeat \in [Timers -> BOOLEAN]
        /\ m_bWait \in [Timers -> BOOLEAN] /\ deleted \in [Timers -> BOOLEAN]
    OBVIOUS
  <2>3. use \in Uses /\ level \in {"low", "high"} /\ overlapped \in BOOLEAN
    BY Zenon
  <2>4. mtx \in Users \cup {None} /\ m_timer \in Timers \cup {None}
    OBVIOUS
  <2>5. QED
    BY ONLY <2>1, <2>2, <2>3, <2>4 DEF TypeOK
<1>2. KindInv /\ OwnTimer /\ OffHasTimer /\ PulseHasTimer
  BY DEF KindInv, OwnTimer, OffHasTimer, PulseHasTimer, Pending
<1>3. QED
  BY <1>1, <1>2 DEF IInv

(* Typing is preserved.                                                    *)
LEMMA TypeStep == TypeOK /\ [Next]_vars => TypeOK'
<1> SUFFICES ASSUME TypeOK, [Next]_vars PROVE TypeOK'
  OBVIOUS
<1> USE UsesAssumption DEF TypeOK
<1>0. use' = use
  BY DEF Next, vars
<1>1. ASSUME NEW t \in use.timers, NEW k \in {"pulse", "blink"}, On(t, k) PROVE TypeOK'
  <2>1. t \in Timers
    OBVIOUS
  <2>2. m_arr_index' \in [Timers -> 0 .. ArrLen - 1]
    BY <1>1, <2>1 DEF On, Start, ArrLen
  <2>3. QED
    BY <1>0, <1>1, <2>1, <2>2 DEF On, Start
<1>2. CASE OffIdle
  BY <1>0, <1>2 DEF OffIdle, timerVars
<1>3. ASSUME NEW u \in Users, OffLock(u) PROVE TypeOK'
  BY <1>0, <1>3 DEF OffLock, timerVars
<1>4. ASSUME NEW u \in Users, OffStop(u) PROVE TypeOK'
  BY <1>0, <1>4 DEF OffStop
<1>5. ASSUME NEW t \in Timers, Wait(t) \/ TimeOut(t) \/ Fire(t) \/ Stopped(t) PROVE TypeOK'
  BY <1>0, <1>5 DEF Wait, TimeOut, Fire, Stopped
<1>6. ASSUME NEW t \in Timers, cbOnTimer(t) PROVE TypeOK'
  BY <1>0, <1>6 DEF cbOnTimer
<1>7. ASSUME NEW t \in Timers, RunReturns(t) PROVE TypeOK'
  BY <1>0, <1>7 DEF RunReturns
<1>8. ASSUME NEW t \in Timers, cbOnArrayTimer(t) PROVE TypeOK'
  <2>1. m_arr_index[t] + 1 \in Nat /\ (m_arr_index[t] + 1) % ArrLen \in 0 .. ArrLen - 1
    BY DEF ArrLen
  <2>2. m_arr_index' \in [Timers -> 0 .. ArrLen - 1]
    BY <1>8, <2>1 DEF cbOnArrayTimer
  <2>3. /\ level' \in {"low", "high"}
        /\ thread' \in [Timers -> {"none", "spawned", "waiting", "timedout", "notified",
                                  "firing", "returning"}]
        /\ m_active' \in [Timers -> BOOLEAN] /\ m_bWait' \in [Timers -> BOOLEAN]
    BY <1>8 DEF cbOnArrayTimer
  <2>4. QED
    BY <1>0, <1>8, <2>2, <2>3 DEF cbOnArrayTimer
<1>9. CASE UNCHANGED vars
  BY <1>9 DEF vars, timerVars
<1>10. QED
  BY <1>1, <1>2, <1>3, <1>4, <1>5, <1>6, <1>7, <1>8, <1>9 DEF Next, User, TimerThread

-----------------------------------------------------------------------------
(* A pin's kind of use stays, and with it the kind of its timers           *)
(* (switchgpio.cpp:37-54).                                                 *)
LEMMA KindStep == TypeOK /\ KindInv /\ [Next]_vars => KindInv'
<1> SUFFICES ASSUME TypeOK, KindInv, [Next]_vars, "pulse" \in use.calls
             PROVE  \A t \in Timers : kind'[t] = "pulse"
  BY DEF KindInv, Next, vars
<1>1. \A t \in Timers : kind[t] = "pulse"
  BY DEF KindInv
<1>2. "blink" \notin use.calls
  BY UsesAssumption DEF TypeOK
<1>3. ASSUME NEW t \in use.timers, NEW k \in {"pulse", "blink"}, On(t, k)
      PROVE  \A o \in Timers : kind'[o] = "pulse"
  <2>1. k = "pulse" /\ kind' = [kind EXCEPT ![t] = k]
    BY <1>2, <1>3 DEF On, Start
  <2>2. QED
    BY <1>1, <2>1 DEF TypeOK
<1>4. CASE ~(\E t \in use.timers, k \in {"pulse", "blink"} : On(t, k))
  <2>1. kind' = kind
    BY <1>4 DEF Next, User, TimerThread, OffIdle, OffLock, OffStop, Wait, TimeOut, Fire, Stopped,
       cbOnTimer, RunReturns, cbOnArrayTimer, vars, timerVars
  <2>2. QED
    BY <1>1, <2>1
<1>5. QED
  BY <1>3, <1>4

(* What a step does to the timers that have still to run their callback:   *)
(* a new one is started under the pin's mutex, or none is added.           *)
Fresh(t) == /\ mtx = None /\ m_timer' = t /\ ~deleted'[t]
            /\ Pending(t)' /\ level' = "high"
            /\ overlapped' = (overlapped \/ \E o \in Timers : Pending(o))
            /\ \A o \in Timers : o # t => /\ Pending(o)' = Pending(o)
                                          /\ deleted'[o] = deleted[o]

(* A call of on takes a Timer that nothing refers to, and gives mtx back.  *)
LEMMA OnStarts ==
  ASSUME TypeOK, NEW t \in use.timers, NEW k \in {"pulse", "blink"}, On(t, k)
  PROVE  t \in Timers /\ Fresh(t) /\ kind'[t] = k /\ mtx' = None
<1>1. t \in Timers
  BY UsesAssumption DEF TypeOK
<1>2. thread' = [thread EXCEPT ![t] = "spawned"] /\ deleted' = [deleted EXCEPT ![t] = FALSE]
  BY DEF On, Start
<1>3. Pending(t)' /\ ~deleted'[t]
  BY <1>1, <1>2 DEF TypeOK, Pending
<1>4. \A o \in Timers : o # t => Pending(o)' = Pending(o) /\ deleted'[o] = deleted[o]
  BY <1>2 DEF TypeOK, Pending
<1>5. QED
  BY <1>1, <1>3, <1>4 DEF On, Start, Fresh, TypeOK

(* No other step starts a Timer, or makes m_timer one that it was not.     *)
LEMMA NoneStarts ==
  ASSUME TypeOK, [Next]_vars, ~(\E t \in use.timers, k \in {"pulse", "blink"} : On(t, k))
  PROVE  /\ overlapped' = overlapped
         /\ \A t \in Timers : Pending(t)' => Pending(t)
         /\ \/ m_timer' = m_timer /\ deleted' = deleted
            \/ \E t \in Timers : cbOnTimer(t)
<1>1. overlapped' = overlapped
  BY DEF Next, User, TimerThread, OffIdle, OffLock, OffStop, Wait, TimeOut, Fire, Stopped,
     cbOnTimer, RunReturns, cbOnArrayTimer, vars, timerVars
<1>2. (m_timer' = m_timer /\ deleted' = deleted) \/ \E t \in Timers : cbOnTimer(t)
  BY DEF Next, User, TimerThread, OffIdle, OffLock, OffStop, Wait, TimeOut, Fire, Stopped,
     RunReturns, cbOnArrayTimer, vars, timerVars
<1>3. ASSUME NEW t \in Timers, Pending(t)' PROVE Pending(t)
  BY <1>3 DEF Next, User, TimerThread, OffIdle, OffLock, OffStop, Wait, TimeOut, Fire, Stopped,
     cbOnTimer, RunReturns, cbOnArrayTimer, vars, timerVars, Pending, TypeOK
<1>4. QED
  BY <1>1, <1>2, <1>3

-----------------------------------------------------------------------------
(* The callback that clears m_timer is then the last one pending, unless   *)
(* pulses overlap (switchgpio.cpp:20-27).                                  *)
LEMMA OwnStep == TypeOK /\ OwnTimer /\ [Next]_vars => OwnTimer'
<1> SUFFICES ASSUME TypeOK, OwnTimer, [Next]_vars, ~overlapped', NEW o \in Timers, Pending(o)'
             PROVE  m_timer' = o
  BY DEF OwnTimer
<1>1. ASSUME NEW t \in use.timers, NEW k \in {"pulse", "blink"}, On(t, k) PROVE m_timer' = o
  BY <1>1, OnStarts DEF Fresh
<1>2. CASE ~(\E t \in use.timers, k \in {"pulse", "blink"} : On(t, k))
  <2>1. m_timer = o /\ Pending(o) /\ ~overlapped
    BY <1>2, NoneStarts DEF OwnTimer
  <2>2. ASSUME NEW t \in Timers, cbOnTimer(t) PROVE FALSE
    <3>1. Pending(t) /\ ~Pending(t)'
      BY <2>2 DEF cbOnTimer, Pending, TypeOK
    <3>2. t = o
      BY <2>1, <3>1 DEF OwnTimer
    <3>3. QED
      BY <3>1, <3>2
  <2>3. QED
    BY <1>2, <2>1, <2>2, NoneStarts
<1>3. QED
  BY <1>1, <1>2

(* Only the callback deletes, and it clears the pointer too; both it and   *)
(* on wait while off is in stop (switchgpio.cpp:20-62).                    *)
LEMMA OffStep == TypeOK /\ OffHasTimer /\ [Next]_vars => OffHasTimer'
<1> SUFFICES ASSUME TypeOK, OffHasTimer, [Next]_vars PROVE OffHasTimer'
  OBVIOUS
<1> USE NoneAssumption
<1>1. ASSUME NEW t \in use.timers, NEW k \in {"pulse", "blink"}, On(t, k) PROVE OffHasTimer'
  BY <1>1, OnStarts DEF Fresh, OffHasTimer
<1>2. ASSUME NEW t \in Timers, cbOnTimer(t) PROVE OffHasTimer'
  BY <1>2 DEF cbOnTimer, OffHasTimer
<1>3. CASE /\ ~(\E t \in use.timers, k \in {"pulse", "blink"} : On(t, k))
           /\ ~(\E t \in Timers : cbOnTimer(t))
  <2>1. m_timer' = m_timer /\ deleted' = deleted
    BY <1>3, NoneStarts
  <2>2. mtx' = mtx \/ mtx' = None \/ m_timer # None
    BY <1>3 DEF Next, User, TimerThread, OffIdle, OffLock, TimerActive, OffStop, Wait, TimeOut,
       Fire, Stopped, RunReturns, cbOnArrayTimer, vars, timerVars
  <2>3. QED
    BY <2>1, <2>2 DEF OffHasTimer
<1>4. QED
  BY <1>1, <1>2, <1>3

(* A pulsed pin is lowered by whatever ends its last pending timer.        *)
LEMMA PulseStep ==
  TypeOK /\ KindInv /\ OwnTimer /\ OffHasTimer /\ PulseHasTimer /\ [Next]_vars
    => PulseHasTimer'
<1> SUFFICES ASSUME TypeOK, KindInv, OwnTimer, OffHasTimer, PulseHasTimer, [Next]_vars
             PROVE  PulseHasTimer'
  OBVIOUS
<1> USE DEF PulseHasTimer
<1>0. use' = use /\ KindInv'
  BY KindStep DEF Next, vars
<1>1. ASSUME NEW t \in use.timers, NEW k \in {"pulse", "blink"}, On(t, k) PROVE PulseHasTimer'
  <2>1. t \in Timers /\ Fresh(t) /\ kind'[t] = k
    BY <1>1, OnStarts
  <2>2. "pulse" \in use.calls => kind'[t] = "pulse"
    BY <1>0, <2>1 DEF KindInv
  <2>3. QED
    BY <1>0, <2>1, <2>2 DEF Fresh
<1>2. ASSUME NEW t \in Timers, cbOnTimer(t) PROVE PulseHasTimer'
  <2>1. level' = "low" /\ overlapped' = overlapped
    BY <1>2 DEF cbOnTimer
  <2>2. Pending(t) /\ ~Pending(t)' /\ \A o \in Timers : o # t => Pending(o)' = Pending(o)
    BY <1>2 DEF cbOnTimer, Pending, TypeOK
  <2>3. ~overlapped => m_timer = t
    BY <2>2 DEF OwnTimer
  <2>4. \A o \in Timers : deleted'[o] => deleted[o] \/ o = m_timer
    BY <1>2 DEF cbOnTimer
  <2>5. QED
    BY <2>1, <2>2, <2>3, <2>4
<1>3. CASE /\ ~(\E t \in use.timers, k \in {"pulse", "blink"} : On(t, k))
           /\ ~(\E t \in Timers : cbOnTimer(t))
  <2>1. /\ overlapped' = overlapped /\ deleted' = deleted
        /\ \A t \in Timers : Pending(t)' => Pending(t)
    BY <1>3, NoneStarts
  <2>2. ASSUME level' = "high", "pulse" \in use.calls
        PROVE  level = "high" /\ \A t \in Timers : Pending(t) => Pending(t)'
    <3>1. \A t \in Timers : kind[t] = "pulse"
      BY <2>2 DEF KindInv
    <3>2. level = "high" /\ ~(\E u \in Users : OffStop(u))
      BY <1>3, <2>2, <3>1 DEF Next, User, TimerThread, OffIdle, OffLock, OffStop, Wait, TimeOut,
         Fire, Stopped, RunReturns, cbOnArrayTimer, vars, timerVars
    <3>3. ASSUME NEW t \in Timers, Pending(t) PROVE Pending(t)'
      BY <1>3, <3>1, <3>2, <3>3 DEF Next, User, TimerThread, OffIdle, OffLock, Wait, TimeOut,
         Fire, Stopped, RunReturns, cbOnArrayTimer, vars, timerVars, Pending, TypeOK
    <3>4. QED
      BY <3>2, <3>3
  <2>3. "pulse" \in use'.calls => \A t \in Timers : kind'[t] = "pulse"
    BY <1>0 DEF KindInv
  <2>4. QED
    BY <1>0, <2>1, <2>2, <2>3
<1>4. QED
  BY <1>1, <1>2, <1>3

-----------------------------------------------------------------------------
(* The invariant holds in every reachable state.                           *)
LEMMA Invariance == Spec => []IInv
<1>1. IInv /\ [Next]_vars => IInv'
  BY TypeStep, KindStep, OwnStep, OffStep, PulseStep DEF IInv
<1>2. QED
  BY InitIInv, <1>1, PTL DEF Spec

(* The variables keep their types, what a thread writes into a deleted     *)
(* Timer included (timer.cpp:78-85).                                       *)
THEOREM Typing == Spec => []TypeOK
<1>1. IInv => TypeOK
  BY DEF IInv
<1>2. QED
  BY Invariance, <1>1, PTL

(* A raised relay or result LED always has a thread that will lower it,    *)
(* and a timer is deleted under its own thread only if pulses overlap      *)
(* (switchgpio.cpp:24, 37-62).                                             *)
THEOREM PulsesHaveTimers == Spec => []PulseHasTimer
<1>1. IInv => PulseHasTimer
  BY DEF IInv
<1>2. QED
  BY Invariance, <1>1, PTL

(* What off dereferences is a Timer that has not been deleted, also after  *)
(* it has waited for that timer's mutex (switchgpio.cpp:57-61).            *)
THEOREM OffUsesALiveTimer == Spec => []OffHasTimer
<1>1. IInv => OffHasTimer
  BY DEF IInv
<1>2. QED
  BY Invariance, <1>1, PTL

(* A pulse is ended by off or by its own timer, never by the thread of an  *)
(* earlier one, unless pulses overlap (switchgpio.cpp:20-27).              *)
THEOREM PulsesStayIntact == Spec => PulseIntact
<1> DEFINE Intact == level = "high" /\ level' = "low" /\ "pulse" \in use.calls =>
                       \/ overlapped
                       \/ thread' = thread \/ mtx # None
                       \/ m_timer # None /\ thread[m_timer] = "firing"
<1>1. ASSUME IInv, [Next]_vars PROVE Intact
  <2> SUFFICES ASSUME level = "high", level' = "low", "pulse" \in use.calls, ~overlapped,
                      thread' # thread, mtx = None
               PROVE  m_timer # None /\ thread[m_timer] = "firing"
    OBVIOUS
  <2> USE <1>1, NoneAssumption
  <2>1. \A t \in Timers : kind[t] = "pulse"
    BY DEF IInv, KindInv
  <2>2. PICK t \in Timers : cbOnTimer(t)
    BY <2>1 DEF Next, User, TimerThread, On, OffIdle, OffLock, OffStop, Wait, TimeOut, Fire,
       Stopped, RunReturns, cbOnArrayTimer, vars, timerVars
  <2>3. Pending(t) /\ thread[t] = "firing"
    BY <2>2 DEF cbOnTimer, Pending
  <2>4. m_timer = t
    BY <2>3 DEF IInv, OwnTimer
  <2>5. QED
    BY <2>3, <2>4
<1>2. QED
  BY Invariance, <1>1, PTL DEF Spec, PulseIntact
=============================================================================
