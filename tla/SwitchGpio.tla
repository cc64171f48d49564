----------------------------- MODULE SwitchGpio -----------------------------
(***************************************************************************)
(* One output pin with its timers: SwitchGpio (hardware/switchgpio.cpp),   *)
(* each Timer it allocates (tools/timer.cpp) and the timer's thread.  The  *)
(* relay, the two result LEDs and the network LED are such pins.           *)
(*                                                                         *)
(* Two locks are taken in opposite orders: off holds the pin's mtx while   *)
(* Timer::stop takes the timer's; a timer's thread holds the timer's mtx   *)
(* while cbOnTimer takes the pin's.                                        *)
(*                                                                         *)
(* on never stops an earlier timer, and cbOnTimer deletes whatever timer   *)
(* m_timer points to.  What a thread does with a deleted Timer is          *)
(* undefined; the outcomes taken here are that the memory is still intact, *)
(* or that it is the Timer allocated next, whose m_active is then cleared. *)
(* Time is abstracted: a wait may run out at any moment.  A Timer identity *)
(* is used again once nothing refers to it.                                *)
(***************************************************************************)
EXTENDS Naturals

CONSTANTS Users,    \* threads that call on and off
          Timers,   \* Timer objects in use at a time: a bound
          Uses,     \* the kinds of pin: what users call, and which Timers there are
          None

(* The relay and the result LEDs are only pulsed, the network LED only     *)
(* blinks (maindelegator.cpp:185, 195, 203, 204, 453).                     *)
ASSUME UsesAssumption ==
  /\ Uses \subseteq [calls : SUBSET {"pulse", "blink", "off"}, timers : SUBSET Timers]
  /\ \A k \in Uses : ~({"pulse", "blink"} \subseteq k.calls)
ASSUME NoneAssumption == None \notin Users \cup Timers

VARIABLES
  use,        \* this pin's kind, which never changes
  level,      \* the pin
  mtx,        \* SwitchGpio::mtx: the user that waits for a timer's mtx, or None
  m_timer,    \* SwitchGpio::m_timer
  thread,     \* where the thread of each timer is
  kind,       \* which of Timer::run and Timer::run_array it runs
  m_active, m_repeat,
  m_bWait,    \* Condition::m_bWait of timerCancel
  m_arr_index,
  deleted,    \* TRUE once the object is deleted
  overlapped  \* history: an on came before the timer of an earlier one ended it

timerVars == <<thread, kind, m_active, m_repeat, m_bWait, m_arr_index, deleted>>
vars == <<use, level, mtx, m_timer, timerVars, overlapped>>

(* {1000, 1000, 0}: two waits, after which the pin is written low, high.   *)
ArrLen == 2

(* A thread holds its timer's mtx from the return of timedwait until it    *)
(* waits again or ends: "firing" before the callback, "returning" after.   *)
HoldsTimerMtx(t) == thread[t] \in {"firing", "returning"}
Live(t) == thread[t] # "none"
Pending(t) == thread[t] \in {"spawned", "waiting", "timedout", "firing"}
TimerActive == m_timer # None /\ m_active[m_timer]

Init == /\ use \in Uses
        /\ level = "low"
        /\ mtx = None
        /\ m_timer = None
        /\ thread = [t \in Timers |-> "none"]
        /\ kind = [t \in Timers |-> "pulse"]
        /\ m_active = [t \in Timers |-> FALSE]
        /\ m_repeat = [t \in Timers |-> FALSE]
        /\ m_bWait = [t \in Timers |-> FALSE]
        /\ m_arr_index = [t \in Timers |-> 0]
        /\ deleted = [t \in Timers |-> FALSE]
        /\ overlapped = FALSE

-----------------------------------------------------------------------------
(* on(msec), on(arr, repeat): a new timer, started, then the pin high.     *)
Start(t, k) ==
  /\ ~Live(t) /\ m_timer # t
  /\ thread' = [thread EXCEPT ![t] = "spawned"]
  /\ kind' = [kind EXCEPT ![t] = k]
  /\ m_active' = [m_active EXCEPT ![t] = TRUE]
  /\ m_repeat' = [m_repeat EXCEPT ![t] = (k = "blink")]
  /\ m_bWait' = [m_bWait EXCEPT ![t] = FALSE]
  /\ m_arr_index' = [m_arr_index EXCEPT ![t] = 0]
  /\ deleted' = [deleted EXCEPT ![t] = FALSE]

On(t, k) ==
  /\ k \in use.calls
  /\ mtx = None
  /\ Start(t, k)
  /\ m_timer' = t
  /\ level' = "high"
  /\ overlapped' = (overlapped \/ \E o \in Timers : Pending(o))
  /\ UNCHANGED mtx

(* off() with no active timer: only the pin.                               *)
OffIdle ==
  /\ "off" \in use.calls
  /\ mtx = None
  /\ ~TimerActive
  /\ level' = "low"
  /\ UNCHANGED <<mtx, m_timer, timerVars, overlapped>>

(* off() with an active timer: it holds mtx when it calls stop ...         *)
OffLock(u) ==
  /\ "off" \in use.calls
  /\ mtx = None
  /\ TimerActive
  /\ mtx' = u
  /\ UNCHANGED <<level, m_timer, timerVars, overlapped>>

(* Mutant of OffStop: mtx is not unlocked.                                 *)
OffStop_KeepsMutex(u) ==
  /\ mtx = u
  /\ ~HoldsTimerMtx(m_timer)
  /\ m_active' = [m_active EXCEPT ![m_timer] = FALSE]
  /\ m_repeat' = [m_repeat EXCEPT ![m_timer] = FALSE]
  /\ thread' = [thread EXCEPT ![m_timer] = IF @ = "waiting" THEN "notified" ELSE @]
  /\ level' = "low"
  /\ UNCHANGED <<mtx, m_timer, kind, m_bWait, m_arr_index, deleted, overlapped>>

(* ... which needs the timer's mtx; notify_one reaches a thread only if it *)
(* is in the wait at that moment.                                          *)
OffStop(u) ==
  /\ mtx = u
  /\ ~HoldsTimerMtx(m_timer)
  /\ m_active' = [m_active EXCEPT ![m_timer] = FALSE]
  /\ m_repeat' = [m_repeat EXCEPT ![m_timer] = FALSE]
  /\ m_bWait' = [m_bWait EXCEPT ![m_timer] = FALSE]
  /\ thread' = [thread EXCEPT ![m_timer] =
                  IF m_bWait[m_timer] /\ @ = "waiting" THEN "notified" ELSE @]
  /\ level' = "low"
  /\ mtx' = None
  /\ UNCHANGED <<m_timer, kind, m_arr_index, deleted, overlapped>>

-----------------------------------------------------------------------------
(* The thread of timer t: Timer::run and Timer::run_array.                 *)
Wait(t) ==
  /\ thread[t] = "spawned"
  /\ thread' = [thread EXCEPT ![t] = "waiting"]
  /\ m_bWait' = [m_bWait EXCEPT ![t] = TRUE]
  /\ UNCHANGED <<level, mtx, m_timer, kind, m_active, m_repeat, m_arr_index, deleted,
                 overlapped>>

(* timedwait gives up; from here on a notify_one no longer reaches it.     *)
TimeOut(t) ==
  /\ thread[t] = "waiting"
  /\ thread' = [thread EXCEPT ![t] = "timedout"]
  /\ UNCHANGED <<level, mtx, m_timer, kind, m_active, m_repeat, m_bWait, m_arr_index,
                 deleted, overlapped>>

(* It returns ETIMEDOUT with the timer's mtx locked.                       *)
Fire(t) ==
  /\ thread[t] = "timedout"
  /\ thread' = [thread EXCEPT ![t] = "firing"]
  /\ UNCHANGED <<level, mtx, m_timer, kind, m_active, m_repeat, m_bWait, m_arr_index,
                 deleted, overlapped>>

(* It returns 0: the thread takes this for a stop and ends.                *)
Stopped(t) ==
  /\ thread[t] = "notified"
  /\ thread' = [thread EXCEPT ![t] = "none"]
  /\ m_active' = [m_active EXCEPT ![t] = FALSE]
  /\ UNCHANGED <<level, mtx, m_timer, kind, m_repeat, m_bWait, m_arr_index, deleted,
                 overlapped>>

(* Mutant of cbOnTimer: it only cleans up.                                 *)
cbOnTimer_NoWrite(t) ==
  /\ thread[t] = "firing" /\ kind[t] = "pulse"
  /\ mtx = None
  /\ deleted' = [o \in Timers |-> deleted[o] \/ o = m_timer]
  /\ m_timer' = None
  /\ thread' = [thread EXCEPT ![t] = "returning"]
  /\ UNCHANGED <<level, mtx, kind, m_active, m_repeat, m_bWait, m_arr_index, overlapped>>
(* The callback of a pulse, under both locks.                              *)
cbOnTimer(t) ==
  /\ thread[t] = "firing" /\ kind[t] = "pulse"
  /\ mtx = None
  /\ level' = "low"
  /\ deleted' = [o \in Timers |-> deleted[o] \/ o = m_timer]
  /\ m_timer' = None
  /\ thread' = [thread EXCEPT ![t] = "returning"]
  /\ UNCHANGED <<mtx, kind, m_active, m_repeat, m_bWait, m_arr_index, overlapped>>

(* Mutants of RunReturns: the clean-up of cbOnTimer is done, or done again,*)
(* when the thread has given up the pin's mtx.                             *)
RunReturns_Deletes(t) ==
  /\ thread[t] = "returning"
  /\ thread' = [thread EXCEPT ![t] = "none"]
  /\ deleted' = [o \in Timers |-> deleted[o] \/ o = m_timer]
  /\ m_timer' = None
  /\ UNCHANGED <<level, mtx, kind, m_active, m_repeat, m_bWait, m_arr_index, overlapped>>
RunReturns_Writes(t) ==
  /\ thread[t] = "returning"
  /\ thread' = [thread EXCEPT ![t] = "none"]
  /\ level' = "low"
  /\ m_active' = [m_active EXCEPT ![t] = FALSE]
  /\ UNCHANGED <<mtx, m_timer, kind, m_repeat, m_bWait, m_arr_index, deleted, overlapped>>

(* m_active = false; mtx.unlock(): on a deleted Timer this goes to free    *)
(* memory, or to the Timer that has been allocated since.                  *)
RunReturns(t) ==
  /\ thread[t] = "returning"
  /\ thread' = [thread EXCEPT ![t] = "none"]
  /\ \/ m_active' = [m_active EXCEPT ![t] = FALSE]
     \/ /\ deleted[t] /\ m_timer # None
        /\ m_active' = [m_active EXCEPT ![m_timer] = FALSE]
  /\ UNCHANGED <<level, mtx, m_timer, kind, m_repeat, m_bWait, m_arr_index, deleted,
                 overlapped>>

(* Mutant of cbOnArrayTimer: a stopped timer does not end.                 *)
cbOnArrayTimer_NoEnd(t) ==
  LET next == m_arr_index[t] + 1 IN
  /\ thread[t] = "firing" /\ kind[t] = "blink"
  /\ level' = IF m_arr_index[t] % 2 = 1 THEN "high" ELSE "low"
  /\ thread' = [thread EXCEPT ![t] = "waiting"]
  /\ m_bWait' = [m_bWait EXCEPT ![t] = TRUE]
  /\ m_arr_index' = [m_arr_index EXCEPT ![t] = next % ArrLen]
  /\ UNCHANGED <<mtx, m_timer, kind, m_active, m_repeat, deleted, overlapped>>

(* cbOnArrayTimer takes no lock; then the next element, from the start if  *)
(* the timer still repeats.                                                *)
cbOnArrayTimer(t) ==
  LET next == m_arr_index[t] + 1 IN
  /\ thread[t] = "firing" /\ kind[t] = "blink"
  /\ level' = IF m_arr_index[t] % 2 = 1 THEN "high" ELSE "low"
  /\ IF next = ArrLen /\ ~m_repeat[t]
     THEN /\ thread' = [thread EXCEPT ![t] = "none"]
          /\ m_active' = [m_active EXCEPT ![t] = FALSE]
          /\ UNCHANGED <<m_arr_index, m_bWait>>
     ELSE /\ thread' = [thread EXCEPT ![t] = "waiting"]
          /\ m_bWait' = [m_bWait EXCEPT ![t] = TRUE]
          /\ m_arr_index' = [m_arr_index EXCEPT ![t] = next % ArrLen]
          /\ UNCHANGED m_active
  /\ UNCHANGED <<mtx, m_timer, kind, m_repeat, deleted, overlapped>>

-----------------------------------------------------------------------------
TimerThread(t) == \/ Wait(t) \/ TimeOut(t) \/ Fire(t) \/ Stopped(t)
                  \/ cbOnTimer(t) \/ RunReturns(t) \/ cbOnArrayTimer(t)

User(u) == \/ \E t \in use.timers, k \in {"pulse", "blink"} : On(t, k)
           \/ OffIdle \/ OffLock(u) \/ OffStop(u)

Next == /\ (\E u \in Users : User(u)) \/ (\E t \in Timers : TimerThread(t))
        /\ UNCHANGED use

(* A thread that can run does; a wait runs out; a thread that wants a mutex*)
(* gets it if it is free again and again (a timer's is, for the whole time *)
(* of each of its waits), and can do nothing else until then.              *)
Fairness == /\ \A t \in Timers : SF_vars(TimerThread(t) /\ UNCHANGED use)
            /\ \A u \in Users : SF_vars(OffStop(u) /\ UNCHANGED use)

Spec == Init /\ [][Next]_vars
FairSpec == Spec /\ Fairness

-----------------------------------------------------------------------------
TypeOK == /\ use \in Uses
          /\ level \in {"low", "high"}
          /\ mtx \in Users \cup {None}
          /\ m_timer \in Timers \cup {None}
          /\ thread \in [Timers -> {"none", "spawned", "waiting", "timedout", "notified",
                                    "firing", "returning"}]
          /\ kind \in [Timers -> {"pulse", "blink"}]
          /\ m_active \in [Timers -> BOOLEAN]
          /\ m_repeat \in [Timers -> BOOLEAN]
          /\ m_bWait \in [Timers -> BOOLEAN]
          /\ m_arr_index \in [Timers -> 0 .. ArrLen - 1]
          /\ deleted \in [Timers -> BOOLEAN]
          /\ overlapped \in BOOLEAN

(* A pin raised by on(msec) always has a thread that will still lower it,  *)
(* however pulses overlap and whatever off cancels (switchgpio.cpp:37-62); *)
(* and delete my->m_timer (switchgpio.cpp:24) takes the timer from under a *)
(* thread that has still to run only if pulses overlapped.                 *)
PulseHasTimer ==
  /\ level = "high" /\ "pulse" \in use.calls => \E t \in Timers : Pending(t) /\ kind[t] = "pulse"
  /\ \A t \in Timers : deleted[t] /\ Pending(t) => overlapped

(* As long as pulses do not overlap, only off or its own timer ends one:   *)
(* no thread left over from an earlier pulse cuts it short.                *)
PulseIntact ==
  [][level = "high" /\ level' = "low" /\ "pulse" \in use.calls =>
       \/ overlapped
       \/ thread' = thread \/ mtx # None                             \* off
       \/ m_timer # None /\ thread[m_timer] = "firing"              \* its timer
  ]_vars

(* off holds the pin's mtx and waits for the mtx of a timer whose callback *)
(* waits for the pin's: neither ever returns (switchgpio.cpp:59 against    *)
(* tools/timer.cpp:78).                                                    *)
LockInversion == /\ mtx # None
                 /\ thread[m_timer] = "firing" /\ kind[m_timer] = "pulse"

(* Every pulse ends (the door relay, which nothing switches off, is opened *)
(* again), unless off has met the callback in that state.                  *)
PulseEnds == (level = "high" /\ "pulse" \in use.calls) ~> (level = "low" \/ LockInversion)

(* off returns, except in that one state: the notification it may lose and *)
(* the repeating timer cannot hold it up.                                  *)
OffReturns == (mtx # None) ~> (mtx = None \/ LockInversion)

(* A blinking timer that was stopped ends, although its notification may   *)
(* come when the thread is not in the wait.                                *)
StoppedBlinkEnds ==
  \A t \in Timers : (Live(t) /\ kind[t] = "blink" /\ ~m_repeat[t]) ~> ~Live(t)
=============================================================================
