-------------------------------- MODULE Gate --------------------------------
(***************************************************************************)
(* The gate: MainDelegator (maindelegator.cpp) and the threads that run    *)
(* its code without a lock - the constructor's, those that read cards      *)
(* (SerialRfid::run, started here or by the housekeeping, and the debug    *)
(* console of FifoService) and the housekeeping timer's.                   *)
(*                                                                         *)
(* What a card may do is decided in AccessRules, what getInfo,             *)
(* updateLocalDB, insert and upload do is in EmployeeDb and TimeSheet, the *)
(* pins are SwitchGpio: here an LED is what it was last told.  A request   *)
(* or a pin may hold its caller for ever.  Using a component that the      *)
(* constructor has not built yet ends the program; of the player, whose    *)
(* functions do not use their object, it is the device that is used, by    *)
(* the thread of a sound.  Time is abstracted: the timer may tick, and a   *)
(* pulse end, at any moment.                                               *)
(***************************************************************************)
EXTENDS Integers, Sequences, FiniteSets

CONSTANTS Rfids,     \* threads that SerialRfid::start may start
          Consoles,  \* the thread of FifoService, if DEBUG_SERVICE is set
          MayHang,   \* threads that a request or a pin may hold for ever
          UseLocalDB,
          UseSound   \* m_bSound

ASSUME ThreadsAssumption ==
  ({"main", "timer"} \cap (Rfids \cup Consoles)) = {} /\ Rfids \cap Consoles = {}
ASSUME UseLocalDBAssumption == UseLocalDB \in BOOLEAN
ASSUME UseSoundAssumption == UseSound \in BOOLEAN

CardThreads == Rfids \cup Consoles
Threads == CardThreads \cup {"main", "timer"}

ASSUME MayHangAssumption == MayHang \subseteq Threads

VARIABLES
  stage,   \* the step of the constructor, an index of Stages
  pc,      \* where each thread that reads cards or keeps house is
  count,   \* cbTimer's
  m_bProcessingRfidData, m_serialRfidRuning, m_bTimeAvailable, m_bNetworkAvailable,
  bInitialized,  \* displayNetworkStatus's
  disp,    \* each thread's place in displayNetworkStatus and its argument
  shown,   \* what the listener and the yellow LED have been told last
  orphan,  \* a blinking timer of the yellow LED that nothing points to
  bServerActive,  \* onData's: -1 unknown, 0 dead, 1 alive
  lit,     \* the green and red LED and the relay
  sounding, \* a sound's thread has been started without the device
  hung, crashed,
  overlapped, \* history: a card came while another one was processed
  raced       \* history: two threads changed the network status at once

card == <<m_bProcessingRfidData, bServerActive, lit, overlapped>>
house == <<count, m_serialRfidRuning, m_bTimeAvailable>>
network == <<m_bNetworkAvailable, bInitialized, disp, shown, orphan, raced>>
program == <<stage, sounding, hung, crashed>>
vars == <<pc, card, house, network, program>>

(* Mutant: the timer is started before what it uses is built.              *)
Stages_StartFirst ==
  <<"open", "network", "employees", "start", "sheets", "camera", "player", "time",
    "done">>
(* The constructor's steps, in order.                                      *)
Stages ==
  <<"open", "network", "employees", "sheets", "camera", "player", "start", "time", "done">>
Built(c) == \E i \in 1 .. stage - 1 : Stages[i] = c

(* A thread is outside displayNetworkStatus, or at a step of it.           *)
Outside == <<>>
At(t, step) == disp[t] # Outside /\ disp[t][1] = step

(* A thread takes a step of its own: it is in no call that another action  *)
(* models.                                                                 *)
Runs(t) == ~crashed /\ t \notin hung /\ disp[t] = Outside

(* The members are not initialised: m_bTimeAvailable, m_bNetworkAvailable. *)
Init == /\ stage = 1
        /\ pc = [t \in CardThreads \cup {"timer"} |-> "absent"]
        /\ count = 0
        /\ m_bProcessingRfidData = FALSE
        /\ m_serialRfidRuning = FALSE
        /\ m_bTimeAvailable \in BOOLEAN /\ m_bNetworkAvailable \in BOOLEAN
        /\ bInitialized = FALSE
        /\ disp = [t \in Threads |-> Outside]
        /\ shown = "nothing" /\ orphan = FALSE
        /\ bServerActive = [t \in CardThreads |-> -1]
        /\ lit = {}
        /\ sounding = FALSE /\ hung = {} /\ crashed = FALSE
        /\ overlapped = FALSE /\ raced = FALSE

(* A request without an answer, or SwitchGpio::off in its lock inversion.  *)
Hangs(t) == /\ Runs(t) /\ t \in MayHang
            /\ hung' = hung \cup {t}
            /\ UNCHANGED <<stage, pc, card, house, network, sounding, crashed>>

-----------------------------------------------------------------------------
(* displayNetworkStatus, called by thread t.                               *)
Display(t, v) == /\ disp' = [disp EXCEPT ![t] = <<"check", v>>]
                 /\ UNCHANGED <<m_bNetworkAvailable, bInitialized, shown, orphan, raced>>

Check(t) ==
  /\ ~crashed /\ At(t, "check")
  /\ IF ~bInitialized \/ disp[t][2] # m_bNetworkAvailable
     THEN /\ disp' = [disp EXCEPT ![t][1] = "tell"]
          /\ raced' = (raced \/ \E o \in Threads : At(o, "tell") \/ At(o, "store"))
          /\ UNCHANGED bInitialized
     ELSE /\ disp' = [disp EXCEPT ![t] = Outside]
          /\ bInitialized' = TRUE
          /\ UNCHANGED raced
  /\ UNCHANGED <<m_bNetworkAvailable, shown, orphan, pc, card, house, program>>

(* The message, and the yellow LED: a second on loses the first's timer.   *)
Tell(t) ==
  /\ ~crashed /\ At(t, "tell")
  /\ disp' = [disp EXCEPT ![t][1] = "store"]
  /\ shown' = IF disp[t][2] THEN "ON" ELSE "OFF"
  /\ orphan' = (orphan \/ (~disp[t][2] /\ shown = "OFF"))
  /\ UNCHANGED <<m_bNetworkAvailable, bInitialized, raced, pc, card, house, program>>

(* Mutant: what is displayed is not remembered.                            *)
Store_Forgotten(t) ==
  /\ ~crashed /\ At(t, "store")
  /\ disp' = [disp EXCEPT ![t] = Outside]
  /\ bInitialized' = TRUE
  /\ UNCHANGED <<m_bNetworkAvailable, shown, orphan, raced, pc, card, house, program>>

Store(t) ==
  /\ ~crashed /\ At(t, "store")
  /\ disp' = [disp EXCEPT ![t] = Outside]
  /\ m_bNetworkAvailable' = disp[t][2]
  /\ bInitialized' = TRUE
  /\ UNCHANGED <<shown, orphan, raced, pc, card, house, program>>

displayNetworkStatus(t) == Check(t) \/ Tell(t) \/ Store(t)

(* getSeverTime: set from an answer; left for later without one; and after *)
(* an empty or odd answer it returns whatever it returns.                  *)
getSeverTime == m_bTimeAvailable' \in BOOLEAN

-----------------------------------------------------------------------------
(* m_serialRfid->open() and, if that succeeds, start(); pcs is what pc     *)
(* becomes apart from that.                                                *)
OpenRfid(pcs) ==
  \/ m_serialRfidRuning' = FALSE /\ pc' = pcs
  \/ \E r \in Rfids : /\ pc[r] = "absent"
                      /\ m_serialRfidRuning' = TRUE
                      /\ pc' = [pcs EXCEPT ![r] = "idle"]

(* The constructor.                                                        *)
Open == /\ Stages[stage] = "open"
        /\ OpenRfid([t \in DOMAIN pc |-> IF t \in Consoles THEN "idle" ELSE pc[t]])
        /\ stage' = stage + 1
        /\ UNCHANGED <<card, count, m_bTimeAvailable, network, sounding, hung, crashed>>

FirstCheck == /\ Stages[stage] = "network"
              /\ \E v \in BOOLEAN : Display("main", v)
              /\ stage' = stage + 1
              /\ UNCHANGED <<pc, card, house, sounding, hung, crashed>>

Construct == /\ Stages[stage] \in {"employees", "sheets", "camera", "player"}
             /\ stage' = stage + 1
             /\ UNCHANGED <<pc, card, house, network, sounding, hung, crashed>>

StartTimer == /\ Stages[stage] = "start"
              /\ stage' = stage + 1
              /\ pc' = [pc EXCEPT !["timer"] = "wait"]
              /\ UNCHANGED <<card, house, network, sounding, hung, crashed>>

FirstTime == /\ Stages[stage] = "time"
             /\ stage' = stage + 1
             /\ getSeverTime
             /\ UNCHANGED <<pc, card, count, m_serialRfidRuning, network, sounding, hung,
                            crashed>>

Constructor == Runs("main") /\ (Open \/ FirstCheck \/ Construct \/ StartTimer \/ FirstTime)

-----------------------------------------------------------------------------
(* onData, run by thread t.                                                *)
Goes(t, to) == pc' = [pc EXCEPT ![t] = to]
Processing(t) == pc[t] \notin {"absent", "idle"}

(* Mutant: the LEDs of the last card are left on.                          *)
CardRead_LedsOn(t) ==
  /\ Runs(t) /\ pc[t] = "idle"
  /\ Goes(t, "getInfo")
  /\ m_bProcessingRfidData' = TRUE
  /\ bServerActive' = [bServerActive EXCEPT ![t] = -1]
  /\ overlapped' = (overlapped \/ \E o \in CardThreads : Processing(o))
  /\ UNCHANGED <<lit, house, network, program>>

CardRead(t) ==
  /\ Runs(t) /\ pc[t] = "idle"
  /\ Goes(t, "getInfo")
  /\ m_bProcessingRfidData' = TRUE
  /\ lit' = lit \ {"green", "red"}
  /\ bServerActive' = [bServerActive EXCEPT ![t] = -1]
  /\ overlapped' = (overlapped \/ \E o \in CardThreads : Processing(o))
  /\ UNCHANGED <<house, network, program>>

(* alsa_play starts a thread, which then prepares the device: its handle   *)
(* is null until alsa_init has opened it, in the player's constructor.     *)
Play == sounding' = (sounding \/ (UseSound /\ ~Built("player")))
PrepareSound ==
  /\ ~crashed /\ sounding
  /\ IF Built("player") THEN sounding' = FALSE /\ UNCHANGED crashed
                        ELSE crashed' = TRUE /\ UNCHANGED sounding
  /\ UNCHANGED <<stage, hung, pc, card, house, network>>

(* getInfo and checkValidate: the server is asked first, unless the local  *)
(* database is used instead.                                               *)
Identify(t) ==
  /\ Runs(t) /\ pc[t] = "getInfo" /\ Built("employees")
  /\ \E a \in IF UseLocalDB THEN {-1} ELSE {0, 1} :
        bServerActive' = [bServerActive EXCEPT ![t] = a]
  /\ \/ Goes(t, "granted") /\ lit' = lit /\ UNCHANGED sounding
     \/ Goes(t, "display") /\ lit' = lit \cup {"red"} /\ Play
  /\ UNCHANGED <<m_bProcessingRfidData, overlapped, house, network, stage, hung, crashed>>

OpenGate(t) ==
  /\ Runs(t) /\ pc[t] = "granted"
  /\ Goes(t, "record")
  /\ Play
  /\ lit' = lit \cup {"green", "relay"}
  /\ UNCHANGED <<m_bProcessingRfidData, bServerActive, overlapped, house, network, stage, hung,
                 crashed>>

(* takePicture, if the camera is used, and insert.                         *)
Record(t) ==
  /\ Runs(t) /\ pc[t] = "record" /\ Built("sheets")
  /\ Goes(t, "display")
  /\ UNCHANGED <<card, house, network, program>>

UsesUnbuilt(t) ==
  /\ Runs(t)
  /\ \/ pc[t] = "getInfo" /\ ~Built("employees")
     \/ pc[t] = "record" /\ ~Built("camera")
  /\ crashed' = TRUE
  /\ UNCHANGED <<stage, sounding, hung, pc, card, house, network>>

(* The bool of -1 is true.                                                 *)
ShowServer(t) ==
  /\ Runs(t) /\ pc[t] = "display"
  /\ Goes(t, "clear")
  /\ IF bServerActive[t] <= 0 THEN Display(t, bServerActive[t] # 0) ELSE UNCHANGED network
  /\ UNCHANGED <<card, house, program>>

(* Mutant: the flag stays set.                                             *)
CardDone_NoReset(t) ==
  /\ Runs(t) /\ pc[t] = "clear"
  /\ Goes(t, "idle")
  /\ bServerActive' = [bServerActive EXCEPT ![t] = -1]
  /\ UNCHANGED <<m_bProcessingRfidData, lit, overlapped, house, network, program>>

CardDone(t) ==
  /\ Runs(t) /\ pc[t] = "clear"
  /\ Goes(t, "idle")
  /\ m_bProcessingRfidData' = FALSE
  /\ bServerActive' = [bServerActive EXCEPT ![t] = -1]
  /\ UNCHANGED <<lit, overlapped, house, network, program>>

(* The 1.5 s of an LED or of the relay are over.                           *)
PulseEnds(pin) ==
  /\ pin \in lit
  /\ lit' = lit \ {pin}
  /\ UNCHANGED <<m_bProcessingRfidData, bServerActive, overlapped, pc, house, network, program>>

(* What follows the start of onData.                                       *)
Process(t) == \/ Identify(t) \/ OpenGate(t) \/ Record(t)
              \/ UsesUnbuilt(t) \/ ShowServer(t) \/ CardDone(t)
onData(t) == CardRead(t) \/ Process(t)

-----------------------------------------------------------------------------
(* cbTimer, run by the housekeeping timer; at three o'clock it updates the *)
(* local database first.                                                   *)
Tick ==
  /\ Runs("timer") /\ pc["timer"] = "wait"
  /\ Goes("timer", "reopen")
  /\ UNCHANGED <<card, house, network, program>>

Reopen ==
  /\ Runs("timer") /\ pc["timer"] = "reopen"
  /\ IF m_serialRfidRuning
     THEN Goes("timer", "flag") /\ UNCHANGED m_serialRfidRuning
     ELSE OpenRfid([pc EXCEPT !["timer"] = "flag"])
  /\ UNCHANGED <<card, count, m_bTimeAvailable, network, program>>

(* Mutant: a skipped tick counts.                                          *)
Skip_Counts ==
  /\ Runs("timer") /\ pc["timer"] = "flag"
  /\ m_bProcessingRfidData
  /\ Goes("timer", "wait")
  /\ count' = IF count = 9 THEN 0 ELSE count + 1
  /\ UNCHANGED <<card, m_serialRfidRuning, m_bTimeAvailable, network, program>>

(* While a card is processed the rest of the tick is skipped, and the      *)
(* count stays; but a card that comes later finds no one to wait for.      *)
Skip ==
  /\ Runs("timer") /\ pc["timer"] = "flag"
  /\ m_bProcessingRfidData
  /\ Goes("timer", "wait")
  /\ UNCHANGED <<card, house, network, program>>

(* checkNetwork() && !m_bTimeAvailable                                     *)
checkNetwork ==
  /\ Runs("timer") /\ pc["timer"] = "flag"
  /\ ~m_bProcessingRfidData
  /\ \E v \in BOOLEAN : Display("timer", v) /\ Goes("timer", IF v THEN "time" ELSE "job")
  /\ UNCHANGED <<card, house, program>>

(* Mutant: only the constructor asks for the time.                         *)
SetTime_Never ==
  /\ Runs("timer") /\ pc["timer"] = "time"
  /\ Goes("timer", "job")
  /\ UNCHANGED <<card, house, network, program>>

SetTime ==
  /\ Runs("timer") /\ pc["timer"] = "time"
  /\ Goes("timer", "job")
  /\ IF m_bTimeAvailable THEN UNCHANGED m_bTimeAvailable ELSE getSeverTime
  /\ UNCHANGED <<card, count, m_serialRfidRuning, network, program>>

(* Nothing at 3 and 9, the status at 1 and 6, updateLocalDB(false) at 8,   *)
(* upload at the others.                                                   *)
Job ==
  /\ Runs("timer") /\ pc["timer"] = "job"
  /\ Goes("timer", "wait")
  /\ count' = IF count = 9 THEN 0 ELSE count + 1
  /\ crashed' = \/ count = 8 /\ ~Built("employees")
                \/ count \in {0, 2, 4, 5, 7} /\ ~Built("sheets")
  /\ UNCHANGED <<stage, sounding, hung, card, m_serialRfidRuning, m_bTimeAvailable, network>>

cbTimer == Tick \/ Reopen \/ Skip \/ checkNetwork \/ SetTime \/ Job

-----------------------------------------------------------------------------
Next == \/ Constructor
        \/ \E t \in CardThreads : onData(t)
        \/ PrepareSound
        \/ \E pin \in {"green", "red", "relay"} : PulseEnds(pin)
        \/ cbTimer
        \/ \E t \in Threads : displayNetworkStatus(t) \/ Hangs(t)

(* The housekeeping cannot go on: the program has ended, a thread that it  *)
(* waits for is held for ever, or the constructor is before it starts it.  *)
Stuck == \/ crashed
         \/ hung \cap (CardThreads \cup {"timer"}) # {}
         \/ "main" \in hung /\ pc["timer"] = "absent"

(* Each thread runs, and the timer ticks again and again; its ticks, a     *)
(* minute apart, do not all come while a card is processed; the server is  *)
(* not away at every tick nor its answer always empty.                     *)
NotAlwaysBusy == []<><<Tick>>_vars => []<><<checkNetwork>>_vars \/ <>Stuck
Fairness ==
  /\ WF_vars(Constructor) /\ WF_vars(cbTimer)
  /\ \A t \in CardThreads : WF_vars(Process(t))
  /\ \A t \in Threads : WF_vars(displayNetworkStatus(t))
  /\ NotAlwaysBusy
  /\ SF_vars(checkNetwork /\ pc'["timer"] = "time")
  /\ SF_vars(SetTime /\ m_bTimeAvailable')

Spec == Init /\ [][Next]_vars
FairSpec == Spec /\ Fairness

-----------------------------------------------------------------------------
TypeOK ==
  /\ stage \in DOMAIN Stages
  /\ pc \in [CardThreads \cup {"timer"} ->
               {"absent", "idle", "getInfo", "granted", "record", "display", "clear",
                "wait", "reopen", "flag", "time", "job"}]
  /\ count \in 0 .. 9
  /\ m_bProcessingRfidData \in BOOLEAN /\ m_serialRfidRuning \in BOOLEAN
  /\ m_bTimeAvailable \in BOOLEAN /\ m_bNetworkAvailable \in BOOLEAN
  /\ bInitialized \in BOOLEAN
  /\ disp \in [Threads -> {Outside} \cup ({"check", "tell", "store"} \X BOOLEAN)]
  /\ shown \in {"nothing", "ON", "OFF"} /\ orphan \in BOOLEAN
  /\ bServerActive \in [CardThreads -> {-1, 0, 1}]
  /\ lit \subseteq {"green", "red", "relay"}
  /\ sounding \in BOOLEAN /\ hung \subseteq Threads /\ crashed \in BOOLEAN
  /\ overlapped \in BOOLEAN /\ raced \in BOOLEAN

(* The visitor is not shown two results, however soon a card follows the   *)
(* last one's 1.5 s of light, unless cards overlap (lines 172, 173).       *)
OneResult == {"green", "red"} \subseteq lit => overlapped

(* The two flags that the housekeeping asks are right: cards hold it up    *)
(* only while one is processed, whichever path onData returned on (lines   *)
(* 168, 237, 367), and it starts a reader only when none is there, although*)
(* the constructor may start one too (lines 353-363, 554-558).             *)
FlagsRight ==
  /\ (\A t \in CardThreads : ~Processing(t)) => ~m_bProcessingRfidData
  /\ Cardinality({r \in Rfids : pc[r] # "absent"}) <= 1

(* The housekeeping uses only what has been built; what ends the program   *)
(* is a card that is read before the constructor has built all (lines 556, *)
(* 603, 609), in a component that is missing or by its sound's thread.     *)
OnlyEarlyCardsCrash ==
  crashed => /\ ~Built("player")
             /\ sounding \/ \E t \in CardThreads : pc[t] \in {"getInfo", "record"}

(* What the display and the yellow LED show is what displayNetworkStatus   *)
(* remembers, and no blinking goes on that it cannot stop, unless two      *)
(* threads changed the status at once: it has no lock (lines 439-460).     *)
LedAgrees ==
  bInitialized /\ (\A t \in Threads : disp[t] = Outside) /\ ~raced =>
    /\ shown = (IF m_bNetworkAvailable THEN "ON" ELSE "OFF")
    /\ ~orphan

(* The status is reported, the sheets are uploaded and the database is     *)
(* updated again and again, at 6, 7 and 8, however many ticks are skipped, *)
(* unless the housekeeping is stuck; a constructor that still waits for    *)
(* the time does not hold it up (lines 367-370, 375-414, 611).             *)
JobsRecur == (\A n \in {6, 7, 8} : []<>(pc["timer"] = "job" /\ count = n)) \/ <>Stuck

(* The server is asked for the time until it has given it, also when the   *)
(* constructor's late answer takes back what the timer has got (lines 372, *)
(* 373, 611): m_bTimeAvailable is TRUE in the end, and not just because it *)
(* was so, without an initial value, when the program began: it has been   *)
(* FALSE, or the constructor has set it from its answer.  The exception is *)
(* the code's: nobody asks if the value happens to be TRUE from the start  *)
(* and the constructor's own request hangs.                                *)
TimeAsked == ~m_bTimeAvailable \/ Stages[stage] = "done"
TimeIsSet == \/ <>[]m_bTimeAvailable /\ <>(TimeAsked \/ "main" \in hung)
             \/ <>Stuck

(* "-1:unknown, 0:dead 1:alive" (line 177): a card read from the local     *)
(* database says nothing of the server, so it changes nothing displayed.   *)
UnknownNotShown == \A t \in CardThreads : At(t, "tell") => bServerActive[t] # -1
=============================================================================
