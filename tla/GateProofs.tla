----------------------------- MODULE GateProofs -----------------------------
(***************************************************************************)
(* Theorems about Gate for any number of card readers and consoles and     *)
(* whatever threads may hang: typing, the housekeeping's flags, the result *)
(* shown to a visitor, who may end the program, and the network display.   *)
(***************************************************************************)
EXTENDS Gate, FiniteSetTheorems, TLAPS

CardPcs == {"absent", "idle", "getInfo", "granted", "record", "display", "clear"}
TimerPcs == {"absent", "wait", "reopen", "flag", "time", "job"}

(* Who runs when: no thread before the constructor starts it, and a reader *)
(* only if m_serialRfidRuning says so, and then only one.                  *)
ThreadInv ==
  /\ \A t \in CardThreads : pc[t] \in CardPcs
  /\ pc["timer"] \in TimerPcs
  /\ stage <= 7 => pc["timer"] = "absent"
  /\ stage = 1 => \A t \in CardThreads : pc[t] = "absent"
  /\ ~m_serialRfidRuning => \A r \in Rfids : pc[r] = "absent"
  /\ \A r, s \in Rfids : pc[r] # "absent" /\ pc[s] # "absent" => r = s

(* The flag is set only while a card is processed.                         *)
FlagInv == m_bProcessingRfidData => \E t \in CardThreads : Processing(t)

(* Unless cards overlap only one is processed, and until its result is     *)
(* known no result is lit.                                                 *)
Undecided(t) == pc[t] \in {"getInfo", "granted"}
ResultInv ==
  ~overlapped =>
    /\ \A t, u \in CardThreads : Processing(t) /\ Processing(u) => t = u
    /\ \A t \in CardThreads : Undecided(t) => lit \cap {"green", "red"} = {}
    /\ ~({"green", "red"} \subseteq lit)

(* Unless two threads change the status at once: at most one changes it;   *)
(* between its two steps the display is ahead of what is remembered, at    *)
(* any other time they agree, or nothing has been displayed; and who is    *)
(* about to tell has found something else remembered.                      *)
Changing(t) == At(t, "tell") \/ At(t, "store")
Word(v) == IF v THEN "ON" ELSE "OFF"
LedInv ==
  ~raced =>
    /\ \A t, u \in Threads : Changing(t) /\ Changing(u) => t = u
    /\ \A t \in Threads : At(t, "store") => shown = Word(disp[t][2])
    /\ \A t \in Threads : At(t, "tell") /\ bInitialized => disp[t][2] # m_bNetworkAvailable
    /\ (\A t \in Threads : ~At(t, "store")) =>
         shown = IF bInitialized THEN Word(m_bNetworkAvailable) ELSE "nothing"
    /\ ~orphan

IInv == TypeOK /\ ThreadInv /\ FlagInv /\ ResultInv /\ OnlyEarlyCardsCrash /\ LedInv

-----------------------------------------------------------------------------
(* The places in displayNetworkStatus and their moves, as pairs.           *)
Steps == {"check", "tell", "store"}

(* A thread is outside displayNetworkStatus, or at one of its steps.       *)
LEMMA Places ==
  ASSUME TypeOK, NEW t \in Threads
  PROVE  /\ disp[t] = Outside \/ \E s \in Steps, v \in BOOLEAN : disp[t] = <<s, v>>
         /\ \A s \in Steps, v \in BOOLEAN : <<s, v>> # Outside
<1>1. disp[t] \in {Outside} \cup (Steps \X BOOLEAN)
  BY DEF TypeOK, Steps
<1>2. QED
  BY <1>1 DEF Outside

(* The next step of a thread in displayNetworkStatus keeps its argument.   *)
LEMMA NextPlace ==
  ASSUME TypeOK, NEW t \in Threads, disp[t] # Outside, NEW s \in Steps,
         disp' = [disp EXCEPT ![t][1] = s]
  PROVE  disp' = [disp EXCEPT ![t] = <<s, disp[t][2]>>] /\ disp[t][2] \in BOOLEAN
<1>1. PICK s0 \in Steps, v \in BOOLEAN : disp[t] = <<s0, v>>
  BY Places
<1>2. [disp[t] EXCEPT ![1] = s] = <<s, v>>
  BY <1>1
<1>3. disp' = [disp EXCEPT ![t] = [disp[t] EXCEPT ![1] = s]]
  OBVIOUS
<1>4. disp' = [disp EXCEPT ![t] = <<s, v>>]
  BY <1>2, <1>3
<1>5. disp[t][2] = v
  BY <1>1
<1>6. QED
  BY <1>4, <1>5

(* What any step does to the network's display: nothing, a call of         *)
(* displayNetworkStatus, or a step in it (lines 439-460).                  *)
NetworkStep ==
  \/ UNCHANGED network
  \/ \E t \in Threads, v \in BOOLEAN : disp[t] = Outside /\ Display(t, v)
  \/ \E t \in Threads : displayNetworkStatus(t)

(* Every step of the gate does that.                                       *)
LEMMA NetworkSteps == TypeOK /\ [Next]_vars => NetworkStep
<1> SUFFICES ASSUME TypeOK, [Next]_vars PROVE NetworkStep
  OBVIOUS
<1>1. CASE Constructor
  BY <1>1 DEF Constructor, Open, FirstCheck, Construct, StartTimer, FirstTime, Runs,
     NetworkStep, Threads
<1>2. ASSUME NEW t \in CardThreads, onData(t) PROVE NetworkStep
  <2>1. UNCHANGED network \/ ShowServer(t)
    BY <1>2 DEF onData, Process, CardRead, Identify, OpenGate, Record, UsesUnbuilt, CardDone
  <2>2. CASE ShowServer(t)
    <3>1. t \in Threads /\ (bServerActive[t] # 0) \in BOOLEAN
      BY DEF Threads
    <3>2. disp[t] = Outside
      BY <2>2 DEF ShowServer, Runs
    <3>3. UNCHANGED network \/ Display(t, bServerActive[t] # 0)
      BY <2>2 DEF ShowServer
    <3>4. QED
      BY <3>1, <3>2, <3>3 DEF NetworkStep
  <2>3. QED
    BY <2>1, <2>2 DEF NetworkStep
<1>3. ASSUME NEW pin, PulseEnds(pin) PROVE NetworkStep
  BY <1>3 DEF PulseEnds, NetworkStep
<1>4. CASE cbTimer
  BY <1>4 DEF cbTimer, Tick, Reopen, Skip, checkNetwork, SetTime, Job, Runs, NetworkStep,
     Threads
<1>5. ASSUME NEW t \in Threads, displayNetworkStatus(t) \/ Hangs(t) PROVE NetworkStep
  BY <1>5 DEF Hangs, NetworkStep
<1>6. CASE PrepareSound \/ UNCHANGED vars
  BY <1>6 DEF PrepareSound, vars, NetworkStep
<1>7. QED
  BY <1>1, <1>2, <1>3, <1>4, <1>5, <1>6 DEF Next

(* What a step that is not onData's does to the card threads: it starts    *)
(* some, and an LED or the relay may go out.                               *)
Starts == \A t \in CardThreads : pc'[t] = pc[t] \/ (pc[t] = "absent" /\ pc'[t] = "idle")
CardStep == \/ \E t \in CardThreads : onData(t)
            \/ Starts /\ (UNCHANGED card \/ \E pin : PulseEnds(pin))

(* Every step of the gate does that.                                       *)
LEMMA CardSteps == TypeOK /\ ThreadInv /\ [Next]_vars => CardStep
<1> SUFFICES ASSUME TypeOK, ThreadInv, [Next]_vars PROVE CardStep
  OBVIOUS
<1> USE ThreadsAssumption
<1>0. /\ "timer" \notin CardThreads
      /\ \A r \in Rfids : r \in CardThreads
      /\ DOMAIN pc = CardThreads \cup {"timer"}
  BY DEF CardThreads, TypeOK
<1>1. CASE Constructor
  <2>1. UNCHANGED card
    BY <1>1 DEF Constructor, Open, FirstCheck, Construct, StartTimer, FirstTime
  <2>2. CASE Open
    <3>1. stage = 1
      BY <2>2 DEF Open, Stages, TypeOK
    <3> DEFINE pcs == [t \in DOMAIN pc |-> IF t \in Consoles THEN "idle" ELSE pc[t]]
    <3>2. pc' = pcs \/ \E r \in Rfids : pc[r] = "absent" /\ pc' = [pcs EXCEPT ![r] = "idle"]
      BY <2>2 DEF Open, OpenRfid
    <3>3. \A t \in CardThreads : pc[t] = "absent"
      BY <3>1 DEF ThreadInv
    <3>4. QED
      BY <1>0, <2>1, <3>2, <3>3 DEF CardStep, Starts
  <2>3. QED
    BY <1>0, <1>1, <2>1, <2>2
       DEF Constructor, FirstCheck, Construct, StartTimer, FirstTime, CardStep, Starts
<1>2. ASSUME NEW t \in CardThreads, onData(t) PROVE CardStep
  BY <1>2 DEF CardStep
<1>3. ASSUME NEW pin, PulseEnds(pin) PROVE CardStep
  BY <1>3 DEF PulseEnds, CardStep, Starts
<1>4. CASE cbTimer
  <2>1. UNCHANGED card
    BY <1>4 DEF cbTimer, Tick, Reopen, Skip, checkNetwork, SetTime, Job
  <2>2. Starts
    BY <1>0, <1>4 DEF cbTimer, Tick, Reopen, OpenRfid, Skip, checkNetwork, SetTime, Job, Goes,
       Starts
  <2>3. QED
    BY <2>1, <2>2 DEF CardStep
<1>5. ASSUME NEW t \in Threads, displayNetworkStatus(t) \/ Hangs(t) PROVE CardStep
  BY <1>5 DEF displayNetworkStatus, Check, Tell, Store, Hangs, CardStep, Starts
<1>6. CASE PrepareSound \/ UNCHANGED vars
  BY <1>6 DEF PrepareSound, vars, CardStep, Starts
<1>7. QED
  BY <1>1, <1>2, <1>3, <1>4, <1>5, <1>6 DEF Next

-----------------------------------------------------------------------------
(* The invariant holds initially.                                          *)
LEMMA InitIInv == Init => IInv
<1> SUFFICES ASSUME Init PROVE IInv
  OBVIOUS
<1> USE DEF Init
<1>0. \A t \in CardThreads \cup {"timer"} : pc[t] = "absent"
  OBVIOUS
<1>1. TypeOK
  <2>1. disp \in [Threads -> {Outside} \cup ({"check", "tell", "store"} \X BOOLEAN)]
    BY DEF Outside
  <2>2. stage \in DOMAIN Stages
    BY DEF Stages
  <2>3. /\ pc \in [CardThreads \cup {"timer"} ->
                    {"absent", "idle", "getInfo", "granted", "record", "display", "clear",
                     "wait", "reopen", "flag", "time", "job"}]
        /\ bServerActive \in [CardThreads -> {-1, 0, 1}]
    OBVIOUS
  <2>4. count \in 0 .. 9 /\ lit \subseteq {"green", "red", "relay"} /\ hung \subseteq Threads
    OBVIOUS
  <2>5. /\ m_bProcessingRfidData \in BOOLEAN /\ m_serialRfidRuning \in BOOLEAN
        /\ m_bTimeAvailable \in BOOLEAN /\ m_bNetworkAvailable \in BOOLEAN
        /\ bInitialized \in BOOLEAN
        /\ shown \in {"nothing", "ON", "OFF"} /\ orphan \in BOOLEAN
        /\ sounding \in BOOLEAN /\ crashed \in BOOLEAN
        /\ overlapped \in BOOLEAN /\ raced \in BOOLEAN
    BY Zenon
  <2>6. QED
    BY ONLY <2>1, <2>2, <2>3, <2>4, <2>5 DEF TypeOK
<1>2. ThreadInv
  BY <1>0 DEF ThreadInv, CardThreads, CardPcs, TimerPcs
<1>3. FlagInv /\ ResultInv /\ OnlyEarlyCardsCrash
  BY <1>0 DEF FlagInv, ResultInv, OnlyEarlyCardsCrash, Processing, Undecided
<1>4. LedInv
  <2>1. \A t \in Threads : ~At(t, "tell") /\ ~At(t, "store")
    BY DEF At
  <2>2. QED
    BY <2>1 DEF LedInv, Changing
<1>5. QED
  BY <1>1, <1>2, <1>3, <1>4 DEF IInv

(* The components that the constructor has built before it starts the      *)
(* timer (lines 587-603).                                                  *)
LEMMA BuiltBeforeTimer ==
  ASSUME TypeOK, stage > 7
  PROVE  Built("employees") /\ Built("sheets") /\ Built("camera") /\ Built("player")
<1>1. /\ 3 \in 1 .. stage - 1 /\ 4 \in 1 .. stage - 1
      /\ 5 \in 1 .. stage - 1 /\ 6 \in 1 .. stage - 1
  BY DEF TypeOK, Stages
<1>2. /\ Stages[3] = "employees" /\ Stages[4] = "sheets"
      /\ Stages[5] = "camera" /\ Stages[6] = "player"
  BY DEF Stages
<1>3. QED
  BY <1>1, <1>2 DEF Built

(* The player is the last of them.                                         *)
LEMMA PlayerIsLast ==
  ASSUME TypeOK, Built("player")
  PROVE  Built("employees") /\ Built("camera")
<1>1. stage \in 1 .. 9
  BY DEF TypeOK, Stages
<1>2. PICK i \in 1 .. stage - 1 : Stages[i] = "player"
  BY DEF Built
<1>3. i = 6
  BY <1>1, <1>2 DEF Stages
<1>4. 3 \in 1 .. stage - 1 /\ 5 \in 1 .. stage - 1
  BY <1>1, <1>2, <1>3
<1>5. Stages[3] = "employees" /\ Stages[5] = "camera"
  BY DEF Stages
<1>6. QED
  BY <1>4, <1>5 DEF Built

(* Only the constructor's own steps move it, and none once the program has *)
(* ended.                                                                  *)
LEMMA StageStep ==
  ASSUME TypeOK, [Next]_vars
  PROVE  /\ stage' \in DOMAIN Stages
         /\ stage' = stage \/ (stage' = stage + 1 /\ Constructor /\ ~crashed)
<1>1. CASE Constructor
  <2>1. stage' = stage + 1 /\ stage \in 1 .. 9 /\ Stages[stage] # "done"
    <3>1. stage' = stage + 1 /\ Stages[stage] # "done"
      BY <1>1 DEF Constructor, Open, FirstCheck, Construct, StartTimer, FirstTime
    <3>2. QED
      BY <3>1 DEF TypeOK, Stages
  <2>2. stage # 9
    BY <2>1 DEF Stages
  <2>3. DOMAIN Stages = 1 .. 9
    BY DEF Stages
  <2>4. QED
    BY <1>1, <2>1, <2>2, <2>3 DEF Constructor, Runs
<1>2. CASE ~Constructor
  <2>1. stage' = stage
    BY <1>2 DEF Next, onData, Process, CardRead, Identify, OpenGate, Record, UsesUnbuilt,
       ShowServer, CardDone, PrepareSound, PulseEnds, cbTimer, Tick, Reopen, Skip, checkNetwork,
       SetTime, Job,
       displayNetworkStatus, Check, Tell, Store, Hangs, vars, program
  <2>2. QED
    BY <2>1 DEF TypeOK
<1>3. QED
  BY <1>1, <1>2

-----------------------------------------------------------------------------
(* A step in displayNetworkStatus, one lemma for what it does to a         *)
(* thread's place.                                                         *)
LEMMA Moves ==
  ASSUME TypeOK, NEW t \in Threads, displayNetworkStatus(t)
  PROVE  /\ disp[t] # Outside
         /\ \/ Check(t) /\ disp' = [disp EXCEPT ![t] = <<"tell", disp[t][2]>>]
            \/ Check(t) /\ disp' = [disp EXCEPT ![t] = Outside]
            \/ Tell(t) /\ disp' = [disp EXCEPT ![t] = <<"store", disp[t][2]>>]
            \/ Store(t) /\ disp' = [disp EXCEPT ![t] = Outside]
<1>1. disp[t] # Outside
  BY DEF displayNetworkStatus, Check, Tell, Store, At
<1>2. CASE Check(t)
  BY <1>1, <1>2, NextPlace DEF Check, Steps
<1>3. CASE Tell(t)
  BY <1>1, <1>3, NextPlace DEF Tell, Steps
<1>4. CASE Store(t)
  BY <1>1, <1>4 DEF Store
<1>5. QED
  BY <1>1, <1>2, <1>3, <1>4 DEF displayNetworkStatus

(* The variables of displayNetworkStatus keep their types.                 *)
LEMMA NetworkTyped ==
  ASSUME TypeOK, NetworkStep
  PROVE  /\ m_bNetworkAvailable' \in BOOLEAN /\ bInitialized' \in BOOLEAN
         /\ disp' \in [Threads -> {Outside} \cup ({"check", "tell", "store"} \X BOOLEAN)]
         /\ shown' \in {"nothing", "ON", "OFF"} /\ orphan' \in BOOLEAN /\ raced' \in BOOLEAN
<1> DEFINE P == {Outside} \cup ({"check", "tell", "store"} \X BOOLEAN)
<1>0. disp \in [Threads -> P]
  BY DEF TypeOK
<1>1. CASE UNCHANGED network
  BY <1>1 DEF network, TypeOK
<1>2. ASSUME NEW t \in Threads, NEW v \in BOOLEAN, Display(t, v)
      PROVE  disp' \in [Threads -> P] /\ UNCHANGED <<m_bNetworkAvailable, bInitialized, shown, orphan, raced>>
  BY <1>0, <1>2 DEF Display
<1>3. ASSUME NEW t \in Threads, displayNetworkStatus(t)
      PROVE  /\ m_bNetworkAvailable' \in BOOLEAN /\ bInitialized' \in BOOLEAN
             /\ disp' \in [Threads -> P]
             /\ shown' \in {"nothing", "ON", "OFF"} /\ orphan' \in BOOLEAN
             /\ raced' \in BOOLEAN
  <2>1. disp[t] # Outside /\ disp[t][2] \in BOOLEAN
    BY <1>3, Moves, Places
  <2>2. disp' \in [Threads -> P]
    <3>1. \A s \in {"tell", "store"} : <<s, disp[t][2]>> \in P
      BY <2>1
    <3>2. PICK p \in P : disp' = [disp EXCEPT ![t] = p]
      BY <1>3, <3>1, Moves
    <3>3. QED
      BY <1>0, <3>2
  <2>3. QED
    BY <1>3, <2>1, <2>2 DEF displayNetworkStatus, Check, Tell, Store, TypeOK
<1>4. QED
  BY <1>1, <1>2, <1>3 DEF NetworkStep, TypeOK

(* The places of the threads keep their types.                             *)
PcType == [CardThreads \cup {"timer"} ->
             {"absent", "idle", "getInfo", "granted", "record", "display", "clear",
              "wait", "reopen", "flag", "time", "job"}]

(* Every step leaves each thread at one of the places of its code.         *)
LEMMA PcTyped == ASSUME TypeOK, [Next]_vars PROVE pc' \in PcType
<1>0. pc \in PcType
  BY DEF TypeOK, PcType
<1>1. CASE Constructor
  <2>1. CASE Open
    <3> DEFINE pcs == [t \in DOMAIN pc |-> IF t \in Consoles THEN "idle" ELSE pc[t]]
    <3>1. pcs \in PcType
      BY <1>0 DEF PcType
    <3>2. pc' = pcs \/ \E r \in Rfids : pc' = [pcs EXCEPT ![r] = "idle"]
      BY <2>1 DEF Open, OpenRfid
    <3> HIDE DEF pcs
    <3>3. QED
      BY <3>1, <3>2 DEF PcType
  <2>2. CASE ~Open
    BY <1>0, <1>1, <2>2 DEF Constructor, FirstCheck, Construct, StartTimer, FirstTime, PcType
  <2>3. QED
    BY <2>1, <2>2
<1>2. ASSUME NEW t \in CardThreads, onData(t) PROVE pc' \in PcType
  <2>1. pc' = pc \/ \E to \in {"getInfo", "granted", "display", "record", "clear", "idle"} : Goes(t, to)
    BY <1>2 DEF onData, Process, CardRead, Identify, OpenGate, Record, UsesUnbuilt, ShowServer,
       CardDone
  <2>2. QED
    BY <1>0, <2>1 DEF Goes, PcType
<1>3. CASE cbTimer
  <2>1. CASE Reopen
    <3> DEFINE pcs == [pc EXCEPT !["timer"] = "flag"]
    <3>1. pcs \in PcType
      BY <1>0 DEF PcType
    <3>2. pc' = pcs \/ \E r \in Rfids : pc' = [pcs EXCEPT ![r] = "idle"]
      BY <2>1 DEF Reopen, OpenRfid, Goes
    <3> HIDE DEF pcs
    <3>3. QED
      BY <3>1, <3>2 DEF PcType
  <2>2. CASE ~Reopen
    <3>1. \E to \in {"reopen", "wait", "time", "job"} : Goes("timer", to)
      BY <1>3, <2>2 DEF cbTimer, Tick, Skip, checkNetwork, SetTime, Job
    <3>2. QED
      BY <1>0, <3>1 DEF Goes, PcType
  <2>3. QED
    BY <2>1, <2>2
<1>4. CASE ~Constructor /\ ~cbTimer /\ ~(\E t \in CardThreads : onData(t))
  BY <1>0, <1>4 DEF Next, PrepareSound, PulseEnds, displayNetworkStatus, Check, Tell, Store,
     Hangs, vars
<1>5. QED
  BY <1>1, <1>2, <1>3, <1>4

(* Typing is preserved.                                                    *)
LEMMA TypeStep == TypeOK /\ [Next]_vars => TypeOK'
<1> SUFFICES ASSUME TypeOK, [Next]_vars PROVE TypeOK'
  OBVIOUS
<1>1. stage' \in DOMAIN Stages /\ pc' \in PcType
  BY StageStep, PcTyped
<1>2. /\ m_bNetworkAvailable' \in BOOLEAN /\ bInitialized' \in BOOLEAN
      /\ disp' \in [Threads -> {Outside} \cup ({"check", "tell", "store"} \X BOOLEAN)]
      /\ shown' \in {"nothing", "ON", "OFF"} /\ orphan' \in BOOLEAN /\ raced' \in BOOLEAN
  BY NetworkSteps, NetworkTyped
<1> DEFINE cardTyped == /\ m_bProcessingRfidData' \in BOOLEAN /\ overlapped' \in BOOLEAN
                        /\ bServerActive' \in [CardThreads -> {-1, 0, 1}]
                        /\ lit' \subseteq {"green", "red", "relay"}
<1> DEFINE houseTyped == /\ count' \in 0 .. 9 /\ m_serialRfidRuning' \in BOOLEAN
                         /\ m_bTimeAvailable' \in BOOLEAN
<1> DEFINE programTyped == /\ sounding' \in BOOLEAN /\ hung' \subseteq Threads
                           /\ crashed' \in BOOLEAN
<1>3. UNCHANGED card => cardTyped
  BY DEF card, TypeOK
<1>4. UNCHANGED house => houseTyped
  BY DEF house, TypeOK
<1>5. UNCHANGED <<sounding, hung, crashed>> => programTyped
  BY DEF TypeOK
<1>6. CASE Constructor
  <2>1. UNCHANGED card /\ UNCHANGED <<sounding, hung, crashed>>
    BY <1>6 DEF Constructor, Open, FirstCheck, Construct, StartTimer, FirstTime
  <2>2. houseTyped
    BY <1>4, <1>6 DEF Constructor, Open, FirstCheck, Construct, StartTimer, FirstTime, OpenRfid,
       getSeverTime, TypeOK
  <2>3. QED
    BY <1>1, <1>2, <1>3, <1>5, <2>1, <2>2 DEF TypeOK, PcType
<1>7. ASSUME NEW t \in CardThreads, onData(t) PROVE TypeOK'
  <2>1. UNCHANGED house
    BY <1>7 DEF onData, Process, CardRead, Identify, OpenGate, Record, UsesUnbuilt, ShowServer,
       CardDone
  <2>2. programTyped
    BY <1>7 DEF onData, Process, CardRead, Identify, OpenGate, Record, UsesUnbuilt, ShowServer,
       CardDone, Play, program, TypeOK
  <2>3. cardTyped
    BY <1>3, <1>7 DEF onData, Process, CardRead, Identify, OpenGate, Record, UsesUnbuilt,
       ShowServer, CardDone, TypeOK
  <2>4. QED
    BY <1>1, <1>2, <1>4, <2>1, <2>2, <2>3 DEF TypeOK, PcType
<1>8. ASSUME NEW pin, PulseEnds(pin) PROVE TypeOK'
  <2>1. UNCHANGED house /\ UNCHANGED <<sounding, hung, crashed>>
    BY <1>8 DEF PulseEnds, program
  <2>2. cardTyped
    BY <1>8 DEF PulseEnds, TypeOK
  <2>3. QED
    BY <1>1, <1>2, <1>4, <1>5, <2>1, <2>2 DEF TypeOK, PcType
<1>9. CASE cbTimer
  <2>1. UNCHANGED card
    BY <1>9 DEF cbTimer, Tick, Reopen, Skip, checkNetwork, SetTime, Job
  <2>2. houseTyped
    <3>1. CASE Reopen
      BY <3>1 DEF Reopen, OpenRfid, TypeOK
    <3>2. CASE SetTime
      BY <3>2 DEF SetTime, getSeverTime, TypeOK
    <3>3. CASE Job
      BY <3>3 DEF Job, TypeOK
    <3>4. CASE Tick \/ Skip \/ checkNetwork
      BY <1>4, <3>4 DEF Tick, Skip, checkNetwork
    <3>5. QED
      BY <1>9, <3>1, <3>2, <3>3, <3>4 DEF cbTimer
  <2>3. programTyped
    BY <1>9 DEF cbTimer, Tick, Reopen, Skip, checkNetwork, SetTime, Job, program, TypeOK
  <2>4. QED
    BY <1>1, <1>2, <1>3, <2>1, <2>2, <2>3 DEF TypeOK, PcType
<1>10. ASSUME NEW t \in Threads, displayNetworkStatus(t) \/ Hangs(t) PROVE TypeOK'
  <2>1. UNCHANGED card /\ UNCHANGED house /\ programTyped
    BY <1>10 DEF displayNetworkStatus, Check, Tell, Store, Hangs, program, TypeOK
  <2>2. QED
    BY <1>1, <1>2, <1>3, <1>4, <2>1 DEF TypeOK, PcType
<1>11. CASE PrepareSound
  <2>1. UNCHANGED card /\ UNCHANGED house /\ programTyped
    BY <1>11 DEF PrepareSound, TypeOK
  <2>2. QED
    BY <1>1, <1>2, <1>3, <1>4, <2>1 DEF TypeOK, PcType
<1>12. CASE UNCHANGED vars
  BY <1>1, <1>2, <1>3, <1>4, <1>5, <1>12 DEF vars, program, TypeOK, PcType
<1>13. QED
  BY <1>6, <1>7, <1>8, <1>9, <1>10, <1>11, <1>12 DEF Next

-----------------------------------------------------------------------------
(* The readers are counted right after every step: the constructor opens   *)
(* them once and the housekeeping only while none runs (lines 353-363,     *)
(* 554-558).                                                               *)
LEMMA ThreadStep == TypeOK /\ ThreadInv /\ [Next]_vars => ThreadInv'
<1> SUFFICES ASSUME TypeOK, ThreadInv, [Next]_vars PROVE ThreadInv'
  OBVIOUS
<1> USE ThreadsAssumption
<1>0. /\ "timer" \notin CardThreads /\ Rfids \subseteq CardThreads
      /\ pc \in PcType /\ stage \in 1 .. 9
      /\ stage' = stage \/ stage' = stage + 1
  BY StageStep DEF CardThreads, TypeOK, PcType, Stages
<1>1. CASE Constructor
  <2>1. CASE Open
    <3> DEFINE pcs == [t \in DOMAIN pc |-> IF t \in Consoles THEN "idle" ELSE pc[t]]
    <3>1. stage = 1 /\ stage' = 2
      BY <2>1 DEF Open, Stages, TypeOK
    <3>2. \/ ~m_serialRfidRuning' /\ pc' = pcs
          \/ \E r \in Rfids : m_serialRfidRuning' /\ pc' = [pcs EXCEPT ![r] = "idle"]
      BY <2>1 DEF Open, OpenRfid
    <3>3. /\ pcs \in PcType /\ pcs["timer"] = "absent"
          /\ \A r \in Rfids : pcs[r] = "absent"
          /\ \A t \in CardThreads : pcs[t] \in {"absent", "idle"}
      BY <1>0, <3>1 DEF PcType, ThreadInv, CardThreads
    <3> HIDE DEF pcs
    <3>4. CASE ~m_serialRfidRuning' /\ pc' = pcs
      BY <3>1, <3>3, <3>4 DEF ThreadInv, TimerPcs, CardPcs
    <3>5. ASSUME NEW r \in Rfids, m_serialRfidRuning', pc' = [pcs EXCEPT ![r] = "idle"]
          PROVE  ThreadInv'
      <4>1. /\ pc'["timer"] = "absent" /\ pc'[r] = "idle"
            /\ \A t \in CardThreads : t # r => pc'[t] = pcs[t]
        BY <1>0, <3>3, <3>5 DEF PcType
      <4>2. QED
        BY <1>0, <3>1, <3>3, <3>5, <4>1 DEF ThreadInv, TimerPcs, CardPcs
    <3>6. QED
      BY <3>2, <3>4, <3>5
  <2>2. CASE StartTimer
    <3>1. stage = 7
      BY <2>2 DEF StartTimer, Stages, TypeOK
    <3>2. QED
      BY <1>0, <2>2, <3>1 DEF StartTimer, ThreadInv, PcType, TimerPcs, house
  <2>3. CASE FirstCheck \/ Construct \/ FirstTime
    <3>1. pc' = pc /\ m_serialRfidRuning' = m_serialRfidRuning /\ stage' = stage + 1
      BY <2>3 DEF FirstCheck, Construct, FirstTime, house
    <3>2. QED
      BY <1>0, <3>1 DEF ThreadInv
  <2>4. QED
    BY <1>1, <2>1, <2>2, <2>3 DEF Constructor
<1>2. ASSUME NEW t \in CardThreads, onData(t) PROVE ThreadInv'
  <2>1. pc' = pc \/ \E to \in CardPcs \ {"absent"} : pc[t] # "absent" /\ Goes(t, to)
    BY <1>2 DEF onData, Process, CardRead, Identify, OpenGate, Record, UsesUnbuilt, ShowServer,
       CardDone, CardPcs
  <2>2. m_serialRfidRuning' = m_serialRfidRuning /\ stage' = stage
    BY <1>2 DEF onData, Process, CardRead, Identify, OpenGate, Record, UsesUnbuilt, ShowServer,
       CardDone, house, program
  <2>3. QED
    BY <1>0, <2>1, <2>2 DEF Goes, ThreadInv, PcType
<1>3. CASE cbTimer
  <2>1. stage' = stage /\ pc["timer"] # "absent"
    BY <1>3 DEF cbTimer, Tick, Reopen, Skip, checkNetwork, SetTime, Job, program
  <2>2. CASE Reopen
    <3> DEFINE pcs == [pc EXCEPT !["timer"] = "flag"]
    <3>1. \/ m_serialRfidRuning' = m_serialRfidRuning /\ pc' = pcs
          \/ /\ ~m_serialRfidRuning
             /\ \/ ~m_serialRfidRuning' /\ pc' = pcs
                \/ \E r \in Rfids : m_serialRfidRuning' /\ pc' = [pcs EXCEPT ![r] = "idle"]
      BY <2>2 DEF Reopen, OpenRfid, Goes
    <3>2. pcs \in PcType /\ pcs["timer"] = "flag" /\ \A t \in CardThreads : pcs[t] = pc[t]
      BY <1>0 DEF PcType
    <3> HIDE DEF pcs
    <3>3. stage > 7
      BY <1>0, <2>1 DEF ThreadInv
    <3>4. CASE pc' = pcs
      BY <1>0, <2>1, <3>1, <3>2, <3>3, <3>4 DEF ThreadInv, TimerPcs
    <3>5. ASSUME NEW r \in Rfids, ~m_serialRfidRuning, m_serialRfidRuning',
                 pc' = [pcs EXCEPT ![r] = "idle"]
          PROVE  ThreadInv'
      <4>1. /\ pc'["timer"] = "flag" /\ pc'[r] = "idle"
            /\ \A t \in CardThreads : t # r => pc'[t] = pc[t]
        BY <1>0, <3>2, <3>5 DEF PcType
      <4>2. QED
        BY <1>0, <2>1, <3>3, <3>5, <4>1 DEF ThreadInv, TimerPcs, CardPcs
    <3>6. QED
      BY <3>1, <3>4, <3>5
  <2>3. CASE ~Reopen
    <3>1. \E to \in TimerPcs : Goes("timer", to)
      BY <1>3, <2>3 DEF cbTimer, Tick, Skip, checkNetwork, SetTime, Job, TimerPcs
    <3>2. m_serialRfidRuning' = m_serialRfidRuning
      BY <1>3, <2>3 DEF cbTimer, Tick, Skip, checkNetwork, SetTime, Job, house
    <3>3. QED
      BY <1>0, <2>1, <3>1, <3>2 DEF Goes, ThreadInv, PcType
  <2>4. QED
    BY <2>2, <2>3
<1>4. CASE ~Constructor /\ ~cbTimer /\ ~(\E t \in CardThreads : onData(t))
  <2>1. pc' = pc /\ m_serialRfidRuning' = m_serialRfidRuning /\ stage' = stage
    BY <1>4 DEF Next, PrepareSound, PulseEnds, displayNetworkStatus, Check, Tell, Store, Hangs,
       vars, house, program
  <2>2. QED
    BY <2>1 DEF ThreadInv
<1>5. QED
  BY <1>1, <1>2, <1>3, <1>4

-----------------------------------------------------------------------------
(* The flag is set before anything else is done for a card and cleared at  *)
(* the end, whichever thread processes it (lines 168, 237, 367).           *)
LEMMA FlagStep == TypeOK /\ ThreadInv /\ FlagInv /\ [Next]_vars => FlagInv'
<1> SUFFICES ASSUME TypeOK, ThreadInv, FlagInv, [Next]_vars PROVE FlagInv'
  OBVIOUS
<1>0. pc \in PcType /\ CardStep
  BY CardSteps DEF TypeOK, PcType
<1>1. ASSUME NEW t \in CardThreads, onData(t) PROVE FlagInv'
  <2>1. CASE CardDone(t)
    BY <2>1 DEF CardDone, FlagInv
  <2>2. CASE CardRead(t)
    BY <1>0, <2>2 DEF CardRead, Goes, FlagInv, Processing, PcType
  <2>3. CASE ~CardDone(t) /\ ~CardRead(t)
    <3>1. /\ Processing(t) /\ m_bProcessingRfidData' = m_bProcessingRfidData
          /\ pc' = pc \/ \E to \in CardPcs \ {"absent", "idle"} : Goes(t, to)
      BY <1>1, <2>3 DEF onData, Process, Identify, OpenGate, Record, UsesUnbuilt, ShowServer,
         card, CardPcs, Processing
    <3>2. QED
      BY <1>0, <3>1 DEF Goes, FlagInv, Processing, PcType
  <2>4. QED
    BY <2>1, <2>2, <2>3
<1>2. CASE Starts /\ (UNCHANGED card \/ \E pin : PulseEnds(pin))
  <2>1. m_bProcessingRfidData' = m_bProcessingRfidData
    BY <1>2 DEF card, PulseEnds
  <2>2. QED
    BY <1>2, <2>1 DEF Starts, FlagInv, Processing
<1>3. QED
  BY <1>0, <1>1, <1>2 DEF CardStep

(* While cards do not overlap, the one thread that processes one clears    *)
(* the LEDs first and lights one result (lines 172-236).                   *)
LEMMA ResultStep == TypeOK /\ ThreadInv /\ ResultInv /\ [Next]_vars => ResultInv'
<1> SUFFICES ASSUME TypeOK, ThreadInv, ResultInv, [Next]_vars, ~overlapped' PROVE ResultInv'
  BY DEF ResultInv
<1>0. pc \in PcType /\ CardStep /\ lit \subseteq {"green", "red", "relay"}
  BY CardSteps DEF TypeOK, PcType
<1>1. ASSUME NEW t \in CardThreads, onData(t) PROVE ResultInv'
  <2>0. ~overlapped
    BY <1>1 DEF onData, Process, CardRead, Identify, OpenGate, Record, UsesUnbuilt,
       ShowServer, CardDone, card
  <2>1. CASE CardRead(t)
    BY <1>0, <2>0, <2>1 DEF CardRead, Goes, ResultInv, Processing, Undecided, PcType
  <2>2. CASE Identify(t)
    BY <1>0, <2>0, <2>2 DEF Identify, Goes, ResultInv, Processing, Undecided, PcType
  <2>3. CASE OpenGate(t)
    BY <1>0, <2>0, <2>3 DEF OpenGate, Goes, ResultInv, Processing, Undecided, PcType
  <2>4. CASE Record(t) \/ UsesUnbuilt(t) \/ ShowServer(t) \/ CardDone(t)
    <3>1. /\ lit' = lit
          /\ Processing(t)
          /\ pc' = pc \/ \E to \in {"display", "clear", "idle"} : Goes(t, to)
      BY <2>4 DEF Record, UsesUnbuilt, ShowServer, CardDone, card, Processing
    <3>2. QED
      BY <1>0, <2>0, <3>1 DEF Goes, ResultInv, Processing, Undecided, PcType
  <2>5. QED
    BY <1>1, <2>1, <2>2, <2>3, <2>4 DEF onData, Process
<1>2. CASE Starts /\ (UNCHANGED card \/ \E pin : PulseEnds(pin))
  <2>1. overlapped' = overlapped /\ lit' \subseteq lit
    BY <1>2 DEF card, PulseEnds
  <2>2. QED
    BY <1>2, <2>1 DEF Starts, ResultInv, Processing, Undecided
<1>3. QED
  BY <1>0, <1>1, <1>2 DEF CardStep

(* What ends the program is a card in a component that is not built yet,   *)
(* or the thread of its sound; the timer comes after all of them (lines    *)
(* 556, 587-603, 609).                                                     *)
LEMMA CrashStep ==
  TypeOK /\ ThreadInv /\ OnlyEarlyCardsCrash /\ [Next]_vars => OnlyEarlyCardsCrash'
<1> SUFFICES ASSUME TypeOK, ThreadInv, OnlyEarlyCardsCrash, [Next]_vars, crashed'
             PROVE  OnlyEarlyCardsCrash'
  BY DEF OnlyEarlyCardsCrash
<1>1. CASE crashed
  <2>1. stage' = stage /\ pc' = pc /\ sounding' = sounding
    BY <1>1 DEF Next, Constructor, onData, Process, CardRead, Identify, OpenGate, Record,
       UsesUnbuilt, ShowServer, CardDone, PrepareSound, PulseEnds, cbTimer, Tick, Reopen, Skip,
       checkNetwork, SetTime, Job, displayNetworkStatus, Check, Tell, Store, Hangs, Runs, vars,
       program
  <2>2. QED
    BY <1>1, <2>1 DEF OnlyEarlyCardsCrash, Built
<1>2. CASE ~crashed
  <2>1. (\E t \in CardThreads : UsesUnbuilt(t)) \/ PrepareSound \/ Job
    BY <1>2 DEF Next, Constructor, Open, FirstCheck, Construct, StartTimer, FirstTime, onData,
       Process, CardRead, Identify, OpenGate, Record, ShowServer, CardDone, PulseEnds, cbTimer,
       Tick, Reopen, Skip, checkNetwork, SetTime, displayNetworkStatus, Check, Tell, Store,
       Hangs, vars, program
  <2>2. ~Job
    <3>1. SUFFICES ASSUME Job PROVE FALSE
      OBVIOUS
    <3>2. stage > 7
      BY <3>1 DEF Job, ThreadInv, TypeOK, Stages
    <3>3. QED
      BY <3>1, <3>2, BuiltBeforeTimer DEF Job
  <2>3. ASSUME NEW t \in CardThreads, UsesUnbuilt(t) PROVE OnlyEarlyCardsCrash'
    <3>1. stage' = stage /\ pc' = pc /\ pc[t] \in {"getInfo", "record"}
      BY <2>3 DEF UsesUnbuilt
    <3>2. ~Built("player")
      <4>1. ~Built("employees") \/ ~Built("camera")
        BY <2>3 DEF UsesUnbuilt
      <4>2. QED
        BY <4>1, PlayerIsLast
    <3>3. QED
      BY <3>1, <3>2 DEF OnlyEarlyCardsCrash, Built
  <2>4. CASE PrepareSound
    BY <1>2, <2>4 DEF PrepareSound, OnlyEarlyCardsCrash, Built
  <2>5. QED
    BY <2>1, <2>2, <2>3, <2>4
<1>3. QED
  BY <1>1, <1>2

(* Moving one thread changes nobody else's place.                          *)
LEMMA OnePlace ==
  ASSUME TypeOK, NEW t \in Threads, NEW p, disp' = [disp EXCEPT ![t] = p]
  PROVE  /\ disp'[t] = p
         /\ \A u \in Threads : u # t => /\ disp'[u] = disp[u]
                                        /\ \A s \in Steps : At(u, s)' = At(u, s)
<1>1. disp'[t] = p /\ \A u \in Threads : u # t => disp'[u] = disp[u]
  BY DEF TypeOK
<1>2. QED
  BY <1>1 DEF At

(* What is displayed follows what is remembered through every step of      *)
(* displayNetworkStatus, as long as one thread at a time changes it (lines *)
(* 439-460).                                                               *)
LEMMA LedStep == TypeOK /\ LedInv /\ [Next]_vars => LedInv'
<1> SUFFICES ASSUME TypeOK, LedInv, [Next]_vars, ~raced' PROVE LedInv'
  BY DEF LedInv
<1>0. NetworkStep
  BY NetworkSteps
<1>1. CASE UNCHANGED network
  BY <1>1 DEF network, LedInv, Changing, At
<1>2. ASSUME NEW t \in Threads, NEW v \in BOOLEAN, disp[t] = Outside, Display(t, v)
      PROVE  LedInv'
  <2>1. /\ disp'[t] = <<"check", v>>
        /\ \A u \in Threads : u # t => /\ disp'[u] = disp[u]
                                       /\ \A s \in Steps : At(u, s)' = At(u, s)
    BY <1>2, OnePlace DEF Display
  <2>2. ~At(t, "tell") /\ ~At(t, "store") /\ ~At(t, "tell")' /\ ~At(t, "store")'
    BY <1>2, <2>1 DEF At
  <2>3. UNCHANGED <<m_bNetworkAvailable, bInitialized, shown, orphan, raced>>
    BY <1>2 DEF Display
  <2>4. QED
    BY <2>1, <2>2, <2>3 DEF LedInv, Changing, Steps
<1>3. ASSUME NEW t \in Threads, displayNetworkStatus(t)
      PROVE  LedInv'
  <2>1. PICK s0 \in Steps, v \in BOOLEAN : disp[t] = <<s0, v>>
    BY <1>3, Moves, Places
  <2>2. /\ ~raced
        /\ disp[t] # Outside
        /\ \A u \in Threads : u # t => /\ disp'[u] = disp[u]
                                       /\ \A s \in Steps : At(u, s)' = At(u, s)
    <3>1. ~raced
      BY <1>3 DEF displayNetworkStatus, Check, Tell, Store
    <3>2. disp[t] # Outside /\ \E p : disp' = [disp EXCEPT ![t] = p]
      BY <1>3, Moves, Zenon
    <3>3. QED
      BY <3>1, <3>2, OnePlace
  <2>3. disp[t][2] = v
    BY <2>1
  <2>4. /\ \A s \in Steps : At(t, s) <=> s = s0
        /\ \A s1 \in Steps : disp'[t] = <<s1, v>> =>
              disp'[t][2] = v /\ \A s \in Steps : At(t, s)' <=> s = s1
        /\ disp'[t] = Outside => \A s \in Steps : ~At(t, s)'
    <3>1. \A s1 \in Steps : <<s1, v>> # Outside
      BY Places
    <3>2. QED
      BY <2>1, <3>1 DEF At
  <2>5. ASSUME disp[t] = <<"check", v>>, disp'[t] = <<"tell", v>>, Check(t) PROVE LedInv'
    <3>1. At(t, "tell")' /\ ~At(t, "store")' /\ ~At(t, "store") /\ disp'[t][2] = v
      BY <2>1, <2>5, <2>4 DEF Steps
    <3>2. /\ ~bInitialized \/ v # m_bNetworkAvailable
          /\ ~raced' => \A o \in Threads : ~At(o, "tell") /\ ~At(o, "store")
          /\ UNCHANGED <<bInitialized, m_bNetworkAvailable, shown, orphan>>
      <4>1. disp'[t] # Outside
        BY <2>5 DEF Outside
      <4>2. disp' # [disp EXCEPT ![t] = Outside]
        BY <4>1, OnePlace
      <4>3. QED
        BY <2>5, <2>3, <4>2 DEF Check
    <3>3. QED
      BY <2>2, <3>1, <3>2 DEF LedInv, Changing, Steps
  <2>6. ASSUME disp[t] = <<"check", v>>, disp'[t] = Outside, Check(t) PROVE LedInv'
    <3>1. /\ ~At(t, "tell")' /\ ~At(t, "store")' /\ ~At(t, "tell") /\ ~At(t, "store")
      BY <2>1, <2>6, <2>4 DEF Steps
    <3>2. /\ bInitialized /\ bInitialized'
          /\ UNCHANGED <<m_bNetworkAvailable, shown, orphan>>
      <4>1. disp' # [disp EXCEPT ![t] = <<"tell", v>>]
        BY <2>6, OnePlace DEF Outside
      <4>2. disp' # [disp EXCEPT ![t][1] = "tell"]
        BY <2>2, <2>3, <4>1, NextPlace DEF Steps
      <4>3. QED
        BY <2>6, <4>2 DEF Check
    <3>3. QED
      BY <2>2, <3>1, <3>2 DEF LedInv, Changing, Steps
  <2>7. ASSUME disp[t] = <<"tell", v>>, disp'[t] = <<"store", v>>, Tell(t) PROVE LedInv'
    <3>1. /\ At(t, "tell") /\ ~At(t, "store")
          /\ ~At(t, "tell")' /\ At(t, "store")' /\ disp'[t][2] = v
      BY <2>1, <2>7, <2>4 DEF Steps
    <3>2. /\ shown' = Word(v) /\ orphan' = (orphan \/ (~v /\ shown = "OFF"))
          /\ UNCHANGED <<bInitialized, m_bNetworkAvailable>>
      BY <2>7, <2>3 DEF Tell, Word
    <3>3. \A u \in Threads : u # t => ~At(u, "tell") /\ ~At(u, "store")
      BY <2>2, <3>1 DEF LedInv, Changing
    <3>4. /\ shown = IF bInitialized THEN Word(m_bNetworkAvailable) ELSE "nothing"
          /\ bInitialized => v # m_bNetworkAvailable
          /\ ~orphan
      BY <2>2, <2>3, <3>1, <3>3 DEF LedInv
    <3>5. ~(~v /\ shown = "OFF")
      BY <2>2, <3>4 DEF Word, TypeOK
    <3>6. QED
      BY <2>2, <3>1, <3>2, <3>3, <3>4, <3>5 DEF LedInv, Changing, Steps
  <2>8. ASSUME disp[t] = <<"store", v>>, disp'[t] = Outside, Store(t) PROVE LedInv'
    <3>1. /\ At(t, "store") /\ ~At(t, "tell")' /\ ~At(t, "store")'
      BY <2>1, <2>8, <2>4 DEF Steps
    <3>2. m_bNetworkAvailable' = v /\ bInitialized' /\ UNCHANGED <<shown, orphan>>
      BY <2>8, <2>3 DEF Store
    <3>3. \A u \in Threads : u # t => ~At(u, "tell") /\ ~At(u, "store")
      BY <2>2, <3>1 DEF LedInv, Changing
    <3>4. shown = Word(v) /\ ~orphan
      BY <2>2, <2>3, <3>1 DEF LedInv
    <3>5. QED
      BY <2>2, <3>1, <3>2, <3>3, <3>4 DEF LedInv, Changing, Steps
  <2>9. \/ Check(t) /\ disp'[t] = <<"tell", v>>
        \/ Check(t) /\ disp'[t] = Outside
        \/ Tell(t) /\ disp'[t] = <<"store", v>>
        \/ Store(t) /\ disp'[t] = Outside
    BY <1>3, <2>3, Moves, OnePlace, Zenon
  <2>10. /\ Check(t) => disp[t] = <<"check", v>>
         /\ Tell(t) => disp[t] = <<"tell", v>>
         /\ Store(t) => disp[t] = <<"store", v>>
    BY <2>1, <2>4 DEF Check, Tell, Store, Steps
  <2>11. QED
    BY <2>5, <2>6, <2>7, <2>8, <2>9, <2>10
<1>4. QED
  BY <1>0, <1>1, <1>2, <1>3 DEF NetworkStep

-----------------------------------------------------------------------------
(* The invariant holds in every reachable state.                           *)
LEMMA Invariance == Spec => []IInv
<1>1. IInv /\ [Next]_vars => IInv'
  BY TypeStep, ThreadStep, FlagStep, ResultStep, CrashStep, LedStep DEF IInv
<1>2. QED
  BY InitIInv, <1>1, PTL DEF Spec

(* The variables keep their types, whatever the threads of the gate, which *)
(* share them without a lock, do at once.                                  *)
THEOREM Typing == Spec => []TypeOK
<1>1. IInv => TypeOK
  BY DEF IInv
<1>2. QED
  BY Invariance, <1>1, PTL

(* The housekeeping's two flags are right for any number of consoles and   *)
(* of threads that SerialRfid::start might start: cards hold it up only    *)
(* while one is processed, and there is never a second reader (lines 168,  *)
(* 237, 353-367, 554-558).                                                 *)
THEOREM FlagsAreRight == Spec => []FlagsRight
<1>1. IInv => FlagsRight
  <2> SUFFICES ASSUME IInv PROVE FlagsRight
    OBVIOUS
  <2> DEFINE Started == {r \in Rfids : pc[r] # "absent"}
  <2>1. (\A t \in CardThreads : ~Processing(t)) => ~m_bProcessingRfidData
    BY DEF IInv, FlagInv
  <2>2. Started = {} \/ \E r \in Rfids : Started = {r}
    BY DEF IInv, ThreadInv
  <2>3. Cardinality(Started) <= 1
    <3> HIDE DEF Started
    <3>1. CASE Started = {}
      <4>1. Cardinality({}) = 0
        BY FS_EmptySet, Zenon
      <4>2. QED
        BY <3>1, <4>1
    <3>2. CASE \E r \in Rfids : Started = {r}
      <4>1. PICK r \in Rfids : Started = {r}
        BY <3>2
      <4>2. Cardinality({r}) = 1
        BY FS_Singleton, Zenon
      <4>3. QED
        BY <4>1, <4>2
    <3>3. QED
      BY <2>2, <3>1, <3>2
  <2>4. QED
    BY <2>1, <2>3 DEF FlagsRight
<1>2. QED
  BY Invariance, <1>1, PTL

(* A visitor is not shown two results unless cards overlap, which takes    *)
(* the reader and the console (lines 172, 173).                            *)
THEOREM OneResultOnly == Spec => []OneResult
<1>1. IInv => OneResult
  BY DEF IInv, ResultInv, OneResult
<1>2. QED
  BY Invariance, <1>1, PTL

(* The housekeeping never calls a component that is not built; what ends   *)
(* the program is a card read before the player is there, by a component   *)
(* that it needs or by its sound (lines 556, 587-603, 609).                *)
THEOREM OnlyEarlyCardsEndIt == Spec => []OnlyEarlyCardsCrash
<1>1. IInv => OnlyEarlyCardsCrash
  BY DEF IInv
<1>2. QED
  BY Invariance, <1>1, PTL

(* The display and the yellow LED show what is remembered, unless two      *)
(* threads have changed the status at once (lines 439-460).                *)
THEOREM LedShowsTheNetwork == Spec => []LedAgrees
<1>1. IInv => LedAgrees
  <2> SUFFICES ASSUME IInv, bInitialized, \A t \in Threads : disp[t] = Outside, ~raced
               PROVE  shown = Word(m_bNetworkAvailable) /\ ~orphan
    BY DEF LedAgrees, Word
  <2>1. \A t \in Threads : ~At(t, "store")
    BY DEF At
  <2>2. QED
    BY <2>1 DEF IInv, LedInv
<1>2. QED
  BY Invariance, <1>1, PTL

-----------------------------------------------------------------------------
(* Where the server is asked first, a thread that has asked knows whether  *)
(* it answered, and it shows that at the end only.                         *)
Asked(t) == pc[t] \in {"granted", "record", "display", "clear"}
ServerInv ==
  ~UseLocalDB => \A t \in CardThreads : /\ Asked(t) => bServerActive[t] # -1
                                        /\ disp[t] # Outside => pc[t] = "clear"

(* Every step keeps what the card threads know of the server.              *)
LEMMA ServerStep == TypeOK /\ ThreadInv /\ ServerInv /\ [Next]_vars => ServerInv'
<1> SUFFICES ASSUME TypeOK, ThreadInv, ServerInv, [Next]_vars, ~UseLocalDB PROVE ServerInv'
  BY DEF ServerInv
<1>0. /\ pc \in PcType /\ CardStep /\ NetworkStep /\ bServerActive \in [CardThreads -> {-1, 0, 1}]
      /\ CardThreads \subseteq Threads
      /\ "main" \notin CardThreads /\ "timer" \notin CardThreads
  BY CardSteps, NetworkSteps, ThreadsAssumption DEF TypeOK, PcType, Threads, CardThreads
<1>1. ASSUME NEW t \in CardThreads, onData(t) PROVE ServerInv'
  <2>1. ASSUME NEW u \in CardThreads, u # t
        PROVE  pc'[u] = pc[u] /\ bServerActive'[u] = bServerActive[u] /\ disp'[u] = disp[u]
    BY <1>0, <1>1, <2>1 DEF onData, Process, CardRead, Identify, OpenGate, Record, UsesUnbuilt,
       ShowServer, CardDone, Goes, Display, network, card, PcType, TypeOK
  <2>2. /\ Asked(t)' => bServerActive'[t] # -1
        /\ disp'[t] # Outside => pc'[t] = "clear"
    BY <1>0, <1>1 DEF onData, Process, CardRead, Identify, OpenGate, Record, UsesUnbuilt,
       ShowServer, CardDone, Goes, Runs, network, card, PcType, Asked, ServerInv
  <2>3. QED
    BY <2>1, <2>2 DEF ServerInv, Asked
<1>2. CASE ~(\E t \in CardThreads : onData(t))
  <2>1. Starts /\ bServerActive' = bServerActive
    BY <1>0, <1>2 DEF CardStep, card, PulseEnds
  <2>2. ASSUME NEW t \in CardThreads, disp'[t] # Outside PROVE disp[t] # Outside
    <3>1. ASSUME NEW u \in Threads, displayNetworkStatus(u) PROVE disp[t] # Outside
      BY <1>0, <2>2, <3>1, Moves, OnePlace
    <3>2. CASE ~(\E u \in Threads : displayNetworkStatus(u))
      <4>1. disp' = disp \/ \E u \in {"main", "timer"}, v \in BOOLEAN : Display(u, v)
        BY <1>2, <3>2 DEF Next, Constructor, Open, FirstCheck, Construct, StartTimer, FirstTime,
           PrepareSound, PulseEnds, cbTimer, Tick, Reopen, Skip, checkNetwork, SetTime, Job,
           Hangs, vars,
           network
      <4>2. QED
        BY <1>0, <2>2, <4>1 DEF Display, TypeOK
    <3>3. QED
      BY <3>1, <3>2
  <2>3. QED
    BY <2>1, <2>2 DEF ServerInv, Asked, Starts
<1>3. QED
  BY <1>1, <1>2

(* A server of which nothing is known is displayed as there only where the *)
(* local database is used: with the server asked first, -1 is never told   *)
(* (maindelegator.cpp:177, 231-236).                                       *)
THEOREM UnknownOnlyFromLocalDb == ~UseLocalDB /\ Spec => []UnknownNotShown
<1>1. Init => ServerInv
  <2>1. Init => \A t \in CardThreads : pc[t] = "absent" /\ disp[t] = Outside
    BY DEF Init, Threads
  <2>2. QED
    BY <2>1 DEF ServerInv, Asked
<1>2. IInv /\ ServerInv /\ [Next]_vars => ServerInv'
  BY ServerStep DEF IInv
<1>3. ~UseLocalDB /\ ServerInv => UnknownNotShown
  BY DEF ServerInv, Asked, UnknownNotShown, At
<1>4. CASE ~UseLocalDB
  BY <1>1, <1>2, <1>3, <1>4, Invariance, PTL DEF Spec
<1>5. QED
  BY <1>4
=============================================================================
