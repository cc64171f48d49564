----------------------------- MODULE Reception -----------------------------
(***************************************************************************)
(* A card from the reader to its sound: MainDelegator's onData is called   *)
(* in the reader's thread, stops the last sound and starts its own.  The   *)
(* constructor starts a sound, too, when the reader may already run.  What *)
(* else onData does is in Gate; here it takes time.                        *)
(***************************************************************************)
EXTENDS CardReader, WavPlayer

VARIABLES m_bSound,
          onData,   \* "idle", "stopped" or "answered"
          greeted   \* the constructor has started its sound

vars == <<readerVars, wavVars, m_bSound, onData, greeted>>

Init == /\ ReaderInit /\ WavInit
        /\ m_bSound \in BOOLEAN
        /\ onData = "idle" /\ greeted = FALSE

Greet == /\ ~greeted /\ greeted' = TRUE
         /\ alsa_play
         /\ UNCHANGED <<readerVars, m_bSound, onData>>

StopSound == /\ reader = "data" /\ onData = "idle"
             /\ onData' = "stopped"
             /\ alsa_stop
             /\ UNCHANGED <<readerVars, m_bSound, greeted>>

(* ok.wav or fail.wav.                                                     *)
PlayResult == /\ onData = "stopped"
              /\ onData' = "answered"
              /\ IF m_bSound THEN alsa_play ELSE UNCHANGED wavVars
              /\ UNCHANGED <<readerVars, m_bSound, greeted>>

Return == /\ onData = "answered"
          /\ onData' = "idle"
          /\ DataDone
          /\ UNCHANGED <<wavVars, m_bSound, greeted>>

Next == /\ reader # "over"
        /\ \/ /\ Visitors \/ Device \/ Time \/ Thread
              /\ UNCHANGED <<wavVars, m_bSound, onData, greeted>>
           \/ /\ \E p \in Players : run(p)
              /\ UNCHANGED <<readerVars, m_bSound, onData, greeted>>
           \/ Greet \/ StopSound \/ PlayResult \/ Return

Spec == Init /\ [][Next]_vars
=============================================================================
