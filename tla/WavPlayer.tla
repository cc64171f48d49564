----------------------------- MODULE WavPlayer -----------------------------
(***************************************************************************)
(* The sound player (tools/wavplayeralsa.c): every play starts a detached  *)
(* thread, and all of them share bPlaying, a buffer and the device.  The   *)
(* files are there and are WAV files; they may be shorter than their       *)
(* header says.                                                            *)
(***************************************************************************)
EXTENDS Integers

CONSTANTS Players,    \* bound: threads that play at a time
          MaxBuffers  \* bound: buffers in a file

ASSUME MaxBuffersAssumption == MaxBuffers \in Nat \ {0}

VARIABLES
  bPlaying,
  leavedByte,  \* how many buffers each thread of run has left to play, or Ended
  stopped      \* history: active threads for which there has been a stop

wavVars == <<bPlaying, leavedByte, stopped>>

Ended == -1
Active == {p \in Players : leavedByte[p] # Ended}

WavInit == /\ bPlaying = FALSE
           /\ leavedByte = [p \in Players |-> Ended]
           /\ stopped = {}

(* The flag is set again at once: a thread that has not looked at it since *)
(* the stop plays on, together with the new one.                           *)
alsa_play ==
  /\ bPlaying' = TRUE
  /\ \E p \in Players \ Active, n \in 1 .. MaxBuffers :
       leavedByte' = [leavedByte EXCEPT ![p] = n]
  /\ UNCHANGED stopped

alsa_stop ==
  /\ bPlaying' = FALSE
  /\ stopped' = stopped \cup Active
  /\ UNCHANGED leavedByte

End(p) == /\ leavedByte' = [leavedByte EXCEPT ![p] = Ended]
          /\ stopped' = stopped \ {p}

(* The device is not ready.                                                *)
PrepareFails(p) == p \in Active /\ End(p) /\ UNCHANGED bPlaying

(* fread and snd_pcm_writei.  At the end of a file that is too short fread *)
(* brings nothing, again and again.                                        *)
PlayBuffer(p) ==
  /\ bPlaying /\ leavedByte[p] > 0
  /\ \E n \in {0, 1} : leavedByte' = [leavedByte EXCEPT ![p] = @ - n]
  /\ UNCHANGED <<bPlaying, stopped>>

(* Mutant: a thread that has played its file clears the flag.              *)
LoopEnds_Clears(p) ==
  /\ p \in Active /\ (~bPlaying \/ leavedByte[p] = 0)
  /\ End(p)
  /\ bPlaying' = FALSE
LoopEnds(p) ==
  /\ p \in Active /\ (~bPlaying \/ leavedByte[p] = 0)
  /\ End(p)
  /\ UNCHANGED bPlaying

run(p) == PrepareFails(p) \/ PlayBuffer(p) \/ LoopEnds(p)

-----------------------------------------------------------------------------
(* A sound is cut short only by a stop that came after it was started,     *)
(* never by an older sound's, whose thread sees the same flag              *)
(* (wavplayeralsa.c:115, 139, 155).                                        *)
CutByStop ==
  [][\A p \in Players : LoopEnds(p) /\ leavedByte[p] > 0 => p \in stopped]_wavVars
=============================================================================
