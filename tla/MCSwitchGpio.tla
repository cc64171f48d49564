---------------------------- MODULE MCSwitchGpio ----------------------------
(* Model-checking instance of SwitchGpio: a pin that is pulsed (the relay, *)
(* the result LEDs), whose three Timer identities let two pulses overlap   *)
(* while the thread of a third is still returning, and one that blinks     *)
(* (the network LED), where an old timer runs on beside the next.  Its run *)
(* checks liveness, so no symmetry is declared.                            *)
EXTENDS SwitchGpio
CONSTANTS t1, t2, t3

MCUses == {[calls |-> {"pulse", "off"}, timers |-> {t1, t2, t3}],
           [calls |-> {"blink", "off"}, timers |-> {t1, t2}]}
=============================================================================
