-------------------------------- MODULE Fifo --------------------------------
(***************************************************************************)
(* What a log promises: the messages it has accepted come out once each,   *)
(* in the order in which they went in; once closed it accepts no more, and *)
(* it ends only when everything is out.                                    *)
(***************************************************************************)
EXTENDS Naturals, Sequences

CONSTANT Messages

VARIABLES accepted, \* the messages in the order of their acceptance
          out,      \* those that have come out
          status    \* "open", "closed" or "ended"

vars == <<accepted, out, status>>

Init == accepted = <<>> /\ out = <<>> /\ status = "open"

Accept(m) == /\ status = "open"
             /\ accepted' = Append(accepted, m)
             /\ UNCHANGED <<out, status>>

Deliver == /\ status # "ended"
           /\ Len(out) < Len(accepted)
           /\ out' = Append(out, accepted[Len(out) + 1])
           /\ UNCHANGED <<accepted, status>>

Close == /\ status = "open"
         /\ status' = "closed"
         /\ UNCHANGED <<accepted, out>>

End == /\ status = "closed"
       /\ Len(out) = Len(accepted)
       /\ status' = "ended"
       /\ UNCHANGED <<accepted, out>>

Next == (\E m \in Messages : Accept(m)) \/ Deliver \/ Close \/ End

Spec == Init /\ [][Next]_vars
=============================================================================
