------------------------------- MODULE Outbox -------------------------------
(***************************************************************************)
(* What the time sheet manager (timesheetmgr.cpp) promises the gate, with  *)
(* no threads, files or network requests in sight: a sheet that was        *)
(* accepted is kept until the server has it, it may be delivered more than *)
(* once, and only a power loss may make the unit forget a sheet that was   *)
(* not delivered.                                                          *)
(***************************************************************************)

CONSTANT Sheets        \* the time sheets the gate may produce

VARIABLES outbox,      \* accepted sheets that the unit still keeps
          delivered,   \* sheets the server has stored at least once
          crashed      \* TRUE once the unit has lost power

vars == <<outbox, delivered, crashed>>

Init == /\ outbox = {}
        /\ delivered = {}
        /\ crashed = FALSE

Accept(ts) == /\ ts \notin outbox \cup delivered
              /\ outbox' = outbox \cup {ts}
              /\ UNCHANGED <<delivered, crashed>>

Deliver(ts) == /\ ts \in outbox
               /\ delivered' = delivered \cup {ts}
               /\ UNCHANGED <<outbox, crashed>>

(* Sheets leave the outbox once the server has them; after a power loss    *)
(* undelivered ones may be missing too.                                    *)
Forget(S) == /\ S \subseteq outbox
             /\ S \subseteq delivered \/ crashed'
             /\ outbox' = outbox \ S
             /\ crashed => crashed'
             /\ UNCHANGED delivered

Next == \/ \E ts \in Sheets : Accept(ts) \/ Deliver(ts)
        \/ \E S \in SUBSET Sheets : Forget(S)

Spec == Init /\ [][Next]_vars
=============================================================================
