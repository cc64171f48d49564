------------------------------- MODULE Request -------------------------------
(***************************************************************************)
(* What the callers of WebService count on (TimeSheetMgr, EmployeeInfoMgr, *)
(* MainDelegator): a call ends at most once; if it returns a value the     *)
(* server has processed the request; if it throws, the server may have     *)
(* processed it or may still do so.  No call is processed twice.           *)
(***************************************************************************)
CONSTANTS Requests

VARIABLES outcome,    \* "none", "pending", "value" or "exception"
          processed,  \* the requests that the server has carried out
          sound       \* FALSE once nothing is promised any more
vars == <<outcome, processed, sound>>

Init == /\ outcome = [r \in Requests |-> "none"]
        /\ processed = {}
        /\ sound = TRUE

Ends(r, from, to) == /\ outcome[r] = from
                     /\ outcome' = [outcome EXCEPT ![r] = to]
                     /\ UNCHANGED processed

Ask(r) == Ends(r, "none", "pending")

Process(r) == /\ outcome[r] # "none" /\ r \notin processed
              /\ processed' = processed \cup {r}
              /\ UNCHANGED outcome

ReturnValue(r) == r \in processed /\ Ends(r, "pending", "value")

Throw(r) == Ends(r, "pending", "exception")

Next == \/ /\ sound /\ sound'
           /\ \E r \in Requests : Ask(r) \/ Process(r) \/ ReturnValue(r) \/ Throw(r)
        \/ ~sound'

Spec == Init /\ [][Next]_vars
=============================================================================
