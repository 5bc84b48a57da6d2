--------------------------- MODULE SlotReservations ---------------------------
(***************************************************************************)
(* What the booking feature promises to those who ask for slots, without   *)
(* rows, locks, processes or failures: a slot is held by one request at a  *)
(* time, is given back once and for all, and nobody is told otherwise.     *)
(***************************************************************************)
CONSTANTS Requests,
          Clash  \* the pairs of requests whose slots have a moment in common

VARIABLES place,  \* what a request has: "nothing", its slot, or a slot it gave back
          told    \* what its client was told: "nothing", "yes" or "no"

vars == <<place, told>>

TypeOK == /\ place \in [Requests -> {"nothing", "held", "given back"}]
          /\ told \in [Requests -> {"nothing", "yes", "no"}]

Init == /\ place = [r \in Requests |-> "nothing"]
        /\ told = [r \in Requests |-> "nothing"]

\* A slot is granted while no clashing one is held, to a request not yet refused.
Grant(r) == /\ place[r] = "nothing" /\ told[r] = "nothing"
            /\ \A q \in Requests : <<q, r>> \in Clash => place[q] # "held"
            /\ place' = [place EXCEPT ![r] = "held"]
            /\ UNCHANGED told

GiveBack(r) == /\ place[r] = "held"
               /\ place' = [place EXCEPT ![r] = "given back"]
               /\ UNCHANGED told

\* The client hears "yes" after the grant, perhaps when the slot is already
\* given back.
TellYes(r) == /\ place[r] # "nothing" /\ told[r] = "nothing"
              /\ told' = [told EXCEPT ![r] = "yes"]
              /\ UNCHANGED place

\* After a "no" there is no grant.
TellNo(r) == /\ place[r] = "nothing" /\ told[r] = "nothing"
             /\ told' = [told EXCEPT ![r] = "no"]
             /\ UNCHANGED place

Next == \E r \in Requests : Grant(r) \/ GiveBack(r) \/ TellYes(r) \/ TellNo(r)

Spec == Init /\ [][Next]_vars
===============================================================================
