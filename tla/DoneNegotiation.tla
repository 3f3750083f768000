-------------------------- MODULE DoneNegotiation --------------------------
(***************************************************************************)
(* What guarding "done" promises to the agent's host: the agent's claim is *)
(* sent back at most "limit" times, every other answer ends the run, and   *)
(* an ended run answers nothing more.                                      *)
(***************************************************************************)
EXTENDS Naturals

CONSTANTS HardLimit,    \* no policy allows more interventions
          Endings       \* how a run may end

VARIABLES
    limit,              \* the policy's limit
    sentBack,           \* how often "done" was sent back
    ending              \* {} while the run is open

vars == <<limit, sentBack, ending>>

Init == limit \in 0 .. HardLimit /\ sentBack = 0 /\ ending = {}

SendBack ==
    /\ ending = {} /\ sentBack < limit
    /\ sentBack' = sentBack + 1
    /\ UNCHANGED <<limit, ending>>

End ==
    /\ ending = {}
    /\ \E e \in Endings : ending' = {e}
    /\ UNCHANGED <<limit, sentBack>>

Next == SendBack \/ End
Spec == Init /\ [][Next]_vars
=============================================================================
