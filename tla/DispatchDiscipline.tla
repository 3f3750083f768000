------------------------ MODULE DispatchDiscipline -------------------------
(***************************************************************************)
(* What executing a test case promises to the app under test: the steps    *)
(* act in order, at most one action of the current step is in force at any *)
(* time (a goal, which may act more than once, has none), a further one    *)
(* needs the first to be undone, and nothing acts once the run is over.    *)
(***************************************************************************)
EXTENDS Naturals

CONSTANT N      \* number of steps

VARIABLES
    done,       \* how many steps completed
    live,       \* attempts of step done + 1 whose action is in force
    over        \* the run ended

vars == <<done, live, over>>

One(attempts) == \E attempt \in attempts : attempts = {attempt}

Init == done = 0 /\ live = {} /\ over = FALSE

Act ==
    /\ ~over /\ live = {}
    /\ One(live')
    /\ UNCHANGED <<done, over>>

\* A dismissed overlay, or Back from a wrong page.
Undo ==
    /\ ~over /\ live # {}
    /\ live' = {}
    /\ UNCHANGED <<done, over>>

Advance ==
    /\ ~over /\ done < N
    /\ done' = done + 1
    /\ live' = {}
    /\ over' = (done' = N)

\* The run stops in step done + 1, with its action in force or not.
Stop ==
    /\ ~over
    /\ over' = TRUE
    /\ live' = {} \/ One(live')
    /\ UNCHANGED done

Next == Act \/ Undo \/ Advance \/ Stop
Spec == Init /\ [][Next]_vars
=============================================================================
