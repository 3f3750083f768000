------------------------ MODULE VerificationPromise ------------------------
(***************************************************************************)
(* What a verification visit promises to the app it looks at: every input  *)
(* of the route reaches the app at most once and in the order of the       *)
(* route, none after something blocked the view, and whoever is told that  *)
(* the route is completed can rely on all its inputs.                      *)
(***************************************************************************)
EXTENDS Naturals, Sequences

VARIABLES plan,      \* the route steps that touch the app, as numbers
          sent,      \* the inputs sent so far, in order
          blocked, verdict

promiseVars == <<plan, sent, blocked, verdict>>

PromiseInit == plan \subseteq Nat /\ sent = <<>> /\ blocked = FALSE /\ verdict = "PENDING"

SentSet == {sent[i] : i \in DOMAIN sent}

Send(k) ==
    /\ verdict = "PENDING" /\ ~blocked
    /\ \A t \in SentSet : t < k
    /\ sent' = Append(sent, k)
    /\ UNCHANGED <<plan, blocked, verdict>>

SeeBlocker ==
    /\ verdict = "PENDING" /\ blocked' = TRUE
    /\ UNCHANGED <<plan, sent, verdict>>

\* A blocker may be seen in the very look that ends the visit.
Give(v) ==
    /\ verdict = "PENDING" /\ v # "PENDING"
    /\ blocked' \in {blocked, TRUE}
    /\ blocked' => v = "ENV_BLOCKED"
    /\ v = "COMPLETED" => SentSet = plan
    /\ verdict' = v /\ UNCHANGED <<plan, sent>>

PromiseNext ==
    \/ \E k \in plan : Send(k)
    \/ SeeBlocker
    \/ \E v \in {"NOT_RUN", "COMPLETED", "ROUTE_FAILED", "ENV_BLOCKED", "UNSUPPORTED"} : Give(v)

PromiseSpec == PromiseInit /\ [][PromiseNext]_promiseVars
=============================================================================
