------------------------- MODULE ContractSelection -------------------------
(***************************************************************************)
(* Which contract a trace is judged by: contract_router.py asks the frozen *)
(* registry, then the family templates, then (if enabled) the just-in-time *)
(* compiler, stops at the first hit and audits every attempt; a source     *)
(* that is broken ends the selection, it is never skipped.  The pre-run    *)
(* pass of a campaign selects a contract and writes it to a create-once    *)
(* freeze file (contract_freeze.py); the verifier restores the frozen      *)
(* contract if there is one and selects by itself if there is none.        *)
(*                                                                         *)
(* A contract is the source it came from, its kind (which criteria it has) *)
(* and what it needs of the UI tree: nothing, the tree as contract-level   *)
(* mandatory evidence, or the tree for one criterion.  What the sources    *)
(* offer may change between two selections.  MaxCompiles bounds the runs   *)
(* of the pre-run pass.                                                    *)
(***************************************************************************)
EXTENDS Naturals, Sequences

CONSTANT MaxCompiles

ASSUME SelectionBounds == MaxCompiles \in Nat \ {0}

VARIABLES pc,         \* where the pre-run pass or the verification is
          purpose,    \* "none", "freeze" (the pre-run pass) or "verify"
          compiles,   \* pre-run passes so far
          offer,      \* what route_contract is given
          attempts,   \* ContractSelectionAudit.attempts: [source, decision]
          proposals,  \* calls of the proposer in this selection
          contract,   \* the contract selected or restored
          freeze      \* the freeze file: [state, contract, attempts]

selection == <<pc, purpose, compiles, offer, attempts, proposals, contract, freeze>>

Sources == <<"REGISTRY", "TEMPLATE", "VALIDATED_JIT">>
NoContract == [source |-> "NONE", kind |-> "none", needs |-> "none"]
Contract(source, kind, needs) == [source |-> source, kind |-> kind, needs |-> needs]

\* The built-in registry has the cross-app contract; a registry file may have any.
RegistryContracts == {Contract("REGISTRY", kind, "none") : kind \in {"phase5", "family"}}
TemplateContract == Contract("TEMPLATE", "family", "none")
JitContracts == {Contract("VALIDATED_JIT", "jit", n) : n \in {"none", "contract", "criterion"}}

Offers == [registry : {"hit", "miss", "broken"},
           template : {"match", "none", "broken"},
           jit : {"off", "unusable", "on"},
           feedback : BOOLEAN]
NoOffer == [registry |-> "miss", template |-> "none", jit |-> "off", feedback |-> FALSE]

NoFreeze == [state |-> "absent", contract |-> NoContract, attempts |-> <<>>]
MaxProposals == 1 + IF offer.feedback THEN 2 ELSE 0

SelectionInit ==
    /\ pc = "idle" /\ purpose = "none" /\ compiles = 0 /\ offer = NoOffer
    /\ attempts = <<>> /\ proposals = 0 /\ contract = NoContract /\ freeze = NoFreeze

Attempted(source, decision) ==
    attempts' = Append(attempts, [source |-> source, decision |-> decision])

Select(source, selected) ==
    /\ Attempted(source, "SELECTED")
    /\ contract' = selected
    /\ pc' = IF purpose = "freeze" THEN "write" ELSE "routed"
    /\ offer' = NoOffer /\ proposals' = 0

\* ContractRouterError: the pre-run pass gives up, the verifier reports UNSUPPORTED.
Reject(source, decision) ==
    /\ Attempted(source, decision)
    /\ pc' = IF purpose = "freeze" THEN "idle" ELSE "rejected"
    /\ offer' = NoOffer /\ proposals' = 0
    /\ UNCHANGED contract

Miss(source, next) ==
    /\ Attempted(source, "MISS")
    /\ pc' = next
    /\ UNCHANGED <<offer, proposals, contract>>

Routing == UNCHANGED <<purpose, compiles, freeze>>

AskRegistry ==
    /\ pc = "registry" /\ Routing
    /\ \/ offer.registry = "hit" /\ \E c \in RegistryContracts : Select("REGISTRY", c)
       \/ offer.registry = "broken" /\ Reject("REGISTRY", "REJECTED")
       \/ offer.registry = "miss" /\ Miss("REGISTRY", "template")

\* Two candidates for one key, an invalid catalogue and a failed instantiation reject.
AskTemplate ==
    /\ pc = "template" /\ Routing
    /\ \/ offer.template = "match" /\ Select("TEMPLATE", TemplateContract)
       \/ offer.template = "broken" /\ Reject("TEMPLATE", "REJECTED")
       \/ offer.template = "none" /\ Miss("TEMPLATE", "jit")

JitUnavailable ==
    /\ pc = "jit" /\ Routing
    /\ \/ offer.jit = "off" /\ Reject("VALIDATED_JIT", "DISABLED")
       \/ offer.jit = "unusable" /\ Reject("VALIDATED_JIT", "REJECTED")

\* One call of the proposer: a contract past the validator, a reply that is not the JSON
\* of the schema (asked again with the compiler's message, if the proposer takes it), or
\* a refusal, a failure or a rejected contract, which are final.
compile_jit_contract ==
    /\ pc = "jit" /\ offer.jit = "on" /\ Routing
    /\ \/ \E c \in JitContracts : Select("VALIDATED_JIT", c)
       \/ /\ proposals + 1 < MaxProposals /\ proposals' = proposals + 1
          /\ UNCHANGED <<pc, offer, attempts, contract>>
       \/ Reject("VALIDATED_JIT", "REJECTED")

route_contract == AskRegistry \/ AskTemplate \/ JitUnavailable \/ compile_jit_contract

-----------------------------------------------------------------------------
(* The freeze file.                                                        *)

Begin(why, next) ==
    /\ purpose' = why /\ pc' = next
    /\ attempts' = <<>> /\ contract' = NoContract
    /\ UNCHANGED <<proposals, freeze>>

_pre_run_contract_freeze ==
    /\ pc = "idle" /\ compiles < MaxCompiles
    /\ compiles' = compiles + 1
    /\ \E o \in Offers : offer' = o
    /\ Begin("freeze", "registry")

\* As write_contract_freeze when the newest selection replaces the file.
write_contract_freeze_over ==
    /\ pc = "write" /\ pc' = "idle"
    /\ freeze' = [state |-> "written", contract |-> contract, attempts |-> attempts]
    /\ UNCHANGED <<purpose, compiles, offer, attempts, proposals, contract>>

\* Create-once: an existing file is accepted if it is the same and never overwritten; a
\* crash inside the write leaves a torn one.
write_contract_freeze ==
    /\ pc = "write" /\ pc' = "idle"
    /\ IF freeze.state = "absent"
       THEN \/ freeze' = [state |-> "written", contract |-> contract, attempts |-> attempts]
            \/ freeze' = [NoFreeze EXCEPT !.state = "torn"]
       ELSE UNCHANGED freeze
    /\ UNCHANGED <<purpose, compiles, offer, attempts, proposals, contract>>

BeginVerification ==
    /\ pc = "idle"
    /\ IF freeze.state = "absent"
       THEN Begin("verify", "registry") /\ \E o \in Offers : offer' = o
       ELSE Begin("verify", "restore") /\ offer' = NoOffer
    /\ UNCHANGED compiles

\* A freeze that is torn, or binds another task than the requested one, is refused.
routed_contract_from_freeze ==
    /\ pc = "restore"
    /\ \/ /\ freeze.state = "written"
          /\ contract' = freeze.contract /\ attempts' = freeze.attempts /\ pc' = "routed"
       \/ pc' = "refused" /\ UNCHANGED <<contract, attempts>>
    /\ UNCHANGED <<purpose, compiles, offer, proposals, freeze>>

SelectionStep ==
    \/ route_contract \/ _pre_run_contract_freeze \/ write_contract_freeze
    \/ BeginVerification \/ routed_contract_from_freeze

-----------------------------------------------------------------------------
(* What should hold of them.                                               *)

Audited(audit, c) ==
    /\ audit # <<>>
    /\ audit[Len(audit)] = [source |-> c.source, decision |-> "SELECTED"]
    /\ \A i \in 1..(Len(audit) - 1) : audit[i] = [source |-> Sources[i], decision |-> "MISS"]

\* A contract in force or on file was found by the first source that had one: every
\* source before it was asked and had none (a broken source is never skipped); a model
\* proposes only after the registry and the templates, and at most three times.
SelectionFallsThrough ==
    /\ contract # NoContract => Audited(attempts, contract)
    /\ freeze.state = "written" => Audited(freeze.attempts, freeze.contract)
    /\ proposals > 0 => /\ proposals < MaxProposals /\ Len(attempts) = 2
                        /\ \A i \in 1..2 : attempts[i].decision = "MISS"

\* A freeze file, once written, stays what it is however often the pre-run pass is run
\* again and whatever the sources offer then; a verification that finds one judges by
\* the frozen contract or not at all, and asks no source anew.
FrozenContractStands ==
    [][/\ freeze.state # "absent" => freeze' = freeze
       /\ purpose' = "verify" /\ freeze.state # "absent" =>
             contract' \in {NoContract, freeze.contract} /\ attempts' \in {<<>>, freeze.attempts}
      ]_selection
=============================================================================
