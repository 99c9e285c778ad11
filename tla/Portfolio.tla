----------------------------- MODULE Portfolio -----------------------------
(***************************************************************************)
(* Portfolio states, the transition policy and the transitions of the      *)
(* Active slot (portfolio_state.py, transition_policy.py,                  *)
(* asp_transition.py, execution_checkpoint.py, human_gate_decision.py).    *)
(* Values and operators only.  An operation that raises yields the empty   *)
(* set.                                                                    *)
(***************************************************************************)
EXTENDS Naturals, Sequences, FiniteSets

CONSTANTS
    Works,       \* work ids
    Wakes,       \* wake conditions of blocked work
    Boundaries,  \* authority boundaries
    Identities,  \* identities of external triggers: source and event id
    Policy,      \* the rules of the transition policy
    None         \* an absent value

LifecycleStates == {"ready", "running", "verifying", "complete", "waiting_external",
                    "rework", "di_required", "human_gate", "failed", "passive"}
BlockerKinds == {"external_dependency", "authority"}

TransitionEvents == {"execution_started", "execution_completed", "verification_passed",
                     "verification_failed", "external_blocker", "diagnosis_required",
                     "authority_required", "wake_satisfied", "fatal_failure"}
EvidenceKinds == {"verifier_pass", "verifier_reject", "external_blocker", "no_internal_work",
                  "wake_condition_satisfied", "provider_report"}

Rules == [from: LifecycleStates, event: TransitionEvents, to: LifecycleStates,
          effect: {"none", "promote_secondary", "park_active", "wake_passive",
                   "request_di", "stop_human_gate"},
          evidence: SUBSET EvidenceKinds,
          mode: {"none", "preauthorized_required", "human_required"},
          boundary: Boundaries \union {None}]

\* TransitionRule.__post_init__
ValidRule(r) ==
    /\ r.mode = "none" <=> r.boundary = None
    /\ r.mode = "human_required" <=> r.effect = "stop_human_gate"
    /\ r.mode = "human_required" => r.to = "human_gate"
    /\ r.from = "human_gate" => r.mode = "preauthorized_required"
    /\ r.effect = "promote_secondary" => r.event = "verification_passed" /\ r.to = "complete"
    /\ r.effect = "park_active" => r.event = "external_blocker" /\ r.to = "passive"
    /\ r.effect = "wake_passive" =>
           r.from = "passive" /\ r.event = "wake_satisfied" /\ r.to = "ready"
    /\ r.effect = "request_di" => r.to = "di_required"

\* TransitionPolicy.__post_init__: valid rules and no ambiguous match.
ValidPolicy(rules) ==
    /\ rules \subseteq Rules
    /\ \A r \in rules : ValidRule(r)
    /\ \A r, q \in rules : r.from = q.from /\ r.event = q.event => r = q

\* In the code every event brings the policy it was made for, bound by digest; here
\* one policy holds the rules of all of them.
ASSUME PolicyAssumption == ValidPolicy(Policy)

ASSUME NoneAssumption ==
    None \notin Wakes /\ None \notin Boundaries /\ None \notin Policy /\ None \notin Identities

\* match_transition_rule: the one rule, or nothing.
Matching(state, event) == {r \in Policy : r.from = state /\ r.event = event}

-----------------------------------------------------------------------------
(* Portfolio states *)

\* A grant names the rule it authorizes; authority is the one that opened a gate.
Entries == [work: Works, state: LifecycleStates, blockers: SUBSET BlockerKinds,
            wake: Wakes \union {None}, boundary: Boundaries \union {None},
            authority: Policy \union {None}]

\* PortfolioEntry.__post_init__, by role
ActiveEntry(e) ==
    /\ e.state # "passive"
    /\ e.wake # None => e.state = "waiting_external"
    /\ e.state = "waiting_external" => e.blockers # {}
    /\ e.state = "human_gate" => e.boundary # None /\ "authority" \in e.blockers

SecondaryEntry(e) == e.state = "ready" /\ e.blockers = {} /\ e.wake = None

PassiveEntry(e) == e.state = "passive" /\ e.blockers # {} /\ e.wake # None

Bodies == [active: Entries, secondary: Entries, passive: SUBSET Entries]

\* A digest covers the digest before it: it stands for all bodies so far.
Digests == Seq(Bodies)
States == [generation: Nat, active: Entries, secondary: Entries,
           passive: SUBSET Entries, previous: Digests]

\* What a state is stored with; reading it back yields the same or raises.
Body(s) == [active |-> s.active, secondary |-> s.secondary, passive |-> s.passive]
Digest(s) == Append(s.previous, Body(s))

WorksOf(s) == {s.active.work, s.secondary.work} \union {p.work : p \in s.passive}

\* PortfolioState.__post_init__; the sorted passive entries are a set.
WellFormed(s) ==
    /\ ActiveEntry(s.active)
    /\ SecondaryEntry(s.secondary)
    /\ \A p \in s.passive : PassiveEntry(p)
    /\ s.active.work # s.secondary.work
    /\ \A p \in s.passive : p.work \notin {s.active.work, s.secondary.work}
    /\ \A p, q \in s.passive : p.work = q.work => p = q
    /\ s.generation = 0 <=> s.previous = <<>>

-----------------------------------------------------------------------------
(* Evidence and authority *)

\* MANDATORY_EFFECT_EVIDENCE
MandatoryEvidence(effect) ==
    CASE effect = "promote_secondary" -> {"verifier_pass"}
      [] effect = "park_active" -> {"external_blocker", "no_internal_work"}
      [] effect = "wake_passive" -> {"wake_condition_satisfied"}
      [] OTHER -> {}

\* _verify_evidence
EvidenceSuffices(r, evidence) ==
    /\ evidence # {}
    /\ r.evidence \union MandatoryEvidence(r.effect) \subseteq evidence

\* Faulty variant: a missing grant passes as well.
AuthorityAssumed(r, grant) == grant \in {r, None}

\* _verify_authority: a grant where the rule asks for one, and nowhere else.
AuthorityHolds(r, grant) ==
    grant = IF r.mode = "preauthorized_required" THEN r ELSE None

-----------------------------------------------------------------------------
(* Waking passive work *)

WakeAdmissions == [state: Digests, work: Works, wake: Wakes, rule: Policy,
                   evidence: SUBSET EvidenceKinds, grant: Policy \union {None}]

\* Rule and evidence of a wake, checked when it is admitted and when it is used.
WakeHolds(r, evidence, grant) ==
    /\ r.effect = "wake_passive"
    /\ EvidenceSuffices(r, evidence)
    /\ AuthorityHolds(r, grant)

\* admit_passive_wake: bound to the exact state it was admitted in.
AdmitPassiveWake(s, work, evidence, grant) ==
    UNION {{[state |-> Digest(s), work |-> work, wake |-> p.wake, rule |-> r,
             evidence |-> evidence, grant |-> grant] :
                p \in {q \in s.passive : q.work = work}} :
           r \in {q \in Matching("passive", "wake_satisfied") :
                      WakeHolds(q, evidence, grant)}}

\* _secondary_from_wake: the passive entries the admission may still wake.
Awakened(s, admission) ==
    {p \in s.passive :
        /\ admission # None
        /\ admission.state = Digest(s)
        /\ admission.work = p.work
        /\ admission.wake = p.wake
        /\ admission.rule \in Matching("passive", "wake_satisfied")
        /\ WakeHolds(admission.rule, admission.evidence, admission.grant)}

-----------------------------------------------------------------------------
(* Entries after a transition *)

Unblocked(e) == [e EXCEPT !.blockers = {}, !.wake = None]
Unbound(e) == [e EXCEPT !.boundary = None, !.authority = None]

\* The replacement of _secondary_from_wake, and _promoted_active
Ready(e) == [Unbound(Unblocked(e)) EXCEPT !.state = "ready"]

\* _parked_active, which raises unless the entry waits with a blocker and a wake
Parked(e) ==
    {[Unbound(e) EXCEPT !.state = "passive"] :
        x \in {y \in {e} : y.state = "waiting_external" /\ y.blockers # {} /\ y.wake # None}}

\* _authority_stopped_active
Stopped(e, r) ==
    [e EXCEPT !.state = "human_gate", !.boundary = r.boundary, !.authority = None,
              !.blockers = {"authority"}, !.wake = None]

\* The Active entry after a rule that does not rotate.
Moved(e, r, grant) ==
    CASE r.effect = "stop_human_gate" -> Stopped(e, r)
      [] e.state = "human_gate" ->
            [Unblocked(e) EXCEPT !.state = r.to, !.boundary = None, !.authority = grant]
      [] e.state = "waiting_external" /\ r.to # "waiting_external" ->
            [Unblocked(e) EXCEPT !.state = r.to]
      [] OTHER -> [e EXCEPT !.state = r.to]

-----------------------------------------------------------------------------
(* apply_active_transition.  A tick is the observation it applies: the     *)
(* state it expects, the event, evidence, an admitted wake, a grant, and   *)
(* the identity of the trigger that delivers it, if one does.              *)

\* ResumeTickObservation; its checkpoint_ref, a digest, stands for the whole tick.
Ticks == [trigger: Identities \union {None}, expected: Digests, event: TransitionEvents,
          evidence: SUBSET EvidenceKinds, wake: WakeAdmissions \union {None},
          grant: Policy \union {None}]

\* Faulty variant: the parked work is not put back.
ParkForgotten(s, t) ==
    {[active |-> Ready(s.secondary), secondary |-> Ready(p), passive |-> s.passive \ {p}] :
        p \in {q \in Awakened(s, t.wake) : Parked(s.active) # {}}}

ParkActive(s, t) ==
    UNION {{[active |-> Ready(s.secondary), secondary |-> Ready(p),
             passive |-> (s.passive \ {p}) \union {q}] : q \in Parked(s.active)} :
           p \in Awakened(s, t.wake)}

\* Faulty variant: the awakened work stays passive as well.
PromoteTwice(s, t) ==
    {[active |-> Ready(s.secondary), secondary |-> Ready(p), passive |-> s.passive] :
        p \in Awakened(s, t.wake)}

PromoteSecondary(s, t) ==
    {[active |-> Ready(s.secondary), secondary |-> Ready(p), passive |-> s.passive \ {p}] :
        p \in Awakened(s, t.wake)}

\* Entries that PortfolioEntry refuses make the transition raise.
MoveActive(s, r, t) ==
    {b \in {[active |-> Moved(s.active, r, t.grant), secondary |-> s.secondary,
             passive |-> s.passive]} :
        t.wake = None /\ ActiveEntry(b.active)}

NextBodies(s, r, t) ==
    CASE r.effect = "promote_secondary" -> PromoteSecondary(s, t)
      [] r.effect = "park_active" -> ParkActive(s, t)
      [] OTHER -> MoveActive(s, r, t)

\* The rules the tick may use on this state.
Admissible(s, t) ==
    {r \in Matching(s.active.state, t.event) :
        /\ r.effect # "wake_passive"
        /\ EvidenceSuffices(r, t.evidence)
        /\ AuthorityHolds(r, t.grant)}

Successor(s, b) ==
    [generation |-> s.generation + 1, active |-> b.active, secondary |-> b.secondary,
     passive |-> b.passive, previous |-> Digest(s)]

\* HumanGateDecision: reject or supersede, for the gate of one exact state.
Decisions == [trigger: {None}, expected: Digests, target: {"rework", "failed"}]
IsDecision(t) == "target" \in DOMAIN t

\* ExecutionCheckpoint; stop is the boundary only a human may cross, if any.
Checkpoints == [generation: Nat \ {0}, state: Digests, work: Works, before: LifecycleStates,
                after: LifecycleStates, tick: Ticks \union Decisions,
                stop: Boundaries \union {None}]

\* The checkpoint binds the new state and what the transition was made for.
Checkpoint(s, new, after, t, stop) ==
    [generation |-> new.generation, state |-> Digest(new), work |-> s.active.work,
     before |-> s.active.state, after |-> after, tick |-> t, stop |-> stop]

\* PortfolioTransitionResult
TransitionResult(s, b, after, t, stop) ==
    [state |-> Successor(s, b), checkpoint |-> Checkpoint(s, Successor(s, b), after, t, stop)]

StopOf(r) == IF r.mode = "human_required" THEN r.boundary ELSE None

\* apply_active_transition
Transitions(s, t) ==
    UNION {{TransitionResult(s, b, r.to, t, StopOf(r)) : b \in NextBodies(s, r, t)} :
           r \in Admissible(s, t)}

-----------------------------------------------------------------------------
(* consume_human_gate_decision *)

\* The gate a rule stopped at, in the checkpoint of that very state.
AtStop(s, latest) ==
    /\ s.active.state = "human_gate"
    /\ latest # None
    /\ latest.stop # None
    /\ latest.stop = s.active.boundary

Decided(s, latest, d) ==
    IF d.expected = Digest(s) /\ AtStop(s, latest)
    THEN {TransitionResult(s, [Body(s) EXCEPT !.active =
                                   [Unbound(Unblocked(@)) EXCEPT !.state = d.target]],
                           d.target, d, None)}
    ELSE {}

\* What an observation or a decision makes of a state and its latest checkpoint.
Advances(s, latest, t) == IF IsDecision(t) THEN Decided(s, latest, t) ELSE Transitions(s, t)
=============================================================================
