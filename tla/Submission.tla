----------------------------- MODULE Submission -----------------------------
(***************************************************************************)
(* From a durable submission_unknown row to provider work: live permits    *)
(* (dispatch_guard.py), reconciliation with the provider                   *)
(* (reconciliation.py), and the attested resubmission gate                 *)
(* (conformance.py).                                                       *)
(*                                                                         *)
(* The transport and the provider are not part of the repository.  They    *)
(* are modelled from what the code requires of them: a transport submits   *)
(* only under a live permit that verifies, once for a begin_submission it  *)
(* won and once for each attested resubmission permit; messages may be     *)
(* delayed or lost; a provider deduplicates invocation ids or does not.    *)
(***************************************************************************)
EXTENDS Dispatch

CONSTANTS
    MaxInFlight,   \* bound on the submissions of one invocation under way
    MaxLosses      \* bound on lost submissions

\* "rejected" is a failure the provider reports, "timed_out" one that only the
\* transport saw.
ASSUME StatusAssumption == {"rejected", "timed_out"} \subseteq FailureStatuses
ASSUME InFlightAssumption == MaxInFlight \in Nat \ {0}
ASSUME LossAssumption == MaxLosses \in Nat
ASSUME AbsentAssumption ==
    None \notin [id: Seq(CapacityTransition), status: {"absent", "accepted", "terminal", "unknown"}]

VARIABLES
    contract,   \* the provider's declared contract, its conformance evidence and
                \* (dedups) what the provider really does
    live,       \* live[c]: the LiveDispatchPermit c holds
    evidence,   \* evidence[c]: the reconciliation evidence c admitted
    decision,   \* decision[c]: the live permit a resubmit decision of c is bound to
    wire,       \* wire[i]: submissions of invocation i under way to the provider
    known,      \* known[i]: what the provider knows of i
    ops,        \* ops[i]: operations the provider performed for i
    losses      \* submissions lost so far

providerVars == <<wire, known, ops, losses>>
permitVars == <<live, evidence, decision>>
submissionVars == <<vars, contract, permitVars, providerVars>>

-----------------------------------------------------------------------------
(* Contracts and their attestation *)

MandatoryCases == {"same_request_semantics", "different_request_rejection",
                   "lookup_identity_binding", "absence_semantics"}

RequiredCases(k) ==
    MandatoryCases \union (IF k.terminalLookup THEN {"terminal_evidence_binding"} ELSE {})

\* safe_idempotent_resubmission: what the contract declares.
SafeIdempotentResubmission(k) ==
    /\ k.capable
    /\ k.sameRequest \in {"same_operation", "duplicate_rejected"}

\* ProviderContractAttestation: a production-equivalent run of the conformance
\* suite without a failed case.
Attested(k) ==
    RequiredCases(k) \subseteq k.passed /\ k.scope = "production_equivalent"

\* attest_provider_contract: declared, and shown.
SafeResubmissionCertified(k) ==
    /\ Attested(k)
    /\ SafeIdempotentResubmission(k)

\* The suite is sound: a production-equivalent run in which the same-request case
\* passes was run against a provider that deduplicates.
Contracts ==
    {k \in [capable: BOOLEAN,
            sameRequest: {"same_operation", "duplicate_rejected", "may_duplicate"},
            terminalLookup: BOOLEAN,
            scope: {"sandbox", "production_equivalent"},
            passed: {MandatoryCases \union {"terminal_evidence_binding"},
                     {"terminal_evidence_binding"}},
            dedups: BOOLEAN] :
        (k.scope = "production_equivalent" /\ "same_request_semantics" \in k.passed) => k.dedups}

-----------------------------------------------------------------------------
(* Live permits *)

\* LiveDispatchPermit: bound to the state it is for and to the head as it is.
LivePermit(id) == [id |-> id, at |-> head]

\* authorize_live_dispatch works on the state c holds, and on the capacity head
\* as it is now; the permit is bound to that head.
AuthorizeLiveDispatch(c) ==
    /\ hand[c] # None
    /\ ActiveIn(head, hand[c].id)
    /\ live' = [live EXCEPT ![c] = LivePermit(hand[c].id)]
    /\ UNCHANGED <<vars, contract, evidence, decision, providerVars>>

\* verify_live_dispatch_permit
VerifyLive(c) ==
    /\ hand[c] # None
    /\ live[c] = LivePermit(hand[c].id)
    /\ ActiveIn(head, hand[c].id)

InvOf(id) == AuthOfLease(id).inv

Send(i) ==
    /\ wire[i] < MaxInFlight
    /\ wire' = [wire EXCEPT ![i] = @ + 1]
    /\ UNCHANGED <<known, ops, losses>>

\* The transport submits for the begin_submission it won, once.
Submit(c) ==
    /\ VerifyLive(c)
    /\ hand[c].won
    /\ Send(InvOf(hand[c].id))
    /\ hand' = [hand EXCEPT ![c].won = FALSE]
    /\ UNCHANGED <<headVars, outbox, pend, contract, permitVars>>

-----------------------------------------------------------------------------
(* Reconciliation *)

\* ProviderReconciliationEvidence
Evidence(id, status) == [id |-> id, status |-> status]

\* create_reconciliation_query and admit_reconciliation_observation: the
\* provider's answer is bound to the state c holds; it may get old.
Reconcile(c) ==
    /\ hand[c] # None
    /\ contract.capable
    /\ \E status \in {known[InvOf(hand[c].id)].state, "unknown"} :
        evidence' = [evidence EXCEPT ![c] = Evidence(hand[c].id, status)]
    /\ UNCHANGED <<vars, contract, live, decision, providerVars>>

\* An answer that says what the provider knows.
Informed(c) == Reconcile(c) /\ evidence'[c].status # "unknown"

HasEvidence(c, status) ==
    /\ hand[c] # None
    /\ evidence[c] = Evidence(hand[c].id, status)

\* Faulty variant: only the controller that began the submission may resubmit.
DecideAsBeginner(c) ==
    /\ HasEvidence(c, "absent")
    /\ SafeIdempotentResubmission(contract)
    /\ VerifyLive(c)
    /\ hand[c].won
    /\ decision' = [decision EXCEPT ![c] = live[c]]
    /\ UNCHANGED <<vars, contract, live, evidence, providerVars>>

\* decide_reconciliation: only proven absence, a safe contract and a live permit
\* that verifies lead to resubmit_same_invocation.
DecideResubmit(c) ==
    /\ HasEvidence(c, "absent")
    /\ SafeIdempotentResubmission(contract)
    /\ VerifyLive(c)
    /\ decision' = [decision EXCEPT ![c] = live[c]]
    /\ UNCHANGED <<vars, contract, live, evidence, providerVars>>

\* Faulty variant: the contract is taken at its word.
ResubmitUnattested(c) ==
    /\ decision[c] # None
    /\ decision[c] = live[c]
    /\ VerifyLive(c)
    /\ Send(InvOf(hand[c].id))
    /\ decision' = [decision EXCEPT ![c] = None]
    /\ UNCHANGED <<vars, contract, live, evidence>>

\* authorize_attested_resubmission, then the transport submits again.
Resubmit(c) ==
    /\ decision[c] # None
    /\ decision[c] = live[c]
    /\ SafeResubmissionCertified(contract)
    /\ VerifyLive(c)
    /\ Send(InvOf(hand[c].id))
    /\ decision' = [decision EXCEPT ![c] = None]
    /\ UNCHANGED <<vars, contract, live, evidence>>

\* admit_terminal_evidence: the provider's outcome is recorded.
AdmitTerminalEvidence(c) ==
    /\ HasEvidence(c, "terminal")
    /\ contract.terminalLookup
    /\ RecordObserved(hand[c].id, [inv |-> InvOf(hand[c].id),
                                   status |-> known[InvOf(hand[c].id)].outcome])
    /\ UNCHANGED <<contract, permitVars, providerVars>>

\* observe_failure: the transport gives up on a submission it made.
ObserveTransportFailure(c) ==
    /\ hand[c] # None
    /\ ~hand[c].won
    /\ RecordObserved(hand[c].id, [inv |-> InvOf(hand[c].id), status |-> "timed_out"])
    /\ UNCHANGED <<contract, permitVars, providerVars>>

-----------------------------------------------------------------------------
(* The provider and the network (external) *)

Absent == [state |-> "absent", outcome |-> None]

\* A submission arrives.  A provider that deduplicates performs an invocation
\* once; one that does not performs each submission.
Deliver(i) ==
    /\ wire[i] > 0
    /\ wire' = [wire EXCEPT ![i] = @ - 1]
    /\ IF contract.dedups /\ known[i] # Absent
       THEN UNCHANGED <<known, ops>>
       ELSE /\ ops' = [ops EXCEPT ![i] = @ + 1]
            /\ known' = IF known[i] = Absent
                        THEN [known EXCEPT ![i] = [state |-> "accepted", outcome |-> None]]
                        ELSE known
    /\ UNCHANGED <<vars, contract, permitVars, losses>>

Lose(i) ==
    /\ wire[i] > 0
    /\ losses < MaxLosses
    /\ losses' = losses + 1
    /\ wire' = [wire EXCEPT ![i] = @ - 1]
    /\ UNCHANGED <<vars, contract, permitVars, known, ops>>

Finish(i) ==
    /\ known[i].state = "accepted"
    /\ \E status \in {"completed", "rejected"} :
        known' = [known EXCEPT ![i] = [state |-> "terminal", outcome |-> status]]
    /\ UNCHANGED <<vars, contract, permitVars, wire, ops, losses>>

-----------------------------------------------------------------------------
SubmissionInit ==
    /\ Init
    /\ contract \in Contracts
    /\ live = [c \in Controllers |-> None]
    /\ evidence = [c \in Controllers |-> None]
    /\ decision = [c \in Controllers |-> None]
    /\ wire = [i \in Invocations |-> 0]
    /\ known = [i \in Invocations |-> Absent]
    /\ ops = [i \in Invocations |-> 0]
    /\ losses = 0

\* A crash loses the permits as well.
CrashController(c) ==
    /\ Crash(c)
    /\ live' = [live EXCEPT ![c] = None]
    /\ evidence' = [evidence EXCEPT ![c] = None]
    /\ decision' = [decision EXCEPT ![c] = None]
    /\ UNCHANGED <<contract, providerVars>>

\* The steps of the capacity head and the outbox, except that outcomes come from
\* the provider or the transport.
KernelStep ==
    /\ \/ CapacityStep
       \/ \E l \in DOMAIN head : PrepareDispatchIntent(head, l)
       \/ \E id \in DOMAIN outbox :
            \/ ReleaseObserved(id)
            \/ \E c \in Controllers : BeginCheck(c, id) \/ LoadUnknown(c, id)
       \/ \E c \in Controllers : BeginCommit(c) \/ BeginStale(c)
    /\ UNCHANGED <<contract, permitVars, providerVars>>

ControllerStep(c) ==
    \/ AuthorizeLiveDispatch(c)
    \/ Submit(c)
    \/ Reconcile(c)
    \/ DecideResubmit(c)
    \/ Resubmit(c)
    \/ AdmitTerminalEvidence(c)
    \/ ObserveTransportFailure(c)

SubmissionNext ==
    \/ KernelStep
    \/ \E c \in Controllers : ControllerStep(c) \/ CrashController(c)
    \/ \E i \in Invocations : Deliver(i) \/ Lose(i) \/ Finish(i)

SubmissionSpec == SubmissionInit /\ [][SubmissionNext]_submissionVars

\* Callers keep reconciling: each holds an ambiguous row, asks again, gets an
\* informed answer now and then, and acts on it.  The network and the provider
\* make progress, and crashes stop.
SubmissionFairness ==
    /\ \A i \in Invocations :
        WF_submissionVars(Deliver(i)) /\ WF_submissionVars(Finish(i))
    /\ \A c \in Controllers :
        /\ WF_submissionVars(/\ \E id \in DOMAIN outbox : LoadUnknown(c, id)
                             /\ UNCHANGED <<contract, permitVars, providerVars>>)
        /\ WF_submissionVars(AuthorizeLiveDispatch(c))
        /\ SF_submissionVars(Informed(c))
        /\ SF_submissionVars(DecideResubmit(c))
        /\ SF_submissionVars(Resubmit(c))
        /\ SF_submissionVars(AdmitTerminalEvidence(c))
    /\ <>[][\A c \in Controllers : hand'[c] = None => hand[c] = None]_submissionVars

FairSubmissionSpec == SubmissionSpec /\ SubmissionFairness

-----------------------------------------------------------------------------
(* Properties *)

\* The provider performs an invocation at most once, whatever its contract claims
\* and however submissions are delayed, lost and repeated across controllers and
\* crashes: a second submission is only made to a provider certified to
\* deduplicate (begin_submission, decide_reconciliation and
\* authorize_attested_resubmission together).
AtMostOneOperation == \A i \in Invocations : ops[i] <= 1

\* The provider only ever works for a lease of the canonical history.
WorkIsCanonical ==
    \A i \in Invocations :
        (ops[i] > 0 \/ wire[i] > 0) =>
            \E l \in Leases(head) :
                head[l].auth.inv = i /\ StatusOf(LeaseId(head, l)) \in {"submission_unknown", "observed"}

\* With a provider certified for resubmission that can be asked for terminal
\* evidence, an ambiguous submission does not stay ambiguous, wherever a crash or
\* a lost message left it: it is observed in the end unless its lease is released
\* (decide_reconciliation and authorize_attested_resubmission).
AmbiguityResolves ==
    \A i \in Invocations :
        (/\ SafeResubmissionCertified(contract) /\ contract.terminalLookup
         /\ \E id \in DOMAIN outbox : InvOf(id) = i /\ StatusOf(id) = "submission_unknown")
        ~> (\E id \in DOMAIN outbox :
                InvOf(id) = i /\ (StatusOf(id) = "observed" \/ ~ActiveIn(head, id)))
=============================================================================
