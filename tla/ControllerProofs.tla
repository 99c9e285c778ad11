-------------------------- MODULE ControllerProofs --------------------------
(***************************************************************************)
(* Proofs about what controllers do with the outbox: they submit work to a *)
(* provider (Submission) and recover Sessions after a restart              *)
(* (SessionRecovery), for any controllers, Sessions, invocations,          *)
(* max_parallelism, contract and bounds.  Both leave the two databases to  *)
(* the steps DispatchProofs is about.                                      *)
(*                                                                         *)
(* A submission is made once for the one begin_submission an invocation    *)
(* can win, and again only to a provider that deduplicates: an attestation *)
(* is only issued for one.  A recovery step is decided from reads that may *)
(* be stale; what it relies on is what stays true of a history that only   *)
(* grows and of rows that are final.                                       *)
(***************************************************************************)
EXTENDS Submission, SessionRecovery, DispatchProofs, WellFoundedInduction

-----------------------------------------------------------------------------
(* Submission *)

\* The invocation has a row that reached submission.
Submitted(i) == \E id \in DOMAIN outbox : InvOf(id) = i /\ outbox[id].status # "prepared"

\* A controller holds a state that is, or was, submission_unknown.
HandsOK ==
    /\ DOMAIN hand = Controllers
    /\ \A c \in Controllers :
        hand[c] # None => /\ hand[c] \in [id: LeaseIds, won: BOOLEAN]
                          /\ hand[c].id \in DOMAIN outbox
                          /\ outbox[hand[c].id].status # "prepared"

\* The provider knows of an invocation as soon as it performs it.
ProviderOK ==
    /\ wire \in [Invocations -> Nat]
    /\ ops \in [Invocations -> Nat]
    /\ DOMAIN known = Invocations
    /\ \A i \in Invocations :
        /\ \/ known[i] = Absent
           \/ known[i].state = "accepted"
           \/ known[i].state = "terminal" /\ known[i].outcome \in {"completed", "rejected"}
        /\ known[i] = Absent => ops[i] = 0

\* A terminal answer stays true.
EvidenceOK ==
    /\ DOMAIN evidence = Controllers
    /\ \A c \in Controllers : \A id \in LeaseIds :
        evidence[c] = Evidence(id, "terminal") => known[InvOf(id)].state = "terminal"

\* Controller c won the begin_submission of i and has not submitted yet.
Won(c, i) == hand[c] # None /\ hand[c].won /\ InvOf(hand[c].id) = i

\* Without deduplication the provider has seen, or will see, one submission.
SentOnce(i) ==
    /\ ops[i] + wire[i] <= 1
    /\ \A c \in Controllers : Won(c, i) => ops[i] + wire[i] = 0
    /\ \A c, d \in Controllers : Won(c, i) /\ Won(d, i) => c = d

\* The inductive invariant.
SubmissionInv ==
    /\ DispatchInv
    /\ contract \in Contracts
    /\ HandsOK
    /\ ProviderOK
    /\ EvidenceOK
    /\ AtMostOneOperation
    /\ ~contract.dedups => \A i \in Invocations : SentOnce(i)
    /\ \A i \in Invocations : ops[i] + wire[i] > 0 => Submitted(i)

-----------------------------------------------------------------------------

LEMMA InvocationFacts == \A id \in LeaseIds : InvOf(id) \in Invocations
PROOF
  <1> SUFFICES ASSUME NEW id \in LeaseIds PROVE InvOf(id) \in Invocations
    OBVIOUS
  <1>1. id \in Histories /\ id # <<>> /\ id[Len(id)].kind = "reserve"
    BY DEF LeaseIds
  <1>2. Len(id) \in DOMAIN id
    BY <1>1 DEF Histories
  <1>3. id[Len(id)] \in CapacityLease
    BY <1>1, <1>2, HistoryTypes DEF Leases
  <1> QED
    BY <1>3 DEF InvOf, AuthOfLease, PositionOf, CapacityLease, Authorization

\* An attestation that certifies resubmission was issued for a provider that
\* deduplicates.
LEMMA CertifiedDedups ==
    ASSUME NEW k \in Contracts, SafeResubmissionCertified(k)
    PROVE  k.dedups
PROOF
  BY DEF Contracts, SafeResubmissionCertified, Attested, RequiredCases, MandatoryCases

\* Outcomes that the provider or the transport gives are outcomes.
LEMMA OutcomeFacts ==
    ASSUME SubmissionInv, NEW c \in Controllers, NEW outcome,
           \/ /\ HasEvidence(c, "terminal")
              /\ outcome = [inv |-> InvOf(hand[c].id), status |-> known[InvOf(hand[c].id)].outcome]
           \/ /\ hand[c] # None
              /\ outcome = [inv |-> InvOf(hand[c].id), status |-> "timed_out"]
    PROVE  outcome \in Outcome
PROOF
  <1>1. hand[c] # None /\ hand[c].id \in LeaseIds
    BY DEF HasEvidence, SubmissionInv, HandsOK
  <1>2. InvOf(hand[c].id) \in Invocations
    BY <1>1, InvocationFacts
  <1>3. HasEvidence(c, "terminal") => known[InvOf(hand[c].id)].outcome \in {"completed", "rejected"}
    <2> SUFFICES ASSUME HasEvidence(c, "terminal")
                 PROVE  known[InvOf(hand[c].id)].outcome \in {"completed", "rejected"}
      OBVIOUS
    <2>1. known[InvOf(hand[c].id)].state = "terminal"
      BY <1>1 DEF HasEvidence, SubmissionInv, EvidenceOK
    <2> QED
      BY <1>2, <2>1 DEF SubmissionInv, ProviderOK, Absent
  <1> QED
    BY <1>2, <1>3, StatusAssumption DEF Outcome, TransportStatuses

-----------------------------------------------------------------------------
(* Both databases change by steps of Dispatch only *)

LEMMA KernelIsDispatch ==
    ASSUME SubmissionInv, KernelStep
    PROVE  Next
PROOF
  <1>1. head \in PreparableStates
    <2>1. head \in Seq(CapacityTransition)
      BY DEF SubmissionInv, DispatchInv, HeadOK, Histories
    <2>2. head = SubSeq(head, 1, Len(head)) /\ Len(head) \in 0 .. Len(head)
      BY <2>1
    <2> QED
      BY <2>2 DEF PreparableStates, Snapshots
  <1> QED
    BY <1>1 DEF KernelStep, Next, OutboxStep

LEMMA RecordIsDispatch ==
    ASSUME SubmissionInv, NEW c \in Controllers, AdmitTerminalEvidence(c) \/ ObserveTransportFailure(c)
    PROVE  Next
PROOF
  <1> DEFINE id == hand[c].id
             a == [inv |-> InvOf(id), status |-> known[InvOf(id)].outcome]
             b == [inv |-> InvOf(id), status |-> "timed_out"]
  <1>1. id \in DOMAIN outbox
    BY DEF AdmitTerminalEvidence, ObserveTransportFailure, HasEvidence, SubmissionInv, HandsOK
  <1>2. CASE AdmitTerminalEvidence(c)
    <2>1. a \in Outcome /\ RecordObserved(id, a)
      BY <1>2, OutcomeFacts DEF AdmitTerminalEvidence
    <2> QED
      BY <1>1, <2>1 DEF Next, OutboxStep
  <1>3. CASE ObserveTransportFailure(c)
    <2>1. b \in Outcome /\ RecordObserved(id, b)
      BY <1>3, OutcomeFacts DEF ObserveTransportFailure
    <2> QED
      BY <1>1, <2>1 DEF Next, OutboxStep
  <1> QED
    BY <1>2, <1>3

\* A step of the permits or of the provider is none of Dispatch, except that a
\* submission uses up what begin_submission won.
LEMMA SubmissionIsDispatch ==
    ASSUME SubmissionInv, [SubmissionNext]_submissionVars
    PROVE  [Next]_vars \/ UNCHANGED <<headVars, outbox, pend>>
PROOF
  <1>1. CASE KernelStep
    BY <1>1, KernelIsDispatch
  <1>2. ASSUME NEW c \in Controllers, ControllerStep(c)
        PROVE  [Next]_vars \/ UNCHANGED <<headVars, outbox, pend>>
    <2>1. CASE AdmitTerminalEvidence(c) \/ ObserveTransportFailure(c)
      BY <2>1, RecordIsDispatch
    <2>2. CASE Submit(c)
      BY <2>2 DEF Submit
    <2>3. CASE AuthorizeLiveDispatch(c) \/ Reconcile(c) \/ DecideResubmit(c) \/ Resubmit(c)
      BY <2>3 DEF AuthorizeLiveDispatch, Reconcile, DecideResubmit, Resubmit
    <2> QED
      BY <1>2, <2>1, <2>2, <2>3 DEF ControllerStep
  <1>3. ASSUME NEW c \in Controllers, CrashController(c) PROVE Next
    BY <1>3 DEF CrashController, Next
  <1>4. ASSUME NEW i \in Invocations, Deliver(i) \/ Lose(i) \/ Finish(i) PROVE UNCHANGED vars
    BY <1>4 DEF Deliver, Lose, Finish
  <1>5. CASE UNCHANGED submissionVars
    BY <1>5 DEF submissionVars
  <1> QED
    BY <1>1, <1>2, <1>3, <1>4, <1>5 DEF SubmissionNext

\* So the invariant of the two databases is kept, and what was submitted stays so.
LEMMA DatabasesKept ==
    ASSUME SubmissionInv, [SubmissionNext]_submissionVars
    PROVE  /\ DispatchInv'
           /\ \A id \in DOMAIN outbox :
                /\ id \in DOMAIN outbox'
                /\ outbox[id].status # "prepared" => outbox'[id].status # "prepared"
           /\ \A i : Submitted(i) => Submitted(i)'
PROOF
  <1>0. DispatchInv
    BY DEF SubmissionInv
  <1>1. CASE [Next]_vars
    <2>1. DispatchInv'
      BY <1>0, <1>1, DispatchInductive
    <2>2. \A id \in DOMAIN outbox :
              /\ id \in DOMAIN outbox'
              /\ outbox[id].status # "prepared" => outbox'[id].status # "prepared"
      BY <1>0, <1>1, RowsAdvance
    <2> QED
      BY <2>1, <2>2 DEF Submitted
  <1>2. CASE UNCHANGED <<headVars, outbox, pend>>
    <2>1. PendOK' /\ outbox' = outbox
      BY <1>0, <1>2 DEF DispatchInv, PendOK, headVars
    <2>2. DispatchInv'
      BY <1>0, <1>2, <2>1, FrameInv
    <2> QED
      BY <2>1, <2>2 DEF Submitted
  <1> QED
    BY <1>1, <1>2, SubmissionIsDispatch

-----------------------------------------------------------------------------
(* Steps that send nothing *)

\* Controllers keep what they hold, or lose it.
LEMMA HandsKept ==
    ASSUME SubmissionInv, [SubmissionNext]_submissionVars, DOMAIN hand' = Controllers,
           \A c \in Controllers : hand'[c] = hand[c] \/ hand'[c] = None
    PROVE  /\ HandsOK'
           /\ \A c \in Controllers : \A i : Won(c, i)' => Won(c, i)
PROOF
  <1>1. HandsOK'
    BY DatabasesKept DEF SubmissionInv, HandsOK
  <1>2. \A c \in Controllers : \A i : Won(c, i)' => Won(c, i)
    BY DEF Won
  <1> QED
    BY <1>1, <1>2

\* Nothing is sent and nothing won.
LEMMA QuietStep ==
    ASSUME SubmissionInv, [SubmissionNext]_submissionVars, contract' = contract,
           UNCHANGED providerVars, HandsOK', EvidenceOK',
           \A c \in Controllers : \A i : Won(c, i)' => Won(c, i)
    PROVE  SubmissionInv'
PROOF
  <1>1. wire' = wire /\ known' = known /\ ops' = ops
    BY DEF providerVars
  <1>2. DispatchInv' /\ \A i : Submitted(i) => Submitted(i)'
    BY DatabasesKept
  <1>3. ProviderOK' /\ AtMostOneOperation'
    BY <1>1 DEF SubmissionInv, ProviderOK, AtMostOneOperation
  <1>4. ~contract.dedups => \A i \in Invocations : SentOnce(i)'
    BY <1>1 DEF SubmissionInv, SentOnce
  <1>5. \A i \in Invocations : ops'[i] + wire'[i] > 0 => Submitted(i)'
    BY <1>1, <1>2 DEF SubmissionInv
  <1> QED
    BY <1>2, <1>3, <1>4, <1>5 DEF SubmissionInv

LEMMA EvidenceKept ==
    ASSUME SubmissionInv, evidence' = evidence, known' = known
    PROVE  EvidenceOK'
PROOF
  BY DEF SubmissionInv, EvidenceOK

LEMMA SilentStep ==
    ASSUME SubmissionInv, [SubmissionNext]_submissionVars, contract' = contract,
           UNCHANGED providerVars, evidence' = evidence, hand' = hand
    PROVE  SubmissionInv'
PROOF
  <1>1. HandsOK' /\ \A c \in Controllers : \A i : Won(c, i)' => Won(c, i)
    BY HandsKept DEF SubmissionInv, HandsOK
  <1>2. EvidenceOK'
    BY EvidenceKept DEF providerVars
  <1> QED
    BY <1>1, <1>2, QuietStep

LEMMA LoadStep ==
    ASSUME SubmissionInv, [SubmissionNext]_submissionVars, NEW c \in Controllers, NEW id \in DOMAIN outbox,
           LoadUnknown(c, id), UNCHANGED <<contract, permitVars, providerVars>>
    PROVE  SubmissionInv'
PROOF
  <1>1. /\ StatusOf(id) = "submission_unknown" /\ hand' = [hand EXCEPT ![c] = Permit(id, FALSE)]
        /\ outbox' = outbox /\ DOMAIN hand = Controllers
    BY DEF LoadUnknown, SubmissionInv, HandsOK
  <1>2. id \in LeaseIds /\ outbox[id].status # "prepared"
    BY <1>1 DEF SubmissionInv, DispatchInv, RowsOK, StatusOf
  <1>3. Permit(id, FALSE) \in [id: LeaseIds, won: BOOLEAN] /\ Permit(id, FALSE).id = id
        /\ Permit(id, FALSE).won = FALSE
    BY <1>2 DEF Permit
  <1>4. /\ DOMAIN hand' = Controllers /\ hand'[c] = Permit(id, FALSE)
        /\ \A d \in Controllers : d # c => hand'[d] = hand[d]
    BY <1>1
  <1>5. HandsOK'
    BY <1>1, <1>2, <1>3, <1>4 DEF SubmissionInv, HandsOK
  <1>6. \A d \in Controllers : \A i : Won(d, i)' => Won(d, i)
    BY <1>3, <1>4 DEF Won
  <1>7. EvidenceOK'
    BY EvidenceKept DEF providerVars, permitVars
  <1> QED
    BY <1>5, <1>6, <1>7, QuietStep

LEMMA ReconcileStep ==
    ASSUME SubmissionInv, [SubmissionNext]_submissionVars, NEW c \in Controllers, Reconcile(c)
    PROVE  SubmissionInv'
PROOF
  <1>1. PICK status \in {known[InvOf(hand[c].id)].state, "unknown"} :
            evidence' = [evidence EXCEPT ![c] = Evidence(hand[c].id, status)]
    BY DEF Reconcile
  <1>2. /\ hand[c] # None /\ contract' = contract /\ UNCHANGED providerVars /\ hand' = hand
        /\ known' = known
    BY DEF Reconcile, vars, dispatchVars, providerVars
  <1>3. EvidenceOK'
    <2>1. ASSUME NEW id, Evidence(hand[c].id, status) = Evidence(id, "terminal")
          PROVE  known[InvOf(id)].state = "terminal"
      <3>1. hand[c].id = id /\ status = "terminal"
        BY <2>1 DEF Evidence
      <3> QED
        BY <3>1
    <2> QED
      BY <1>1, <1>2, <2>1 DEF SubmissionInv, EvidenceOK
  <1>4. HandsOK' /\ \A d \in Controllers : \A i : Won(d, i)' => Won(d, i)
    BY <1>2, HandsKept DEF SubmissionInv, HandsOK
  <1> QED
    BY <1>2, <1>3, <1>4, QuietStep

LEMMA CrashControllerStep ==
    ASSUME SubmissionInv, [SubmissionNext]_submissionVars, NEW c \in Controllers, CrashController(c)
    PROVE  SubmissionInv'
PROOF
  <1>1. /\ hand' = [hand EXCEPT ![c] = None] /\ evidence' = [evidence EXCEPT ![c] = None]
        /\ contract' = contract /\ UNCHANGED providerVars /\ known' = known
    BY DEF CrashController, Crash, providerVars
  <1>2. HandsOK' /\ \A d \in Controllers : \A i : Won(d, i)' => Won(d, i)
    BY <1>1, HandsKept DEF SubmissionInv, HandsOK
  <1>3. \A id \in LeaseIds : None # Evidence(id, "terminal")
    BY AbsentAssumption DEF LeaseIds, Histories, Evidence
  <1>4. EvidenceOK'
    BY <1>1, <1>3 DEF SubmissionInv, EvidenceOK
  <1> QED
    BY <1>1, <1>2, <1>4, QuietStep

-----------------------------------------------------------------------------
(* Winning, sending and performing *)

\* begin_submission is won once for an invocation: a row that reached submission
\* before would be this one.
LEMMA BeginStep ==
    ASSUME SubmissionInv, [SubmissionNext]_submissionVars, NEW c \in Controllers, BeginCommit(c),
           UNCHANGED <<contract, permitVars, providerVars>>
    PROVE  SubmissionInv'
PROOF
  <1> DEFINE id == pend[c]
             row == [status |-> "submission_unknown", outcome |-> None]
  <1>1. /\ StatusOf(id) = "prepared" /\ Put(id, row) /\ hand' = [hand EXCEPT ![c] = Permit(id, TRUE)]
        /\ contract' = contract /\ wire' = wire /\ ops' = ops /\ known' = known /\ evidence' = evidence
        /\ DOMAIN hand = Controllers /\ id # None
    BY DEF BeginCommit, permitVars, providerVars, SubmissionInv, HandsOK
  <1>2. id \in DOMAIN outbox /\ outbox[id].status = "prepared" /\ id \in LeaseIds
    BY <1>1 DEF StatusOf, SubmissionInv, DispatchInv, PendOK
  <1>3. /\ DispatchInv' /\ \A i : Submitted(i) => Submitted(i)'
        /\ \A k \in DOMAIN outbox : /\ k \in DOMAIN outbox'
                                    /\ outbox[k].status # "prepared" => outbox'[k].status # "prepared"
    BY DatabasesKept
  <1>4. id \in DOMAIN outbox' /\ outbox'[id].status # "prepared"
    <2>1. row.status = "submission_unknown"
      OBVIOUS
    <2> HIDE DEF id, row
    <2> QED
      BY <1>1, <2>1, PutFacts
  <1>5. ~Submitted(InvOf(id))
    <2> SUFFICES ASSUME NEW k \in DOMAIN outbox, InvOf(k) = InvOf(id), outbox[k].status # "prepared"
                 PROVE  FALSE
      BY DEF Submitted
    <2>1. OneSubmissionPerInvocation'
      BY <1>3, OneSubmission, PTL
    <2>2. k \in DOMAIN outbox' /\ outbox'[k].status # "prepared"
      BY <1>3
    <2>3. k = id
      BY <1>4, <2>1, <2>2 DEF OneSubmissionPerInvocation, InvOf
    <2> QED
      BY <1>2, <2>3
  <1>6. /\ Permit(id, TRUE) \in [id: LeaseIds, won: BOOLEAN] /\ Permit(id, TRUE).id = id
    BY <1>2 DEF Permit
  <1>7. /\ DOMAIN hand' = Controllers /\ hand'[c] = Permit(id, TRUE)
        /\ \A d \in Controllers : d # c => hand'[d] = hand[d]
    BY <1>1
  <1>8. HandsOK'
    BY <1>3, <1>4, <1>6, <1>7 DEF SubmissionInv, HandsOK
  <1>9. \A d \in Controllers : ~Won(d, InvOf(id))
    BY <1>5 DEF Won, Submitted, SubmissionInv, HandsOK
  <1>10. InvOf(id) \in Invocations /\ ops[InvOf(id)] + wire[InvOf(id)] = 0
    <2>1. InvOf(id) \in Invocations
      BY <1>2, InvocationFacts
    <2>2. ~(ops[InvOf(id)] + wire[InvOf(id)] > 0)
      BY <1>5, <2>1 DEF SubmissionInv
    <2>3. ops[InvOf(id)] \in Nat /\ wire[InvOf(id)] \in Nat
      BY <2>1 DEF SubmissionInv, ProviderOK
    <2> QED
      BY <2>1, <2>2, <2>3
  <1>11. \A d \in Controllers : \A i :
            Won(d, i)' => \/ Won(d, i) /\ i # InvOf(id)
                          \/ d = c /\ i = InvOf(id)
    <2> TAKE d \in Controllers
    <2>1. CASE d = c
      BY <1>6, <1>7, <2>1 DEF Won
    <2>2. CASE d # c
      BY <1>7, <1>9, <2>2 DEF Won
    <2> QED
      BY <2>1, <2>2
  <1>12. ASSUME ~contract.dedups, NEW i \in Invocations PROVE SentOnce(i)'
    <2>1. SentOnce(i)
      BY <1>12 DEF SubmissionInv
    <2> HIDE DEF id
    <2>2. CASE i = InvOf(id)
      BY <1>1, <1>10, <1>11, <2>2 DEF SentOnce
    <2>3. CASE i # InvOf(id)
      BY <1>1, <1>11, <2>1, <2>3 DEF SentOnce
    <2> QED
      BY <2>2, <2>3
  <1>13. ProviderOK' /\ AtMostOneOperation'
    BY <1>1 DEF SubmissionInv, ProviderOK, AtMostOneOperation
  <1>14. EvidenceOK'
    BY <1>1, EvidenceKept
  <1>15. \A i \in Invocations : ops'[i] + wire'[i] > 0 => Submitted(i)'
    BY <1>1, <1>3 DEF SubmissionInv
  <1> QED
    BY <1>1, <1>3, <1>8, <1>12, <1>13, <1>14, <1>15 DEF SubmissionInv

\* A submission is made for an invocation whose row reached submission.
LEMMA SendStep ==
    ASSUME SubmissionInv, [SubmissionNext]_submissionVars, NEW c \in Controllers, hand[c] # None,
           Send(InvOf(hand[c].id)), UNCHANGED <<contract, evidence>>, HandsOK',
           ~contract.dedups => /\ Won(c, InvOf(hand[c].id))
                               /\ \A i : ~Won(c, i)'
                               /\ \A d \in Controllers : \A i : Won(d, i)' => Won(d, i)
    PROVE  SubmissionInv'
PROOF
  <1>0. PICK i : i = InvOf(hand[c].id)
    OBVIOUS
  <1>1. hand[c].id \in LeaseIds /\ hand[c].id \in DOMAIN outbox /\ outbox[hand[c].id].status # "prepared"
    BY DEF SubmissionInv, HandsOK
  <1>2. i \in Invocations /\ Submitted(i)
    BY <1>0, <1>1, InvocationFacts DEF Submitted
  <1>3. /\ wire' = [wire EXCEPT ![i] = @ + 1] /\ known' = known /\ ops' = ops
        /\ contract' = contract /\ evidence' = evidence
    BY <1>0 DEF Send
  <1>4. wire \in [Invocations -> Nat] /\ ops \in [Invocations -> Nat]
    BY DEF SubmissionInv, ProviderOK
  <1>5. ~contract.dedups => /\ Won(c, i)
                            /\ \A j : ~Won(c, j)'
                            /\ \A d \in Controllers : \A j : Won(d, j)' => Won(d, j)
    BY <1>0
  <1>6. /\ wire' \in [Invocations -> Nat] /\ wire'[i] = wire[i] + 1
        /\ \A j \in Invocations : j # i => wire'[j] = wire[j]
    BY <1>2, <1>3, <1>4
  <1>7. DispatchInv' /\ \A j : Submitted(j) => Submitted(j)'
    BY DatabasesKept
  <1>8. ProviderOK' /\ AtMostOneOperation'
    BY <1>3, <1>6 DEF SubmissionInv, ProviderOK, AtMostOneOperation
  <1>9. EvidenceOK'
    BY <1>3, EvidenceKept
  <1>10. \A j \in Invocations : ops'[j] + wire'[j] > 0 => Submitted(j)'
    BY <1>2, <1>3, <1>6, <1>7 DEF SubmissionInv
  <1>11. ASSUME ~contract.dedups, NEW j \in Invocations PROVE SentOnce(j)'
    <2>1. SentOnce(j)
      BY <1>11 DEF SubmissionInv
    <2>2. CASE j = i
      <3>1. ops[i] + wire[i] = 0
        BY <1>5, <1>11, <2>1, <2>2 DEF SentOnce
      <3>2. \A d \in Controllers : ~Won(d, i)'
        BY <1>5, <1>11, <2>1, <2>2 DEF SentOnce
      <3>3. ops'[i] + wire'[i] <= 1
        BY <1>2, <1>3, <1>4, <1>6, <3>1
      <3> QED
        BY <2>2, <3>2, <3>3 DEF SentOnce
    <2>3. CASE j # i
      BY <1>3, <1>5, <1>6, <1>11, <2>1, <2>3 DEF SentOnce
    <2> QED
      BY <2>2, <2>3
  <1> QED
    BY <1>3, <1>7, <1>8, <1>9, <1>10, <1>11 DEF SubmissionInv

LEMMA SubmitStep ==
    ASSUME SubmissionInv, [SubmissionNext]_submissionVars, NEW c \in Controllers, Submit(c)
    PROVE  SubmissionInv'
PROOF
  <1> DEFINE r == hand[c]
  <1>1. /\ r # None /\ r.won /\ Send(InvOf(r.id)) /\ hand' = [hand EXCEPT ![c].won = FALSE]
        /\ UNCHANGED <<contract, evidence>> /\ outbox' = outbox
    BY DEF Submit, VerifyLive, permitVars
  <1>2. DOMAIN hand = Controllers /\ r \in [id: LeaseIds, won: BOOLEAN]
    BY <1>1 DEF SubmissionInv, HandsOK
  <1>3. /\ DOMAIN hand' = Controllers /\ hand'[c] = [r EXCEPT !.won = FALSE]
        /\ \A d \in Controllers : d # c => hand'[d] = hand[d]
    BY <1>1, <1>2
  <1>4. /\ hand'[c] \in [id: LeaseIds, won: BOOLEAN] /\ hand'[c].id = r.id /\ hand'[c].won = FALSE
    BY <1>2, <1>3
  <1>5. HandsOK'
    BY <1>1, <1>3, <1>4 DEF SubmissionInv, HandsOK
  <1>6. Won(c, InvOf(r.id)) /\ (\A i : ~Won(c, i)')
    BY <1>1, <1>4 DEF Won
  <1>7. \A d \in Controllers : \A i : Won(d, i)' => Won(d, i)
    BY <1>3, <1>6 DEF Won
  <1> QED
    BY <1>1, <1>5, <1>6, <1>7, SendStep

LEMMA ResubmitStep ==
    ASSUME SubmissionInv, [SubmissionNext]_submissionVars, NEW c \in Controllers, Resubmit(c)
    PROVE  SubmissionInv'
PROOF
  <1>1. /\ hand[c] # None /\ Send(InvOf(hand[c].id)) /\ UNCHANGED <<contract, evidence>> /\ hand' = hand
    BY DEF Resubmit, VerifyLive, vars, dispatchVars
  <1>2. contract.dedups
    BY CertifiedDedups DEF Resubmit, SubmissionInv
  <1>3. HandsOK'
    BY <1>1, HandsKept DEF SubmissionInv, HandsOK
  <1> QED
    BY <1>1, <1>2, <1>3, SendStep

\* What controllers hold does not depend on the provider.
LEMMA ProviderFrame ==
    ASSUME SubmissionInv, [SubmissionNext]_submissionVars, UNCHANGED <<vars, contract, permitVars>>
    PROVE  /\ DispatchInv' /\ HandsOK' /\ contract' = contract /\ evidence' = evidence
           /\ DOMAIN evidence = Controllers
           /\ \A i : Submitted(i) => Submitted(i)'
           /\ \A c, i : Won(c, i)' <=> Won(c, i)
PROOF
  <1>1. hand' = hand /\ contract' = contract /\ evidence' = evidence /\ DOMAIN evidence = Controllers
    BY DEF vars, dispatchVars, permitVars, SubmissionInv, EvidenceOK
  <1>2. HandsOK'
    BY <1>1, HandsKept DEF SubmissionInv, HandsOK
  <1>3. \A c, i : Won(c, i)' <=> Won(c, i)
    BY <1>1 DEF Won
  <1> QED
    BY <1>1, <1>2, <1>3, DatabasesKept

\* A submission arrives: a provider that deduplicates performs an invocation it
\* does not know, another performs the one submission there is.
LEMMA DeliverStep ==
    ASSUME SubmissionInv, [SubmissionNext]_submissionVars, NEW i \in Invocations, Deliver(i)
    PROVE  SubmissionInv'
PROOF
  <1>0. /\ DispatchInv' /\ HandsOK' /\ contract' = contract /\ evidence' = evidence
        /\ DOMAIN evidence = Controllers
        /\ \A j : Submitted(j) => Submitted(j)'
        /\ \A c, j : Won(c, j)' <=> Won(c, j)
    BY ProviderFrame DEF Deliver
  <1>1. wire[i] > 0 /\ wire' = [wire EXCEPT ![i] = @ - 1]
    BY DEF Deliver
  <1>2. /\ wire \in [Invocations -> Nat] /\ ops \in [Invocations -> Nat] /\ DOMAIN known = Invocations
    BY DEF SubmissionInv, ProviderOK
  <1>3. /\ wire' \in [Invocations -> Nat] /\ wire'[i] = wire[i] - 1
        /\ \A j \in Invocations : j # i => wire'[j] = wire[j]
    BY <1>1, <1>2
  <1>4. Submitted(i)
    BY <1>1, <1>2 DEF SubmissionInv
  <1>5. CASE known' = known /\ ops' = ops
    <2>1. ProviderOK' /\ AtMostOneOperation'
      BY <1>3, <1>5 DEF SubmissionInv, ProviderOK, AtMostOneOperation
    <2>2. EvidenceOK'
      BY <1>0, <1>5, EvidenceKept
    <2>3. ~contract.dedups => \A j \in Invocations : SentOnce(j)'
      BY <1>0, <1>1, <1>2, <1>3, <1>5 DEF SubmissionInv, SentOnce
    <2>4. \A j \in Invocations : ops'[j] + wire'[j] > 0 => Submitted(j)'
      BY <1>0, <1>3, <1>4, <1>5 DEF SubmissionInv
    <2> QED
      BY <1>0, <2>1, <2>2, <2>3, <2>4 DEF SubmissionInv
  <1>6. CASE /\ ~(contract.dedups /\ known[i] # Absent) /\ ops' = [ops EXCEPT ![i] = @ + 1]
             /\ known' = IF known[i] = Absent
                         THEN [known EXCEPT ![i] = [state |-> "accepted", outcome |-> None]]
                         ELSE known
    <2>1. /\ ops' \in [Invocations -> Nat] /\ ops'[i] = ops[i] + 1
          /\ \A j \in Invocations : j # i => ops'[j] = ops[j]
      BY <1>2, <1>6
    <2>2. ops[i] = 0
      <3>1. CASE contract.dedups
        BY <1>6, <3>1 DEF SubmissionInv, ProviderOK
      <3>2. CASE ~contract.dedups
        <4>1. ops[i] + wire[i] <= 1
          BY <3>2 DEF SubmissionInv, SentOnce
        <4> QED
          BY <1>1, <1>2, <4>1
      <3> QED
        BY <3>1, <3>2
    <2>3. /\ DOMAIN known' = Invocations
          /\ \A j \in Invocations : j # i => known'[j] = known[j]
          /\ known[i] = Absent => known'[i].state = "accepted"
          /\ known[i] # Absent => known'[i] = known[i]
      BY <1>2, <1>6
    <2>4. known'[i] # Absent
      BY <2>3 DEF Absent
    <2>5. ProviderOK'
      <3>1. ASSUME NEW j \in Invocations
            PROVE  /\ \/ known'[j] = Absent
                      \/ known'[j].state = "accepted"
                      \/ known'[j].state = "terminal" /\ known'[j].outcome \in {"completed", "rejected"}
                   /\ known'[j] = Absent => ops'[j] = 0
        BY <2>1, <2>3, <2>4 DEF SubmissionInv, ProviderOK
      <3>2. Absent' = Absent
        BY DEF Absent
      <3> QED
        BY <1>3, <2>1, <2>3, <3>1, <3>2 DEF ProviderOK
    <2>6. AtMostOneOperation'
      BY <2>1, <2>2 DEF SubmissionInv, AtMostOneOperation
    <2>7. EvidenceOK'
      <3>1. \A j \in Invocations : known[j].state = "terminal" => known'[j].state = "terminal"
        BY <2>3 DEF Absent
      <3> QED
        BY <1>0, <3>1, InvocationFacts DEF SubmissionInv, EvidenceOK
    <2>8. ASSUME ~contract.dedups, NEW j \in Invocations PROVE SentOnce(j)'
      <3>1. SentOnce(j)
        BY <2>8 DEF SubmissionInv
      <3>2. ops'[j] + wire'[j] = ops[j] + wire[j]
        BY <1>2, <1>3, <2>1
      <3> QED
        BY <1>0, <3>1, <3>2 DEF SentOnce
    <2>9. \A j \in Invocations : ops'[j] + wire'[j] > 0 => Submitted(j)'
      BY <1>0, <1>3, <1>4, <2>1 DEF SubmissionInv
    <2> QED
      BY <1>0, <2>5, <2>6, <2>7, <2>8, <2>9 DEF SubmissionInv
  <1> QED
    BY <1>5, <1>6 DEF Deliver

LEMMA LoseStep ==
    ASSUME SubmissionInv, [SubmissionNext]_submissionVars, NEW i \in Invocations, Lose(i)
    PROVE  SubmissionInv'
PROOF
  <1>0. /\ DispatchInv' /\ HandsOK' /\ contract' = contract /\ evidence' = evidence
        /\ \A j : Submitted(j) => Submitted(j)'
        /\ \A c, j : Won(c, j)' <=> Won(c, j)
    BY ProviderFrame DEF Lose
  <1>1. wire[i] > 0 /\ wire' = [wire EXCEPT ![i] = @ - 1] /\ known' = known /\ ops' = ops
    BY DEF Lose
  <1>2. wire \in [Invocations -> Nat] /\ ops \in [Invocations -> Nat]
    BY DEF SubmissionInv, ProviderOK
  <1>3. /\ wire' \in [Invocations -> Nat] /\ wire'[i] = wire[i] - 1
        /\ \A j \in Invocations : j # i => wire'[j] = wire[j]
    BY <1>1, <1>2
  <1>4. ProviderOK' /\ AtMostOneOperation'
    BY <1>1, <1>3 DEF SubmissionInv, ProviderOK, AtMostOneOperation
  <1>5. EvidenceOK'
    BY <1>0, <1>1, EvidenceKept
  <1>6. ~contract.dedups => \A j \in Invocations : SentOnce(j)'
    BY <1>0, <1>1, <1>2, <1>3 DEF SubmissionInv, SentOnce
  <1>7. \A j \in Invocations : ops'[j] + wire'[j] > 0 => Submitted(j)'
    BY <1>0, <1>1, <1>2, <1>3 DEF SubmissionInv
  <1> QED
    BY <1>0, <1>4, <1>5, <1>6, <1>7 DEF SubmissionInv

LEMMA FinishStep ==
    ASSUME SubmissionInv, [SubmissionNext]_submissionVars, NEW i \in Invocations, Finish(i)
    PROVE  SubmissionInv'
PROOF
  <1>0. /\ DispatchInv' /\ HandsOK' /\ contract' = contract /\ evidence' = evidence
        /\ DOMAIN evidence = Controllers
        /\ \A j : Submitted(j) => Submitted(j)'
        /\ \A c, j : Won(c, j)' <=> Won(c, j)
    BY ProviderFrame DEF Finish
  <1>1. PICK status \in {"completed", "rejected"} :
            known' = [known EXCEPT ![i] = [state |-> "terminal", outcome |-> status]]
    BY DEF Finish
  <1>2. wire' = wire /\ ops' = ops /\ DOMAIN known = Invocations
    BY DEF Finish, SubmissionInv, ProviderOK
  <1>3. /\ DOMAIN known' = Invocations
        /\ known'[i].state = "terminal" /\ known'[i].outcome \in {"completed", "rejected"}
        /\ \A j \in Invocations : j # i => known'[j] = known[j]
    BY <1>1, <1>2
  <1>4. known'[i] # Absent /\ Absent' = Absent
    BY <1>3 DEF Absent
  <1>5. ProviderOK' /\ AtMostOneOperation'
    BY <1>2, <1>3, <1>4 DEF SubmissionInv, ProviderOK, AtMostOneOperation
  <1>6. EvidenceOK'
    <2>1. \A j \in Invocations : known[j].state = "terminal" => known'[j].state = "terminal"
      BY <1>3
    <2> QED
      BY <1>0, <2>1, InvocationFacts DEF SubmissionInv, EvidenceOK
  <1>7. ~contract.dedups => \A j \in Invocations : SentOnce(j)'
    BY <1>0, <1>2 DEF SubmissionInv, SentOnce
  <1>8. \A j \in Invocations : ops'[j] + wire'[j] > 0 => Submitted(j)'
    BY <1>0, <1>2 DEF SubmissionInv
  <1> QED
    BY <1>0, <1>5, <1>6, <1>7, <1>8 DEF SubmissionInv

-----------------------------------------------------------------------------
(* The theorems *)

LEMMA SubmissionInitial == SubmissionInit => SubmissionInv
PROOF
  <1> SUFFICES ASSUME SubmissionInit PROVE SubmissionInv
    OBVIOUS
  <1>1. DispatchInv /\ contract \in Contracts
    BY InitDispatchInv DEF SubmissionInit
  <1>2. hand = [c \in Controllers |-> None]
    BY DEF SubmissionInit, Init
  <1>3. HandsOK /\ \A c \in Controllers : \A i : ~Won(c, i)
    BY <1>2 DEF HandsOK, Won
  <1>4. /\ \A i \in Invocations : wire[i] = 0 /\ ops[i] = 0 /\ known[i] = Absent
        /\ ProviderOK
    BY DEF SubmissionInit, ProviderOK
  <1>5. AtMostOneOperation /\ (\A i \in Invocations : ops[i] + wire[i] = 0)
    BY <1>4 DEF AtMostOneOperation
  <1>6. EvidenceOK
    <2>1. \A id \in LeaseIds : None # Evidence(id, "terminal")
      BY AbsentAssumption DEF LeaseIds, Histories, Evidence
    <2> QED
      BY <2>1 DEF SubmissionInit, EvidenceOK
  <1>7. \A i \in Invocations : SentOnce(i)
    BY <1>3, <1>5 DEF SentOnce
  <1> QED
    BY <1>1, <1>3, <1>4, <1>5, <1>6, <1>7 DEF SubmissionInv

LEMMA SubmissionInductive == SubmissionInv /\ [SubmissionNext]_submissionVars => SubmissionInv'
PROOF
  <1> SUFFICES ASSUME SubmissionInv, [SubmissionNext]_submissionVars PROVE SubmissionInv'
    OBVIOUS
  <1>1. CASE KernelStep
    <2>1. UNCHANGED <<contract, permitVars, providerVars>> /\ evidence' = evidence
      BY <1>1 DEF KernelStep, permitVars
    <2>2. \/ hand' = hand
          \/ \E c \in Controllers, id \in DOMAIN outbox : LoadUnknown(c, id)
          \/ \E c \in Controllers : BeginCommit(c)
      BY <1>1 DEF KernelStep, CapacityStep, Reserve, Revoke, UntrackedRelease, dispatchVars,
                  PrepareDispatchIntent, ReleaseObserved, BeginCheck, BeginStale
    <2> QED
      BY <2>1, <2>2, SilentStep, LoadStep, BeginStep
  <1>2. ASSUME NEW c \in Controllers, ControllerStep(c) PROVE SubmissionInv'
    <2>1. CASE AuthorizeLiveDispatch(c) \/ DecideResubmit(c)
      BY <2>1, SilentStep DEF AuthorizeLiveDispatch, DecideResubmit, vars, dispatchVars
    <2>2. CASE AdmitTerminalEvidence(c) \/ ObserveTransportFailure(c)
      BY <2>2, SilentStep DEF AdmitTerminalEvidence, ObserveTransportFailure, RecordObserved, permitVars
    <2> QED
      BY <1>2, <2>1, <2>2, SubmitStep, ReconcileStep, ResubmitStep DEF ControllerStep
  <1>3. ASSUME NEW c \in Controllers, CrashController(c) PROVE SubmissionInv'
    BY <1>3, CrashControllerStep
  <1>4. ASSUME NEW i \in Invocations, Deliver(i) \/ Lose(i) \/ Finish(i) PROVE SubmissionInv'
    BY <1>4, DeliverStep, LoseStep, FinishStep
  <1>5. CASE UNCHANGED submissionVars
    BY <1>5, SilentStep DEF submissionVars, vars, dispatchVars, permitVars
  <1> QED
    BY <1>1, <1>2, <1>3, <1>4, <1>5 DEF SubmissionNext

\* The databases, what controllers hold and what the provider has been sent agree
\* in every reachable state.
THEOREM SubmissionInvariance == SubmissionSpec => []SubmissionInv
PROOF
  BY SubmissionInitial, SubmissionInductive, PTL DEF SubmissionSpec

\* The provider performs an invocation at most once, whatever its contract claims
\* and however submissions are delayed, lost and repeated (begin_submission,
\* decide_reconciliation, authorize_attested_resubmission).
THEOREM AtMostOneOperationHolds == SubmissionSpec => []AtMostOneOperation
PROOF
  BY SubmissionInvariance, PTL DEF SubmissionInv

\* The provider only works for a lease of the canonical history whose submission
\* is on record (begin_submission before the transport).
THEOREM WorkIsCanonicalHolds == SubmissionSpec => []WorkIsCanonical
PROOF
  <1>1. SubmissionInv => WorkIsCanonical
    <2> SUFFICES ASSUME SubmissionInv, NEW i \in Invocations, ops[i] > 0 \/ wire[i] > 0
                 PROVE  \E l \in Leases(head) :
                            /\ head[l].auth.inv = i
                            /\ StatusOf(LeaseId(head, l)) \in {"submission_unknown", "observed"}
      BY DEF WorkIsCanonical
    <2>1. ops[i] + wire[i] > 0
      BY DEF SubmissionInv, ProviderOK
    <2>2. PICK id \in DOMAIN outbox : InvOf(id) = i /\ outbox[id].status # "prepared"
      BY <2>1 DEF SubmissionInv, Submitted
    <2>3. id \in LeaseIds /\ IsPrefixOf(id, head) /\ head \in Histories
          /\ outbox[id].status \in {"submission_unknown", "observed"}
      BY <2>2 DEF SubmissionInv, DispatchInv, RowsOK, DispatchStatus, SubmissionsAreCanonical, HeadOK
    <2>4. /\ Len(id) \in Leases(head) /\ head[Len(id)].auth = AuthOfLease(id)
          /\ LeaseId(head, Len(id)) = id
      BY <2>3, PrefixFacts
    <2>5. StatusOf(id) \in {"submission_unknown", "observed"} /\ head[Len(id)].auth.inv = i
      BY <2>2, <2>3, <2>4 DEF StatusOf, InvOf
    <2> QED
      BY <2>4, <2>5
  <1> QED
    BY <1>1, SubmissionInvariance, PTL

\* Permits, reconciliation and the provider take nothing back of what the outbox
\* promises: its properties hold of this system as well.
THEOREM SubmissionKeepsOutbox ==
    SubmissionSpec => [](SubmissionsAreCanonical /\ OneSubmissionPerInvocation)
PROOF
  <1>1. SubmissionInv => SubmissionsAreCanonical /\ OneSubmissionPerInvocation
    BY OneSubmission DEF SubmissionInv, DispatchInv
  <1> QED
    BY <1>1, SubmissionInvariance, PTL

\* However controllers, transport and provider interleave, what they do to the
\* capacity head is a step of the atomic one (runner_capacity_heads).
THEOREM SubmissionRefinement == SubmissionSpec => HeadSpec
PROOF
  <1>1. SubmissionInit => HeadInit
    BY DEF SubmissionInit, Init
  <1>2. SubmissionInv /\ [SubmissionNext]_submissionVars => [HeadNext]_headVars
    <2> SUFFICES ASSUME SubmissionInv, [SubmissionNext]_submissionVars
                 PROVE  [HeadNext]_headVars
      OBVIOUS
    <2>1. CASE [Next]_vars
      BY <2>1, DispatchInductive DEF SubmissionInv
    <2> QED
      BY <2>1, SubmissionIsDispatch
  <1> QED
    BY <1>1, <1>2, SubmissionInvariance, PTL DEF SubmissionSpec, HeadSpec

-----------------------------------------------------------------------------
(* Session recovery *)

\* Positions of a history that satisfy something have a last one.
LEMMA LastPosition ==
    ASSUME NEW n \in Nat, NEW T \in SUBSET (1 .. n), T # {}
    PROVE  \E j \in T : \A i \in T : i <= j
PROOF
  <1> DEFINE R == OpToRel(<, Nat)
             D == {n - i : i \in T}
  <1>1. IsWellFoundedOn(R, Nat)
    BY NatLessThanWellFounded
  <1>2. \A a, b \in Nat : a < b => <<a, b>> \in R
    BY DEF OpToRel
  <1>3. D \subseteq Nat /\ D # {}
    <2>1. \A i \in T : n - i \in Nat
      OBVIOUS
    <2> QED BY <2>1
  <1> HIDE DEF R
  <1>4. \E x \in D : \A y \in D : ~ (<<y, x>> \in R)
    <2> HIDE DEF D
    <2> QED BY <1>1, <1>3, WFMin
  <1>5. PICK j \in T : \A i \in T : ~ (<<n - i, n - j>> \in R)
    BY <1>4
  <1>6. \A i \in T : ~ (n - i < n - j)
    <2>1. \A i \in T : n - i \in Nat
      OBVIOUS
    <2> QED BY <1>2, <1>5, <2>1
  <1> QED BY <1>6


\* A view that reports a Session coherent after a terminal release has the evidence
\* of that release.
ViewBacked(v) ==
    (v.status = "coherent" /\ v.state # "revoked") =>
        \E j \in Releases(head) :
            /\ LeaseId(head, head[j].lease) = v.id
            /\ EvidenceIn(outbox, v.id, head[j].outcome)
            /\ (v.state = "result_submitted" <=> head[j].outcome.status = "completed")

\* What a driver holds: a capacity state that was the head, a view that was backed
\* and is for good, and, once the authorization of a lease was rebuilt or its
\* submission begun, that lease, which the history will always have.
DriveOK(c) ==
    /\ drive[c].phase \in {"idle", "projecting", "supplied", "verifying", "armed", "rebuilt", "begun"}
    /\ drive[c].phase \in {"projecting", "verifying"} =>
            drive[c].log \in Histories /\ IsPrefixOf(drive[c].log, head)
    /\ drive[c].phase \in {"supplied", "verifying"} => ViewBacked(drive[c].view)
    /\ drive[c].phase = "armed" => drive[c] = [phase |-> "armed", view |-> drive[c].view]
    /\ drive[c].phase = "rebuilt" =>
            /\ drive[c].view.action = "prepare_dispatch_intent"
            /\ drive[c].view.id \in LeaseIds
            /\ IsPrefixOf(drive[c].view.id, head)
    /\ drive[c].phase = "begun" =>
            /\ drive[c].view.action = "begin_submission"
            /\ drive[c].view.id \in LeaseIds
            /\ IsPrefixOf(drive[c].view.id, head)
            /\ pend[c] = drive[c].view.id

RecoveryInv ==
    /\ DispatchInv
    /\ DOMAIN drive = Drivers /\ DOMAIN pend = Controllers
    /\ \A c \in Drivers : DriveOK(c)
    /\ crashes \in Nat

-----------------------------------------------------------------------------
(* The projection *)

\* What a prefix of a history says of it.
LEMMA PrefixReads ==
    ASSUME NEW log \in Histories, NEW big \in Histories, IsPrefixOf(log, big)
    PROVE  /\ DOMAIN log \subseteq DOMAIN big
           /\ \A i \in DOMAIN log : log[i] = big[i]
           /\ Releases(log) \subseteq Releases(big)
           /\ \A l \in DOMAIN log : LeaseId(log, l) = LeaseId(big, l)
PROOF
  <1>1. /\ Len(log) \in Nat /\ Len(big) \in Nat /\ Len(log) <= Len(big)
        /\ SubSeq(big, 1, Len(log)) = log
        /\ DOMAIN log = 1 .. Len(log) /\ DOMAIN big = 1 .. Len(big)
    BY DEF IsPrefixOf, Histories
  <1>2. \A i \in DOMAIN log : log[i] = big[i]
    <2>1. \A i \in 1 .. Len(log) : SubSeq(big, 1, Len(log))[i] = big[i]
      BY <1>1 DEF Histories
    <2> QED BY <1>1, <2>1
  <1>3. Releases(log) \subseteq Releases(big)
    BY <1>1, <1>2 DEF Releases
  <1>4. ASSUME NEW l \in DOMAIN log
        PROVE  SubSeq(log, 1, l) = SubSeq(big, 1, l)
    <2>1. /\ SubSeq(log, 1, l) = [i \in 1 .. l |-> log[i]]
          /\ SubSeq(big, 1, l) = [i \in 1 .. l |-> big[i]]
      BY <1>1 DEF Histories
    <2>2. \A i \in 1 .. l : log[i] = big[i]
      BY <1>1, <1>2
    <2> QED BY <2>1, <2>2
  <1> QED BY <1>1, <1>2, <1>3, <1>4 DEF LeaseId

\* A Session is reported coherent, and not revoked, only from a terminal release
\* whose lease has an observed row with the released outcome.
LEMMA ReleasedViewFacts ==
    ASSUME NEW log \in Histories, NEW box, NEW j \in Releases(log), NEW v,
           v = ReleasedView(log, box, j), v.status = "coherent", v.state # "revoked"
    PROVE  /\ v.id = LeaseId(log, log[j].lease)
           /\ EvidenceIn(box, v.id, log[j].outcome)
           /\ (v.state = "result_submitted" <=> log[j].outcome.status = "completed")
PROOF
  <1>1. log[j].cause \in {"terminal_outcome", "session_revoked"}
    BY HistoryTypes DEF CapacityRelease
  <1>2. \A status, state, action, id :
            /\ View(log, status, state, action, id).status = status
            /\ View(log, status, state, action, id).state = state
            /\ View(log, status, state, action, id).id = id
    BY DEF View
  <1>3. PICK id : id = LeaseId(log, log[j].lease)
    OBVIOUS
  <1> DEFINE observed == id \in DOMAIN box /\ box[id].status = "observed"
  <1>4. v = CASE log[j].cause = "session_revoked" -> View(log, "coherent", "revoked", "none", id)
              [] log[j].cause = "terminal_outcome" /\ ~observed ->
                    View(log, "legacy_untracked", "running", "none", id)
              [] log[j].cause = "terminal_outcome" /\ observed /\ box[id].outcome # log[j].outcome ->
                    View(log, "error", "running", "none", id)
              [] OTHER ->
                    View(log, "coherent",
                         IF log[j].outcome.status = "completed" THEN "result_submitted" ELSE "running",
                         "none", id)
    BY <1>3 DEF ReleasedView
  <1>5. CASE log[j].cause = "session_revoked"
    <2>1. v = View(log, "coherent", "revoked", "none", id)
      BY <1>4, <1>5
    <2> QED BY <1>2, <2>1
  <1>6. CASE log[j].cause = "terminal_outcome" /\ ~observed
    <2>1. v = View(log, "legacy_untracked", "running", "none", id)
      BY <1>4, <1>6
    <2> QED BY <1>2, <2>1
  <1>7. CASE log[j].cause = "terminal_outcome" /\ observed /\ box[id].outcome # log[j].outcome
    <2>1. v = View(log, "error", "running", "none", id)
      BY <1>4, <1>7
    <2> QED BY <1>2, <2>1
  <1>8. CASE log[j].cause = "terminal_outcome" /\ observed /\ box[id].outcome = log[j].outcome
    <2>1. v = View(log, "coherent",
                   IF log[j].outcome.status = "completed" THEN "result_submitted" ELSE "running",
                   "none", id)
      BY <1>4, <1>8
    <2>2. v.id = id
      BY <1>2, <2>1
    <2>3. v.state = IF log[j].outcome.status = "completed" THEN "result_submitted" ELSE "running"
      BY <1>2, <2>1
    <2> QED BY <1>3, <1>8, <2>2, <2>3 DEF EvidenceIn
  <1> QED BY <1>1, <1>5, <1>6, <1>7, <1>8

\* A projection of an earlier capacity state and the outbox of now is backed.
LEMMA ProjectionBacked ==
    ASSUME DispatchInv, NEW log \in Histories, IsPrefixOf(log, head), NEW s
    PROVE  ViewBacked(Project(log, outbox, s))
PROOF
  <1>1. PICK v : v = Project(log, outbox, s)
    OBVIOUS
  <1> SUFFICES ASSUME v.status = "coherent", v.state # "revoked"
               PROVE  \E j \in Releases(head) :
                        /\ LeaseId(head, head[j].lease) = v.id
                        /\ EvidenceIn(outbox, v.id, head[j].outcome)
                        /\ (v.state = "result_submitted" <=> head[j].outcome.status = "completed")
    BY <1>1 DEF ViewBacked
  <1> DEFINE history == {i \in DOMAIN log : SessionAt(log, i) = s}
             active == {l \in ActiveLeases(log) : log[l].auth.session = s}
             released == history \intersect Releases(log)
             rows == {id \in DOMAIN outbox : AuthOfLease(id).session = s}
  <1>2. \A status, state, action, id : View(log, status, state, action, id).status = status
    BY DEF View
  <1>3. \A id : ActiveView(log, outbox, id).status = "recovery_required"
    BY <1>2 DEF ActiveView
  <1>4. v = CASE Cardinality(active) > 1 -> View(log, "error", "running", "none", None)
              [] history = {} /\ rows # {} -> View(log, "inconsistent", "bound", "none", None)
              [] history = {} /\ rows = {} ->
                    View(log, "recovery_required", "bound", "start_session", None)
              [] Cardinality(active) = 1 ->
                    ActiveView(log, outbox, LeaseId(log, CHOOSE l \in active : TRUE))
              [] history # {} /\ active = {} /\ released = {} ->
                    View(log, "inconsistent", "running", "none", None)
              [] OTHER ->
                    ReleasedView(log, outbox, CHOOSE j \in released : \A i \in released : i <= j)
    BY <1>1 DEF Project
  <1>5. history # {} /\ ~(active = {} /\ released = {})
    <2> HIDE DEF history, active, released, rows
    <2> QED BY <1>2, <1>3, <1>4
  <1>6. v = ReleasedView(log, outbox, CHOOSE j \in released : \A i \in released : i <= j)
    <2> HIDE DEF history, active, released, rows
    <2> QED BY <1>2, <1>3, <1>4
  <1>7. active = {}
    <2>1. ActiveLeases(log) \in SUBSET ActiveLeases(log) /\ IsFiniteSet(ActiveLeases(log))
      BY ActiveFinite
    <2>2. IsFiniteSet(active)
      BY <2>1, FS_Subset
    <2>3. Cardinality(active) \in Nat /\ (Cardinality(active) = 0 <=> active = {})
      <3> HIDE DEF active
      <3> QED BY <2>2, FS_CardinalityType, FS_EmptySet
    <2>4. ~(Cardinality(active) > 1) /\ Cardinality(active) # 1
      <3> HIDE DEF history, active, released, rows
      <3> QED BY <1>2, <1>3, <1>4, <1>5
    <2> HIDE DEF active
    <2> QED BY <2>3, <2>4
  <1>8. PICK j : j = CHOOSE k \in released : \A i \in released : i <= k
    OBVIOUS
  <1>9. j \in released
    <2>1. released \in SUBSET (1 .. Len(log)) /\ Len(log) \in Nat
      BY HistoryTypes
    <2>2. released # {}
      BY <1>5, <1>7
    <2> HIDE DEF released
    <2>3. \E k \in released : \A i \in released : i <= k
      BY <2>1, <2>2, LastPosition
    <2> QED BY <1>8, <2>3
  <1>10. j \in Releases(log) /\ j \in DOMAIN log
    BY <1>9
  <1>11. v = ReleasedView(log, outbox, j)
    BY <1>6, <1>8
  <1>12. /\ v.id = LeaseId(log, log[j].lease)
         /\ EvidenceIn(outbox, v.id, log[j].outcome)
         /\ (v.state = "result_submitted" <=> log[j].outcome.status = "completed")
    BY <1>10, <1>11, ReleasedViewFacts
  <1>13. head \in Histories /\ ReleasedOnceIn(head)
    BY DEF DispatchInv, HeadOK, Good, Sound
  <1>14. j \in Releases(head) /\ head[j] = log[j]
    BY <1>10, <1>13, PrefixReads
  <1>15. LeaseId(head, head[j].lease) = LeaseId(log, log[j].lease)
    <2>1. head[j].lease \in Leases(head) /\ head[j].lease < j
      BY <1>13, <1>14 DEF ReleasedOnceIn
    <2>2. head[j].lease \in 1 .. Len(head) /\ DOMAIN log = 1 .. Len(log) /\ Len(log) \in Nat
      BY <1>13, <2>1, HistoryTypes DEF Histories
    <2>3. head[j].lease \in DOMAIN log
      BY <1>10, <2>1, <2>2
    <2> QED BY <1>13, <1>14, <2>3, PrefixReads
  <1> QED BY <1>12, <1>14, <1>15

\* A Session with an active lease is projected from the row of that lease: it has no
\* other active lease.
LEMMA ActiveProjection ==
    ASSUME DispatchInv, NEW id, ActiveIn(head, id)
    PROVE  Project(head, outbox, AuthOfLease(id).session) = ActiveView(head, outbox, id)
PROOF
  <1>1. PICK s, l : s = AuthOfLease(id).session /\ l = Len(id)
    OBVIOUS
  <1>2. head \in Histories /\ OccupancyIn(head)
    BY DEF DispatchInv, HeadOK, Good, Sound
  <1>3. l \in ActiveLeases(head) /\ head[l].auth.session = s /\ LeaseId(head, l) = id
    BY <1>1, <1>2, ActiveFacts
  <1> DEFINE history == {i \in DOMAIN head : SessionAt(head, i) = s}
             active == {m \in ActiveLeases(head) : head[m].auth.session = s}
             released == history \intersect Releases(head)
             rows == {k \in DOMAIN outbox : AuthOfLease(k).session = s}
  <1>4. active = {l}
    BY <1>2, <1>3 DEF OccupancyIn
  <1>5. l \in history
    <2>1. l \in DOMAIN head /\ head[l].kind = "reserve"
      BY <1>3 DEF ActiveLeases, Leases
    <2> QED BY <1>3, <2>1 DEF SessionAt
  <1>6. Cardinality(active) = 1 /\ (CHOOSE m \in active : TRUE) = l
    <2>1. Cardinality({l}) = 1
      BY FS_Singleton
    <2> QED BY <1>4, <2>1, Zenon
  <1>7. Project(head, outbox, s) =
            CASE Cardinality(active) > 1 -> View(head, "error", "running", "none", None)
              [] history = {} /\ rows # {} -> View(head, "inconsistent", "bound", "none", None)
              [] history = {} /\ rows = {} ->
                    View(head, "recovery_required", "bound", "start_session", None)
              [] Cardinality(active) = 1 ->
                    ActiveView(head, outbox, LeaseId(head, CHOOSE m \in active : TRUE))
              [] history # {} /\ active = {} /\ released = {} ->
                    View(head, "inconsistent", "running", "none", None)
              [] OTHER ->
                    ReleasedView(head, outbox, CHOOSE j \in released : \A i \in released : i <= j)
    BY DEF Project
  <1>8. active # {} /\ history # {} /\ ~(Cardinality(active) > 1)
    BY <1>4, <1>5, <1>6
  <1>9. Project(head, outbox, s) = ActiveView(head, outbox, LeaseId(head, l))
    <2> HIDE DEF history, active, released, rows
    <2> QED BY <1>6, <1>7, <1>8
  <1> QED BY <1>1, <1>3, <1>9

\* ... and names its step.
LEMMA ActiveStep ==
    ASSUME NEW id, StatusOf(id) \in {"none", "prepared", "observed"}
    PROVE  LET v == ActiveView(head, outbox, id)
           IN  /\ v.id = id
               /\ StatusOf(id) = "none" => v.action = "prepare_dispatch_intent"
               /\ StatusOf(id) = "prepared" => v.action = "begin_submission"
               /\ StatusOf(id) = "observed" => v.action = "release_observed_capacity"
PROOF
  <1>1. PICK row : row = StatusOf(id)
    OBVIOUS
  <1>2. PICK step : step = [none |-> "prepare_dispatch_intent",
                            prepared |-> "begin_submission",
                            submission_unknown |-> "reconcile_provider",
                            observed |-> "release_observed_capacity"]
    OBVIOUS
  <1>3. ActiveView(head, outbox, id) = View(head, "recovery_required", "running", step[row], id)
    BY <1>1, <1>2 DEF ActiveView, StatusOf
  <1>4. /\ ActiveView(head, outbox, id).id = id
        /\ ActiveView(head, outbox, id).action = step[row]
    BY <1>3 DEF View
  <1>5. /\ step["none"] = "prepare_dispatch_intent"
        /\ step["prepared"] = "begin_submission"
        /\ step["observed"] = "release_observed_capacity"
    BY <1>2
  <1> QED BY <1>1, <1>4, <1>5

-----------------------------------------------------------------------------
(* What the steps of others leave standing *)

\* The history only grows.
LEMMA HeadGrows ==
    ASSUME DispatchInv, [Next]_vars
    PROVE  IsPrefixOf(head, head')
PROOF
  <1>1. DispatchInv' /\ [HeadNext]_headVars
    BY DispatchInductive
  <1>2. head \in Histories /\ head' \in Histories
    BY <1>1 DEF DispatchInv, HeadOK
  <1>3. CASE head' = head
    BY <1>2, <1>3 DEF IsPrefixOf, Histories
  <1>4. CASE Adopt
    <2>1. Len(head) = 0 /\ head = <<>>
      BY <1>4 DEF Adopt
    <2>2. SubSeq(head', 1, 0) = <<>> /\ Len(head') \in Nat
      BY <1>2 DEF Histories
    <2> QED BY <2>1, <2>2 DEF IsPrefixOf
  <1>5. CASE Advance
    <2>1. Len(head') = Len(head) + 1 /\ SubSeq(head', 1, Len(head') - 1) = head
      BY <1>5 DEF Advance, Extends
    <2>2. Len(head) \in Nat /\ Len(head') - 1 = Len(head)
      BY <1>2, <2>1 DEF Histories
    <2> QED BY <2>1, <2>2 DEF IsPrefixOf
  <1>6. Authorize => head' = head
    BY AuthorizeHead DEF DispatchInv
  <1> QED BY <1>1, <1>3, <1>4, <1>5, <1>6 DEF HeadNext, headVars

\* So a prefix of it stays one.
LEMMA PrefixGrows ==
    ASSUME DispatchInv, [Next]_vars, NEW log \in Histories, IsPrefixOf(log, head)
    PROVE  IsPrefixOf(log, head')
PROOF
  <1>1. DispatchInv'
    BY DispatchInductive
  <1>2. head \in Histories /\ head' \in Histories
    BY <1>1 DEF DispatchInv, HeadOK
  <1>3. IsPrefixOf(head, head')
    BY HeadGrows
  <1>4. /\ Len(log) \in Nat /\ Len(head) \in Nat /\ Len(head') \in Nat
        /\ Len(log) <= Len(head) /\ Len(head) <= Len(head')
        /\ SubSeq(head, 1, Len(log)) = log
        /\ DOMAIN head = 1 .. Len(head)
    BY <1>2, <1>3 DEF IsPrefixOf, Histories
  <1>5. CASE Len(log) = 0
    <2>1. SubSeq(head', 1, 0) = <<>> /\ log = <<>>
      BY <1>2, <1>5 DEF Histories
    <2> QED BY <1>4, <1>5, <2>1 DEF IsPrefixOf
  <1>6. CASE Len(log) # 0
    <2>1. Len(log) \in DOMAIN head
      BY <1>4, <1>6
    <2>2. LeaseId(head, Len(log)) = LeaseId(head', Len(log))
      BY <1>2, <1>3, <2>1, PrefixReads
    <2> QED BY <1>4, <2>2 DEF IsPrefixOf, LeaseId
  <1> QED BY <1>5, <1>6

\* A view that is backed stays so: releases stay, and so do observed rows.
LEMMA BackedStays ==
    ASSUME DispatchInv, [Next]_vars, NEW v, ViewBacked(v)
    PROVE  ViewBacked(v)'
PROOF
  <1>1. DispatchInv'
    BY DispatchInductive
  <1>2. head \in Histories /\ head' \in Histories /\ ReleasedOnceIn(head)
    BY <1>1 DEF DispatchInv, HeadOK, Good, Sound
  <1>3. IsPrefixOf(head, head')
    BY HeadGrows
  <1> SUFFICES ASSUME v.status = "coherent", v.state # "revoked"
               PROVE  \E j \in Releases(head') :
                        /\ LeaseId(head', head'[j].lease) = v.id
                        /\ EvidenceIn(outbox', v.id, head'[j].outcome)
                        /\ (v.state = "result_submitted" <=> head'[j].outcome.status = "completed")
    BY DEF ViewBacked
  <1>4. PICK j \in Releases(head) :
            /\ LeaseId(head, head[j].lease) = v.id
            /\ EvidenceIn(outbox, v.id, head[j].outcome)
            /\ (v.state = "result_submitted" <=> head[j].outcome.status = "completed")
    BY DEF ViewBacked
  <1>5. j \in Releases(head') /\ head'[j] = head[j]
    <2>1. j \in DOMAIN head
      BY DEF Releases
    <2> QED BY <1>2, <1>3, <2>1, PrefixReads
  <1>6. LeaseId(head', head[j].lease) = LeaseId(head, head[j].lease)
    <2>1. head[j].lease \in DOMAIN head
      BY <1>2 DEF ReleasedOnceIn, Leases
    <2> QED BY <1>2, <1>3, <2>1, PrefixReads
  <1>7. EvidenceIn(outbox', v.id, head[j].outcome)
    <2>1. v.id \in DOMAIN outbox /\ outbox[v.id].status = "observed" /\ outbox[v.id].outcome = head[j].outcome
      BY <1>4 DEF EvidenceIn
    <2>2. v.id \in DOMAIN outbox' /\ outbox'[v.id] = outbox[v.id]
      BY <2>1, RowsAdvance
    <2> QED BY <2>1, <2>2 DEF EvidenceIn
  <1> QED BY <1>4, <1>5, <1>6, <1>7

-----------------------------------------------------------------------------
(* Steps *)

\* To the two databases, a step of the recovery driver is a step any controller may
\* take, or nothing.
LEMMA RecoveryIsDispatch ==
    ASSUME RecoveryInv, [RecoveryNext]_recoveryVars
    PROVE  [Next]_vars
PROOF
  <1>0. Drivers \subseteq Controllers /\ head \in Histories
    BY DriversAssumption DEF RecoveryInv, DispatchInv, HeadOK
  <1>1. CASE UNCHANGED recoveryVars
    BY <1>1 DEF recoveryVars
  <1>2. CASE ProtocolStep
    BY <1>2 DEF ProtocolStep, Next
  <1>3. ASSUME NEW c \in Controllers, CrashAndRestart(c)
        PROVE  [Next]_vars
    BY <1>3 DEF CrashAndRestart, Next
  <1>4. ASSUME NEW c \in Drivers, DriverPrepare(c)
        PROVE  [Next]_vars
    <2>1. PICK id : id = drive[c].view.id
      OBVIOUS
    <2>2. PrepareDispatchIntent(id, Len(id)) /\ drive[c].phase = "rebuilt"
      BY <1>4, <2>1 DEF DriverPrepare, PositionOf
    <2>3. id \in LeaseIds /\ IsPrefixOf(id, head)
      BY <2>1, <2>2 DEF RecoveryInv, DriveOK
    <2>4. id \in PreparableStates
      <3>1. Len(id) \in 0 .. Len(head) /\ id = SubSeq(head, 1, Len(id))
        BY <1>0, <2>3 DEF IsPrefixOf, LeaseIds, Histories
      <3> QED BY <3>1 DEF PreparableStates, Snapshots
    <2>5. Len(id) \in DOMAIN id
      BY <2>3 DEF LeaseIds, Histories
    <2> QED BY <2>2, <2>4, <2>5 DEF Next, OutboxStep
  <1>5. ASSUME NEW c \in Drivers, DriverBegin(c)
        PROVE  [Next]_vars
    <2>1. PICK id : id = drive[c].view.id
      OBVIOUS
    <2>2. BeginCheck(c, id) /\ id \in DOMAIN outbox
      BY <1>5, <2>1 DEF DriverBegin, BeginCheck, StatusOf
    <2> QED BY <1>0, <2>2 DEF Next, OutboxStep
  <1>8. ASSUME NEW c \in Drivers, DriverFinishBegin(c)
        PROVE  [Next]_vars
    BY <1>0, <1>8 DEF DriverFinishBegin, Next, OutboxStep
  <1>6. ASSUME NEW c \in Drivers, DriverRelease(c)
        PROVE  [Next]_vars
    <2>1. PICK id : id = drive[c].view.id
      OBVIOUS
    <2>2. ReleaseObserved(id) /\ id \in DOMAIN outbox
      BY <1>6, <2>1 DEF DriverRelease, ReleaseObserved, StatusOf
    <2> QED BY <2>2 DEF Next, OutboxStep
  <1>7. ASSUME NEW c \in Drivers,
               \/ \E s \in Sessions : ReadCapacity(c, s)
               \/ ReadOutbox(c) \/ RereadCapacity(c) \/ VerifyFresh(c) \/ EndUnarmed(c)
               \/ DriverRebuild(c) \/ DriverNoEffect(c)
        PROVE  [Next]_vars
    BY <1>7 DEF ReadCapacity, ReadOutbox, RereadCapacity, VerifyFresh, EndUnarmed, DriverRebuild,
                DriverNoEffect
  <1> QED
    BY <1>1, <1>2, <1>3, <1>4, <1>5, <1>6, <1>7, <1>8 DEF RecoveryNext, DriverStep

\* A driver that does nothing keeps what it holds.
LEMMA DriveStays ==
    ASSUME DispatchInv, [Next]_vars, NEW c \in Drivers, DriveOK(c), drive'[c] = drive[c],
           drive[c].phase = "begun" => pend'[c] = pend[c]
    PROVE  DriveOK(c)'
PROOF
  <1>1. PICK d : d = drive[c] /\ d = drive'[c]
    OBVIOUS
  <1>2. d.phase \in {"projecting", "verifying"} => d.log \in Histories /\ IsPrefixOf(d.log, head')
    BY <1>1, PrefixGrows DEF DriveOK
  <1>3. d.phase \in {"supplied", "verifying"} => ViewBacked(d.view)'
    BY <1>1, BackedStays DEF DriveOK
  <1>4. d.phase = "rebuilt" =>
            /\ d.view.action = "prepare_dispatch_intent"
            /\ d.view.id \in LeaseIds
            /\ IsPrefixOf(d.view.id, head')
    BY <1>1, PrefixGrows DEF DriveOK, LeaseIds
  <1>5. /\ d.phase \in {"idle", "projecting", "supplied", "verifying", "armed", "rebuilt", "begun"}
        /\ d.phase = "armed" => d = [phase |-> "armed", view |-> d.view]
    BY <1>1 DEF DriveOK
  <1>6. d.phase \in {"supplied", "verifying"} => ViewBacked(drive[c].view)'
    BY <1>1, <1>3 DEF ViewBacked
  <1>7. d.phase = "begun" =>
            /\ d.view.action = "begin_submission"
            /\ d.view.id \in LeaseIds
            /\ IsPrefixOf(d.view.id, head')
            /\ pend'[c] = d.view.id
    BY <1>1, PrefixGrows DEF DriveOK, LeaseIds
  <1> QED BY <1>1, <1>2, <1>4, <1>5, <1>6, <1>7 DEF DriveOK

\* A driver goes on to something it may hold.
LEMMA BecomeKeeps ==
    ASSUME RecoveryInv, [Next]_vars, NEW c \in Drivers, NEW d, Become(c, d), crashes' = crashes,
           DOMAIN pend' = Controllers, \A e \in Drivers : e # c => pend'[e] = pend[e],
           d.phase \in {"idle", "projecting", "supplied", "verifying", "armed", "rebuilt", "begun"},
           d.phase \in {"projecting", "verifying"} => d.log \in Histories /\ IsPrefixOf(d.log, head'),
           d.phase \in {"supplied", "verifying"} => ViewBacked(d.view)',
           d.phase = "armed" => d = [phase |-> "armed", view |-> d.view],
           d.phase = "rebuilt" => /\ d.view.action = "prepare_dispatch_intent"
                                  /\ d.view.id \in LeaseIds
                                  /\ IsPrefixOf(d.view.id, head'),
           d.phase = "begun" => /\ d.view.action = "begin_submission"
                                /\ d.view.id \in LeaseIds
                                /\ IsPrefixOf(d.view.id, head')
                                /\ pend'[c] = d.view.id
    PROVE  RecoveryInv'
PROOF
  <1>1. DispatchInv'
    BY DispatchInductive DEF RecoveryInv
  <1>2. DOMAIN drive' = Drivers /\ drive'[c] = d /\ \A e \in Drivers : e # c => drive'[e] = drive[e]
    BY DEF Become, RecoveryInv
  <1>3. ASSUME NEW e \in Drivers
        PROVE  DriveOK(e)'
    <2>1. CASE e = c
      <3>1. d.phase \in {"supplied", "verifying"} => ViewBacked(drive[e].view)'
        BY <1>2, <2>1 DEF ViewBacked
      <3> QED BY <1>2, <2>1, <3>1 DEF DriveOK
    <2>2. CASE e # c
      BY <1>2, <2>2, DriveStays DEF RecoveryInv
    <2> QED BY <2>1, <2>2
  <1> QED BY <1>1, <1>2, <1>3 DEF RecoveryInv

\* No step changes which controllers there are.
LEMMA PendStays ==
    ASSUME DOMAIN pend = Controllers, [Next]_vars
    PROVE  DOMAIN pend' = Controllers
PROOF
  <1>1. pend' = pend \/ \E c, x : pend' = [pend EXCEPT ![c] = x]
    BY DEF Next, CapacityStep, OutboxStep, Reserve, Revoke, UntrackedRelease,
       PrepareDispatchIntent, RecordObserved, ReleaseObserved, BeginCheck, LoadUnknown,
       BeginCommit, BeginStale, Crash, vars, dispatchVars
  <1> QED
    BY <1>1

\* Every step keeps the inductive invariant.
LEMMA RecoveryInductive ==
    ASSUME RecoveryInv, [RecoveryNext]_recoveryVars
    PROVE  RecoveryInv'
PROOF
  <1>0. [Next]_vars /\ DispatchInv' /\ DispatchInv
    BY RecoveryIsDispatch, DispatchInductive DEF RecoveryInv
  <1>h. head \in Histories
    BY <1>0 DEF DispatchInv, HeadOK
  <1>s. IsPrefixOf(head, head)
    BY <1>h DEF IsPrefixOf, Histories
  <1>i. Idle.phase = "idle"
    BY DEF Idle
  <1>d. DOMAIN pend = Controllers /\ Drivers \subseteq Controllers
    BY DriversAssumption DEF RecoveryInv
  <1>p. DOMAIN pend' = Controllers
    BY <1>0, <1>d, PendStays
  <1>1. ASSUME drive' = drive, crashes' = crashes,
               \A c \in Drivers : drive[c] # Idle => pend'[c] = pend[c]
        PROVE  RecoveryInv'
    <2>1. \A c \in Drivers : drive[c].phase = "begun" => pend'[c] = pend[c]
      BY <1>1, <1>i
    <2> QED BY <1>0, <1>1, <1>p, <2>1, DriveStays DEF RecoveryInv
  <1>2. ASSUME NEW c \in Controllers, CrashAndRestart(c)
        PROVE  RecoveryInv'
    <2>1. /\ crashes' = crashes + 1
          /\ drive' = [d \in Drivers |-> IF d = c THEN Idle ELSE drive[d]]
      BY <1>2 DEF CrashAndRestart
    <2>2. ASSUME NEW d \in Drivers
          PROVE  DriveOK(d)'
      <3>1. CASE d = c
        <4>1. drive'[d] = Idle
          BY <2>1, <3>1
        <4> QED BY <1>i, <4>1 DEF DriveOK
      <3>2. CASE d # c
        <4>1. drive'[d] = drive[d] /\ pend'[d] = pend[d]
          BY <1>2, <1>d, <2>1, <3>2 DEF CrashAndRestart, Crash
        <4> QED BY <1>0, <4>1, DriveStays DEF RecoveryInv
      <3> QED BY <3>1, <3>2
    <2> QED BY <1>0, <1>p, <2>1, <2>2 DEF RecoveryInv
  <1>3. ASSUME NEW c \in Drivers, Become(c, Idle), crashes' = crashes,
               \A e \in Drivers : e # c => pend'[e] = pend[e]
        PROVE  RecoveryInv'
    BY <1>0, <1>3, <1>i, <1>p, BecomeKeeps
  <1>4. ASSUME NEW c \in Drivers, NEW s \in Sessions, ReadCapacity(c, s)
        PROVE  RecoveryInv'
    <2>1. PICK d : d = [phase |-> "projecting", session |-> s, log |-> head]
      OBVIOUS
    <2>2. d.phase = "projecting" /\ d.log = head
      BY <2>1
    <2>3. Become(c, d) /\ crashes' = crashes /\ head' = head /\ pend' = pend
      BY <1>4, <2>1 DEF ReadCapacity, vars, headVars, dispatchVars
    <2> QED BY <1>0, <1>h, <1>s, <2>2, <2>3, <1>p, BecomeKeeps
  <1>5. ASSUME NEW c \in Drivers, ReadOutbox(c)
        PROVE  RecoveryInv'
    <2>1. PICK v : v = Project(drive[c].log, outbox, drive[c].session)
      OBVIOUS
    <2>2. PICK d : d = [phase |-> "supplied", session |-> drive[c].session, view |-> v]
      OBVIOUS
    <2>3. d.phase = "supplied" /\ d.view = v
      BY <2>2
    <2>4. Become(c, d) /\ crashes' = crashes /\ head' = head /\ outbox' = outbox /\ pend' = pend
      BY <1>5, <2>1, <2>2 DEF ReadOutbox, vars, headVars, dispatchVars
    <2>5. drive[c].log \in Histories /\ IsPrefixOf(drive[c].log, head)
      BY <1>5 DEF ReadOutbox, RecoveryInv, DriveOK
    <2>6. ViewBacked(v)
      BY <1>0, <2>1, <2>5, ProjectionBacked DEF ViewBacked
    <2>7. ViewBacked(d.view)'
      BY <2>3, <2>4, <2>6 DEF ViewBacked
    <2> QED BY <1>0, <2>3, <2>4, <2>7, <1>p, BecomeKeeps
  <1>6. ASSUME NEW c \in Drivers, RereadCapacity(c)
        PROVE  RecoveryInv'
    <2>1. PICK d, v : /\ v = drive[c].view
                      /\ d = [phase |-> "verifying", session |-> drive[c].session,
                              view |-> drive[c].view, log |-> head]
      OBVIOUS
    <2>2. d.phase = "verifying" /\ d.log = head /\ d.view = v
      BY <2>1
    <2>3. Become(c, d) /\ crashes' = crashes /\ head' = head /\ outbox' = outbox /\ pend' = pend
      BY <1>6, <2>1 DEF RereadCapacity, vars, headVars, dispatchVars
    <2>4. ViewBacked(v)
      BY <1>6, <2>1 DEF RereadCapacity, RecoveryInv, DriveOK, ViewBacked
    <2>5. ViewBacked(d.view)'
      BY <2>2, <2>3, <2>4 DEF ViewBacked
    <2> QED BY <1>0, <1>h, <1>s, <2>2, <2>3, <2>5, <1>p, BecomeKeeps
  <1>7. ASSUME NEW c \in Drivers, VerifyFresh(c)
        PROVE  RecoveryInv'
    <2>1. PICK d : d = [phase |-> "armed", view |-> drive[c].view]
      OBVIOUS
    <2>2. d.phase = "armed" /\ d = [phase |-> "armed", view |-> d.view]
      BY <2>1
    <2>3. Become(c, d) /\ crashes' = crashes /\ pend' = pend
      BY <1>7, <2>1 DEF VerifyFresh, vars, dispatchVars
    <2> QED BY <1>0, <2>2, <2>3, <1>p, BecomeKeeps
  <1>8. ASSUME NEW c \in Drivers, DriverRebuild(c)
        PROVE  RecoveryInv'
    <2>1. PICK d, v : d = [drive[c] EXCEPT !.phase = "rebuilt"] /\ v = drive[c].view
      OBVIOUS
    <2>2. /\ drive[c] = [phase |-> "armed", view |-> v] /\ v.action = "prepare_dispatch_intent"
      BY <1>8, <2>1 DEF DriverRebuild, Armed, RecoveryInv, DriveOK
    <2>3. d.phase = "rebuilt" /\ d.view = v
      BY <2>1, <2>2
    <2>4. Become(c, d) /\ crashes' = crashes /\ head' = head /\ pend' = pend
      BY <1>8, <2>1 DEF DriverRebuild, vars, headVars, dispatchVars
    <2>5. v.id \in LeaseIds /\ IsPrefixOf(v.id, head)
      BY <1>8, <1>h, <2>1, ActiveFacts DEF DriverRebuild, CanRebuild
    <2> QED BY <1>0, <2>2, <2>3, <2>4, <2>5, <1>p, BecomeKeeps
  <1>9. ASSUME NEW c \in Drivers,
               \/ EndUnarmed(c) \/ DriverPrepare(c) \/ DriverFinishBegin(c)
               \/ DriverRelease(c) \/ DriverNoEffect(c)
        PROVE  RecoveryInv'
    <2>1. Become(c, Idle) /\ crashes' = crashes
      BY <1>9 DEF EndUnarmed, DriverPrepare, DriverFinishBegin, DriverRelease, DriverNoEffect
    <2>2. pend' = pend \/ pend' = [pend EXCEPT ![c] = None]
      BY <1>9 DEF EndUnarmed, DriverPrepare, DriverFinishBegin, DriverRelease, DriverNoEffect,
         PrepareDispatchIntent, BeginCommit, BeginStale, ReleaseObserved, vars, dispatchVars
    <2>3. \A e \in Drivers : e # c => pend'[e] = pend[e]
      BY <1>d, <2>2
    <2> QED BY <1>3, <2>1, <2>3
  <1>12. ASSUME NEW c \in Drivers, DriverBegin(c)
         PROVE  RecoveryInv'
    <2>1. PICK d, v : d = [drive[c] EXCEPT !.phase = "begun"] /\ v = drive[c].view
      OBVIOUS
    <2>2. drive[c] = [phase |-> "armed", view |-> v] /\ v.action = "begin_submission"
      BY <1>12, <2>1 DEF DriverBegin, Armed, RecoveryInv, DriveOK
    <2>3. d.phase = "begun" /\ d.view = v
      BY <2>1, <2>2
    <2>4. /\ Become(c, d) /\ crashes' = crashes /\ head' = head
          /\ ActiveIn(head, v.id) /\ pend' = [pend EXCEPT ![c] = v.id]
      BY <1>12, <2>1 DEF DriverBegin, BeginCheck, headVars
    <2>5. v.id \in LeaseIds /\ IsPrefixOf(v.id, head)
      BY <1>h, <2>4, ActiveFacts
    <2>6. pend'[c] = v.id /\ \A e \in Drivers : e # c => pend'[e] = pend[e]
      BY <1>d, <2>4
    <2> QED BY <1>0, <1>p, <2>2, <2>3, <2>4, <2>5, <2>6, BecomeKeeps
  <1>10. UNCHANGED recoveryVars => RecoveryInv'
    BY <1>1 DEF recoveryVars, vars, dispatchVars
  <1>11. ProtocolStep => RecoveryInv'
    BY <1>1 DEF ProtocolStep
  <1> QED
    BY <1>2, <1>4, <1>5, <1>6, <1>7, <1>8, <1>9, <1>10, <1>11, <1>12 DEF RecoveryNext, DriverStep

-----------------------------------------------------------------------------
(* Recovery theorems *)

\* The inductive invariant holds in every reachable state, whichever controllers
\* crash and recover beside others that did not.
THEOREM RecoveryInvariance == RecoverySpec => []RecoveryInv
PROOF
  <1>1. RecoveryInit => RecoveryInv
    BY InitDispatchInv DEF RecoveryInit, RecoveryInv, DriveOK, Idle, Init
  <1>2. RecoveryInv /\ [RecoveryNext]_recoveryVars => RecoveryInv'
    BY RecoveryInductive
  <1> QED
    BY <1>1, <1>2, PTL DEF RecoverySpec

\* The recovery driver implements the specification of the outbox: to the two
\* databases it is one more controller, so what holds of them holds with it.
THEOREM RecoveryRefinement == RecoverySpec => Spec
PROOF
  <1>1. RecoveryInit => Init
    BY DEF RecoveryInit
  <1>2. RecoveryInv /\ [RecoveryNext]_recoveryVars => [Next]_vars
    BY RecoveryIsDispatch
  <1> QED
    BY <1>1, <1>2, RecoveryInvariance, PTL DEF RecoverySpec, Spec

\* A Session is reported coherent after a terminal release only on evidence that
\* is, and stays, durable (_load_release_outcome).
THEOREM CoherentIsBackedHolds == RecoverySpec => []CoherentIsBacked
PROOF
  <1>1. RecoveryInv => CoherentIsBacked
    <2> SUFFICES ASSUME RecoveryInv, NEW c \in Drivers,
                        drive[c].phase \in {"supplied", "verifying"},
                        drive[c].view.status = "coherent", drive[c].view.state # "revoked"
                 PROVE  \E j \in Releases(head) :
                            /\ LeaseId(head, head[j].lease) = drive[c].view.id
                            /\ StatusOf(drive[c].view.id) = "observed"
                            /\ outbox[drive[c].view.id].outcome = head[j].outcome
                            /\ (drive[c].view.state = "result_submitted" <=>
                                    head[j].outcome.status = "completed")
      BY DEF CoherentIsBacked
    <2>1. ViewBacked(drive[c].view)
      BY DEF RecoveryInv, DriveOK
    <2> QED BY <2>1 DEF ViewBacked, EvidenceIn, StatusOf
  <1> QED
    BY <1>1, RecoveryInvariance, PTL

\* What the driver writes on a projection that became stale is confined to a lease
\* that is gone: the layers name this very step when it writes, or the lease is
\* canonical but released, and only its row moves on, to prepared or to
\* submission_unknown (apply_recovery_step with the checks of the stores).
THEOREM StaleStepsAreConfinedHolds == RecoverySpec => StaleStepsAreConfined
PROOF
  <1> DEFINE Confined(c) ==
        LET id == drive[c].view.id
            now == Project(head, outbox, AuthOfLease(id).session)
        IN \/ now.action = drive[c].view.action /\ now.id = id
           \/ /\ IsPrefixOf(id, head) /\ ~ActiveIn(head, id)
              /\ head' = head
              /\ \A k \in DOMAIN outbox \ {id} : outbox'[k] = outbox[k]
              /\ \/ StatusOf(id) = "none" /\ outbox'[id].status = "prepared"
                 \/ StatusOf(id) = "prepared" /\ outbox'[id].status = "submission_unknown"
  <1>1. ASSUME RecoveryInv, RecoveryNext, NEW c \in Drivers,
               drive[c].phase \in {"armed", "rebuilt", "begun"}, drive'[c] = Idle, crashes' = crashes,
               <<head, outbox>>' # <<head, outbox>>
        PROVE  Confined(c)
    <2>0. DispatchInv /\ DOMAIN drive = Drivers /\ crashes \in Nat /\ drive[c] # Idle
      BY <1>1 DEF RecoveryInv, Idle
    <2>1. ~(\E d \in Controllers : CrashAndRestart(d))
      BY <1>1, <2>0 DEF CrashAndRestart
    <2>2. drive' # drive
      BY <1>1, <2>0
    <2>3. DriverStep(c)
      <3>1. PICK d \in Drivers : DriverStep(d)
        BY <1>1, <2>1, <2>2 DEF RecoveryNext, ProtocolStep
      <3>2. \E x : Become(d, x)
        BY <3>1 DEF DriverStep, ReadCapacity, ReadOutbox, RereadCapacity, VerifyFresh, EndUnarmed,
                    DriverRebuild, DriverPrepare, DriverBegin, DriverFinishBegin, DriverRelease,
                    DriverNoEffect
      <3>3. d = c
        BY <1>1, <2>0, <3>2 DEF Become
      <3> QED BY <3>1, <3>3
    <2>4. DriverPrepare(c) \/ DriverFinishBegin(c) \/ DriverRelease(c)
      BY <1>1, <2>3 DEF DriverStep, ReadCapacity, ReadOutbox, RereadCapacity, VerifyFresh, EndUnarmed,
                        DriverRebuild, DriverBegin, BeginCheck, DriverNoEffect, vars, headVars,
                        dispatchVars
    <2>5. PICK id, action : id = drive[c].view.id /\ action = drive[c].view.action
      OBVIOUS
    <2>6. ASSUME ActiveIn(head, id), StatusOf(id) \in {"none", "prepared", "observed"}
          PROVE  LET now == Project(head, outbox, AuthOfLease(id).session)
                 IN  /\ now.id = id
                     /\ StatusOf(id) = "none" => now.action = "prepare_dispatch_intent"
                     /\ StatusOf(id) = "prepared" => now.action = "begin_submission"
                     /\ StatusOf(id) = "observed" => now.action = "release_observed_capacity"
      BY <2>0, <2>6, ActiveProjection, ActiveStep
    <2>7. CASE DriverFinishBegin(c)
      <3>1. /\ drive[c].phase = "begun" /\ BeginCommit(c)
            /\ pend[c] = id /\ action = "begin_submission" /\ IsPrefixOf(id, head)
        <4>1. drive[c].phase = "begun" /\ (BeginCommit(c) \/ BeginStale(c))
          BY <2>7 DEF DriverFinishBegin
        <4>2. ~BeginStale(c)
          BY <1>1 DEF BeginStale, headVars
        <4> QED BY <1>1, <2>5, <4>1, <4>2 DEF RecoveryInv, DriveOK
      <3>2. PICK row : row = [status |-> "submission_unknown", outcome |-> None]
        OBVIOUS
      <3>3. StatusOf(id) = "prepared" /\ Put(id, row) /\ head' = head
        BY <3>1, <3>2 DEF BeginCommit, headVars
      <3>4. /\ outbox'[id].status = "submission_unknown"
            /\ \A k \in DOMAIN outbox \ {id} : outbox'[k] = outbox[k]
        <4>1. outbox'[id] = row
          BY <3>3, PutFacts
        <4>2. \A k \in DOMAIN outbox : k # id => outbox'[k] = outbox[k]
          BY <3>3, PutFacts
        <4>3. row.status = "submission_unknown"
          BY <3>2
        <4> QED BY <4>1, <4>2, <4>3
      <3>5. CASE ActiveIn(head, id)
        BY <2>5, <2>6, <3>1, <3>3, <3>5
      <3>6. CASE ~ActiveIn(head, id)
        BY <2>5, <3>1, <3>3, <3>4, <3>6
      <3> QED BY <3>5, <3>6
    <2>8. CASE DriverRelease(c)
      <3>1. action = "release_observed_capacity" /\ StatusOf(id) = "observed" /\ ActiveIn(head, id)
        BY <2>5, <2>8 DEF DriverRelease, Armed, ReleaseObserved
      <3> QED BY <2>5, <2>6, <3>1
    <2>9. CASE DriverPrepare(c)
      <3>1. drive[c].phase = "rebuilt" /\ PrepareDispatchIntent(id, Len(id))
        BY <2>5, <2>9 DEF DriverPrepare, PositionOf
      <3>2. action = "prepare_dispatch_intent" /\ id \in LeaseIds /\ IsPrefixOf(id, head)
        BY <1>1, <2>5, <3>1 DEF RecoveryInv, DriveOK
      <3>3. LeaseId(id, Len(id)) = id
        BY <3>2 DEF LeaseId, LeaseIds, Histories
      <3>4. PICK row : row = [status |-> "prepared", outcome |-> None]
        OBVIOUS
      <3>5. StatusOf(id) = "none" /\ Put(id, row) /\ head' = head
        BY <3>1, <3>3, <3>4 DEF PrepareDispatchIntent, headVars
      <3>6. /\ outbox'[id].status = "prepared"
            /\ \A k \in DOMAIN outbox \ {id} : outbox'[k] = outbox[k]
        <4>1. outbox'[id] = row
          BY <3>5, PutFacts
        <4>2. \A k \in DOMAIN outbox : k # id => outbox'[k] = outbox[k]
          BY <3>5, PutFacts
        <4>3. row.status = "prepared"
          BY <3>4
        <4> QED BY <4>1, <4>2, <4>3
      <3>7. CASE ActiveIn(head, id)
        BY <2>5, <2>6, <3>2, <3>5, <3>7
      <3>8. CASE ~ActiveIn(head, id)
        BY <2>5, <3>2, <3>5, <3>6, <3>8
      <3> QED BY <3>7, <3>8
    <2> QED BY <2>4, <2>7, <2>8, <2>9
  <1>2. RecoveryInv /\ [RecoveryNext]_recoveryVars =>
            [\A c \in Drivers :
                (/\ drive[c].phase \in {"armed", "rebuilt", "begun"}
                 /\ drive'[c] = Idle
                 /\ crashes' = crashes
                 /\ <<head, outbox>>' # <<head, outbox>>) => Confined(c)]_recoveryVars
    BY <1>1
  <1> QED
    BY <1>2, RecoveryInvariance, PTL DEF RecoverySpec, StaleStepsAreConfined
=============================================================================
