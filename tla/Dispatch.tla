------------------------------ MODULE Dispatch ------------------------------
(***************************************************************************)
(* The durable dispatch outbox (dispatch.py) with the observed outcomes    *)
(* kept beside it (observed.py), composed with the capacity head.  The two *)
(* are separate databases: no transaction spans both, and the checks that  *)
(* relate them read one and then write the other.                          *)
(*                                                                         *)
(* The capacity head is used through its atomic specification,             *)
(* CapacityHead: an operation that loads the head, extends it and commits  *)
(* succeeds only if the head did not change in between.                    *)
(***************************************************************************)
EXTENDS CapacityHead

CONSTANTS
    Controllers,
    SpeculativeIntents,  \* whether a caller prepares an intent from a capacity
                         \* state it has not committed yet
    UntrackedReleases    \* whether callers release with an outcome they did not
                         \* record in the outbox (the protocol before v0.0.10)

ASSUME OptionsAssumption == SpeculativeIntents \in BOOLEAN /\ UntrackedReleases \in BOOLEAN

VARIABLES
    outbox,   \* lease id -> durable dispatch intent row
    pend,     \* pend[c]: the lease id c is about to commit a begin_submission for
    hand      \* hand[c]: the submission_unknown state c holds, and whether its own
              \* begin_submission returned it

dispatchVars == <<outbox, pend, hand>>
vars == <<headVars, dispatchVars>>

\* lease_id digests the lease and the state it was reserved in: the history up to
\* and including the reservation.
LeaseId(log, l) == SubSeq(log, 1, l)

\* The reservation is the last transition of that history.
PositionOf(id) == Len(id)

AuthOfLease(id) == id[PositionOf(id)].auth

\* _find_active_lease, _matching_active_lease
ActiveIn(log, id) == \E l \in ActiveLeases(log) : LeaseId(log, l) = id

DispatchStatus == {"prepared", "submission_unknown", "observed"}

\* Exactly the observed rows carry an outcome.
Row == {r \in [status: DispatchStatus, outcome: Outcome \union {None}] :
            r.status = "observed" <=> r.outcome # None}

StatusOf(id) == IF id \in DOMAIN outbox THEN outbox[id].status ELSE "none"

Put(id, row) ==
    outbox' = [k \in DOMAIN outbox \union {id} |-> IF k = id THEN row ELSE outbox[k]]

Init ==
    /\ HeadInit
    /\ outbox = [id \in {} |-> None]
    /\ pend = [c \in Controllers |-> None]
    /\ hand = [c \in Controllers |-> None]

-----------------------------------------------------------------------------
(* Capacity *)

Extend(t) == head' = Append(head, t)

Reserve(i) ==
    /\ \E k \in 0 .. MaxParallelism - 1 :
        LET t == [kind |-> "reserve", auth |-> authOf[i], slot |-> k]
        IN Reserves(head, i, t) /\ Extend(t)
    /\ UNCHANGED <<authOf, dispatchVars>>

Revoke(l) ==
    /\ ReleasesForRevocation(head, l, RevocationRelease(head, l))
    /\ Extend(RevocationRelease(head, l))
    /\ UNCHANGED <<authOf, dispatchVars>>

UntrackedRelease(l, outcome) ==
    /\ UntrackedReleases
    /\ ReleasesForOutcome(head, l, outcome, OutcomeRelease(head, l, outcome))
    /\ Extend(OutcomeRelease(head, l, outcome))
    /\ UNCHANGED <<authOf, dispatchVars>>

-----------------------------------------------------------------------------
(* The outbox *)

\* The capacity states a caller may prepare an intent from: any state that was
\* canonical once, or a reservation on top of one that it did not commit yet.
Snapshots == {SubSeq(head, 1, n) : n \in 0 .. Len(head)}

Uncommitted ==
    LET reservations(log) ==
            {t \in [kind: {"reserve"}, auth: {authOf[i] : i \in Issued},
                    slot: 0 .. MaxParallelism - 1] : Legal(log, t)}
    IN UNION {{Append(log, t) : t \in reservations(log)} : log \in Snapshots}

PreparableStates ==
    Snapshots \union (IF SpeculativeIntents THEN Uncommitted ELSE {})

\* prepare_dispatch_intent on a capacity state in memory, then initialize.
\* A lease has at most one row; initialize fails when there is one already.
PrepareDispatchIntent(state, l) ==
    /\ l \in ActiveLeases(state)
    /\ StatusOf(LeaseId(state, l)) = "none"
    /\ Put(LeaseId(state, l), [status |-> "prepared", outcome |-> None])
    /\ UNCHANGED <<headVars, pend, hand>>

\* DispatchPermit: the row has become submission_unknown; won says whose call did it.
Permit(id, won) == [id |-> id, won |-> won]

\* Faulty variant: the capacity head is not consulted.
BeginUnchecked(c, id) ==
    /\ pend[c] = None
    /\ StatusOf(id) = "prepared"
    /\ pend' = [pend EXCEPT ![c] = id]
    /\ UNCHANGED <<headVars, outbox, hand>>

\* begin_submission reads the row and the capacity head ...
BeginCheck(c, id) ==
    /\ pend[c] = None
    /\ StatusOf(id) = "prepared"
    /\ ActiveIn(head, id)
    /\ pend' = [pend EXCEPT ![c] = id]
    /\ UNCHANGED <<headVars, outbox, hand>>

\* Faulty variant: the permit is handed out before the row is written.
BeginUnwritten(c) ==
    /\ pend[c] # None
    /\ StatusOf(pend[c]) = "prepared"
    /\ hand' = [hand EXCEPT ![c] = Permit(pend[c], TRUE)]
    /\ pend' = [pend EXCEPT ![c] = None]
    /\ UNCHANGED <<headVars, outbox>>

\* ... and commits to the outbox if the row is still the one it read,
BeginCommit(c) ==
    /\ pend[c] # None
    /\ StatusOf(pend[c]) = "prepared"
    /\ Put(pend[c], [status |-> "submission_unknown", outcome |-> None])
    /\ hand' = [hand EXCEPT ![c] = Permit(pend[c], TRUE)]
    /\ pend' = [pend EXCEPT ![c] = None]
    /\ UNCHANGED headVars

\* or fails as stale.
BeginStale(c) ==
    /\ pend[c] # None
    /\ StatusOf(pend[c]) # "prepared"
    /\ pend' = [pend EXCEPT ![c] = None]
    /\ UNCHANGED <<headVars, outbox, hand>>

\* load: a controller picks up a row whose submission may have begun elsewhere.
LoadUnknown(c, id) ==
    /\ hand[c] = None
    /\ StatusOf(id) = "submission_unknown"
    /\ hand' = [hand EXCEPT ![c] = Permit(id, FALSE)]
    /\ UNCHANGED <<headVars, outbox, pend>>

\* _verify_outcome_against_dispatch: the outcome is one of the intent's invocation.
Answers(outcome, id) == outcome.inv = AuthOfLease(id).inv

\* _durable_record
ObservedRow(outcome) == [status |-> "observed", outcome |-> outcome]

\* Faulty variant: a later outcome replaces the recorded one.
RecordAgain(id, outcome) ==
    /\ StatusOf(id) \in {"submission_unknown", "observed"}
    /\ Answers(outcome, id)
    /\ Put(id, ObservedRow(outcome))
    /\ UNCHANGED <<headVars, pend, hand>>

\* record_observed of the durable store: one transaction writes the status and
\* the outcome.  A replay of the same outcome changes nothing; a different one
\* fails; the outcome table has at most one row per invocation.
RecordObserved(id, outcome) ==
    /\ StatusOf(id) = "submission_unknown"
    /\ Answers(outcome, id)
    /\ \A k \in DOMAIN outbox :
        outbox[k].status = "observed" => outbox[k].outcome.inv # outcome.inv
    /\ Put(id, ObservedRow(outcome))
    /\ UNCHANGED <<headVars, pend, hand>>

\* Faulty variant: capacity is released before the outcome is recorded.
ReleaseUnrecorded(id) ==
    /\ StatusOf(id) = "submission_unknown"
    /\ ActiveIn(head, id)
    /\ \E status \in TransportStatuses :
        Extend(OutcomeRelease(head, PositionOf(id),
                              [inv |-> AuthOfLease(id).inv, status |-> status]))
    /\ UNCHANGED <<authOf, dispatchVars>>

\* Faulty variant: the lease is not looked up again.
ReleaseTwice(id) ==
    /\ StatusOf(id) = "observed"
    /\ Extend(OutcomeRelease(head, PositionOf(id), outbox[id].outcome))
    /\ UNCHANGED <<authOf, dispatchVars>>

\* release_observed_capacity_after_restart.  If the exact release is already
\* canonical it reports so; otherwise it fails; neither changes anything.
ReleaseObserved(id) ==
    /\ StatusOf(id) = "observed"
    /\ ActiveIn(head, id)
    /\ Extend(OutcomeRelease(head, PositionOf(id), outbox[id].outcome))
    /\ UNCHANGED <<authOf, dispatchVars>>

Crash(c) ==
    /\ pend' = [pend EXCEPT ![c] = None]
    /\ hand' = [hand EXCEPT ![c] = None]
    /\ UNCHANGED <<headVars, outbox>>

CapacityStep ==
    \/ Authorize /\ UNCHANGED dispatchVars
    \/ \E i \in Invocations : Reserve(i)
    \/ \E l \in DOMAIN head :
        \/ Revoke(l)
        \/ \E outcome \in Outcome : UntrackedRelease(l, outcome)

OutboxStep ==
    \/ \E state \in PreparableStates :
        \E l \in DOMAIN state : PrepareDispatchIntent(state, l)
    \/ \E id \in DOMAIN outbox :
        \/ \E outcome \in Outcome : RecordObserved(id, outcome)
        \/ ReleaseObserved(id)
        \/ \E c \in Controllers : BeginCheck(c, id) \/ LoadUnknown(c, id)
    \/ \E c \in Controllers : BeginCommit(c) \/ BeginStale(c)

Next == CapacityStep \/ OutboxStep \/ \E c \in Controllers : Crash(c)

Spec == Init /\ [][Next]_vars

-----------------------------------------------------------------------------
(* Properties *)

IsPrefixOf(id, log) == Len(id) <= Len(log) /\ SubSeq(log, 1, Len(id)) = id

\* Only a lease of the durable history ever reaches submission: an intent that a
\* controller prepared from a state whose commit it lost never gets a permit
\* (_validate_intent_against_capacity in begin_submission).
SubmissionsAreCanonical ==
    \A id \in DOMAIN outbox :
        outbox[id].status # "prepared" => IsPrefixOf(id, head)

\* One invocation id reaches submission through one lease only.
OneSubmissionPerInvocation ==
    \A a, b \in DOMAIN outbox :
        (/\ outbox[a].status # "prepared"
         /\ outbox[b].status # "prepared"
         /\ AuthOfLease(a).inv = AuthOfLease(b).inv) => a = b

\* Every terminal release in the capacity history is backed by the outbox row of
\* its lease, with the same outcome, in the other database
\* (release_observed_capacity_after_restart).
ReleaseHasEvidence ==
    \A j \in Releases(head) :
        head[j].cause = "terminal_outcome" =>
            LET id == LeaseId(head, head[j].lease)
            IN /\ StatusOf(id) = "observed"
               /\ outbox[id].outcome = head[j].outcome

\* A canonical retry can be rebuilt after a restart: exactly one observed row
\* carries the predecessor's outcome the lease names (_prior_outcome_for_retry).
RetryIsRebuildable ==
    \A l \in Leases(head) :
        head[l].auth.attempt > 1 =>
            Cardinality({id \in DOMAIN outbox :
                            /\ outbox[id].status = "observed"
                            /\ outbox[id].outcome = head[l].auth.prev}) = 1

\* Durable evidence is never lost or rewritten: a row stays, its status only
\* advances, and an observed outcome is final (the predecessor checks of _commit
\* and record_observed).
EvidenceIsFinal ==
    [][\A id \in DOMAIN outbox :
        /\ id \in DOMAIN outbox'
        /\ \/ outbox'[id] = outbox[id]
           \/ outbox[id].status = "prepared" /\ outbox'[id].status = "submission_unknown"
           \/ outbox[id].status = "submission_unknown" /\ outbox'[id].status = "observed"]_vars

\* "The transition itself still revalidates that the bound capacity lease is
\* active": whenever an intent becomes submission_unknown, its lease is active in
\* the capacity head (begin_submission).
BeginsWhileActive ==
    [][\A id \in DOMAIN outbox :
        (outbox[id].status = "prepared" /\ outbox'[id].status = "submission_unknown")
            => ActiveIn(head, id)]_vars
=============================================================================
