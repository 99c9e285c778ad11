--------------------------- MODULE DispatchProofs ---------------------------
(***************************************************************************)
(* Proofs about Dispatch, for any controllers, Sessions, invocations and   *)
(* max_parallelism.                                                        *)
(*                                                                         *)
(* Two databases are written without a common transaction.  What ties them *)
(* together is that the capacity history only grows: a lease id is a       *)
(* prefix of it, so a check of the head made before the outbox is written  *)
(* (PendOK) still holds of the head when it is.                            *)
(***************************************************************************)
EXTENDS Dispatch, CapacityHeadProofs

\* The histories that end with a reservation: lease_id digests one of them.
LeaseIds == {id \in Histories : id # <<>> /\ id[Len(id)].kind = "reserve"}

\* A row is one of a lease, and its outcome is one of the lease's invocation.
RowsOK ==
    \A id \in DOMAIN outbox :
        /\ id \in LeaseIds
        /\ outbox[id].status \in DispatchStatus
        /\ outbox[id].status = "observed" =>
               outbox[id].outcome \in Outcome /\ Answers(outbox[id].outcome, id)

\* What begin_submission saw of the capacity head still holds when it commits: the
\* lease may have been released, but it is canonical.
PendOK ==
    /\ DOMAIN pend = Controllers
    /\ \A c \in Controllers :
        pend[c] # None => pend[c] \in LeaseIds /\ IsPrefixOf(pend[c], head)

\* A box holds the outcome a release of lease id carries.
EvidenceIn(box, id, outcome) ==
    id \in DOMAIN box /\ box[id].status = "observed" /\ box[id].outcome = outcome

\* Every terminal release of the history has its evidence.
Backed(log, box) ==
    \A j \in Releases(log) :
        log[j].cause = "terminal_outcome" =>
            EvidenceIn(box, LeaseId(log, log[j].lease), log[j].outcome)

\* The inductive invariant.
DispatchInv ==
    /\ HeadOK
    /\ RowsOK
    /\ PendOK
    /\ SubmissionsAreCanonical
    /\ ~UntrackedReleases => Backed(head, outbox)

-----------------------------------------------------------------------------
(* Lease ids *)

\* The id of a lease is a prefix of its history, and the lease is its last transition.
LEMMA LeaseIdFacts ==
    ASSUME NEW log \in Histories, NEW l \in Leases(log)
    PROVE  /\ LeaseId(log, l) \in LeaseIds
           /\ PositionOf(LeaseId(log, l)) = l
           /\ AuthOfLease(LeaseId(log, l)) = log[l].auth
           /\ IsPrefixOf(LeaseId(log, l), log)
PROOF
  <1>1. l \in 1 .. Len(log) /\ Len(log) \in Nat /\ log[l].kind = "reserve"
    BY HistoryTypes DEF Leases
  <1>2. /\ SubSeq(log, 1, l) \in Histories
        /\ Len(SubSeq(log, 1, l)) = l
        /\ SubSeq(log, 1, l)[l] = log[l]
    BY <1>1 DEF Histories
  <1> DEFINE id == LeaseId(log, l)
  <1>3. id = SubSeq(log, 1, l) /\ id \in Histories /\ Len(id) = l /\ id[l] = log[l]
    BY <1>2 DEF LeaseId
  <1> HIDE DEF id
  <1>4. id # <<>>
    BY <1>1, <1>3
  <1>5. IsPrefixOf(id, log)
    BY <1>1, <1>3 DEF IsPrefixOf
  <1>6. id \in LeaseIds /\ PositionOf(id) = l /\ AuthOfLease(id) = log[l].auth
    BY <1>1, <1>3, <1>4 DEF LeaseIds, PositionOf, AuthOfLease
  <1> QED
    BY <1>5, <1>6 DEF id

\* Conversely, a lease id that is a prefix of a history names a lease of it.
LEMMA PrefixFacts ==
    ASSUME NEW log \in Histories, NEW id \in LeaseIds, IsPrefixOf(id, log)
    PROVE  /\ Len(id) \in Leases(log)
           /\ log[Len(id)].auth = AuthOfLease(id)
           /\ LeaseId(log, Len(id)) = id
PROOF
  <1>1. /\ id \in Histories /\ id # <<>> /\ id[Len(id)].kind = "reserve"
        /\ Len(id) <= Len(log) /\ SubSeq(log, 1, Len(id)) = id
    BY DEF LeaseIds, IsPrefixOf
  <1>2. Len(id) \in 1 .. Len(log)
    BY <1>1 DEF Histories
  <1>3. SubSeq(log, 1, Len(id))[Len(id)] = log[Len(id)]
    BY <1>2 DEF Histories
  <1>4. id[Len(id)] = log[Len(id)] /\ Len(id) \in DOMAIN log
    BY <1>1, <1>2, <1>3 DEF Histories
  <1> QED
    BY <1>1, <1>4 DEF Leases, LeaseId, AuthOfLease, PositionOf

\* A history that grows keeps its prefixes.
LEMMA PrefixAppend ==
    ASSUME NEW log \in Histories, NEW t \in CapacityTransition,
           NEW id \in Histories, IsPrefixOf(id, log)
    PROVE  IsPrefixOf(id, Append(log, t))
PROOF
  <1>1. Len(id) \in Nat /\ Len(id) <= Len(log) /\ Len(log) \in Nat
    BY DEF IsPrefixOf, Histories
  <1>2. SubSeq(Append(log, t), 1, Len(id)) = SubSeq(log, 1, Len(id))
    BY <1>1 DEF Histories
  <1>3. SubSeq(log, 1, Len(id)) = id
    BY DEF IsPrefixOf
  <1>4. Len(id) <= Len(Append(log, t))
    <2>1. Len(Append(log, t)) = Len(log) + 1
      BY AppendFacts
    <2> QED
      BY <1>1, <2>1
  <1> QED
    BY <1>2, <1>3, <1>4, Zenon DEF IsPrefixOf

\* _find_active_lease: what it finds is a lease of the history it looked at.
LEMMA ActiveFacts ==
    ASSUME NEW log \in Histories, NEW id, ActiveIn(log, id)
    PROVE  /\ id \in LeaseIds /\ IsPrefixOf(id, log)
           /\ Len(id) \in ActiveLeases(log)
           /\ AuthOfLease(id) = log[Len(id)].auth
           /\ LeaseId(log, Len(id)) = id
PROOF
  <1>1. PICK l \in ActiveLeases(log) : LeaseId(log, l) = id
    BY DEF ActiveIn
  <1>2. l \in Leases(log)
    BY DEF ActiveLeases
  <1> QED
    BY <1>1, <1>2, LeaseIdFacts DEF PositionOf

\* The outbox after one row was written.
LEMMA PutFacts ==
    ASSUME NEW id, NEW row, Put(id, row)
    PROVE  /\ DOMAIN outbox' = DOMAIN outbox \union {id}
           /\ outbox'[id] = row
           /\ \A k \in DOMAIN outbox : k # id => outbox'[k] = outbox[k]
PROOF
  BY DEF Put

-----------------------------------------------------------------------------
(* Steps of the capacity head *)

\* A transition of the head disturbs neither the outbox nor a pending begin: it is
\* enough that a terminal release has its evidence.
LEMMA ExtendInv ==
    ASSUME DispatchInv, NEW t, Legal(head, t), Extend(t), authOf' = authOf,
           UNCHANGED <<outbox, pend>>,
           (~UntrackedReleases /\ t.kind = "release" /\ t.cause = "terminal_outcome") =>
               EvidenceIn(outbox, LeaseId(head, t.lease), t.outcome)
    PROVE  DispatchInv' /\ Advance
PROOF
  <1>1. head' = Append(head, t) /\ head \in Histories /\ HeadOK
    BY DEF Extend, DispatchInv, HeadOK
  <1>2. HeadOK' /\ Advance /\ t \in CapacityTransition
    BY <1>1, ExtendHead
  <1>3. RowsOK'
    BY DEF DispatchInv, RowsOK
  <1>4. PendOK'
    <2>1. \A c \in Controllers :
              pend'[c] # None => pend'[c] \in LeaseIds /\ IsPrefixOf(pend'[c], head')
      BY <1>1, <1>2, PrefixAppend DEF DispatchInv, PendOK, LeaseIds
    <2> QED
      BY <2>1 DEF DispatchInv, PendOK
  <1>5. SubmissionsAreCanonical'
    <2>1. \A id \in DOMAIN outbox' :
              outbox'[id].status # "prepared" => IsPrefixOf(id, head')
      BY <1>1, <1>2, PrefixAppend
      DEF DispatchInv, RowsOK, SubmissionsAreCanonical, LeaseIds
    <2> QED
      BY <2>1 DEF SubmissionsAreCanonical
  <1>6. ASSUME ~UntrackedReleases PROVE Backed(head', outbox)
    <2>1. SUFFICES ASSUME NEW j \in Releases(head'), head'[j].cause = "terminal_outcome"
                   PROVE  EvidenceIn(outbox, LeaseId(head', head'[j].lease), head'[j].outcome)
      BY DEF Backed
    <2>3. /\ \A i \in DOMAIN head : head'[i] = head[i]
          /\ head'[Len(head) + 1] = t
          /\ DOMAIN head' = DOMAIN head \union {Len(head) + 1}
          /\ DOMAIN head = 1 .. Len(head) /\ Len(head) \in Nat
      BY <1>1, <1>2, AppendFacts
    <2>4. \A l \in 1 .. Len(head) : LeaseId(head', l) = LeaseId(head, l)
      BY <1>1, <1>2 DEF LeaseId, Histories
    <2>5. CASE j \in DOMAIN head
      <3>1. j \in Releases(head) /\ head'[j] = head[j]
        BY <2>1, <2>3, <2>5 DEF Releases
      <3>2. head[j].lease \in 1 .. Len(head)
        BY <1>1, <2>3, <3>1 DEF HeadOK, Good, Sound, ReleasedOnceIn, Leases
      <3>3. EvidenceIn(outbox, LeaseId(head, head[j].lease), head[j].outcome)
        BY <1>6, <2>1, <3>1 DEF DispatchInv, Backed
      <3> QED
        BY <2>4, <3>1, <3>2, <3>3
    <2>6. CASE j = Len(head) + 1
      <3>1. head'[j] = t /\ t.kind = "release" /\ t.cause = "terminal_outcome"
        BY <2>1, <2>3, <2>6 DEF Releases
      <3>2. t.lease \in 1 .. Len(head)
        <4>1. Applies(head, t)
          BY <1>1, LegalApplies DEF HeadOK
        <4> QED
          BY <3>1, <4>1, <2>3 DEF Applies, ActiveLeases, Leases
      <3> QED
        BY <1>6, <2>4, <3>1, <3>2
    <2> QED
      BY <2>1, <2>3, <2>5, <2>6 DEF Releases
  <1> QED
    BY <1>2, <1>3, <1>4, <1>5, <1>6 DEF DispatchInv

\* A step that leaves both databases alone.
LEMMA FrameInv ==
    ASSUME DispatchInv, UNCHANGED <<headVars, outbox>>, PendOK'
    PROVE  DispatchInv'
PROOF
  <1>1. head' = head /\ authOf' = authOf /\ outbox' = outbox
    BY DEF headVars
  <1>2. HeadOK'
    <2>1. Good(head)'
      BY <1>1, GoodFrame DEF DispatchInv, HeadOK
    <2> QED
      BY <1>1, <2>1 DEF DispatchInv, HeadOK, AuthTypeOK, AuthOwn, Issued
  <1>3. RowsOK' /\ SubmissionsAreCanonical'
    BY <1>1 DEF DispatchInv, RowsOK, SubmissionsAreCanonical
  <1>4. ~UntrackedReleases => Backed(head', outbox')
    BY <1>1 DEF DispatchInv
  <1> QED
    BY <1>2, <1>3, <1>4 DEF DispatchInv

\* Authorizing, reserving, revoking, and releasing without a record.
LEMMA CapacityStepInv ==
    ASSUME DispatchInv, CapacityStep
    PROVE  DispatchInv' /\ HeadNext
PROOF
  <1>0. HeadOK
    BY DEF DispatchInv
  <1>1. CASE Authorize /\ UNCHANGED dispatchVars
    <2>1. HeadOK' /\ head' = head /\ outbox' = outbox /\ pend' = pend
      BY <1>0, <1>1, AuthorizeHead DEF dispatchVars
    <2>2. RowsOK' /\ PendOK' /\ SubmissionsAreCanonical'
      BY <2>1 DEF DispatchInv, RowsOK, PendOK, SubmissionsAreCanonical
    <2>3. ~UntrackedReleases => Backed(head', outbox')
      BY <2>1 DEF DispatchInv
    <2> QED
      BY <1>1, <2>1, <2>2, <2>3 DEF DispatchInv, HeadNext
  <1>2. ASSUME NEW i \in Invocations, Reserve(i)
        PROVE  DispatchInv' /\ HeadNext
    <2>1. PICK t : t.kind = "reserve" /\ Reserves(head, i, t) /\ Extend(t)
      BY <1>2 DEF Reserve
    <2>2. Legal(head, t)
      BY <2>1 DEF Legal
    <2>3. authOf' = authOf /\ UNCHANGED <<outbox, pend>>
      BY <1>2 DEF Reserve, dispatchVars
    <2> QED
      BY <2>1, <2>2, <2>3, ExtendInv DEF HeadNext
  <1>3. ASSUME NEW l \in DOMAIN head, Revoke(l)
        PROVE  DispatchInv' /\ HeadNext
    <2> DEFINE t == RevocationRelease(head, l)
    <2>1. Legal(head, t) /\ Extend(t)
      BY <1>3 DEF Revoke, Legal
    <2>2. t.cause # "terminal_outcome"
      BY DEF RevocationRelease
    <2>3. authOf' = authOf /\ UNCHANGED <<outbox, pend>>
      BY <1>3 DEF Revoke, dispatchVars
    <2> HIDE DEF t
    <2> QED
      BY <2>1, <2>2, <2>3, ExtendInv DEF HeadNext
  <1>4. ASSUME NEW l \in DOMAIN head, NEW outcome \in Outcome, UntrackedRelease(l, outcome)
        PROVE  DispatchInv' /\ HeadNext
    <2> DEFINE t == OutcomeRelease(head, l, outcome)
    <2>1. Legal(head, t) /\ Extend(t) /\ UntrackedReleases
      BY <1>4 DEF UntrackedRelease, Legal
    <2>2. authOf' = authOf /\ UNCHANGED <<outbox, pend>>
      BY <1>4 DEF UntrackedRelease, dispatchVars
    <2> HIDE DEF t
    <2> QED
      BY <2>1, <2>2, ExtendInv DEF HeadNext
  <1> QED
    BY <1>1, <1>2, <1>3, <1>4 DEF CapacityStep

-----------------------------------------------------------------------------
(* Steps of the outbox *)

\* A row is written whose status may change, but never from observed.
LEMMA PutInv ==
    ASSUME DispatchInv, NEW id \in LeaseIds, NEW row, Put(id, row), UNCHANGED headVars,
           StatusOf(id) # "observed",
           row.status \in DispatchStatus,
           row.status = "observed" => row.outcome \in Outcome /\ Answers(row.outcome, id),
           row.status # "prepared" => IsPrefixOf(id, head),
           PendOK'
    PROVE  DispatchInv'
PROOF
  <1>1. head' = head /\ authOf' = authOf
    BY DEF headVars
  <1>2. /\ DOMAIN outbox' = DOMAIN outbox \union {id}
        /\ outbox'[id] = row
        /\ \A k \in DOMAIN outbox : k # id => outbox'[k] = outbox[k]
    BY PutFacts
  <1>3. HeadOK'
    <2>1. Good(head)'
      BY <1>1, GoodFrame DEF DispatchInv, HeadOK
    <2> QED
      BY <1>1, <2>1 DEF DispatchInv, HeadOK, AuthTypeOK, AuthOwn, Issued
  <1>4. RowsOK'
    BY <1>2 DEF DispatchInv, RowsOK
  <1>5. SubmissionsAreCanonical'
    BY <1>1, <1>2 DEF DispatchInv, SubmissionsAreCanonical
  <1>6. ASSUME ~UntrackedReleases PROVE Backed(head, outbox')
    <2>1. \A k, outcome : EvidenceIn(outbox, k, outcome) => EvidenceIn(outbox', k, outcome)
      BY <1>2 DEF StatusOf, EvidenceIn
    <2> QED
      BY <1>6, <2>1 DEF DispatchInv, Backed
  <1> QED
    BY <1>1, <1>3, <1>4, <1>5, <1>6 DEF DispatchInv

\* prepare_dispatch_intent from any history, canonical or not.
LEMMA PrepareInv ==
    ASSUME DispatchInv, NEW state \in Histories, NEW l, PrepareDispatchIntent(state, l)
    PROVE  DispatchInv'
PROOF
  <1> DEFINE id == LeaseId(state, l)
             row == [status |-> "prepared", outcome |-> None]
  <1>1. /\ l \in Leases(state) /\ StatusOf(id) = "none" /\ Put(id, row)
        /\ UNCHANGED headVars /\ pend' = pend
    BY DEF PrepareDispatchIntent, ActiveLeases
  <1>2. id \in LeaseIds
    BY <1>1, LeaseIdFacts
  <1>3. PendOK'
    BY <1>1 DEF DispatchInv, PendOK, headVars
  <1>4. row.status = "prepared"
    OBVIOUS
  <1> HIDE DEF id, row
  <1> QED
    BY <1>1, <1>2, <1>3, <1>4, PutInv DEF DispatchStatus

\* record_observed: the row is submitted, so its lease is canonical.
LEMMA RecordInv ==
    ASSUME DispatchInv, NEW id \in DOMAIN outbox, NEW outcome \in Outcome,
           RecordObserved(id, outcome)
    PROVE  DispatchInv'
PROOF
  <1>1. /\ StatusOf(id) = "submission_unknown" /\ Answers(outcome, id)
        /\ Put(id, ObservedRow(outcome)) /\ UNCHANGED headVars /\ pend' = pend
    BY DEF RecordObserved
  <1>2. id \in LeaseIds /\ IsPrefixOf(id, head)
    BY <1>1 DEF DispatchInv, RowsOK, SubmissionsAreCanonical, StatusOf
  <1>3. PendOK'
    BY <1>1 DEF DispatchInv, PendOK, headVars
  <1>4. ObservedRow(outcome).status = "observed" /\ ObservedRow(outcome).outcome = outcome
    BY DEF ObservedRow
  <1> QED
    BY <1>1, <1>2, <1>3, <1>4, PutInv DEF DispatchStatus

\* release_observed_capacity_after_restart is a legal release, with its evidence.
LEMMA ReleaseInv ==
    ASSUME DispatchInv, NEW id, ReleaseObserved(id)
    PROVE  DispatchInv' /\ Advance
PROOF
  <1> DEFINE l == Len(id)
             outcome == outbox[id].outcome
             t == OutcomeRelease(head, l, outcome)
  <1>1. /\ StatusOf(id) = "observed" /\ ActiveIn(head, id) /\ Extend(t)
        /\ authOf' = authOf /\ UNCHANGED <<outbox, pend>>
    BY DEF ReleaseObserved, PositionOf, dispatchVars
  <1>2. id \in DOMAIN outbox /\ outcome \in Outcome /\ outcome.inv = AuthOfLease(id).inv
    BY <1>1 DEF StatusOf, DispatchInv, RowsOK, Answers
  <1>3. l \in ActiveLeases(head) /\ AuthOfLease(id) = head[l].auth /\ LeaseId(head, l) = id
    BY <1>1, ActiveFacts DEF DispatchInv, HeadOK
  <1>4. Legal(head, t)
    <2>1. ReleasesForOutcome(head, l, outcome, t) /\ l \in DOMAIN head
      BY <1>2, <1>3 DEF ReleasesForOutcome, ReleasesOutcome, ActiveLeases, Leases
    <2> QED
      BY <1>2, <2>1 DEF Legal
  <1>5. EvidenceIn(outbox, LeaseId(head, t.lease), t.outcome)
    BY <1>1, <1>2, <1>3 DEF OutcomeRelease, EvidenceIn, StatusOf
  <1> HIDE DEF t, l
  <1> QED
    BY <1>1, <1>4, <1>5, ExtendInv

\* begin_submission: the check, the commit, and the stale end.
LEMMA BeginInv ==
    ASSUME DispatchInv, NEW c \in Controllers,
           (\E id : BeginCheck(c, id)) \/ BeginCommit(c) \/ BeginStale(c)
    PROVE  DispatchInv'
PROOF
  <1>0. DOMAIN pend = Controllers /\ head \in Histories
    BY DEF DispatchInv, PendOK, HeadOK
  <1>1. ASSUME NEW id, BeginCheck(c, id)
        PROVE  DispatchInv'
    <2>1. id \in LeaseIds /\ IsPrefixOf(id, head)
      BY <1>0, <1>1, ActiveFacts DEF BeginCheck
    <2>2. /\ pend' = [pend EXCEPT ![c] = id] /\ head' = head /\ authOf' = authOf
          /\ outbox' = outbox
      BY <1>1 DEF BeginCheck, headVars
    <2>3. PendOK'
      BY <1>0, <2>1, <2>2 DEF DispatchInv, PendOK
    <2> QED
      BY <2>2, <2>3, FrameInv DEF headVars
  <1>2. CASE BeginCommit(c)
    <2> DEFINE id == pend[c]
               row == [status |-> "submission_unknown", outcome |-> None]
    <2>1. /\ id # None /\ StatusOf(id) = "prepared" /\ Put(id, row)
          /\ UNCHANGED headVars /\ pend' = [pend EXCEPT ![c] = None]
      BY <1>2 DEF BeginCommit
    <2>2. id \in LeaseIds /\ IsPrefixOf(id, head)
      BY <2>1 DEF DispatchInv, PendOK
    <2>3. PendOK'
      BY <1>0, <2>1 DEF DispatchInv, PendOK, headVars
    <2>4. row.status = "submission_unknown"
      OBVIOUS
    <2> HIDE DEF id, row
    <2> QED
      BY <2>1, <2>2, <2>3, <2>4, PutInv DEF DispatchStatus
  <1>3. CASE BeginStale(c)
    <2>1. /\ pend' = [pend EXCEPT ![c] = None] /\ head' = head /\ authOf' = authOf
          /\ outbox' = outbox
      BY <1>3 DEF BeginStale, headVars
    <2>2. PendOK'
      BY <1>0, <2>1 DEF DispatchInv, PendOK
    <2> QED
      BY <2>1, <2>2, FrameInv DEF headVars
  <1> QED
    BY <1>1, <1>2, <1>3

\* The states an intent may be prepared from are histories.
LEMMA PreparableHistories ==
    ASSUME HeadOK, NEW state \in PreparableStates
    PROVE  state \in Histories
PROOF
  <1>0. head \in Histories /\ AuthTypeOK
    BY DEF HeadOK
  <1>1. \A log \in Snapshots : log \in Histories
    BY <1>0 DEF Snapshots, Histories
  <1>2. ASSUME NEW new \in Uncommitted PROVE new \in Histories
    <2> DEFINE reservations(log) ==
                   {t \in [kind: {"reserve"}, auth: {authOf[i] : i \in Issued},
                           slot: 0 .. MaxParallelism - 1] : Legal(log, t)}
    <2>1. PICK log \in Snapshots : new \in {Append(log, t) : t \in reservations(log)}
      BY <1>2, Zenon DEF Uncommitted
    <2>2. PICK t \in reservations(log) : new = Append(log, t)
      BY <2>1, Zenon
    <2>3. Legal(log, t)
      BY <2>2
    <2>4. t \in CapacityTransition
      BY <1>0, <1>1, <2>3, LegalApplies
    <2> QED
      BY <1>1, <2>2, <2>4, AppendFacts
  <1> QED
    BY <1>1, <1>2 DEF PreparableStates

-----------------------------------------------------------------------------
(* The invariant *)

LEMMA InitDispatchInv == Init => DispatchInv
PROOF
  <1> SUFFICES ASSUME Init PROVE DispatchInv
    OBVIOUS
  <1>1. HeadOK /\ head = <<>>
    BY HeadOKInit DEF Init, HeadInit
  <1>2. DOMAIN outbox = {}
    BY DEF Init
  <1>3. RowsOK /\ SubmissionsAreCanonical
    BY <1>2 DEF RowsOK, SubmissionsAreCanonical
  <1>4. PendOK
    BY DEF Init, PendOK
  <1>5. Backed(head, outbox)
    BY <1>1 DEF Backed, Releases
  <1> QED
    BY <1>1, <1>3, <1>4, <1>5 DEF DispatchInv

\* Every step keeps the invariant and is one the capacity head allows.
LEMMA DispatchInductive ==
    ASSUME DispatchInv, [Next]_vars
    PROVE  DispatchInv' /\ [HeadNext]_headVars
PROOF
  <1>1. CASE CapacityStep
    BY <1>1, CapacityStepInv
  <1>2. ASSUME NEW state \in PreparableStates, NEW l, PrepareDispatchIntent(state, l)
        PROVE  DispatchInv' /\ UNCHANGED headVars
    <2>1. state \in Histories
      BY PreparableHistories DEF DispatchInv
    <2> QED
      BY <1>2, <2>1, PrepareInv DEF PrepareDispatchIntent
  <1>3. ASSUME NEW id \in DOMAIN outbox, NEW outcome \in Outcome, RecordObserved(id, outcome)
        PROVE  DispatchInv' /\ UNCHANGED headVars
    BY <1>3, RecordInv DEF RecordObserved
  <1>4. ASSUME NEW id, ReleaseObserved(id)
        PROVE  DispatchInv' /\ Advance
    BY <1>4, ReleaseInv
  <1>5. ASSUME NEW c \in Controllers,
               (\E id : BeginCheck(c, id)) \/ BeginCommit(c) \/ BeginStale(c)
        PROVE  DispatchInv' /\ UNCHANGED headVars
    BY <1>5, BeginInv DEF BeginCheck, BeginCommit, BeginStale
  <1>6. ASSUME NEW c \in Controllers, NEW id, LoadUnknown(c, id)
        PROVE  DispatchInv' /\ UNCHANGED headVars
    <2>1. UNCHANGED <<headVars, outbox>> /\ pend' = pend /\ head' = head
      BY <1>6 DEF LoadUnknown, headVars
    <2>2. PendOK'
      BY <2>1 DEF DispatchInv, PendOK
    <2> QED
      BY <2>1, <2>2, FrameInv
  <1>7. ASSUME NEW c \in Controllers, Crash(c)
        PROVE  DispatchInv' /\ UNCHANGED headVars
    <2>1. UNCHANGED <<headVars, outbox>> /\ pend' = [pend EXCEPT ![c] = None] /\ head' = head
      BY <1>7 DEF Crash, headVars
    <2>2. PendOK'
      BY <2>1 DEF DispatchInv, PendOK
    <2> QED
      BY <2>1, <2>2, FrameInv
  <1>8. CASE UNCHANGED vars
    <2>1. UNCHANGED <<headVars, outbox>> /\ pend' = pend /\ head' = head
      BY <1>8 DEF vars, headVars, dispatchVars
    <2>2. PendOK'
      BY <2>1 DEF DispatchInv, PendOK
    <2> QED
      BY <2>1, <2>2, FrameInv
  <1>9. CASE OutboxStep
    BY <1>2, <1>3, <1>4, <1>5, <1>6, <1>9 DEF OutboxStep, HeadNext
  <1> QED
    BY <1>1, <1>7, <1>8, <1>9 DEF Next

\* The capacity head, the outbox and what controllers are about to write agree in
\* every reachable state.
THEOREM DispatchInvariance == Spec => []DispatchInv
PROOF
  <1>1. DispatchInv /\ [Next]_vars => DispatchInv'
    BY DispatchInductive
  <1> QED
    BY <1>1, InitDispatchInv, PTL DEF Spec

-----------------------------------------------------------------------------
(* What follows from it *)

\* Only a lease of the durable history reaches submission, although the check of
\* begin_submission and its commit are transactions on two databases.
THEOREM SubmissionsAreCanonicalHolds == Spec => []SubmissionsAreCanonical
PROOF
  <1>1. DispatchInv => SubmissionsAreCanonical
    BY DEF DispatchInv
  <1> QED
    BY <1>1, DispatchInvariance, PTL

\* Two submitted rows of one invocation are one row: both name the one canonical
\* lease of that invocation.
LEMMA OneSubmission == DispatchInv => OneSubmissionPerInvocation
PROOF
  <1> SUFFICES ASSUME DispatchInv,
                      NEW a \in DOMAIN outbox, NEW b \in DOMAIN outbox,
                      outbox[a].status # "prepared", outbox[b].status # "prepared",
                      AuthOfLease(a).inv = AuthOfLease(b).inv
               PROVE  a = b
    BY DEF OneSubmissionPerInvocation
  <1>1. /\ a \in LeaseIds /\ IsPrefixOf(a, head) /\ b \in LeaseIds /\ IsPrefixOf(b, head)
        /\ HeadOK /\ head \in Histories
    BY DEF DispatchInv, RowsOK, SubmissionsAreCanonical, HeadOK
  <1>2. /\ Len(a) \in Leases(head) /\ head[Len(a)].auth = AuthOfLease(a)
        /\ LeaseId(head, Len(a)) = a
    BY <1>1, PrefixFacts
  <1>3. /\ Len(b) \in Leases(head) /\ head[Len(b)].auth = AuthOfLease(b)
        /\ LeaseId(head, Len(b)) = b
    BY <1>1, PrefixFacts
  <1>4. Len(a) = Len(b)
    BY <1>1, <1>2, <1>3, OneLeasePerInvocation
  <1> QED
    BY <1>2, <1>3, <1>4

\* One invocation id reaches submission through one lease only (begin_submission).
THEOREM OneSubmissionHolds == Spec => []OneSubmissionPerInvocation
PROOF
  BY OneSubmission, DispatchInvariance, PTL

\* Every terminal release of the capacity history is backed by the outbox row of
\* its lease (release_observed_capacity_after_restart), as long as every caller
\* records an outcome before releasing with it.
THEOREM ReleaseHasEvidenceHolds ==
    ASSUME ~UntrackedReleases
    PROVE  Spec => []ReleaseHasEvidence
PROOF
  <1>1. DispatchInv => ReleaseHasEvidence
    BY DEF DispatchInv, Backed, EvidenceIn, ReleaseHasEvidence, StatusOf
  <1> QED
    BY <1>1, DispatchInvariance, PTL

\* The authorization of a canonical retry can be rebuilt after a restart from
\* exactly one observed row (_prior_outcome_for_retry), under the same condition.
THEOREM RetryIsRebuildableHolds ==
    ASSUME ~UntrackedReleases
    PROVE  Spec => []RetryIsRebuildable
PROOF
  <1>1. DispatchInv => RetryIsRebuildable
    <2> SUFFICES ASSUME DispatchInv, NEW l \in Leases(head), head[l].auth.attempt > 1
                 PROVE  Cardinality({id \in DOMAIN outbox :
                                        /\ outbox[id].status = "observed"
                                        /\ outbox[id].outcome = head[l].auth.prev}) = 1
      BY DEF RetryIsRebuildable
    <2> DEFINE S == {id \in DOMAIN outbox : /\ outbox[id].status = "observed"
                                            /\ outbox[id].outcome = head[l].auth.prev}
    <2>1. /\ head \in Histories /\ AuthTypeOK /\ Derived(head)
      BY DEF DispatchInv, HeadOK, Good
    <2>2. head[l].auth.attempt # 1
      <3>1. head[l].auth.attempt \in Nat
        BY <2>1, HistoryTypes DEF CapacityLease, Authorization
      <3> QED
        BY <3>1
    <2>3. PICK j \in Releases(head) : /\ head[j].cause = "terminal_outcome"
                                      /\ head[j].outcome = head[l].auth.prev
      BY <2>1, <2>2, AdmittedThere
    <2>4. PICK id \in S : TRUE
      BY <2>3 DEF DispatchInv, Backed, EvidenceIn
    <2>5. \A k \in S : k = id
      <3> TAKE k \in S
      <3>1. /\ outbox[k].status = "observed" /\ outbox[id].status = "observed"
            /\ outbox[k].outcome = outbox[id].outcome
            /\ k \in DOMAIN outbox /\ id \in DOMAIN outbox
        OBVIOUS
      <3>2. AuthOfLease(k).inv = AuthOfLease(id).inv
        BY <3>1 DEF DispatchInv, RowsOK, Answers
      <3> QED
        BY <3>1, <3>2, OneSubmission DEF OneSubmissionPerInvocation
    <2>6. S = {id}
      BY <2>4, <2>5
    <2>7. Cardinality({id}) = 1
      BY FS_Singleton
    <2> QED
      BY <2>6, <2>7
  <1> QED
    BY <1>1, DispatchInvariance, PTL

\* A row stays, and its status only advances.
LEMMA RowsAdvance ==
    ASSUME DispatchInv, [Next]_vars, NEW id \in DOMAIN outbox
    PROVE  /\ id \in DOMAIN outbox'
           /\ \/ outbox'[id] = outbox[id]
              \/ outbox[id].status = "prepared" /\ outbox'[id].status = "submission_unknown"
              \/ outbox[id].status = "submission_unknown" /\ outbox'[id].status = "observed"
PROOF
  <1>0. outbox[id].status # "none"
    BY DEF DispatchInv, RowsOK, DispatchStatus
  <1>1. CASE outbox' = outbox
    BY <1>1
  <1>2. ASSUME NEW k, NEW row, Put(k, row),
               \/ StatusOf(k) = "none"
               \/ StatusOf(k) = "prepared" /\ row.status = "submission_unknown"
               \/ StatusOf(k) = "submission_unknown" /\ row.status = "observed"
        PROVE  /\ id \in DOMAIN outbox'
               /\ \/ outbox'[id] = outbox[id]
                  \/ outbox[id].status = "prepared" /\ outbox'[id].status = "submission_unknown"
                  \/ outbox[id].status = "submission_unknown" /\ outbox'[id].status = "observed"
    BY <1>0, <1>2, PutFacts DEF StatusOf
  <1>3. \/ outbox' = outbox
        \/ \E k, row : /\ Put(k, row)
                       /\ \/ StatusOf(k) = "none"
                          \/ StatusOf(k) = "prepared" /\ row.status = "submission_unknown"
                          \/ StatusOf(k) = "submission_unknown" /\ row.status = "observed"
    <2>1. ASSUME NEW state, NEW l, PrepareDispatchIntent(state, l)
          PROVE  \E k, row : Put(k, row) /\ StatusOf(k) = "none"
      BY <2>1 DEF PrepareDispatchIntent
    <2>2. ASSUME NEW k, NEW outcome, RecordObserved(k, outcome)
          PROVE  \E row : Put(k, row) /\ StatusOf(k) = "submission_unknown"
                                     /\ row.status = "observed"
      <3>1. ObservedRow(outcome).status = "observed"
        BY DEF ObservedRow
      <3> QED
        BY <2>2, <3>1 DEF RecordObserved
    <2>3. ASSUME NEW c, BeginCommit(c)
          PROVE  \E k, row : Put(k, row) /\ StatusOf(k) = "prepared"
                                        /\ row.status = "submission_unknown"
      <3>1. [status |-> "submission_unknown", outcome |-> None].status = "submission_unknown"
        OBVIOUS
      <3> QED
        BY <2>3, <3>1 DEF BeginCommit
    <2>4. \/ outbox' = outbox
          \/ \E state, l : PrepareDispatchIntent(state, l)
          \/ \E k, outcome : RecordObserved(k, outcome)
          \/ \E c : BeginCommit(c)
      BY DEF Next, vars, dispatchVars, CapacityStep, OutboxStep, Reserve, Revoke,
         UntrackedRelease, ReleaseObserved, BeginCheck, LoadUnknown, BeginStale, Crash
    <2> QED
      BY <2>1, <2>2, <2>3, <2>4
  <1> QED
    BY <1>1, <1>2, <1>3

\* Durable evidence is never lost or rewritten: a row stays, its status only
\* advances, and an observed outcome is final (_commit, record_observed).
THEOREM EvidenceIsFinalHolds == Spec => EvidenceIsFinal
PROOF
  <1>2. DispatchInv /\ [Next]_vars =>
            [\A id \in DOMAIN outbox :
                /\ id \in DOMAIN outbox'
                /\ \/ outbox'[id] = outbox[id]
                   \/ outbox[id].status = "prepared" /\ outbox'[id].status = "submission_unknown"
                   \/ outbox[id].status = "submission_unknown" /\ outbox'[id].status = "observed"]_vars
    BY RowsAdvance
  <1> QED
    BY <1>2, DispatchInvariance, PTL DEF Spec, EvidenceIsFinal

\* The outbox and its controllers use the capacity head as its specification
\* allows: every step of theirs is a legal transition of it, or leaves it alone.
THEOREM DispatchRefinement == Spec => HeadSpec
PROOF
  <1>1. Init => HeadInit
    BY DEF Init
  <1>2. DispatchInv /\ [Next]_vars => [HeadNext]_headVars
    BY DispatchInductive
  <1> QED
    BY <1>1, <1>2, DispatchInvariance, PTL DEF Spec, HeadSpec

\* The canonical history keeps its promises under the outbox as well.
THEOREM DispatchHeadSound ==
    Spec => [](CanonicalOccupancy /\ LeasesAreSerial /\ ReleasedOnce /\ RetryChain)
PROOF
  <1>1. DispatchInv => CanonicalOccupancy /\ LeasesAreSerial /\ ReleasedOnce /\ RetryChain
    BY DEF DispatchInv, HeadOK, Good, Sound, CanonicalOccupancy, LeasesAreSerial, ReleasedOnce,
           RetryChain
  <1> QED
    BY <1>1, DispatchInvariance, PTL
=============================================================================
