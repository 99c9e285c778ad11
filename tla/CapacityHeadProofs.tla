------------------------- MODULE CapacityHeadProofs -------------------------
(***************************************************************************)
(* Lemmas about the histories of the capacity protocol, for every set of   *)
(* Sessions and invocations and every max_parallelism.                     *)
(*                                                                         *)
(* The argument is about one history at a time.  Sound(log) collects what  *)
(* a canonical history promises; lemma LegalStep shows that a legal        *)
(* transition keeps it.  CapacityStoreProofs applies it to the head and to *)
(* every history a controller holds, DispatchProofs to the head alone.     *)
(***************************************************************************)
EXTENDS CapacityHead, FiniteSetTheorems, TLAPS

Histories == Seq(CapacityTransition)

AuthTypeOK == authOf \in [Invocations -> Authorization \union {None}]

-----------------------------------------------------------------------------
(* Appending one transition to a history *)

\* The transitions of log keep their place, and t comes last.
LEMMA AppendFacts ==
    ASSUME NEW log \in Histories, NEW t \in CapacityTransition
    PROVE  /\ Append(log, t) \in Histories
           /\ Len(Append(log, t)) = Len(log) + 1
           /\ DOMAIN Append(log, t) = DOMAIN log \union {Len(log) + 1}
           /\ DOMAIN log = 1 .. Len(log)
           /\ Len(log) \in Nat
           /\ \A i \in DOMAIN log : Append(log, t)[i] = log[i]
           /\ Append(log, t)[Len(log) + 1] = t
           /\ Len(log) + 1 \notin DOMAIN log
PROOF
  BY DEF Histories

\* A reserve transition is a new active lease and changes no other.
LEMMA ReserveAppend ==
    ASSUME NEW log \in Histories, NEW t \in CapacityTransition, t.kind = "reserve"
    PROVE  /\ Leases(Append(log, t)) = Leases(log) \union {Len(log) + 1}
           /\ Releases(Append(log, t)) = Releases(log)
PROOF
  BY AppendFacts DEF Leases, Releases

\* A release transition adds no lease.
LEMMA ReleaseAppend ==
    ASSUME NEW log \in Histories, NEW t \in CapacityTransition, t.kind = "release"
    PROVE  /\ Leases(Append(log, t)) = Leases(log)
           /\ Releases(Append(log, t)) = Releases(log) \union {Len(log) + 1}
PROOF
  BY AppendFacts DEF Leases, Releases

\* Every transition of a history has its type.
LEMMA HistoryTypes ==
    ASSUME NEW log \in Histories
    PROVE  /\ \A l \in Leases(log) : log[l] \in CapacityLease /\ l \in 1 .. Len(log)
           /\ \A j \in Releases(log) : log[j] \in CapacityRelease /\ j \in 1 .. Len(log)
           /\ \A i \in DOMAIN log : log[i] \in CapacityTransition
           /\ Len(log) \in Nat
PROOF
  BY DEF Histories, Leases, Releases, CapacityTransition, CapacityLease, CapacityRelease

\* The active leases of a history are finitely many.
LEMMA ActiveFinite ==
    ASSUME NEW log \in Histories
    PROVE  IsFiniteSet(ActiveLeases(log))
PROOF
  <1>1. ActiveLeases(log) \subseteq 1 .. Len(log)
    BY HistoryTypes DEF ActiveLeases
  <1>2. IsFiniteSet(1 .. Len(log))
    BY HistoryTypes, FS_Interval
  <1> QED
    BY <1>1, <1>2, FS_Subset

-----------------------------------------------------------------------------
(* One legal step *)

\* What a canonical history promises, as one predicate.
Sound(log) ==
    /\ OccupancyIn(log)
    /\ SerialIn(log)
    /\ ReleasedOnceIn(log)
    /\ RetryChainIn(log)

\* A legal transition has its type, and is one the replay accepts.
LEMMA LegalApplies ==
    ASSUME NEW log \in Histories, NEW t, Legal(log, t), AuthTypeOK
    PROVE  /\ t \in CapacityTransition
           /\ Applies(log, t)
PROOF
  <1>1. CASE \E i \in Invocations : Reserves(log, i, t)
    <2>1. PICK i \in Invocations : Reserves(log, i, t)
      BY <1>1
    <2>2. authOf[i] \in Authorization
      BY <2>1 DEF Reserves, Issued, AuthTypeOK
    <2>3. t = [kind |-> "reserve", auth |-> authOf[i], slot |-> t.slot]
      BY <2>1 DEF Reserves, Reservation
    <2>4. /\ t.slot \in FreeSlots(log)
          /\ t.kind = "reserve"
          /\ Admits(log, authOf[i])
      BY <2>1 DEF Reserves, Reservation
    <2>5. t.slot \in 0 .. MaxParallelism - 1
      BY <2>4 DEF FreeSlots
    <2>6. t.auth = authOf[i]
      BY <2>3
    <2>7. t \in CapacityLease
      BY <2>2, <2>3, <2>5 DEF CapacityLease
    <2> QED
      BY <2>4, <2>6, <2>7 DEF Applies, CapacityTransition
  <1>2. CASE \E l \in DOMAIN log : \E outcome \in Outcome :
                ReleasesForOutcome(log, l, outcome, t)
    <2>1. PICK l \in DOMAIN log, outcome \in Outcome :
            ReleasesForOutcome(log, l, outcome, t)
      BY <1>2
    <2>2. /\ l \in ActiveLeases(log)
          /\ t = [kind |-> "release", lease |-> l, cause |-> "terminal_outcome",
                  outcome |-> outcome]
      BY <2>1 DEF ReleasesForOutcome, ReleasesOutcome, OutcomeRelease
    <2>3. l \in Nat \ {0}
      BY HistoryTypes, <2>2 DEF ActiveLeases
    <2> QED
      BY <2>2, <2>3 DEF Applies, CapacityTransition, CapacityRelease
  <1>3. CASE \E l \in DOMAIN log : ReleasesForRevocation(log, l, t)
    <2>1. PICK l \in DOMAIN log : ReleasesForRevocation(log, l, t)
      BY <1>3
    <2>2. /\ l \in ActiveLeases(log)
          /\ t = [kind |-> "release", lease |-> l, cause |-> "session_revoked",
                  outcome |-> None]
      BY <2>1 DEF ReleasesForRevocation, RevocationRelease
    <2>3. l \in Nat \ {0}
      BY HistoryTypes, <2>2 DEF ActiveLeases
    <2> QED
      BY <2>2, <2>3 DEF Applies, CapacityTransition, CapacityRelease
  <1> QED
    BY <1>1, <1>2, <1>3 DEF Legal

\* A reservation keeps a history sound: the new lease takes a free slot, its
\* Session has no active lease, and its predecessor's failure is in the history.
LEMMA ReserveSound ==
    ASSUME NEW log \in Histories, NEW t \in CapacityTransition,
           t.kind = "reserve", Applies(log, t), Sound(log)
    PROVE  Sound(Append(log, t))
PROOF
  <1> DEFINE new == Append(log, t)
             n == Len(log) + 1
  <1>1. t.slot \in FreeSlots(log) /\ Admits(log, t.auth)
    BY DEF Applies
  <1>2. /\ new \in Histories
        /\ \A i \in DOMAIN log : new[i] = log[i]
        /\ new[n] = t
        /\ n \notin DOMAIN log
        /\ DOMAIN log = 1 .. Len(log)
        /\ Len(log) \in Nat
    BY AppendFacts
  <1>3. /\ Leases(new) = Leases(log) \union {n}
        /\ Releases(new) = Releases(log)
        /\ Leases(log) \subseteq DOMAIN log
        /\ Releases(log) \subseteq DOMAIN log
    BY ReserveAppend DEF Leases, Releases
  <1>4. \A j \in Releases(log) : log[j].lease \in Leases(log) /\ log[j].lease < j
    BY DEF Sound, ReleasedOnceIn
  <1>5. ActiveLeases(new) = ActiveLeases(log) \union {n}
    BY <1>2, <1>3, <1>4 DEF ActiveLeases
  <1> HIDE DEF new, n
  <1>6. OccupancyIn(new)
    <2>1. Cardinality(ActiveLeases(new)) <= MaxParallelism
      <3>1. /\ n \notin ActiveLeases(log)
            /\ IsFiniteSet(ActiveLeases(log))
        BY <1>2, <1>3, ActiveFinite DEF ActiveLeases
      <3>2. Cardinality(ActiveLeases(new)) = Cardinality(ActiveLeases(log)) + 1
        BY <1>5, <3>1, FS_AddElement
      <3>3. Cardinality(ActiveLeases(log)) \in Nat
        BY <3>1, FS_CardinalityType
      <3> QED
        BY <1>1, <3>2, <3>3, ParallelismAssumption DEF Admits
    <2>2. ASSUME NEW l \in ActiveLeases(new), NEW m \in ActiveLeases(new), l # m
          PROVE  /\ new[l].slot # new[m].slot
                 /\ new[l].auth.session # new[m].auth.session
      <3>1. \A k \in ActiveLeases(log) : k \in DOMAIN log /\ new[k] = log[k]
        BY <1>2, <1>3 DEF ActiveLeases
      <3>2. \A k \in ActiveLeases(log) :
                log[k].slot # t.slot /\ log[k].auth.session # t.auth.session
        BY <1>1 DEF FreeSlots, Admits
      <3>3. CASE l \in ActiveLeases(log) /\ m \in ActiveLeases(log)
        BY <2>2, <3>1, <3>3 DEF Sound, OccupancyIn
      <3>4. CASE l = n /\ m \in ActiveLeases(log)
        BY <1>2, <3>1, <3>2, <3>4
      <3>5. CASE l \in ActiveLeases(log) /\ m = n
        BY <1>2, <3>1, <3>2, <3>5
      <3> QED
        BY <1>5, <2>2, <3>3, <3>4, <3>5
    <2> QED
      BY <2>1, <2>2 DEF OccupancyIn
  <1>7. SerialIn(new)
    <2>1. SUFFICES ASSUME NEW l \in Leases(new), NEW m \in Leases(new), l < m,
                          \/ new[l].slot = new[m].slot
                          \/ new[l].auth.session = new[m].auth.session
                   PROVE  \E j \in Releases(new) : l < j /\ j < m /\ new[j].lease = l
      BY DEF SerialIn
    <2>2. l \in Leases(log) /\ new[l] = log[l]
      BY <1>2, <1>3, <2>1 DEF n
    <2>3. CASE m \in Leases(log)
      <3>1. \E j \in Releases(log) : l < j /\ j < m /\ log[j].lease = l
        BY <1>2, <1>3, <2>1, <2>2, <2>3 DEF Sound, SerialIn
      <3> QED
        BY <1>2, <1>3, <3>1
    <2>4. CASE m = n
      <3>1. l \notin ActiveLeases(log)
        BY <1>1, <1>2, <2>1, <2>2, <2>4 DEF FreeSlots, Admits
      <3>2. PICK j \in Releases(log) : log[j].lease = l
        BY <2>2, <3>1 DEF ActiveLeases
      <3>3. l < j /\ j < n
        BY <1>2, <1>3, <1>4, <3>2 DEF n
      <3> QED
        BY <1>2, <1>3, <2>4, <3>2, <3>3
    <2> QED
      BY <1>3, <2>1, <2>3, <2>4
  <1>8. ReleasedOnceIn(new)
    BY <1>2, <1>3, <1>4 DEF Sound, ReleasedOnceIn, LeaseOf
  <1>9. RetryChainIn(new)
    <2>1. \A j, s, a : FailedAttempt(log, j, s, a) => FailedAttempt(new, j, s, a)
      BY <1>2, <1>3, <1>4 DEF FailedAttempt, LeaseOf
    <2>2. SUFFICES ASSUME NEW m \in Leases(new), NEW a \in 1 .. new[m].auth.attempt - 1
                   PROVE  \E j \in 1 .. m - 1 : FailedAttempt(new, j, new[m].auth.session, a)
      BY DEF RetryChainIn
    <2>3. CASE m \in Leases(log)
      <3>1. new[m] = log[m]
        BY <1>2, <1>3, <2>3
      <3>2. \E j \in 1 .. m - 1 : FailedAttempt(log, j, log[m].auth.session, a)
        BY <2>2, <2>3, <3>1 DEF Sound, RetryChainIn
      <3> QED
        BY <2>1, <3>1, <3>2
    <2>4. CASE m = n
      <3>1. /\ new[m] = t
            /\ t \in CapacityLease
            /\ t.auth.attempt \in Nat
        BY <1>2, <2>4 DEF CapacityTransition, CapacityLease, CapacityRelease, Authorization
      <3>2. t.auth.attempt # 1
        BY <2>2, <3>1
      <3>3. PICK j \in Releases(log) :
              /\ log[j].cause = "terminal_outcome"
              /\ LeaseOf(log, j).auth.session = t.auth.session
              /\ LeaseOf(log, j).auth.attempt = t.auth.attempt - 1
              /\ log[j].outcome.status # "completed"
        BY <1>1, <3>2 DEF Admits, PredecessorReleased
      <3>4. log[j].outcome.status \in FailureStatuses
        BY <3>3, HistoryTypes DEF CapacityRelease, Outcome, TransportStatuses
      <3>5. FailedAttempt(log, j, t.auth.session, t.auth.attempt - 1)
        BY <3>3, <3>4 DEF FailedAttempt
      <3>6. j \in 1 .. n - 1
        BY <1>2, <1>3 DEF n
      <3>7. CASE a = t.auth.attempt - 1
        BY <2>1, <2>4, <3>1, <3>5, <3>6, <3>7
      <3>8. CASE a # t.auth.attempt - 1
        <4> DEFINE p == log[j].lease
        <4>1. p \in Leases(log) /\ p < j /\ p \in Int
          BY <1>2, <1>3, <1>4
        <4>2. a \in 1 .. log[p].auth.attempt - 1
          BY <2>2, <3>1, <3>3, <3>8 DEF LeaseOf
        <4>3. PICK k \in 1 .. p - 1 : FailedAttempt(log, k, log[p].auth.session, a)
          BY <4>1, <4>2 DEF Sound, RetryChainIn
        <4>4. k \in 1 .. n - 1 /\ log[p].auth.session = t.auth.session
          BY <3>3, <3>6, <4>1 DEF LeaseOf, n
        <4> QED
          BY <2>1, <2>4, <3>1, <4>3, <4>4
      <3> QED
        BY <3>7, <3>8
    <2> QED
      BY <1>3, <2>3, <2>4
  <1> QED
    BY <1>6, <1>7, <1>8, <1>9 DEF Sound, new

\* A release keeps a history sound: it ends one active lease and no other.
LEMMA ReleaseSound ==
    ASSUME NEW log \in Histories, NEW t \in CapacityTransition,
           t.kind = "release", t.lease \in ActiveLeases(log),
           t.cause = "terminal_outcome" => t.outcome.inv = log[t.lease].auth.inv,
           Sound(log)
    PROVE  Sound(Append(log, t))
PROOF
  <1> DEFINE new == Append(log, t)
             n == Len(log) + 1
  <1>1. /\ new \in Histories
        /\ \A i \in DOMAIN log : new[i] = log[i]
        /\ new[n] = t
        /\ n \notin DOMAIN log
        /\ DOMAIN log = 1 .. Len(log)
        /\ Len(log) \in Nat
    BY AppendFacts
  <1>2. /\ Leases(new) = Leases(log)
        /\ Releases(new) = Releases(log) \union {n}
        /\ Leases(log) \subseteq DOMAIN log
        /\ Releases(log) \subseteq DOMAIN log
    BY ReleaseAppend DEF Leases, Releases
  <1>3. \A j \in Releases(log) : log[j].lease \in Leases(log) /\ log[j].lease < j
    BY DEF Sound, ReleasedOnceIn
  <1>4. ActiveLeases(new) \subseteq ActiveLeases(log)
    BY <1>1, <1>2 DEF ActiveLeases
  <1> HIDE DEF new, n
  <1>5. OccupancyIn(new)
    <2>1. /\ Cardinality(ActiveLeases(new)) <= Cardinality(ActiveLeases(log))
          /\ Cardinality(ActiveLeases(new)) \in Nat
          /\ Cardinality(ActiveLeases(log)) \in Nat
      <3>1. IsFiniteSet(ActiveLeases(log)) /\ IsFiniteSet(ActiveLeases(new))
        BY <1>1, ActiveFinite
      <3> QED
        BY <1>4, <3>1, FS_Subset, FS_CardinalityType
    <2>2. \A l \in ActiveLeases(new) : new[l] = log[l]
      BY <1>1, <1>2 DEF ActiveLeases
    <2> QED
      BY <1>4, <2>1, <2>2, ParallelismAssumption DEF Sound, OccupancyIn
  <1>6. SerialIn(new)
    <2>1. SUFFICES ASSUME NEW l \in Leases(log), NEW m \in Leases(log), l < m,
                          \/ log[l].slot = log[m].slot
                          \/ log[l].auth.session = log[m].auth.session
                   PROVE  \E j \in Releases(new) : l < j /\ j < m /\ new[j].lease = l
      BY <1>1, <1>2 DEF SerialIn
    <2>2. \E j \in Releases(log) : l < j /\ j < m /\ log[j].lease = l
      BY <2>1 DEF Sound, SerialIn
    <2> QED
      BY <1>1, <1>2, <2>2
  <1>7. ReleasedOnceIn(new)
    <2>1. SUFFICES ASSUME NEW j \in Releases(new)
                   PROVE  /\ new[j].lease \in Leases(new)
                          /\ new[j].lease < j
                          /\ \A k \in Releases(new) : new[k].lease = new[j].lease => k = j
                          /\ new[j].cause = "terminal_outcome" =>
                                new[j].outcome.inv = LeaseOf(new, j).auth.inv
      BY DEF ReleasedOnceIn
    <2>2. /\ t.lease \in Leases(log)
          /\ t.lease < n
          /\ \A k \in Releases(log) : log[k].lease # t.lease
      BY <1>1, <1>2 DEF ActiveLeases, n
    <2>3. \A k \in Releases(log) : new[k] = log[k] /\ new[log[k].lease] = log[log[k].lease]
      BY <1>1, <1>2, <1>3
    <2>4. CASE j \in Releases(log)
      BY <1>1, <1>2, <1>3, <2>2, <2>3, <2>4 DEF Sound, ReleasedOnceIn, LeaseOf
    <2>5. CASE j = n
      BY <1>1, <1>2, <2>2, <2>3, <2>5 DEF LeaseOf
    <2> QED
      BY <1>2, <2>4, <2>5
  <1>8. RetryChainIn(new)
    <2>1. \A j, s, a : FailedAttempt(log, j, s, a) => FailedAttempt(new, j, s, a)
      BY <1>1, <1>2, <1>3 DEF FailedAttempt, LeaseOf
    <2>2. \A m \in Leases(new) : m \in Leases(log) /\ new[m] = log[m]
      BY <1>1, <1>2
    <2>3. ASSUME NEW m \in Leases(new), NEW a \in 1 .. new[m].auth.attempt - 1
          PROVE  \E j \in 1 .. m - 1 : FailedAttempt(new, j, new[m].auth.session, a)
      <3>1. \E j \in 1 .. m - 1 : FailedAttempt(log, j, log[m].auth.session, a)
        BY <2>2, <2>3 DEF Sound, RetryChainIn
      <3> QED
        BY <2>1, <2>2, <3>1
    <2> QED
      BY <2>3 DEF RetryChainIn
  <1> QED
    BY <1>5, <1>6, <1>7, <1>8 DEF Sound, new

\* Every legal transition keeps a history sound.
LEMMA LegalStep ==
    ASSUME NEW log \in Histories, NEW t, Legal(log, t), AuthTypeOK, Sound(log)
    PROVE  Append(log, t) \in Histories /\ Sound(Append(log, t))
PROOF
  <1>1. t \in CapacityTransition /\ Applies(log, t)
    BY LegalApplies
  <1>2. CASE t.kind = "reserve"
    BY <1>1, <1>2, ReserveSound, AppendFacts
  <1>3. CASE t.kind # "reserve"
    <2>1. t.kind = "release" /\ t.lease \in ActiveLeases(log)
      BY <1>1, <1>3 DEF Applies
    <2>2. t.cause = "terminal_outcome" => t.outcome.inv = log[t.lease].auth.inv
      BY <1>3 DEF Legal, Reserves, Reservation, ReleasesForOutcome, ReleasesOutcome,
                  OutcomeRelease, ReleasesForRevocation, RevocationRelease
    <2> QED
      BY <1>1, <2>1, <2>2, ReleaseSound, AppendFacts
  <1> QED
    BY <1>2, <1>3

\* A history extended by a legal transition is still derived by the protocol.
LEMMA DerivedAppend ==
    ASSUME NEW log \in Histories, NEW t, Legal(log, t), AuthTypeOK, Derived(log)
    PROVE  Derived(Append(log, t))
PROOF
  <1>1. t \in CapacityTransition
    BY LegalApplies
  <1>2. \A k \in DOMAIN log :
            SubSeq(Append(log, t), 1, k - 1) = SubSeq(log, 1, k - 1)
    BY <1>1 DEF Histories
  <1>3. SubSeq(Append(log, t), 1, Len(log)) = log
    BY <1>1 DEF Histories
  <1>4. SUFFICES ASSUME NEW k \in DOMAIN Append(log, t)
                 PROVE  Legal(SubSeq(Append(log, t), 1, k - 1), Append(log, t)[k])
    BY DEF Derived
  <1>5. CASE k \in DOMAIN log
    <2>1. Append(log, t)[k] = log[k]
      BY <1>1, <1>5, AppendFacts
    <2>2. Legal(SubSeq(log, 1, k - 1), log[k])
      BY <1>5 DEF Derived
    <2>3. SubSeq(Append(log, t), 1, k - 1) = SubSeq(log, 1, k - 1)
      BY <1>2, <1>5
    <2> QED
      BY <2>1, <2>2, <2>3, Zenon
  <1>6. CASE k = Len(log) + 1
    <2>1. Append(log, t)[k] = t
      BY <1>1, <1>6, AppendFacts
    <2>2. k - 1 = Len(log)
      BY <1>1, <1>6, AppendFacts
    <2>3. SubSeq(Append(log, t), 1, k - 1) = log
      BY <1>3, <2>2
    <2> QED
      BY <2>1, <2>3, Zenon
  <1> QED
    BY <1>1, <1>5, <1>6, AppendFacts

\* A derived history replays: each of its transitions was legal when proposed.
LEMMA DerivedReplays ==
    ASSUME NEW log \in Histories, AuthTypeOK, Derived(log)
    PROVE  Replays(log)
PROOF
  <1>1. ASSUME NEW k \in DOMAIN log
        PROVE  Applies(SubSeq(log, 1, k - 1), log[k])
    <2>1. SubSeq(log, 1, k - 1) \in Histories
      BY DEF Histories
    <2>2. Legal(SubSeq(log, 1, k - 1), log[k])
      BY DEF Derived
    <2> QED
      BY <2>1, <2>2, LegalApplies
  <1> QED
    BY <1>1 DEF Replays

-----------------------------------------------------------------------------
(* Steps that issue authorizations *)

\* An authorization has its type and takes a fresh invocation id.
LEMMA AuthorizeStep ==
    ASSUME AuthTypeOK, Authorize
    PROVE  /\ AuthTypeOK'
           /\ head' = head
           /\ \A i \in Issued : authOf'[i] = authOf[i]
PROOF
  <1>1. PICK i \in Invocations :
            \/ \E s \in Sessions : AuthorizePhysicalAttempt(i, s)
            \/ \E prior \in Outcome : AuthorizeRetry(i, prior)
    BY DEF Authorize
  <1>2. CASE \E s \in Sessions : AuthorizePhysicalAttempt(i, s)
    <2>1. PICK s \in Sessions : AuthorizePhysicalAttempt(i, s)
      BY <1>2
    <2> DEFINE a == [session |-> s, inv |-> i, attempt |-> 1, prev |-> None]
    <2>2. a \in Authorization
      BY DEF Authorization
    <2>3. authOf' = [authOf EXCEPT ![i] = a] /\ authOf[i] = None /\ head' = head
      BY <2>1 DEF AuthorizePhysicalAttempt
    <2> QED
      BY <2>2, <2>3 DEF AuthTypeOK, Issued
  <1>3. CASE \E prior \in Outcome : AuthorizeRetry(i, prior)
    <2>1. PICK prior \in Outcome : AuthorizeRetry(i, prior)
      BY <1>3
    <2> DEFINE a == [session |-> authOf[prior.inv].session, inv |-> i,
                     attempt |-> authOf[prior.inv].attempt + 1, prev |-> prior]
    <2>2. authOf[prior.inv] \in Authorization
      BY <2>1 DEF AuthorizeRetry, Issued, AuthTypeOK
    <2>3. a \in Authorization
      BY <2>2 DEF Authorization
    <2>4. authOf' = [authOf EXCEPT ![i] = a] /\ authOf[i] = None /\ head' = head
      BY <2>1 DEF AuthorizeRetry
    <2> QED
      BY <2>3, <2>4 DEF AuthTypeOK, Issued
  <1> QED
    BY <1>1, <1>2, <1>3

\* A transition that is legal stays legal: authorizations are never taken back.
LEMMA LegalStable ==
    ASSUME NEW log, NEW t, Legal(log, t), AuthTypeOK,
           \A i \in Issued : authOf'[i] = authOf[i]
    PROVE  Legal(log, t)'
PROOF
  <1>1. CASE \E i \in Invocations : Reserves(log, i, t)
    <2>1. PICK i \in Invocations : Reserves(log, i, t)
      BY <1>1
    <2>2. authOf'[i] = authOf[i] /\ authOf[i] # None
      BY <2>1 DEF Reserves, Issued
    <2>3. Reserves(log, i, t)'
      BY <2>1, <2>2 DEF Reserves, Issued
    <2> QED
      BY <2>3 DEF Legal
  <1>2. CASE \E l \in DOMAIN log :
                \/ \E outcome \in Outcome : ReleasesForOutcome(log, l, outcome, t)
                \/ ReleasesForRevocation(log, l, t)
    BY <1>2 DEF Legal, ReleasesForOutcome, ReleasesForRevocation
  <1> QED
    BY <1>1, <1>2 DEF Legal

\* A derived history stays derived.
LEMMA DerivedStable ==
    ASSUME NEW log, Derived(log), AuthTypeOK, \A i \in Issued : authOf'[i] = authOf[i]
    PROVE  Derived(log)'
PROOF
  <1>1. ASSUME NEW k \in DOMAIN log
        PROVE  Legal(SubSeq(log, 1, k - 1), log[k])'
    <2>1. Legal(SubSeq(log, 1, k - 1), log[k])
      BY DEF Derived
    <2> QED
      BY <2>1, LegalStable
  <1> QED
    BY <1>1 DEF Derived

-----------------------------------------------------------------------------
(* Good histories *)

\* A history of the store is one the protocol built, and is sound.
Good(log) == Sound(log) /\ Derived(log)

\* The empty history, with which every controller and the runner's row start.
LEMMA GenesisGood == <<>> \in Histories /\ Good(<<>>)
PROOF
  <1>1. Leases(<<>>) = {} /\ Releases(<<>>) = {} /\ ActiveLeases(<<>>) = {}
    BY DEF Leases, Releases, ActiveLeases
  <1>2. Cardinality({}) = 0
    BY FS_EmptySet
  <1>3. Sound(<<>>)
    <2>1. OccupancyIn(<<>>)
      <3>1. Cardinality(ActiveLeases(<<>>)) = 0
        BY <1>1, <1>2, Zenon
      <3>2. 0 <= MaxParallelism
        BY ParallelismAssumption
      <3> QED
        BY <1>1, <3>1, <3>2 DEF OccupancyIn
    <2>2. SerialIn(<<>>)
      BY <1>1 DEF SerialIn
    <2>3. ReleasedOnceIn(<<>>)
      BY <1>1 DEF ReleasedOnceIn
    <2>4. RetryChainIn(<<>>)
      BY <1>1 DEF RetryChainIn
    <2> QED
      BY <2>1, <2>2, <2>3, <2>4 DEF Sound
  <1>4. Derived(<<>>)
    BY DEF Derived
  <1> QED
    BY <1>3, <1>4 DEF Histories, Good

-----------------------------------------------------------------------------
(* A head that is extended in place, one legal transition at a time *)

\* An authorization carries the invocation id it was issued with.
AuthOwn == \A i \in Issued : authOf[i].inv = i

\* What is known of a head its users extend directly.
HeadOK == head \in Histories /\ AuthTypeOK /\ AuthOwn /\ Good(head)

\* Nothing is known of a history but the authorizations it was built from.
LEMMA GoodFrame ==
    ASSUME Good(head'), authOf' = authOf
    PROVE  Good(head)'
PROOF
  BY DEF Good, Derived, Legal, Reserves, Issued, ReleasesForOutcome, ReleasesForRevocation

LEMMA HeadOKInit == HeadInit => HeadOK
PROOF
  <1> SUFFICES ASSUME HeadInit PROVE HeadOK
    OBVIOUS
  <1>1. head = <<>> /\ head \in Histories /\ Good(head)
    BY GenesisGood DEF HeadInit
  <1>2. AuthTypeOK /\ AuthOwn
    BY DEF HeadInit, AuthTypeOK, AuthOwn, Issued
  <1> QED
    BY <1>1, <1>2 DEF HeadOK

\* Every legal transition may be applied to the head.
LEMMA ExtendHead ==
    ASSUME HeadOK, NEW t, Legal(head, t), head' = Append(head, t), authOf' = authOf
    PROVE  HeadOK' /\ Advance /\ t \in CapacityTransition
PROOF
  <1>1. head \in Histories /\ AuthTypeOK /\ Sound(head) /\ Derived(head)
    BY DEF HeadOK, Good
  <1>2. t \in CapacityTransition
    BY <1>1, LegalApplies
  <1>3. head' \in Histories /\ Good(head')
    BY <1>1, LegalStep, DerivedAppend DEF Good
  <1>4. Good(head)'
    BY <1>3, GoodFrame
  <1>5. (AuthTypeOK /\ AuthOwn)'
    BY DEF HeadOK, AuthTypeOK, AuthOwn, Issued
  <1>6. Advance
    <2>1. /\ Len(head') = Len(head) + 1
          /\ head'[Len(head')] = t
      BY <1>1, <1>2, AppendFacts
    <2>2. SubSeq(head', 1, Len(head)) = head
      BY <1>1, <1>2 DEF Histories
    <2>3. Len(head') - 1 = Len(head)
      BY <1>1, <2>1 DEF Histories
    <2>4. Extends(head, head')
      BY <2>1, <2>2, <2>3 DEF Extends
    <2> QED
      BY <2>1, <2>4 DEF Advance
  <1> QED
    BY <1>2, <1>3, <1>4, <1>5, <1>6 DEF HeadOK

\* Issuing an authorization leaves the head as it is.
LEMMA AuthorizeHead ==
    ASSUME HeadOK, Authorize
    PROVE  HeadOK' /\ head' = head
PROOF
  <1>1. /\ AuthTypeOK'
        /\ head' = head
        /\ \A i \in Issued : authOf'[i] = authOf[i]
    BY AuthorizeStep DEF HeadOK
  <1>2. AuthOwn'
    <2>1. PICK i \in Invocations :
              \/ \E s \in Sessions : AuthorizePhysicalAttempt(i, s)
              \/ \E prior \in Outcome : AuthorizeRetry(i, prior)
      BY DEF Authorize
    <2>2. authOf'[i].inv = i /\ \A k \in Invocations : k # i => authOf'[k] = authOf[k]
      BY <2>1 DEF AuthorizePhysicalAttempt, AuthorizeRetry, HeadOK, AuthTypeOK
    <2> QED
      BY <2>2 DEF AuthOwn, Issued, HeadOK
  <1>3. PICK log : log = head
    OBVIOUS
  <1>4. Derived(log)'
    BY <1>1, <1>3, DerivedStable DEF HeadOK, Good
  <1>5. Good(head)'
    <2>1. Sound(head') /\ head' = log
      BY <1>1, <1>3 DEF HeadOK, Good
    <2> QED
      BY <1>4, <2>1 DEF Good, Derived, Legal, Reserves, Issued,
                        ReleasesForOutcome, ReleasesForRevocation
  <1> QED
    BY <1>1, <1>2, <1>5 DEF HeadOK

\* The lease at position m was admitted on the history before it.
LEMMA AdmittedThere ==
    ASSUME NEW log \in Histories, AuthTypeOK, Derived(log), NEW m \in Leases(log)
    PROVE  /\ \E i \in Issued : log[m].auth = authOf[i]
           /\ \A l \in Leases(log) : l < m => log[l].auth # log[m].auth
           /\ log[m].auth.attempt # 1 =>
                  \E j \in Releases(log) : /\ log[j].cause = "terminal_outcome"
                                           /\ log[j].outcome = log[m].auth.prev
PROOF
  <1> DEFINE before == SubSeq(log, 1, m - 1)
  <1>1. /\ m \in DOMAIN log /\ log[m].kind = "reserve"
        /\ m \in 1 .. Len(log) /\ Len(log) \in Nat
    BY HistoryTypes DEF Leases
  <1>2. /\ before \in Histories /\ DOMAIN before = 1 .. m - 1
        /\ \A k \in 1 .. m - 1 : before[k] = log[k] /\ k \in DOMAIN log
    BY <1>1 DEF Histories
  <1>3. Legal(before, log[m])
    BY <1>1 DEF Derived
  <1> HIDE DEF before
  <1>4. PICK i \in Invocations : Reserves(before, i, log[m])
    BY <1>1, <1>3 DEF Legal, ReleasesForOutcome, OutcomeRelease, ReleasesForRevocation,
                      RevocationRelease
  <1>5. log[m].auth = authOf[i] /\ i \in Issued /\ Admits(before, log[m].auth)
    BY <1>4 DEF Reserves, Reservation
  <1>6. \A l \in Leases(log) : l < m => log[l].auth # log[m].auth
    <2> SUFFICES ASSUME NEW l \in Leases(log), l < m
                 PROVE  log[l].auth # log[m].auth
      OBVIOUS
    <2>1. l \in 1 .. m - 1 /\ log[l].kind = "reserve"
      BY <1>1, HistoryTypes DEF Leases
    <2>2. l \in Leases(before) /\ before[l] = log[l]
      BY <1>2, <2>1 DEF Leases
    <2> QED
      BY <1>5, <2>2 DEF Admits
  <1>7. ASSUME log[m].auth.attempt # 1
        PROVE  \E j \in Releases(log) : /\ log[j].cause = "terminal_outcome"
                                        /\ log[j].outcome = log[m].auth.prev
    <2>1. PICK j \in Releases(before) : /\ before[j].cause = "terminal_outcome"
                                        /\ before[j].outcome = log[m].auth.prev
      BY <1>5, <1>7 DEF Admits, PredecessorReleased
    <2> QED
      BY <1>2, <2>1 DEF Releases
  <1> QED
    BY <1>5, <1>6, <1>7

\* An invocation id is that of one canonical lease at most: its authorization is
\* issued once, and reserved once.
LEMMA OneLeasePerInvocation ==
    ASSUME HeadOK, NEW l \in Leases(head), NEW m \in Leases(head),
           head[l].auth.inv = head[m].auth.inv
    PROVE  l = m
PROOF
  <1>1. head \in Histories /\ AuthTypeOK /\ Derived(head) /\ AuthOwn
    BY DEF HeadOK, Good
  <1>2. \A k \in Leases(head) : head[k].auth = authOf[head[k].auth.inv]
    <2> TAKE k \in Leases(head)
    <2>1. PICK i \in Issued : head[k].auth = authOf[i]
      BY <1>1, AdmittedThere
    <2> QED
      BY <1>1, <2>1 DEF AuthOwn
  <1>3. head[l].auth = head[m].auth
    BY <1>2
  <1>4. l \in Int /\ m \in Int
    BY <1>1, HistoryTypes
  <1>5. ~(l < m) /\ ~(m < l)
    BY <1>1, <1>3, AdmittedThere
  <1> QED
    BY <1>4, <1>5
=============================================================================
