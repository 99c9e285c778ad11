------------------------ MODULE CapacityStoreProofs ------------------------
(***************************************************************************)
(* Proofs about CapacityStore, for every set of controllers, Sessions and  *)
(* invocations and every max_parallelism.                                  *)
(*                                                                         *)
(* A history is good when the protocol derived it and it keeps what a      *)
(* canonical history promises (CapacityHeadProofs).  The invariant of the  *)
(* store only has to say that the head and every history held in memory    *)
(* are good: a commit copies one of them.                                  *)
(***************************************************************************)
EXTENDS CapacityStore, CapacityHeadProofs

(* The invariant of the store *)

\* The inductive invariant: the head and every history in memory are good, so
\* that publishing one of them by compare-and-swap keeps the head good.
Inv ==
    /\ TypeOK
    /\ ~created => head = <<>>
    /\ Good(head)
    /\ \A c \in Controllers : Good(mem[c])

\* A step that changes only what controller c holds.
LEMMA HoldStep ==
    ASSUME Inv, NEW c \in Controllers, NEW log \in Histories, Good(log), Hold(c, log)
    PROVE  Inv'
PROOF
  <1>1. /\ mem' = [mem EXCEPT ![c] = log]
        /\ head' = head
        /\ authOf' = authOf
        /\ created' = created
    BY DEF Hold
  <1>2. TypeOK'
    BY <1>1 DEF Inv, TypeOK, Histories
  <1>3. (~created => head = <<>>)'
    BY <1>1 DEF Inv
  <1>4. Good(head)'
    BY <1>1 DEF Inv, Good, Derived, Legal, Reserves, Issued,
                ReleasesForOutcome, ReleasesForRevocation
  <1>5. ASSUME NEW d \in Controllers
        PROVE  Good(mem[d])'
    <2>1. mem'[d] = log \/ mem'[d] = mem[d]
      BY <1>1 DEF Inv, TypeOK
    <2>2. Good(mem'[d])
      BY <2>1 DEF Inv
    <2> QED
      BY <1>1, <2>2 DEF Good, Derived, Legal, Reserves, Issued,
                        ReleasesForOutcome, ReleasesForRevocation
  <1> QED
    BY <1>2, <1>3, <1>4, <1>5 DEF Inv

\* A controller applies a legal transition to the history it holds.
LEMMA ExtendStep ==
    ASSUME Inv, NEW c \in Controllers, NEW t,
           Legal(mem[c], t), Hold(c, Append(mem[c], t))
    PROVE  Inv'
PROOF
  <1>1. /\ mem[c] \in Histories
        /\ AuthTypeOK
        /\ Sound(mem[c])
        /\ Derived(mem[c])
    BY DEF Inv, TypeOK, Histories, AuthTypeOK, Good
  <1>2. Append(mem[c], t) \in Histories /\ Good(Append(mem[c], t))
    BY <1>1, LegalStep, DerivedAppend DEF Good
  <1> QED
    BY <1>2, HoldStep

\* The head becomes a history some controller holds (initialize and commit).
LEMMA PublishStep ==
    ASSUME Inv, NEW c \in Controllers, head' = mem[c], created' = TRUE,
           UNCHANGED <<authOf, mem>>
    PROVE  Inv'
PROOF
  <1>1. TypeOK'
    BY DEF Inv, TypeOK
  <1>2. Good(head') /\ \A d \in Controllers : Good(mem'[d])
    BY DEF Inv
  <1>3. Good(head)' /\ \A d \in Controllers : Good(mem[d])'
    BY <1>2 DEF Good, Derived, Legal, Reserves, Issued,
                ReleasesForOutcome, ReleasesForRevocation
  <1> QED
    BY <1>1, <1>3 DEF Inv

\* Issuing an authorization leaves every history good.
LEMMA AuthorizeKeepsInv ==
    ASSUME Inv, Authorize, UNCHANGED <<created, mem>>
    PROVE  Inv'
PROOF
  <1>1. /\ AuthTypeOK
        /\ AuthTypeOK'
        /\ head' = head
        /\ \A i \in Issued : authOf'[i] = authOf[i]
    BY AuthorizeStep DEF Inv, TypeOK, AuthTypeOK
  <1>2. TypeOK'
    BY <1>1 DEF Inv, TypeOK, AuthTypeOK
  <1>3. ASSUME NEW log, Good(log)
        PROVE  Good(log)'
    <2>1. Derived(log)'
      BY <1>1, <1>3, DerivedStable DEF Good
    <2> QED
      BY <1>3, <2>1 DEF Good
  <1>4. Good(head)'
    <2>1. PICK log : log = head
      OBVIOUS
    <2>2. Good(log)'
      BY <1>3, <2>1 DEF Inv
    <2> QED
      BY <1>1, <2>1, <2>2 DEF Good, Derived, Legal, Reserves, Issued,
                              ReleasesForOutcome, ReleasesForRevocation
  <1>5. ASSUME NEW c \in Controllers
        PROVE  Good(mem[c])'
    <2>1. PICK log : log = mem[c]
      OBVIOUS
    <2>2. Good(log)'
      BY <1>3, <2>1 DEF Inv
    <2> QED
      BY <2>1, <2>2 DEF Good, Derived, Legal, Reserves, Issued,
                        ReleasesForOutcome, ReleasesForRevocation
  <1> QED
    BY <1>1, <1>2, <1>4, <1>5 DEF Inv

\* The invariant is inductive: one case per action of the store.
LEMMA InvInductive == Inv /\ [Next]_storeVars => Inv'
PROOF
  <1> SUFFICES ASSUME Inv, [Next]_storeVars
               PROVE  Inv'
    OBVIOUS
  <1>1. CASE Authorize /\ UNCHANGED <<created, mem>>
    BY <1>1, AuthorizeKeepsInv
  <1>2. ASSUME NEW c \in Controllers, NEW i \in Invocations, ReserveCapacity(c, i)
        PROVE  Inv'
    <2>1. PICK t : Reserves(mem[c], i, t) /\ Hold(c, Append(mem[c], t))
      BY <1>2 DEF ReserveCapacity
    <2>2. Legal(mem[c], t)
      BY <2>1 DEF Legal
    <2> QED
      BY <2>1, <2>2, ExtendStep
  <1>3. ASSUME NEW c \in Controllers, NEW l \in DOMAIN mem[c], NEW outcome \in Outcome,
               ReleaseCapacityForOutcome(c, l, outcome)
        PROVE  Inv'
    <2>1. PICK t : /\ ReleasesForOutcome(mem[c], l, outcome, t)
                   /\ Hold(c, Append(mem[c], t))
      BY <1>3 DEF ReleaseCapacityForOutcome
    <2>2. Legal(mem[c], t)
      BY <2>1 DEF Legal
    <2> QED
      BY <2>1, <2>2, ExtendStep
  <1>4. ASSUME NEW c \in Controllers, NEW l \in DOMAIN mem[c],
               ReleaseCapacityForRevocation(c, l)
        PROVE  Inv'
    <2>1. PICK t : ReleasesForRevocation(mem[c], l, t) /\ Hold(c, Append(mem[c], t))
      BY <1>4 DEF ReleaseCapacityForRevocation
    <2>2. Legal(mem[c], t)
      BY <2>1 DEF Legal
    <2> QED
      BY <2>1, <2>2, ExtendStep
  <1>5. ASSUME NEW c \in Controllers, Initialize(c)
        PROVE  Inv'
    BY <1>5, PublishStep DEF Initialize
  <1>6. ASSUME NEW c \in Controllers, Load(c)
        PROVE  Inv'
    BY <1>6, HoldStep DEF Load, Inv, TypeOK, Histories
  <1>7. ASSUME NEW c \in Controllers, Commit(c)
        PROVE  Inv'
    BY <1>7, PublishStep DEF Commit
  <1>8. ASSUME NEW c \in Controllers, Crash(c)
        PROVE  Inv'
    BY <1>8, GenesisGood, HoldStep DEF Crash
  <1>9. CASE UNCHANGED storeVars
    BY <1>9 DEF storeVars, Inv, TypeOK, Good, Derived, Legal, Reserves, Issued,
                ReleasesForOutcome, ReleasesForRevocation
  <1> QED
    BY <1>1, <1>2, <1>3, <1>4, <1>5, <1>6, <1>7, <1>8, <1>9 DEF Next

-----------------------------------------------------------------------------
(* Theorems *)

\* The invariant holds initially.
LEMMA InitInv == Init => Inv
PROOF
  BY GenesisGood DEF Init, HeadInit, Inv, TypeOK, Histories

\* Every reachable state of the store satisfies the invariant.
THEOREM Invariance == Spec => []Inv
PROOF
  BY InitInv, InvInductive, PTL DEF Spec

\* Type correctness of the durable store and of every controller's memory.
THEOREM TypeCorrect == Spec => []TypeOK
PROOF
  <1>1. Inv => TypeOK
    BY DEF Inv
  <1> QED
    BY <1>1, Invariance, PTL

\* However many controllers race on the head, and wherever they crash, it never
\* holds more active leases than max_parallelism and never shares a slot or a
\* Session between two of them (propose_capacity_reservation with commit).
THEOREM OccupancyHolds == Spec => []CanonicalOccupancy
PROOF
  <1>1. Inv => CanonicalOccupancy
    BY DEF Inv, Good, Sound, CanonicalOccupancy
  <1> QED
    BY <1>1, Invariance, PTL

\* The canonical history is serial for every slot and every Session.
THEOREM SerialHolds == Spec => []LeasesAreSerial
PROOF
  <1>1. Inv => LeasesAreSerial
    BY DEF Inv, Good, Sound, LeasesAreSerial
  <1> QED
    BY <1>1, Invariance, PTL

\* No lease is canonically released twice, and a terminal release belongs to its
\* own invocation.
THEOREM ReleasedOnceHolds == Spec => []ReleasedOnce
PROOF
  <1>1. Inv => ReleasedOnce
    BY DEF Inv, Good, Sound, ReleasedOnce
  <1> QED
    BY <1>1, Invariance, PTL

\* Every canonical retry rests on a chain of canonical failures back to the
\* Session's first attempt (_predecessor_released).
THEOREM RetryChainHolds == Spec => []RetryChain
PROOF
  <1>1. Inv => RetryChain
    BY DEF Inv, Good, Sound, RetryChain
  <1> QED
    BY <1>1, Invariance, PTL

\* Every history of the system, durable or in memory, passes verify_capacity_state.
THEOREM ReplayHolds == Spec => []HistoriesReplay
PROOF
  <1>1. Inv => HistoriesReplay
    BY DerivedReplays DEF Inv, TypeOK, AuthTypeOK, Histories, Good, HistoriesReplay
  <1> QED
    BY <1>1, Invariance, PTL

\* An invocation is leased once, however many controllers hold its authorization
\* and however often they try (propose_capacity_reservation with commit).
THEOREM LeasedOnceHolds == Spec => []LeasedOnce
PROOF
  <1>1. Init => AuthOwn
    BY DEF Init, HeadInit, AuthOwn, Issued
  <1>2. ASSUME Inv, AuthOwn, [Next]_storeVars
        PROVE  AuthOwn'
    <2>1. CASE authOf' = authOf
      BY <1>2, <2>1 DEF AuthOwn, Issued
    <2>2. ASSUME NEW i \in Invocations, NEW auth, auth.inv = i, auth # None,
                 authOf' = [authOf EXCEPT ![i] = auth]
          PROVE  AuthOwn'
      <3>1. \A j \in Invocations : authOf'[j] = IF j = i THEN auth ELSE authOf[j]
        BY <1>2, <2>2 DEF Inv, TypeOK
      <3> QED
        BY <1>2, <2>2, <3>1 DEF AuthOwn, Issued
    <2>3. CASE Authorize
      <3>1. PICK i \in Invocations :
                \/ \E s \in Sessions : AuthorizePhysicalAttempt(i, s)
                \/ \E prior \in Outcome : AuthorizeRetry(i, prior)
        BY <2>3 DEF Authorize
      <3>3. \E auth : auth.inv = i /\ authOf' = [authOf EXCEPT ![i] = auth]
        BY <3>1 DEF AuthorizePhysicalAttempt, AuthorizeRetry
      <3>4. PICK auth : auth.inv = i /\ authOf' = [authOf EXCEPT ![i] = auth]
        BY <3>3
      <3>5. CASE auth = None
        BY <1>2, <3>4, <3>5 DEF AuthOwn, Issued, Inv, TypeOK
      <3> QED
        BY <2>2, <3>4, <3>5
    <2> QED
      BY <1>2, <2>1, <2>3 DEF Next, storeVars, ReserveCapacity, ReleaseCapacityForOutcome,
         ReleaseCapacityForRevocation, Hold, Initialize, Load, Commit, Crash
  <1>3. Inv /\ AuthOwn => HeadOK
    BY DEF Inv, TypeOK, HeadOK, Histories, AuthTypeOK
  <1>4. HeadOK => LeasedOnce
    BY OneLeasePerInvocation DEF LeasedOnce
  <1> QED
    BY <1>1, <1>2, <1>3, <1>4, Invariance, PTL DEF Spec

\* Controllers that work on private copies and publish them by compare-and-swap
\* implement a head that is extended atomically (durable.py implements what
\* dispatch.py and observed.py rely on).
THEOREM Refinement == Spec => HeadSpec
PROOF
  <1>1. Init => HeadInit
    BY DEF Init
  <1>2. Inv /\ [Next]_storeVars => [HeadNext]_headVars
    <2> SUFFICES ASSUME Inv, Next, ~UNCHANGED headVars
                 PROVE  HeadNext
      BY DEF storeVars, headVars
    <2>1. CASE Authorize /\ UNCHANGED <<created, mem>>
      BY <2>1 DEF HeadNext
    <2>2. ASSUME NEW c \in Controllers, Initialize(c)
          PROVE  HeadNext
      <3>1. head = <<>> /\ head' = mem[c] /\ authOf' = authOf /\ Derived(mem[c])
        BY <2>2 DEF Initialize, Inv, Good
      <3>2. Derived(head')
        BY <3>1
      <3>3. Adopt
        BY <3>1, <3>2 DEF Adopt
      <3> QED
        BY <3>3 DEF HeadNext
    <2>3. ASSUME NEW c \in Controllers, Commit(c)
          PROVE  HeadNext
      <3>1. /\ Extends(head, mem[c])
            /\ head' = mem[c]
            /\ authOf' = authOf
        BY <2>3 DEF Commit
      <3>2. /\ mem[c] \in Histories
            /\ head \in Histories
            /\ Derived(mem[c])
        BY DEF Inv, TypeOK, Histories, Good
      <3>3. /\ Len(mem[c]) \in DOMAIN mem[c]
            /\ SubSeq(mem[c], 1, Len(mem[c]) - 1) = head
        BY <3>1, <3>2 DEF Extends, Histories
      <3>4. Legal(head, mem[c][Len(mem[c])])
        BY <3>2, <3>3 DEF Derived
      <3>5. Advance
        BY <3>1, <3>4 DEF Advance
      <3> QED
        BY <3>5 DEF HeadNext
    <2>4. ASSUME NEW c \in Controllers, NEW log, Hold(c, log)
          PROVE  FALSE
      BY <2>4 DEF Hold, headVars
    <2> QED
      BY <2>1, <2>2, <2>3, <2>4
      DEF Next, ReserveCapacity, ReleaseCapacityForOutcome,
          ReleaseCapacityForRevocation, Load, Crash
  <1> QED
    BY <1>1, <1>2, Invariance, PTL DEF Spec, HeadSpec
=============================================================================
