------------------------- MODULE ProviderAuthProofs -------------------------
(***************************************************************************)
(* Proofs about ProviderAuth, for any surfaces, queue, drainers, limits    *)
(* and bounds.                                                             *)
(*                                                                         *)
(* A lease and the history variable newest are written by one action only, *)
(* Store, so the argument about evidence is the lemma StoreStep; the other *)
(* actions matter because the observations they make must be ones of a     *)
(* surface of the provider, made at a time that has passed.  Work is       *)
(* recorded by MarkDrained only, after Perform, which DoneInv relates.     *)
(***************************************************************************)
EXTENDS ProviderAuth, WellFoundedInduction, TLAPS

Surface == Names(Surfaces)

AuthStates == {"AUTH_AVAILABLE", "AUTH_SUSPECT", "HUMAN_REAUTH_REQUIRED"}

Observations == [surface: Surface, outcome: Outcomes, at: Nat]

LeaseRecords == [state: AuthStates, at: Nat]

QueueRecords == [item: Items, status: {"queued", "drained"}]

Dispositions == {"USE_AUTH", "PROBE_AUTH", "HUMAN_REAUTH_REQUIRED"}

\* A decision to use or to probe names a surface of the provider.
PathOK(path) ==
    /\ path.disposition \in Dispositions
    /\ path.disposition # "HUMAN_REAUTH_REQUIRED" => path.surface \in Surface

\* What a drainer may hold in each phase, as far as the store depends on it.
DrainerOK(r) ==
    /\ r.pc = "observed" => r.observation \in Observations
    /\ r.pc \in {"read", "planned"} => PathOK(r.path)
    /\ r.pc = "handed" => r.surface \in Surface

\* Type invariant of the store and of the evidence on its way to it.
AuthTypeOK ==
    /\ clock \in Nat
    /\ \A c \in sent : c[1] \in Observations
    /\ leases \in [Surface -> LeaseRecords \union {None}]
    /\ queue \in [Names(QueueIds) -> QueueRecords \union {None}]
    /\ newest \in [Surface -> [any: Nat \union {None}, rejection: Nat \union {None}]]
    /\ \A d \in Drainers : DrainerOK(drainer[d])
    /\ DOMAIN drainer = Drainers

\* What is known of the evidence for one surface: the lease rests on the newest
\* observation given, no rejection is newer, and a lease that asks for a human
\* rests on a rejection.
EvidenceOK(lease, new) ==
    /\ lease = None <=> new.any = None
    /\ lease # None => lease.at = new.any
    /\ new.rejection # None => new.any # None /\ new.rejection <= new.any
    /\ (lease # None /\ lease.state = "HUMAN_REAUTH_REQUIRED") => new.rejection = new.any

\* The inductive invariant.
AuthInv ==
    /\ AuthTypeOK
    /\ \A s \in Surface : EvidenceOK(leases[s], newest[s])

-----------------------------------------------------------------------------
(* Which surface is taken *)

\* A set of positions that is not empty has a least one.
LEMMA LeastPosition ==
    ASSUME NEW T, T \subseteq Nat, T # {}
    PROVE  \E i \in T : \A j \in T : i <= j
PROOF
  <1>1. PICK i \in T : \A j \in T : ~(<<j, i>> \in OpToRel(<, Nat))
    BY WFMin, NatLessThanWellFounded, Zenon
  <1>2. \A j \in T : ~(j < i)
    BY <1>1, Zenon DEF OpToRel
  <1> QED
    BY <1>2

\* ranked_surface picks one of the surfaces it is given.
LEMMA BestIsOne ==
    ASSUME NEW S, S \subseteq Surface, S # {}
    PROVE  Best(S) \in S
PROOF
  <1> DEFINE T == {i \in DOMAIN Surfaces : Surfaces[i] \in S}
  <1>1. T \subseteq Nat /\ T # {}
    BY SurfaceAssumption DEF Surface, Names
  <1>2. \E i \in DOMAIN Surfaces :
            /\ Surfaces[i] \in S
            /\ \A j \in DOMAIN Surfaces : Surfaces[j] \in S => i <= j
    BY <1>1, LeastPosition
  <1> QED
    BY <1>2 DEF Best

\* select_provider_auth_path: a path to use or to probe names a surface, and one
\* that asks for a human does so because every lease was rejected.
LEMMA PathFacts ==
    ASSUME AuthTypeOK, NEW limit
    PROVE  LET path == Path(leases, clock, limit)
           IN /\ PathOK(path)
              /\ path.disposition = "HUMAN_REAUTH_REQUIRED" =>
                    \A s \in Surface :
                        leases[s] # None => leases[s].state = "HUMAN_REAUTH_REQUIRED"
PROOF
  <1> DEFINE in(state) == {s \in DOMAIN leases :
                              leases[s] # None /\ Effective(leases[s], clock, limit) = state}
             path == Path(leases, clock, limit)
  <1>1. DOMAIN leases = Surface /\ \A s \in Surface : leases[s] \in LeaseRecords \union {None}
    BY DEF AuthTypeOK
  <1>2. path = IF in("AUTH_AVAILABLE") # {}
               THEN Decision("USE_AUTH", Best(in("AUTH_AVAILABLE")))
               ELSE IF in("AUTH_SUSPECT") # {}
               THEN Decision("PROBE_AUTH", Best(in("AUTH_SUSPECT")))
               ELSE Decision("HUMAN_REAUTH_REQUIRED", None)
    BY DEF Path
  <1>3. in("AUTH_SUSPECT") \subseteq Surface /\ in("AUTH_AVAILABLE") \subseteq Surface
    BY <1>1
  <1>4. path.disposition # "HUMAN_REAUTH_REQUIRED" => path.surface \in Surface
    <2>1. in("AUTH_SUSPECT") # {} => Best(in("AUTH_SUSPECT")) \in Surface
      BY <1>3, BestIsOne
    <2>2. in("AUTH_AVAILABLE") # {} => Best(in("AUTH_AVAILABLE")) \in Surface
      BY <1>3, BestIsOne
    <2> HIDE DEF in
    <2> QED
      BY <1>2, <2>1, <2>2 DEF Decision
  <1>5. ASSUME path.disposition = "HUMAN_REAUTH_REQUIRED", NEW s \in Surface, leases[s] # None
        PROVE  leases[s].state = "HUMAN_REAUTH_REQUIRED"
    <2>1. in("AUTH_AVAILABLE") = {} /\ in("AUTH_SUSPECT") = {}
      BY <1>2, <1>5 DEF Decision
    <2>2. /\ Effective(leases[s], clock, limit) # "AUTH_AVAILABLE"
          /\ Effective(leases[s], clock, limit) # "AUTH_SUSPECT"
      BY <1>1, <1>5, <2>1
    <2>3. leases[s].state \in AuthStates
      BY <1>1, <1>5 DEF LeaseRecords
    <2> QED
      BY <2>2, <2>3 DEF Effective, AuthStates
  <1>6. path.disposition \in Dispositions
    BY <1>2 DEF Decision, Dispositions
  <1> QED
    BY <1>4, <1>5, <1>6 DEF PathOK

-----------------------------------------------------------------------------
(* Evidence reaches the store *)

\* observe keeps what is known of the evidence for every surface: an observation
\* that is accepted is the newest, and one that is refused is older.
LEMMA StoreStep ==
    ASSUME AuthInv, NEW o \in Observations, Store(o)
    PROVE  /\ leases' \in [Surface -> LeaseRecords \union {None}]
           /\ newest' \in [Surface -> [any: Nat \union {None}, rejection: Nat \union {None}]]
           /\ \A s \in Surface : EvidenceOK(leases'[s], newest'[s])
PROOF
  <1> DEFINE s == o.surface
             any == newest[s].any
             rejection == newest[s].rejection
             rejected == o.outcome = "AUTH_REJECTED"
             lease == IF Accepts(leases[s], o) THEN Lease(o) ELSE leases[s]
             new == [any |-> Later(any, o.at),
                     rejection |-> IF rejected THEN Later(rejection, o.at) ELSE rejection]
  <1>1. /\ s \in Surface /\ o.at \in Nat
        /\ leases \in [Surface -> LeaseRecords \union {None}]
        /\ newest \in [Surface -> [any: Nat \union {None}, rejection: Nat \union {None}]]
        /\ any \in Nat \union {None} /\ rejection \in Nat \union {None}
    BY DEF AuthInv, AuthTypeOK, Observations
  <1>2. leases' = [leases EXCEPT ![s] = lease] /\ newest' = [newest EXCEPT ![s] = new]
    BY <1>1 DEF Store
  <1>3. Lease(o) \in LeaseRecords
    BY <1>1 DEF Lease, LeaseRecords, StateFor, AuthStates, Observations, Outcomes
  <1>4. lease \in LeaseRecords \union {None}
    BY <1>1, <1>3
  <1>5. new \in [any: Nat \union {None}, rejection: Nat \union {None}]
    BY <1>1 DEF Later
  <1>6. EvidenceOK(lease, new)
    <2>1. EvidenceOK(leases[s], newest[s])
      BY <1>1 DEF AuthInv
    <2>2. Lease(o).at = o.at /\ (Lease(o).state = "HUMAN_REAUTH_REQUIRED" <=> rejected)
      BY DEF Lease, StateFor, Observations, Outcomes
    <2>3. Lease(o) # None /\ o.at # None /\ (any # None => any \in Nat)
          /\ (rejection # None => rejection \in Nat)
      BY <1>1, <1>3, NoneAssumption DEF LeaseRecords, AuthStates
    <2>4. CASE Accepts(leases[s], o)
      <3>1. Later(any, o.at) = o.at
        BY <1>1, <2>1, <2>3, <2>4 DEF Accepts, Later, EvidenceOK
      <3>2. rejected => Later(rejection, o.at) = o.at
        BY <1>1, <2>1, <2>3, <2>4, <3>1 DEF Accepts, Later, EvidenceOK
      <3>3. rejection # None => rejection <= o.at
        BY <1>1, <2>1, <2>3, <2>4 DEF Accepts, EvidenceOK
      <3> QED
        BY <1>1, <2>2, <2>3, <2>4, <3>1, <3>2, <3>3 DEF EvidenceOK
    <2>5. CASE ~Accepts(leases[s], o)
      <3>1. /\ leases[s] # None /\ any \in Nat /\ o.at < any
            /\ leases[s].at = any
        BY <1>1, <2>1, <2>3, <2>5 DEF Accepts, EvidenceOK
      <3>2. Later(any, o.at) = any
        BY <1>1, <2>3, <3>1, NoneAssumption DEF Later
      <3>3. /\ new.rejection # None => new.rejection <= any
            /\ rejection = any => new.rejection = any
        BY <1>1, <2>1, <2>3, <3>1 DEF Later, EvidenceOK
      <3> QED
        BY <1>1, <2>1, <2>3, <2>5, <3>1, <3>2, <3>3 DEF EvidenceOK
    <2> QED
      BY <2>4, <2>5
  <1> HIDE DEF lease, new
  <1>7. \A r \in Surface : EvidenceOK(leases'[r], newest'[r])
    <2> TAKE r \in Surface
    <2>1. CASE r = s
      BY <1>1, <1>2, <1>6, <2>1
    <2>2. CASE r # s
      BY <1>1, <1>2, <2>2 DEF AuthInv
    <2> QED
      BY <2>1, <2>2
  <1> QED
    BY <1>1, <1>2, <1>4, <1>5, <1>7

-----------------------------------------------------------------------------
(* The invariant *)

LEMMA InitAuthInv == Init => AuthInv
PROOF
  <1> SUFFICES ASSUME Init PROVE AuthInv
    OBVIOUS
  <1>1. AuthTypeOK
    BY DEF Init, AuthTypeOK, Surface, DrainerOK, Idle
  <1>2. \A s \in Surface : EvidenceOK(leases[s], newest[s])
    BY DEF Init, Surface, EvidenceOK
  <1> QED
    BY <1>1, <1>2 DEF AuthInv

\* A drainer that moves leaves the others what they hold.
LEMMA DrainersStep ==
    ASSUME AuthInv, NEW d \in Drainers, NEW r, DrainerOK(r), Becomes(d, r)
    PROVE  DOMAIN drainer' = Drainers /\ \A e \in Drainers : DrainerOK(drainer'[e])
PROOF
  <1>1. DOMAIN drainer = Drainers /\ \A e \in Drainers : DrainerOK(drainer[e])
    BY DEF AuthInv, AuthTypeOK
  <1>2. drainer' = [drainer EXCEPT ![d] = r]
    BY DEF Becomes
  <1>3. \A e \in Drainers : drainer'[e] = IF e = d THEN r ELSE drainer[e]
    BY <1>1, <1>2
  <1> QED
    BY <1>1, <1>2, <1>3

\* A surface shows one of the outcomes that count as evidence.
LEMMA AnswerIsOutcome ==
    \A s \in Surface : Answer(s) \in Outcomes
PROOF
  BY DEF Answer, Outcomes

\* A drainer at rest, and one that was just given a plan, hold nothing amiss.
LEMMA HeldOK ==
    ASSUME NEW path, PathOK(path)
    PROVE  DrainerOK(Idle) /\ DrainerOK(DrainPlan(path)) /\ DrainerOK([pc |-> "read", path |-> path])
PROOF
  BY DEF DrainerOK, Idle, DrainPlan

\* Every step keeps the invariant.
LEMMA AuthInductive ==
    ASSUME AuthInv, [Next]_vars
    PROVE  AuthInv'
PROOF
  <1> DEFINE Drained == /\ DOMAIN drainer' = Drainers
                        /\ \A e \in Drainers : DrainerOK(drainer'[e])
             Stored == /\ leases' \in [Surface -> LeaseRecords \union {None}]
                       /\ newest' \in [Surface -> [any: Nat \union {None},
                                                   rejection: Nat \union {None}]]
                       /\ \A s \in Surface : EvidenceOK(leases'[s], newest'[s])
             Sent == \A c \in sent' : c[1] \in Observations
             Queue == queue' \in [Names(QueueIds) -> QueueRecords \union {None}]
             Same == leases' = leases /\ newest' = newest
  <1>0. /\ AuthTypeOK
        /\ clock \in Nat /\ DOMAIN drainer = Drainers
        /\ \A e \in Drainers : DrainerOK(drainer[e])
        /\ \A c \in sent : c[1] \in Observations
        /\ queue \in [Names(QueueIds) -> QueueRecords \union {None}]
    BY DEF AuthInv, AuthTypeOK
  <1>keep. Same => Stored
    BY DEF AuthInv, AuthTypeOK
  <1>drain. drainer' = drainer => Drained
    BY <1>0
  <1>sum. clock' \in Nat /\ Drained /\ Stored /\ Sent /\ Queue => AuthInv'
    BY DEF AuthInv, AuthTypeOK
  <1>idle. DrainerOK(Idle)
    BY DEF DrainerOK, Idle
  <1>clock. Observations = [surface: Surface, outcome: Outcomes, at: Nat]
    BY DEF Observations
  <1> HIDE DEF Drained, Stored, Sent, Queue, Same
  <1>1. CASE Tick
    <2>1. clock' \in Nat
      BY <1>1, <1>0 DEF Tick
    <2>2. Same /\ Sent /\ Queue /\ drainer' = drainer
      BY <1>1, <1>0 DEF Tick, Same, Sent, Queue
    <2> QED
      BY <2>1, <2>2, <1>keep, <1>drain, <1>sum
  <1>2. CASE Expire
    <2>1. clock' \in Nat /\ Same /\ Sent /\ Queue /\ drainer' = drainer
      BY <1>2, <1>0 DEF Expire, Same, Sent, Queue
    <2> QED
      BY <2>1, <1>keep, <1>drain, <1>sum
  <1>3. CASE Report
    <2>1. PICK s \in Surface : \E outcome \in {Answer(s), "AUTH_UNCERTAIN"} :
              sent' = sent \union {<<Observation(s, outcome), MaxCopies>>}
      BY <1>3 DEF Report, Surface
    <2>2. PICK outcome \in {Answer(s), "AUTH_UNCERTAIN"} :
              sent' = sent \union {<<Observation(s, outcome), MaxCopies>>}
      BY <2>1
    <2>3. outcome \in Outcomes
      BY <2>2, AnswerIsOutcome DEF Outcomes
    <2>4. Observation(s, outcome) \in Observations
      BY <1>0, <2>3 DEF Observation, Observations
    <2>5. Sent
      BY <1>0, <2>2, <2>4 DEF Sent
    <2>6. clock' \in Nat /\ Same /\ Queue /\ drainer' = drainer
      BY <1>3, <1>0 DEF Report, Same, Queue
    <2> QED
      BY <2>5, <2>6, <1>keep, <1>drain, <1>sum
  <1>4. CASE Observe
    <2>1. PICK c \in sent :
              /\ Store(c[1])
              /\ sent' = (sent \ {c}) \union {<<c[1], n>> : n \in {c[2] - 1} \ {0}}
      BY <1>4 DEF Observe
    <2>2. c[1] \in Observations
      BY <1>0
    <2>3. Stored
      BY <2>1, <2>2, StoreStep DEF Stored
    <2>4. Sent
      BY <1>0, <2>1, <2>2 DEF Sent
    <2>5. clock' \in Nat /\ Queue /\ drainer' = drainer
      BY <1>4, <1>0, <2>1 DEF Observe, Store, Queue
    <2> QED
      BY <2>3, <2>4, <2>5, <1>drain, <1>sum
  <1>5. CASE Enqueue
    <2>1. PICK q \in Names(QueueIds), item \in Items : queue' = [queue EXCEPT ![q] = QueueRecord(item)]
      BY <1>5 DEF Enqueue
    <2>2. QueueRecord(item) \in QueueRecords
      BY DEF QueueRecord, QueueRecords
    <2>3. Queue
      BY <1>0, <2>1, <2>2 DEF Queue
    <2>4. clock' \in Nat /\ Same /\ Sent /\ drainer' = drainer
      BY <1>5, <1>0 DEF Enqueue, Same, Sent
    <2> QED
      BY <2>3, <2>4, <1>keep, <1>drain, <1>sum
  <1>6. ASSUME NEW d \in Drainers, Step(d) \/ Crash(d) \/ \E limit \in Limits : StartPlan(d, limit)
        PROVE  AuthInv'
    <2>0. DrainerOK(drainer[d])
      BY <1>0
    <2>1. ASSUME NEW limit \in Limits, StartPlan(d, limit)
          PROVE  AuthInv'
      <3> DEFINE path == Path(leases, clock, limit)
                 r == IF path.disposition = "USE_AUTH" THEN [pc |-> "read", path |-> path]
                      ELSE DrainPlan(path)
      <3>1. PathOK(path)
        BY <1>0, PathFacts
      <3>2. Becomes(d, r) /\ clock' \in Nat /\ Same /\ Sent /\ Queue
        BY <2>1, <1>0 DEF StartPlan, Same, Sent, Queue
      <3> HIDE DEF path
      <3>3. DrainerOK(DrainPlan(path)) /\ DrainerOK([pc |-> "read", path |-> path])
        BY <3>1, HeldOK
      <3>5. DrainerOK(r)
        BY <3>3
      <3> HIDE DEF r
      <3>6. Drained
        BY <3>2, <3>5, DrainersStep DEF Drained
      <3> QED
        BY <3>2, <3>6, <1>keep, <1>sum
    <2>2. CASE Plan(d)
      <3>1. PathOK(drainer[d].path)
        BY <2>0, <2>2 DEF Plan, DrainerOK
      <3>2. DrainerOK(DrainPlan(drainer[d].path))
        BY <3>1, HeldOK
      <3>3. Becomes(d, DrainPlan(drainer[d].path)) /\ clock' \in Nat /\ Same /\ Sent /\ Queue
        BY <2>2, <1>0 DEF Plan, Same, Sent, Queue
      <3>4. Drained
        BY <3>2, <3>3, DrainersStep DEF Drained
      <3> QED
        BY <3>3, <3>4, <1>keep, <1>sum
    <2>3. CASE Handoff(d)
      <3>1. PICK q \in Names(drainer[d].selected) :
                Becomes(d, IF IsQueued(q) THEN Handed(q, drainer[d].path.surface) ELSE Idle)
        BY <2>3 DEF Handoff
      <3>2. DrainerOK(Handed(q, drainer[d].path.surface))
        <4>1. drainer[d].path.surface \in Surface
          BY <2>0, <2>3 DEF Handoff, Planned, DrainerOK, PathOK
        <4> QED
          BY <4>1 DEF Handed, DrainerOK
      <3>3. Drained
        BY <3>1, <3>2, <1>idle, DrainersStep DEF Drained
      <3>4. clock' \in Nat /\ Same /\ Sent /\ Queue
        BY <2>3, <1>0 DEF Handoff, Same, Sent, Queue
      <3> QED
        BY <3>3, <3>4, <1>keep, <1>sum
    <2>4. CASE NothingToDrain(d) \/ GiveUp(d) \/ Crash(d)
      <3>1. Becomes(d, Idle) /\ clock' \in Nat /\ Same /\ Sent /\ Queue
        BY <2>4, <1>0 DEF NothingToDrain, GiveUp, Crash, Same, Sent, Queue
      <3>2. Drained
        BY <3>1, <1>idle, DrainersStep DEF Drained
      <3> QED
        BY <3>1, <3>2, <1>keep, <1>sum
    <2>5. CASE Probe(d)
      <3> DEFINE s == drainer[d].path.surface
                 r == [pc |-> "observed", observation |-> Observation(s, Answer(s))]
      <3>1. s \in Surface
        BY <2>0, <2>5 DEF Probe, Planned, DrainerOK, PathOK
      <3>2. Observation(s, Answer(s)) \in Observations
        BY <3>1, <1>0, AnswerIsOutcome DEF Observation, Observations
      <3>3. DrainerOK(r)
        BY <3>2 DEF DrainerOK
      <3>4. Becomes(d, r) /\ clock' \in Nat /\ Same /\ Sent /\ Queue
        BY <2>5, <1>0 DEF Probe, Same, Sent, Queue
      <3> HIDE DEF r
      <3>5. Drained
        BY <3>3, <3>4, DrainersStep DEF Drained
      <3> QED
        BY <3>4, <3>5, <1>keep, <1>sum
    <2>6. CASE Login(d)
      <3>1. PICK s \in Surface :
                Becomes(d, [pc |-> "observed", observation |-> Observation(s, "AUTH_SUCCESS")])
        BY <2>6 DEF Login, Surface
      <3>2. Observation(s, "AUTH_SUCCESS") \in Observations
        BY <1>0 DEF Observation, Observations, Outcomes
      <3>3. DrainerOK([pc |-> "observed", observation |-> Observation(s, "AUTH_SUCCESS")])
        BY <3>2 DEF DrainerOK
      <3>4. clock' \in Nat /\ Same /\ Sent /\ Queue
        BY <2>6, <1>0 DEF Login, Same, Sent, Queue
      <3>5. Drained
        BY <3>1, <3>3, DrainersStep DEF Drained
      <3> QED
        BY <3>4, <3>5, <1>keep, <1>sum
    <2>7. CASE Record(d)
      <3>1. drainer[d].observation \in Observations
        BY <2>0, <2>7 DEF Record, DrainerOK
      <3>2. Stored
        BY <2>7, <3>1, StoreStep DEF Record, Stored
      <3>3. Becomes(d, Idle) /\ clock' \in Nat /\ Sent /\ Queue
        BY <2>7, <1>0 DEF Record, Store, Sent, Queue
      <3>4. Drained
        BY <3>3, <1>idle, DrainersStep DEF Drained
      <3> QED
        BY <3>2, <3>3, <3>4, <1>sum
    <2>8. CASE MarkDrained(d)
      <3> DEFINE q == drainer[d].id
      <3>1. Becomes(d, Idle) /\ clock' \in Nat /\ Same /\ Sent
        BY <2>8, <1>0 DEF MarkDrained, Same, Sent
      <3>2. queue' = queue \/ (IsQueued(q) /\ queue' = [queue EXCEPT ![q].status = "drained"])
        BY <2>8 DEF MarkDrained
      <3>3. Queue
        <4> DEFINE r == [queue[q] EXCEPT !.status = "drained"]
        <4>1. CASE queue' = queue
          BY <1>0, <4>1 DEF Queue
        <4>2. CASE IsQueued(q) /\ queue' = [queue EXCEPT ![q] = r]
          <5>1. q \in Names(QueueIds) => r \in QueueRecords
            <6>1. q \in Names(QueueIds) => queue[q] \in QueueRecords
              BY <1>0, <4>2 DEF IsQueued
            <6> QED
              BY <6>1 DEF QueueRecords
          <5> HIDE DEF r, q
          <5> QED
            BY <1>0, <4>2, <5>1 DEF Queue
        <4> QED
          BY <3>2, <4>1, <4>2
      <3>4. Drained
        BY <3>1, <1>idle, DrainersStep DEF Drained
      <3> QED
        BY <3>1, <3>3, <3>4, <1>keep, <1>sum
    <2>9. CASE Perform(d)
      <3> DEFINE r == [pc |-> "done", id |-> drainer[d].id, item |-> drainer[d].item]
      <3>1. DrainerOK(r)
        BY DEF DrainerOK
      <3>2. Becomes(d, r) /\ clock' \in Nat /\ Same /\ Sent /\ Queue
        BY <2>9, <1>0 DEF Perform, Same, Sent, Queue
      <3> HIDE DEF r
      <3>3. Drained
        BY <3>1, <3>2, DrainersStep DEF Drained
      <3> QED
        BY <3>2, <3>3, <1>keep, <1>sum
    <2>10. CASE Refuse(d)
      <3> DEFINE o(outcome) == Observation(drainer[d].surface, outcome)
      <3>1. PICK outcome \in {"AUTH_REJECTED", "AUTH_UNCERTAIN"} :
                Becomes(d, [pc |-> "observed", observation |-> o(outcome)])
        BY <2>10 DEF Refuse
      <3>2. drainer[d].surface \in Surface
        BY <2>0, <2>10 DEF Refuse, DrainerOK
      <3>3. o(outcome) \in Observations
        BY <1>0, <3>2 DEF Observation, Observations, Outcomes
      <3>4. DrainerOK([pc |-> "observed", observation |-> o(outcome)])
        BY <3>3 DEF DrainerOK
      <3>5. clock' \in Nat /\ Same /\ Sent /\ Queue
        BY <2>10, <1>0 DEF Refuse, Same, Sent, Queue
      <3>6. Drained
        BY <3>1, <3>4, DrainersStep DEF Drained
      <3> QED
        BY <3>5, <3>6, <1>keep, <1>sum
    <2> QED
      BY <1>6, <2>1, <2>2, <2>3, <2>4, <2>5, <2>6, <2>7, <2>8, <2>9, <2>10 DEF Step
  <1>7. CASE UNCHANGED vars
    BY <1>7, <1>0 DEF vars, AuthInv, AuthTypeOK
  <1> QED
    BY <1>1, <1>2, <1>3, <1>4, <1>5, <1>6, <1>7 DEF Next

\* What is known of the evidence holds in every reachable state.
THEOREM AuthInvariance == Spec => []AuthInv
PROOF
  BY InitAuthInv, AuthInductive, PTL DEF Spec

-----------------------------------------------------------------------------
(* What follows from it *)

\* apply_auth_observation: evidence that arrives late or more than once never
\* displaces newer evidence, whoever reports it.
THEOREM NewestEvidenceHolds == Spec => []NewestEvidenceStands
PROOF
  <1>1. AuthInv => NewestEvidenceStands
    BY DEF AuthInv, EvidenceOK, NewestEvidenceStands, Surface
  <1> QED
    BY <1>1, AuthInvariance, PTL

\* select_provider_auth_path: a human is asked only when the newest evidence of
\* every surface with evidence is a rejection, whatever the staleness limit.
THEOREM GateNeedsRejectionHolds == Spec => []GateNeedsRejection
PROOF
  <1>1. AuthInv => GateNeedsRejection
    <2> SUFFICES ASSUME AuthInv, NEW limit \in Limits,
                        Path(leases, clock, limit).disposition = "HUMAN_REAUTH_REQUIRED",
                        NEW s \in Surface
                 PROVE  newest[s].rejection = newest[s].any
      BY DEF GateNeedsRejection, Surface
    <2>1. leases[s] # None => leases[s].state = "HUMAN_REAUTH_REQUIRED"
      BY PathFacts DEF AuthInv
    <2>2. EvidenceOK(leases[s], newest[s])
      BY DEF AuthInv
    <2> QED
      BY <2>1, <2>2 DEF EvidenceOK
  <1> QED
    BY <1>1, AuthInvariance, PTL

-----------------------------------------------------------------------------
(* Work that is drained *)

\* A drainer that goes on to record work had it performed, and so had whoever
\* recorded the work that is drained.
DoneInv ==
    /\ \A d \in Drainers : drainer[d].pc = "done" => <<drainer[d].id, drainer[d].item>> \in done
    /\ DrainedWasDone

\* A step that only moves a drainer to a phase other than "done" keeps it.
LEMMA DoneKept ==
    ASSUME AuthInv, DoneInv, NEW d \in Drainers, NEW r, r.pc # "done", Becomes(d, r),
           queue' = queue, done' = done
    PROVE  DoneInv'
PROOF
  <1>1. drainer' = [drainer EXCEPT ![d] = r] /\ DOMAIN drainer = Drainers
    BY DEF Becomes, AuthInv, AuthTypeOK
  <1>2. \A e \in Drainers : drainer'[e] = IF e = d THEN r ELSE drainer[e]
    BY <1>1
  <1>3. \A e \in Drainers :
            drainer'[e].pc = "done" => <<drainer'[e].id, drainer'[e].item>> \in done
    BY <1>2 DEF DoneInv
  <1> QED
    BY <1>3 DEF DoneInv, DrainedWasDone

LEMMA DoneInductive ==
    ASSUME AuthInv, DoneInv, [Next]_vars
    PROVE  DoneInv'
PROOF
  <1>0. /\ DOMAIN drainer = Drainers
        /\ queue \in [Names(QueueIds) -> QueueRecords \union {None}]
    BY DEF AuthInv, AuthTypeOK
  <1>idle. Idle.pc # "done"
    BY DEF Idle
  <1>1. CASE UNCHANGED <<queue, drainer, done>>
    BY <1>1 DEF DoneInv, DrainedWasDone
  <1>2. CASE Tick \/ Expire \/ Report \/ Observe \/ UNCHANGED vars
    BY <1>2, <1>1 DEF Tick, Expire, Report, Observe, Store, vars
  <1>3. CASE Enqueue
    <2>1. PICK q \in Names(QueueIds), item \in Items : queue' = [queue EXCEPT ![q] = QueueRecord(item)]
      BY <1>3 DEF Enqueue
    <2>2. drainer' = drainer /\ done' = done
      BY <1>3 DEF Enqueue
    <2>3. ASSUME NEW p \in Names(QueueIds), queue'[p] # None, queue'[p].status = "drained"
          PROVE  <<p, queue'[p].item>> \in done
      <3>1. p # q
        BY <1>0, <2>1, <2>3 DEF QueueRecord
      <3>2. queue'[p] = queue[p]
        BY <1>0, <2>1, <3>1
      <3> QED
        BY <2>3, <3>2 DEF DoneInv, DrainedWasDone
    <2> QED
      BY <2>2, <2>3 DEF DoneInv, DrainedWasDone
  <1>4. ASSUME NEW d \in Drainers, NEW limit \in Limits, StartPlan(d, limit)
        PROVE  DoneInv'
    <2> DEFINE path == Path(leases, clock, limit)
               r == IF path.disposition = "USE_AUTH" THEN [pc |-> "read", path |-> path]
                    ELSE DrainPlan(path)
    <2>1. Becomes(d, r) /\ queue' = queue /\ done' = done
      BY <1>4 DEF StartPlan
    <2> HIDE DEF path
    <2>2. r.pc # "done"
      BY DEF DrainPlan
    <2> HIDE DEF r
    <2> QED
      BY <2>1, <2>2, DoneKept
  <1>5. ASSUME NEW d \in Drainers, Plan(d)
        PROVE  DoneInv'
    <2>1. DrainPlan(drainer[d].path).pc # "done"
      BY DEF DrainPlan
    <2> QED
      BY <1>5, <2>1, DoneKept DEF Plan
  <1>6. ASSUME NEW d \in Drainers, Handoff(d)
        PROVE  DoneInv'
    <2>1. PICK q \in Names(drainer[d].selected) :
              Becomes(d, IF IsQueued(q) THEN Handed(q, drainer[d].path.surface) ELSE Idle)
      BY <1>6 DEF Handoff
    <2>2. Handed(q, drainer[d].path.surface).pc # "done"
      BY DEF Handed
    <2>3. queue' = queue /\ done' = done
      BY <1>6 DEF Handoff
    <2>4. CASE IsQueued(q)
      BY <2>1, <2>2, <2>3, <2>4, DoneKept
    <2>5. CASE ~IsQueued(q)
      BY <2>1, <2>3, <2>5, <1>idle, DoneKept
    <2> QED
      BY <2>4, <2>5
  <1>7. ASSUME NEW d \in Drainers, NothingToDrain(d) \/ GiveUp(d) \/ Crash(d) \/ Record(d)
        PROVE  DoneInv'
    <2>1. Becomes(d, Idle) /\ queue' = queue /\ done' = done
      BY <1>7 DEF NothingToDrain, GiveUp, Crash, Record, Store
    <2> QED
      BY <2>1, <1>idle, DoneKept
  <1>8. ASSUME NEW d \in Drainers, Probe(d) \/ Login(d) \/ Refuse(d)
        PROVE  DoneInv'
    <2>1. \E o : Becomes(d, [pc |-> "observed", observation |-> o])
      BY <1>8 DEF Probe, Login, Refuse
    <2>2. PICK o : Becomes(d, [pc |-> "observed", observation |-> o])
      BY <2>1
    <2>3. queue' = queue /\ done' = done
      BY <1>8 DEF Probe, Login, Refuse
    <2>4. [pc |-> "observed", observation |-> o].pc # "done"
      OBVIOUS
    <2> QED
      BY <2>2, <2>3, <2>4, DoneKept
  <1>9. ASSUME NEW d \in Drainers, Perform(d)
        PROVE  DoneInv'
    <2> DEFINE r == [pc |-> "done", id |-> drainer[d].id, item |-> drainer[d].item]
               work == <<drainer[d].id, drainer[d].item>>
    <2>1. /\ done' = done \union {work} /\ queue' = queue
          /\ drainer' = [drainer EXCEPT ![d] = r]
      BY <1>9 DEF Perform, Becomes
    <2>2. <<r.id, r.item>> = work
      OBVIOUS
    <2> HIDE DEF r, work
    <2>3. \A e \in Drainers : drainer'[e] = IF e = d THEN r ELSE drainer[e]
      BY <1>0, <2>1
    <2>4. \A e \in Drainers :
              drainer'[e].pc = "done" => <<drainer'[e].id, drainer'[e].item>> \in done'
      BY <2>1, <2>2, <2>3 DEF DoneInv
    <2>5. DrainedWasDone'
      BY <2>1 DEF DoneInv, DrainedWasDone
    <2> QED
      BY <2>4, <2>5 DEF DoneInv
  <1>10. ASSUME NEW d \in Drainers, MarkDrained(d)
         PROVE  DoneInv'
    <2> DEFINE q == drainer[d].id
               item == drainer[d].item
    <2>1. /\ done' = done /\ drainer' = [drainer EXCEPT ![d] = Idle]
          /\ queue' = IF IsQueued(q) /\ queue[q].item = item
                      THEN [queue EXCEPT ![q].status = "drained"] ELSE queue
      BY <1>10 DEF MarkDrained, Becomes
    <2>2. <<q, item>> \in done
      BY <1>10 DEF MarkDrained, DoneInv
    <2> HIDE DEF q, item
    <2>3. \A e \in Drainers : drainer'[e] = IF e = d THEN Idle ELSE drainer[e]
      BY <1>0, <2>1
    <2>4. ASSUME NEW p \in Names(QueueIds), queue'[p] # None, queue'[p].status = "drained"
          PROVE  <<p, queue'[p].item>> \in done
      <3>1. CASE queue'[p] = queue[p]
        BY <2>4, <3>1 DEF DoneInv, DrainedWasDone
      <3>2. CASE queue'[p] # queue[p]
        <4>1. p = q /\ IsQueued(q) /\ queue[q].item = item
          BY <1>0, <2>1, <3>2
        <4>2. queue[q] \in QueueRecords
          BY <1>0, <4>1 DEF IsQueued
        <4>3. queue'[q].item = queue[q].item
          BY <1>0, <2>1, <4>1, <4>2 DEF QueueRecords
        <4> QED
          BY <2>2, <4>1, <4>3
      <3> QED
        BY <3>1, <3>2
    <2>5. \A e \in Drainers :
              drainer'[e].pc = "done" => <<drainer'[e].id, drainer'[e].item>> \in done
      BY <2>3, <1>idle DEF DoneInv
    <2> QED
      BY <2>1, <2>4, <2>5 DEF DoneInv, DrainedWasDone
  <1> QED
    BY <1>2, <1>3, <1>4, <1>5, <1>6, <1>7, <1>8, <1>9, <1>10 DEF Next, Step

\* prepare_provider_queue_handoff, mark_drained: an id is drained only once the
\* provider performed the exact item bound to it, whatever plans are stale,
\* drainers overlap or crash, and sessions end under the work.
THEOREM DrainedWasDoneHolds == Spec => []DrainedWasDone
PROOF
  <1>1. Init => DoneInv
    BY DEF Init, DoneInv, DrainedWasDone, Idle
  <1>2. DoneInv => DrainedWasDone
    BY DEF DoneInv
  <1> QED
    BY <1>1, <1>2, DoneInductive, AuthInvariance, PTL DEF Spec
=============================================================================
