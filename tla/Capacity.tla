------------------------------ MODULE Capacity ------------------------------
(***************************************************************************)
(* The capacity protocol of one runner (capacity.py): an append-only       *)
(* history of reserve and release transitions, and the rules that decide   *)
(* which transition may extend it.                                         *)
(*                                                                         *)
(* Every identity of the code is a digest of a whole value (canonical.py), *)
(* so two digests are equal exactly when the digested values are.  The     *)
(* model therefore compares values: a state digest is the history itself,  *)
(* and a lease, whose id covers the state it was reserved in, is named by  *)
(* its position in the history.                                            *)
(***************************************************************************)
EXTENDS Integers, FiniteSets, Sequences

CONSTANTS
    Sessions,         \* logical Sessions: a session id with its logical attempt
    Invocations,      \* invocation ids; a fresh uuid4 for each authorization
    MaxParallelism,   \* RunnerCapabilities.max_parallelism
    FailureStatuses,  \* the terminal statuses but "completed": rejected, timed_out,
                      \* cancelled, transport_failed; the code treats them alike
    None              \* the absent value

ASSUME ParallelismAssumption == MaxParallelism \in Nat \ {0}
ASSUME FailureAssumption == "completed" \notin FailureStatuses
ASSUME NoneAssumption == None \notin Invocations

\* Terminal transport statuses.
TransportStatuses == {"completed"} \union FailureStatuses

\* An admitted physical outcome, which its receipt and outcome digests cover.
Outcome == [inv: Invocations, status: TransportStatuses]

\* A physical authorization: prev is the predecessor's outcome, which gives both
\* previous_invocation_id and previous_receipt_digest.
Authorization == [session: Sessions, inv: Invocations,
                  attempt: Nat \ {0}, prev: Outcome \union {None}]

CapacityLease == [kind: {"reserve"}, auth: Authorization, slot: 0 .. MaxParallelism - 1]

\* A release names its lease by the lease's position in the history; only a
\* terminal release binds an outcome.
CapacityRelease ==
    [kind: {"release"}, lease: Nat \ {0}, cause: {"terminal_outcome"}, outcome: Outcome]
        \union
    [kind: {"release"}, lease: Nat \ {0}, cause: {"session_revoked"}, outcome: {None}]

CapacityTransition == CapacityLease \union CapacityRelease

-----------------------------------------------------------------------------
(* Reading a history. *)

Leases(log) == {i \in DOMAIN log : log[i].kind = "reserve"}

Releases(log) == {i \in DOMAIN log : log[i].kind = "release"}

ActiveLeases(log) ==
    {l \in Leases(log) : \A j \in Releases(log) : log[j].lease # l}

\* The lease that release j of the history gives back.
LeaseOf(log, j) == log[log[j].lease]

-----------------------------------------------------------------------------
(* Extending a history. *)

\* Faulty variant: any release of the attempt before will do, a revocation too.
PredecessorEnded(log, auth) ==
    \/ auth.attempt = 1
    \/ \E j \in Releases(log) :
        /\ LeaseOf(log, j).auth.session = auth.session
        /\ LeaseOf(log, j).auth.attempt = auth.attempt - 1

\* Faulty variant: the receipt is not compared.
PredecessorAttempt(log, auth) ==
    \/ auth.attempt = 1
    \/ \E j \in Releases(log) :
        /\ log[j].cause = "terminal_outcome"
        /\ LeaseOf(log, j).auth.session = auth.session
        /\ LeaseOf(log, j).auth.attempt = auth.attempt - 1
        /\ log[j].outcome.status # "completed"

\* A first attempt has no predecessor; a retry needs the canonical, not
\* completed, release that carries exactly its predecessor's receipt.
PredecessorReleased(log, auth) ==
    \/ /\ auth.attempt = 1
       /\ auth.prev = None
    \/ /\ auth.attempt # 1
       /\ \E j \in Releases(log) :
            /\ log[j].cause = "terminal_outcome"
            /\ LeaseOf(log, j).auth.session = auth.session
            /\ LeaseOf(log, j).auth.attempt = auth.attempt - 1
            /\ log[j].outcome = auth.prev
            /\ log[j].outcome.status # "completed"

\* Faulty variant: the occupied slots are not excluded.
AllSlots(log) == 0 .. MaxParallelism - 1

FreeSlots(log) ==
    (0 .. MaxParallelism - 1) \ {log[l].slot : l \in ActiveLeases(log)}

\* Faulty variant: a Session may hold two leases.
AdmitsBusySession(log, auth) ==
    /\ Cardinality(ActiveLeases(log)) < MaxParallelism
    /\ \A l \in Leases(log) : log[l].auth # auth
    /\ PredecessorReleased(log, auth)

\* Faulty variant: an authorization is used again once its lease is released.
AdmitsAgain(log, auth) ==
    /\ Cardinality(ActiveLeases(log)) < MaxParallelism
    /\ \A l \in ActiveLeases(log) : log[l].auth.session # auth.session
    /\ PredecessorReleased(log, auth)

Admits(log, auth) ==
    /\ Cardinality(ActiveLeases(log)) < MaxParallelism
    /\ \A l \in Leases(log) : log[l].auth # auth
    /\ \A l \in ActiveLeases(log) : log[l].auth.session # auth.session
    /\ PredecessorReleased(log, auth)

\* Faulty variant: a retry is proposed before its predecessor is released.
EarlyReservation(log, auth, t) ==
    /\ t.kind = "reserve"
    /\ FreeSlots(log) # {}
    /\ \A l \in Leases(log) : log[l].auth # auth
    /\ t.slot \in FreeSlots(log)
    /\ t = [kind |-> "reserve", auth |-> auth, slot |-> t.slot]

\* propose_capacity_reservation: t takes the lowest free slot.
Reservation(log, auth, t) ==
    /\ t.kind = "reserve"
    /\ Admits(log, auth)
    /\ t.slot \in FreeSlots(log)
    /\ \A k \in FreeSlots(log) : t.slot <= k
    /\ t = [kind |-> "reserve", auth |-> auth, slot |-> t.slot]

OutcomeRelease(log, l, outcome) ==
    [kind |-> "release", lease |-> l, cause |-> "terminal_outcome", outcome |-> outcome]

\* The outcome must belong to the active lease it releases.
ReleasesOutcome(log, l, outcome) ==
    /\ l \in ActiveLeases(log)
    /\ log[l].auth.inv = outcome.inv

RevocationRelease(log, l) ==
    [kind |-> "release", lease |-> l, cause |-> "session_revoked", outcome |-> None]

\* _apply_transition_unchecked: the conditions under which t extends log.
Applies(log, t) ==
    \/ /\ t.kind = "reserve"
       /\ t.slot \in FreeSlots(log)
       /\ Admits(log, t.auth)
    \/ /\ t.kind = "release"
       /\ t.lease \in ActiveLeases(log)

\* verify_capacity_state: the history replays from the runner's genesis.
Replays(log) ==
    \A i \in DOMAIN log : Applies(SubSeq(log, 1, i - 1), log[i])

-----------------------------------------------------------------------------
(* What a canonical history promises. *)

\* At most max_parallelism leases are active, no two of them in one slot and no
\* two for one Session.
OccupancyIn(log) ==
    /\ Cardinality(ActiveLeases(log)) <= MaxParallelism
    /\ \A l, m \in ActiveLeases(log) :
        l # m => /\ log[l].slot # log[m].slot
                 /\ log[l].auth.session # log[m].auth.session

\* Two leases of one slot, or of one Session, are serial: the earlier one is
\* released before the later one is reserved.
SerialIn(log) ==
    \A l, m \in Leases(log) :
        (l < m /\ (log[l].slot = log[m].slot \/ log[l].auth.session = log[m].auth.session))
            => \E j \in Releases(log) : l < j /\ j < m /\ log[j].lease = l

\* A lease is released at most once, after it was reserved, and a terminal
\* release carries the outcome of the lease's own invocation.
ReleasedOnceIn(log) ==
    \A j \in Releases(log) :
        /\ log[j].lease \in Leases(log)
        /\ log[j].lease < j
        /\ \A k \in Releases(log) : log[k].lease = log[j].lease => k = j
        /\ log[j].cause = "terminal_outcome" =>
                log[j].outcome.inv = LeaseOf(log, j).auth.inv

\* Release j of the history ended attempt n of Session s with a failure.
FailedAttempt(log, j, s, n) ==
    /\ j \in Releases(log)
    /\ log[j].cause = "terminal_outcome"
    /\ log[j].outcome.status \in FailureStatuses
    /\ LeaseOf(log, j).auth.session = s
    /\ LeaseOf(log, j).auth.attempt = n

\* Before attempt n of a Session was reserved, every earlier attempt was
\* reserved and released with a failure.
RetryChainIn(log) ==
    \A m \in Leases(log) : \A n \in 1 .. log[m].auth.attempt - 1 :
        \E j \in 1 .. m - 1 : FailedAttempt(log, j, log[m].auth.session, n)
=============================================================================
