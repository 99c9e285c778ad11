---------------------------- MODULE CapacityHead ----------------------------
(***************************************************************************)
(* What the durable capacity head promises its users: one canonical        *)
(* history per runner, extended atomically, one legal transition at a      *)
(* time.  CapacityStore shows that controllers which work on copies and    *)
(* publish them by compare-and-swap (durable.py) implement it; Dispatch is *)
(* built on it.                                                            *)
(***************************************************************************)
EXTENDS Capacity

VARIABLES
    head,      \* the canonical history
    authOf     \* authOf[i]: the authorization issued with invocation id i

headVars == <<head, authOf>>

HeadInit ==
    /\ head = <<>>
    /\ authOf = [i \in Invocations |-> None]

Issued == {i \in Invocations : authOf[i] # None}

-----------------------------------------------------------------------------
(* Issuing authorizations (physical.py).  They are plain values: any       *)
(* controller may come to hold any of them.  Every authorization has an    *)
(* invocation id of its own, as the default uuid4 gives it; a caller who   *)
(* passes an id it used before is outside the model.                       *)

AuthorizePhysicalAttempt(i, s) ==
    /\ authOf[i] = None
    /\ authOf' = [authOf EXCEPT ![i] =
                    [session |-> s, inv |-> i, attempt |-> 1, prev |-> None]]
    /\ UNCHANGED head

\* A retry names the admitted, not completed outcome it retries.  Nothing here
\* says that this outcome is the canonical one: the reservation checks that.
AuthorizeRetry(i, prior) ==
    /\ authOf[i] = None
    /\ prior.inv \in Issued
    /\ prior.status # "completed"
    /\ authOf' = [authOf EXCEPT ![i] =
                    [session |-> authOf[prior.inv].session, inv |-> i,
                     attempt |-> authOf[prior.inv].attempt + 1, prev |-> prior]]
    /\ UNCHANGED head

Authorize ==
    \E i \in Invocations :
        \/ \E s \in Sessions : AuthorizePhysicalAttempt(i, s)
        \/ \E prior \in Outcome : AuthorizeRetry(i, prior)

-----------------------------------------------------------------------------
(* Transitions of a history.  log is any capacity state, durable or not.   *)

\* reserve_capacity
Reserves(log, i, t) ==
    /\ i \in Issued
    /\ Reservation(log, authOf[i], t)

\* release_capacity_for_outcome: any admitted outcome of the lease's invocation.
ReleasesForOutcome(log, l, outcome, t) ==
    /\ ReleasesOutcome(log, l, outcome)
    /\ t = OutcomeRelease(log, l, outcome)

\* release_capacity_for_revocation: any holder of the Session value can revoke
\* it, so the revocation needs no state of its own.
ReleasesForRevocation(log, l, t) ==
    /\ l \in ActiveLeases(log)
    /\ t = RevocationRelease(log, l)

\* The transitions the protocol can propose for log.
Legal(log, t) ==
    \/ \E i \in Invocations : Reserves(log, i, t)
    \/ \E l \in DOMAIN log :
        \/ \E outcome \in Outcome : ReleasesForOutcome(log, l, outcome, t)
        \/ ReleasesForRevocation(log, l, t)

\* The history is one the protocol can have built.
Derived(log) ==
    \A k \in DOMAIN log : Legal(SubSeq(log, 1, k - 1), log[k])

-----------------------------------------------------------------------------
(* The head *)

\* initialize: the runner's row starts with a history built in memory.
Adopt ==
    /\ head = <<>>
    /\ Derived(head')
    /\ UNCHANGED authOf

\* candidate is the history log with one more transition.
Extends(log, candidate) ==
    /\ Len(candidate) = Len(log) + 1
    /\ SubSeq(candidate, 1, Len(candidate) - 1) = log

\* commit: the head advances by one legal transition.
Advance ==
    /\ Extends(head, head')
    /\ Legal(head, head'[Len(head')])
    /\ UNCHANGED authOf

HeadNext == Authorize \/ Adopt \/ Advance

HeadSpec == HeadInit /\ [][HeadNext]_headVars

-----------------------------------------------------------------------------
(* Properties.  Each is about the durable head, whichever controllers      *)
(* wrote it.                                                               *)

\* The durable head never grants more leases at a time than the runner's
\* max_parallelism, no two of them share a slot, and no two belong to one
\* Session (the admission rules of propose_capacity_reservation, kept across
\* controllers by the compare-and-swap of commit).
CanonicalOccupancy == OccupancyIn(head)

\* The canonical history is serial for every slot and every Session: of two
\* leases of one slot or one Session the earlier was released before the later
\* was reserved (propose_capacity_reservation with commit).
LeasesAreSerial == SerialIn(head)

\* No lease is released twice, and a terminal release carries the outcome of
\* its own invocation, although two controllers may hold the same lease and
\* both decide to release it (_find_active_lease with commit).
ReleasedOnce == ReleasedOnceIn(head)

\* An invocation is leased once, although its authorization stays valid: a
\* controller that crashed after its commit, lost the race for it or works on an
\* older copy may reserve it again, also after its lease was released
\* (propose_capacity_reservation with commit).
LeasedOnce ==
    \A l, m \in Leases(head) : head[l].auth.inv = head[m].auth.inv => l = m

\* The attempts of a Session form a chain back to its first: every attempt
\* before a retry was reserved and released with a failure
\* (_predecessor_released applied attempt after attempt).
RetryChain == RetryChainIn(head)
=============================================================================
