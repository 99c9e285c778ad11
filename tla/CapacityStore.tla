---------------------------- MODULE CapacityStore ----------------------------
(***************************************************************************)
(* The durable capacity head of one runner (durable.py) and the            *)
(* controllers that share it.  A controller holds a capacity state in      *)
(* memory, extends it with the pure protocol of capacity.py, and publishes *)
(* the extension with the store's compare-and-swap.  Nothing but the CAS   *)
(* coordinates two controllers, and a controller may crash at any time.    *)
(***************************************************************************)
EXTENDS CapacityHead

CONSTANT Controllers

VARIABLES
    created,   \* whether the capacity_heads row of the runner exists
    mem        \* mem[c]: the capacity state controller c holds in memory

storeVars == <<head, authOf, created, mem>>

Init ==
    /\ HeadInit
    /\ created = FALSE
    /\ mem = [c \in Controllers |-> <<>>]

-----------------------------------------------------------------------------
(* The pure protocol, applied to the state a controller holds.             *)

Hold(c, log) ==
    /\ mem' = [mem EXCEPT ![c] = log]
    /\ UNCHANGED <<head, authOf, created>>

ReserveCapacity(c, i) ==
    \E k \in 0 .. MaxParallelism - 1 :
        LET t == [kind |-> "reserve", auth |-> authOf[i], slot |-> k]
        IN /\ Reserves(mem[c], i, t)
           /\ Hold(c, Append(mem[c], t))

ReleaseCapacityForOutcome(c, l, outcome) ==
    LET t == OutcomeRelease(mem[c], l, outcome)
    IN /\ ReleasesForOutcome(mem[c], l, outcome, t)
       /\ Hold(c, Append(mem[c], t))

ReleaseCapacityForRevocation(c, l) ==
    LET t == RevocationRelease(mem[c], l)
    IN /\ ReleasesForRevocation(mem[c], l, t)
       /\ Hold(c, Append(mem[c], t))

-----------------------------------------------------------------------------
(* The store.  Each operation is one transaction.                          *)

\* The state to start from is the caller's.  A second initialize changes
\* nothing: it returns the row when the states agree and fails otherwise.
Initialize(c) ==
    /\ ~created
    /\ Replays(mem[c])
    /\ created' = TRUE
    /\ head' = mem[c]
    /\ UNCHANGED <<authOf, mem>>

Load(c) ==
    /\ created
    /\ Hold(c, head)

\* Faulty variant: the last writer wins.
CommitBlindly(c) ==
    /\ created
    /\ Len(mem[c]) = Len(head) + 1
    /\ Replays(mem[c])
    /\ head' = mem[c]
    /\ UNCHANGED <<authOf, created, mem>>

\* The compare-and-swap; a candidate that lost the race changes nothing.
Commit(c) ==
    /\ created
    /\ Extends(head, mem[c])
    /\ Replays(mem[c])
    /\ head' = mem[c]
    /\ UNCHANGED <<authOf, created, mem>>

\* A restarted controller holds the genesis state until it loads the head.
Crash(c) == Hold(c, <<>>)

Next ==
    \/ Authorize /\ UNCHANGED <<created, mem>>
    \/ \E c \in Controllers :
        \/ \E i \in Invocations : ReserveCapacity(c, i)
        \/ \E l \in DOMAIN mem[c] :
            \/ \E outcome \in Outcome : ReleaseCapacityForOutcome(c, l, outcome)
            \/ ReleaseCapacityForRevocation(c, l)
        \/ Initialize(c)
        \/ Load(c)
        \/ Commit(c)
        \/ Crash(c)

Spec == Init /\ [][Next]_storeVars

-----------------------------------------------------------------------------
(* Properties *)

\* Type invariant: the head and every state held in memory are histories of
\* transitions, and an invocation id has at most one authorization.
TypeOK ==
    /\ created \in BOOLEAN
    /\ head \in Seq(CapacityTransition)
    /\ mem \in [Controllers -> Seq(CapacityTransition)]
    /\ authOf \in [Invocations -> Authorization \union {None}]

\* Every history the protocol itself produced, in memory or durable, passes the
\* replay that guards commit and every decision taken from a loaded state
\* (verify_capacity_state): a controller is never locked out by its own history.
HistoriesReplay ==
    /\ Replays(head)
    /\ \A c \in Controllers : Replays(mem[c])
=============================================================================
