---------------------------- MODULE ProviderAuth ----------------------------
(***************************************************************************)
(* Provider auth leases and the provider queue (persistent_auth_lease.py), *)
(* for one provider: evidence about its sessions arrives late, out of      *)
(* order and more than once, while drainers that share the SQLite file     *)
(* plan, hand off and drain queued work, and may crash.  A session may end *)
(* at any time, so the provider may refuse the work a plan handed off.     *)
(***************************************************************************)
EXTENDS Naturals, Sequences, FiniteSets

CONSTANTS
    Surfaces,      \* auth surfaces, best first (ranked_surface)
    QueueIds,      \* queue ids in the order of (priority, queue_id)
    Items,         \* work items a queue id may be bound to
    Drainers,      \* processes that drain the queue
    Limits,        \* values of evidence_stale_after_seconds; None is its default
    MaxItems,      \* max_items of a drain
    MaxTime,       \* bound: the clock
    MaxFaults,     \* bound: expiries, unsolicited observations and crashes, together
    MaxCopies,     \* bound: how often an observation is delivered
    None           \* an absent value

ASSUME SurfaceAssumption == Surfaces \in Seq(STRING) /\ QueueIds \in Seq(STRING)
ASSUME LimitAssumption == None \in Limits /\ \A l \in Limits \ {None} : l \in Nat
ASSUME BoundAssumption ==
    MaxItems \in Nat \ {0} /\ MaxTime \in Nat /\ MaxFaults \in Nat /\ MaxCopies \in Nat \ {0}
ASSUME NoneAssumption ==
    /\ None \notin Nat
    /\ None \notin [state: {"AUTH_AVAILABLE", "AUTH_SUSPECT", "HUMAN_REAUTH_REQUIRED"}, at: Nat]
    /\ None \notin [item: Items, status: {"queued", "drained"}]

Names(list) == {list[i] : i \in DOMAIN list}

VARIABLES
    clock,
    session,   \* what the provider would answer, by surface
    sent,      \* unsolicited observations on their way, with the copies to come
    leases,    \* provider_auth_leases, by surface
    queue,     \* provider_auth_queue, by queue id
    drainer,   \* what each drainer is doing
    done,      \* history: the work the provider performed, by queue id and item
    newest,    \* history: by surface, the times of the latest observation and of
               \* the latest rejection the store was given
    faults     \* number of faults so far

vars == <<clock, session, sent, leases, queue, drainer, done, newest, faults>>

\* A challenge has the effect of a rejection and is not told apart from it.
Outcomes == {"AUTH_SUCCESS", "AUTH_UNCERTAIN", "AUTH_REJECTED"}

Observation(surface, outcome) == [surface |-> surface, outcome |-> outcome, at |-> clock]

Idle == [pc |-> "idle"]

Init ==
    /\ clock = 0
    /\ session = [s \in Names(Surfaces) |-> "ended"]
    /\ sent = {}
    /\ leases = [s \in Names(Surfaces) |-> None]
    /\ queue = [q \in Names(QueueIds) |-> None]
    /\ drainer = [d \in Drainers |-> Idle]
    /\ done = {}
    /\ newest = [s \in Names(Surfaces) |-> [any |-> None, rejection |-> None]]
    /\ faults = 0

Becomes(d, record) == drainer' = [drainer EXCEPT ![d] = record]
Fault == faults < MaxFaults /\ faults' = faults + 1

-----------------------------------------------------------------------------
(* The provider and its observers *)

Tick ==
    /\ clock < MaxTime
    /\ clock' = clock + 1
    /\ UNCHANGED <<session, sent, leases, queue, drainer, done, newest, faults>>

Expire ==
    /\ Fault
    /\ \E s \in Names(Surfaces) :
        session[s] = "accepted" /\ session' = [session EXCEPT ![s] = "ended"]
    /\ UNCHANGED <<clock, sent, leases, queue, drainer, done, newest>>

\* What a probe of a surface may show.
Answer(s) == IF session[s] = "accepted" THEN "AUTH_SUCCESS" ELSE "AUTH_REJECTED"

\* Someone used a surface and reports what became of it, perhaps much later,
\* more than once or never.
Report ==
    /\ Fault
    /\ \E s \in Names(Surfaces) : \E outcome \in {Answer(s), "AUTH_UNCERTAIN"} :
        sent' = sent \union {<<Observation(s, outcome), MaxCopies>>}
    /\ UNCHANGED <<clock, session, leases, queue, drainer, done, newest>>

-----------------------------------------------------------------------------
(* Leases *)

\* _state_for_outcome
StateFor(outcome) ==
    CASE outcome = "AUTH_SUCCESS" -> "AUTH_AVAILABLE"
      [] outcome = "AUTH_UNCERTAIN" -> "AUTH_SUSPECT"
      [] OTHER -> "HUMAN_REAUTH_REQUIRED"

\* Faulty variant: evidence counts as it arrives.
AcceptsLate(lease, o) == TRUE

\* initialize_auth_lease, or apply_auth_observation, which does not go back in time
Accepts(lease, o) == lease = None \/ o.at >= lease.at

Later(t, u) == IF t # None /\ t > u THEN t ELSE u

\* ProviderAuthLease
Lease(o) == [state |-> StateFor(o.outcome), at |-> o.at]

\* observe: one transaction; refused evidence leaves the lease alone.
Store(o) ==
    /\ leases' = IF Accepts(leases[o.surface], o)
                 THEN [leases EXCEPT ![o.surface] = Lease(o)]
                 ELSE leases
    /\ newest' = [newest EXCEPT ![o.surface] =
                    [any |-> Later(@.any, o.at),
                     rejection |-> IF o.outcome = "AUTH_REJECTED"
                                   THEN Later(@.rejection, o.at) ELSE @.rejection]]
    /\ UNCHANGED <<clock, session, queue, done>>

\* A copy arrives; the others are still to come.
Observe ==
    /\ \E c \in sent :
        /\ Store(c[1])
        /\ sent' = (sent \ {c}) \union {<<c[1], n>> : n \in {c[2] - 1} \ {0}}
    /\ UNCHANGED <<drainer, faults>>

-----------------------------------------------------------------------------
(* Which auth path to take *)

\* Faulty variant: old evidence counts as a rejection.
EffectiveExpired(lease, now, limit) ==
    IF lease.state = "AUTH_AVAILABLE" /\ limit # None /\ now - lease.at >= limit
    THEN "HUMAN_REAUTH_REQUIRED" ELSE lease.state

\* effective_auth_state, for a clock that is not behind the observation's
Effective(lease, now, limit) ==
    IF lease.state = "AUTH_AVAILABLE" /\ limit # None /\ now - lease.at >= limit
    THEN "AUTH_SUSPECT" ELSE lease.state

Best(surfaces) ==
    Surfaces[CHOOSE i \in DOMAIN Surfaces :
        /\ Surfaces[i] \in surfaces
        /\ \A j \in DOMAIN Surfaces : Surfaces[j] \in surfaces => i <= j]

\* ProviderAuthPathDecision: only a usable or suspect surface is named.
Decision(disposition, surface) == [disposition |-> disposition, surface |-> surface]

\* select_provider_auth_path.  A lease has one of three states, so its last
\* resort, CONDITION_WAIT, is never reached.
Path(read, now, limit) ==
    LET in(state) == {s \in DOMAIN read : read[s] # None /\ Effective(read[s], now, limit) = state}
    IN IF in("AUTH_AVAILABLE") # {}
       THEN Decision("USE_AUTH", Best(in("AUTH_AVAILABLE")))
       ELSE IF in("AUTH_SUSPECT") # {}
       THEN Decision("PROBE_AUTH", Best(in("AUTH_SUSPECT")))
       ELSE Decision("HUMAN_REAUTH_REQUIRED", None)

-----------------------------------------------------------------------------
(* The queue *)

\* ProviderAuthQueueItem in its ProviderAuthQueueRecord
QueueRecord(item) == [item |-> item, status |-> "queued"]

\* enqueue: the same item again is returned as it is, another one is refused.
Enqueue ==
    /\ \E q \in Names(QueueIds), item \in Items :
        /\ queue[q] = None
        /\ queue' = [queue EXCEPT ![q] = QueueRecord(item)]
    /\ UNCHANGED <<clock, session, sent, leases, drainer, done, newest, faults>>

\* Faulty variant: drained work is listed as well.
Listed == SelectSeq(QueueIds, LAMBDA q : queue[q] # None)

\* queued
IsQueued(q) == queue[q] # None /\ queue[q].status = "queued"
Queued == SelectSeq(QueueIds, IsQueued)

\* plan_provider_drain: at most max_items, and only with accepted auth.
Selected(path) ==
    IF path.disposition = "USE_AUTH"
    THEN SubSeq(Queued, 1, IF Len(Queued) < MaxItems THEN Len(Queued) ELSE MaxItems)
    ELSE <<>>

\* ProviderDrainPlan, which binds the decision and its surface
DrainPlan(path) == [pc |-> "planned", path |-> path, selected |-> Selected(path)]

\* plan_drain reads the leases, on which the auth path depends alone ...
StartPlan(d, limit) ==
    LET path == Path(leases, clock, limit) IN
    /\ drainer[d] = Idle
    /\ Becomes(d, IF path.disposition = "USE_AUTH" THEN [pc |-> "read", path |-> path]
                  ELSE DrainPlan(path))
    /\ UNCHANGED <<clock, session, sent, leases, queue, done, newest, faults>>

\* ... and then the queue, from which only accepted auth selects anything.
Plan(d) ==
    /\ drainer[d].pc = "read"
    /\ Becomes(d, DrainPlan(drainer[d].path))
    /\ UNCHANGED <<clock, session, sent, leases, queue, done, newest, faults>>

Planned(d, disposition) ==
    drainer[d].pc = "planned" /\ drainer[d].path.disposition = disposition

\* ProviderAuthQueueHandoff: the decision, and the exact item it is for
Handed(q, surface) == [pc |-> "handed", id |-> q, item |-> queue[q].item, surface |-> surface]

\* prepare_provider_queue_handoff over the queue as it is now; neither the
\* leases nor the clock are looked at again.
Handoff(d) ==
    /\ Planned(d, "USE_AUTH")
    /\ \E q \in Names(drainer[d].selected) :
        Becomes(d, IF IsQueued(q) THEN Handed(q, drainer[d].path.surface) ELSE Idle)
    /\ UNCHANGED <<clock, session, sent, leases, queue, done, newest, faults>>

NothingToDrain(d) ==
    /\ Planned(d, "USE_AUTH")
    /\ drainer[d].selected = <<>>
    /\ Becomes(d, Idle)
    /\ UNCHANGED <<clock, session, sent, leases, queue, done, newest, faults>>

\* A suspect surface is probed before anyone is asked.
Probe(d) ==
    /\ Planned(d, "PROBE_AUTH")
    /\ LET s == drainer[d].path.surface IN
        Becomes(d, [pc |-> "observed", observation |-> Observation(s, Answer(s))])
    /\ UNCHANGED <<clock, session, sent, leases, queue, done, newest, faults>>

\* The human gate: someone authenticates on one surface.
Login(d) ==
    /\ Planned(d, "HUMAN_REAUTH_REQUIRED")
    /\ \E s \in Names(Surfaces) :
        /\ session' = [session EXCEPT ![s] = "accepted"]
        /\ Becomes(d, [pc |-> "observed", observation |-> Observation(s, "AUTH_SUCCESS")])
    /\ UNCHANGED <<clock, sent, leases, queue, done, newest, faults>>

Record(d) ==
    /\ drainer[d].pc = "observed"
    /\ Store(drainer[d].observation)
    /\ Becomes(d, Idle)
    /\ UNCHANGED <<sent, faults>>

\* The provider performs the work, if it still accepts the session the plan
\* rests on.
Perform(d) ==
    /\ drainer[d].pc = "handed"
    /\ session[drainer[d].surface] = "accepted"
    /\ done' = done \union {<<drainer[d].id, drainer[d].item>>}
    /\ Becomes(d, [pc |-> "done", id |-> drainer[d].id, item |-> drainer[d].item])
    /\ UNCHANGED <<clock, session, sent, leases, queue, newest, faults>>

\* A session that ended since the evidence for it is refused, clearly or not.
Refuse(d) ==
    /\ drainer[d].pc = "handed"
    /\ session[drainer[d].surface] = "ended"
    /\ \E outcome \in {"AUTH_REJECTED", "AUTH_UNCERTAIN"} :
        Becomes(d, [pc |-> "observed", observation |-> Observation(drainer[d].surface, outcome)])
    /\ UNCHANGED <<clock, session, sent, leases, queue, done, newest, faults>>

\* The work was refused or failed, and nobody reports it: no drain is recorded.
GiveUp(d) ==
    /\ drainer[d].pc = "handed"
    /\ Becomes(d, Idle)
    /\ UNCHANGED <<clock, session, sent, leases, queue, done, newest, faults>>

\* Faulty variant: the first of the queue is taken to be the work that was done.
DrainFirst(d) ==
    /\ drainer[d].pc = "done"
    /\ queue' = IF Queued # <<>>
                THEN [queue EXCEPT ![Head(Queued)].status = "drained"]
                ELSE queue
    /\ Becomes(d, Idle)
    /\ UNCHANGED <<clock, session, sent, leases, done, newest, faults>>

\* mark_drained records the work as done, for the exact item handed off; what
\* was drained before is returned as it is.
MarkDrained(d) ==
    LET q == drainer[d].id IN
    /\ drainer[d].pc = "done"
    /\ queue' = IF IsQueued(q) /\ queue[q].item = drainer[d].item
                THEN [queue EXCEPT ![q].status = "drained"]
                ELSE queue
    /\ Becomes(d, Idle)
    /\ UNCHANGED <<clock, session, sent, leases, done, newest, faults>>

Crash(d) ==
    /\ drainer[d] # Idle
    /\ Fault
    /\ Becomes(d, Idle)
    /\ UNCHANGED <<clock, session, sent, leases, queue, done, newest>>

-----------------------------------------------------------------------------

Step(d) ==
    \/ Plan(d) \/ Handoff(d) \/ NothingToDrain(d)
    \/ Probe(d) \/ Login(d) \/ Record(d)
    \/ Perform(d) \/ Refuse(d) \/ GiveUp(d) \/ MarkDrained(d)

Next ==
    \/ Tick \/ Expire \/ Report \/ Observe \/ Enqueue
    \/ \E d \in Drainers : Step(d) \/ Crash(d) \/ \E limit \in Limits : StartPlan(d, limit)

\* One drainer keeps calling with the default limit, and whoever it asks to probe
\* or to authenticate does so.  Of the attempts it makes again and again, some are
\* answered: the work is done, or its refusal is reported.  Nothing is assumed of
\* the other drainers and of unsolicited reports.
Persistent == CHOOSE d \in Drainers : TRUE

Spec ==
    /\ Init /\ [][Next]_vars
    /\ WF_vars(Step(Persistent)) /\ SF_vars(StartPlan(Persistent, None))
    /\ SF_vars(Perform(Persistent) \/ Refuse(Persistent))

-----------------------------------------------------------------------------
(* Properties *)

\* Evidence that arrives late or twice never displaces newer evidence: a lease
\* rests on an observation no other is newer than (apply_auth_observation).
NewestEvidenceStands ==
    \A s \in Names(Surfaces) : newest[s].any # None => leases[s].at = newest[s].any

\* A human is asked only when the newest evidence of every surface there is
\* evidence for is a rejection: neither age nor an unclear answer is enough, and
\* no rejection outlives a later success (select_provider_auth_path).
GateNeedsRejection ==
    \A limit \in Limits :
        Path(leases, clock, limit).disposition = "HUMAN_REAUTH_REQUIRED" =>
            \A s \in Names(Surfaces) : newest[s].rejection = newest[s].any

\* No work is lost: whatever plans are stale, drainers overlap or crash and
\* sessions end under the work, an id is drained only once the provider performed
\* the exact item bound to it (prepare_provider_queue_handoff, mark_drained).
DrainedWasDone ==
    \A q \in Names(QueueIds) :
        queue[q] # None /\ queue[q].status = "drained" =>
            <<q, queue[q].item>> \in done

\* In the end no work is left in the queue: sessions that end under a plan,
\* refusals of its work, late rejections, crashes and the work before it only
\* delay it (plan_drain, prepare_provider_queue_handoff, mark_drained).
QueuedWorkDrains == <>[](\A q \in Names(QueueIds) : ~IsQueued(q))
=============================================================================
