-------------------------- MODULE PortfolioRuntime --------------------------
(***************************************************************************)
(* The durable portfolio and the hosts that advance it                     *)
(* (portfolio_persistence.py, resume_tick.py, external_trigger.py,         *)
(* persistent_runtime.py, persistent_burst_host.py, provider_host.py,      *)
(* workstream_result_handoff.py, verification_escalation.py,               *)
(* human_gate_decision.py, human_authority.py).                            *)
(* Hosts share one SQLite file.  Every transaction and every recovery read *)
(* is one step; between two of them any other host may run, and a host may *)
(* crash and have its call repeated.                                       *)
(***************************************************************************)
EXTENDS Portfolio

CONSTANTS
    Hosts,       \* processes that run ticks, events and bursts
    Genesis,     \* generation-zero states a bootstrap may bring
    Bundles,     \* bound: evidence an observer may attach
    MaxEvents,   \* bound: observations made
    MaxDecisions, \* bound: decisions of a human made
    MaxBurst,    \* bound: events of a burst manifest
    MaxCrashes   \* bound: crashes

ASSUME GenesisAssumption ==
    /\ Genesis \subseteq States
    /\ \A g \in Genesis : WellFormed(g) /\ g.generation = 0
    /\ None \notin Genesis

ASSUME AbsentAssumption ==
    /\ None \notin States /\ None \notin Ticks /\ None \notin Checkpoints
    /\ None \notin {"committed", "already_applied"}

ASSUME BoundsAssumption ==
    /\ Bundles \subseteq SUBSET EvidenceKinds
    /\ MaxEvents \in Nat /\ MaxDecisions \in Nat /\ MaxBurst \in Nat /\ MaxCrashes \in Nat

VARIABLES
    head,         \* portfolio_heads: the state of the one row, or None
    checkpoints,  \* portfolio_checkpoints, by generation
    bindings,     \* external_trigger_bindings: the tick an identity is bound to
    events,       \* observations and decisions made; each may be delivered any
                  \* number of times
    requests,     \* generations a verification was asked for
    host,         \* what each host is doing
    crashes

store == <<head, checkpoints, bindings>>
made == <<events, requests>>
vars == <<store, made, host, crashes>>

\* States of the Active work in which a burst goes on.
Continuable == {"ready", "running", "verifying", "rework"}

Statuses == {"committed", "already_applied", "stale_observation"}

\* read: the state a tick was recovered with; next: the transition it computed;
\* post: the state after the last event of a burst; rest: its events to come.
Idle == [pc |-> "idle", job |-> "none", tick |-> None, rest |-> <<>>, read |-> None,
         next |-> None, post |-> None, status |-> None]

Init ==
    /\ head = None
    /\ checkpoints = <<>>
    /\ bindings = [k \in Identities |-> None]
    /\ events = <<>>
    /\ requests = {}
    /\ host = [h \in Hosts |-> Idle]
    /\ crashes = 0

-----------------------------------------------------------------------------
(* Recovery.  A call that raises, and one that returns with nothing to     *)
(* report, leave the host idle.                                            *)

Latest == IF head.generation = 0 THEN None ELSE checkpoints[head.generation]

\* load_recovery_snapshot and verify_portfolio_recovery: the head and the
\* checkpoint of its generation, from one snapshot; anything else raises.
Recovers ==
    /\ head # None
    /\ IF head.generation = 0
       THEN checkpoints = <<>>
       ELSE /\ head.generation \in DOMAIN checkpoints
            /\ Latest.generation = head.generation
            /\ Latest.state = Digest(head)

Goto(h, place) == [host[h] EXCEPT !.pc = place]

\* What a tick returns
Result(h, status) ==
    [host[h] EXCEPT !.pc = "after", !.status = status, !.read = None, !.next = None]

Becomes(h, record) == host' = [host EXCEPT ![h] = record]
AtRead(h, record) == Becomes(h, IF Recovers THEN record ELSE Idle)

-----------------------------------------------------------------------------
(* Observations *)

\* States an author may bind to: the head, or one an observation would lead to.
Foreseen ==
    {head} \union UNION {{x.state : x \in Advances(head, Latest, events[i])} : i \in DOMAIN events}

\* The grants there are: an operator has them for the rules that ask for one.
Grants == {r \in Policy : r.mode = "preauthorized_required"} \union {None}

\* The wakes to attach: one admitted now where the rule rotates, or none.
Wakings(s, r, evidence) ==
    {None} \union
    UNION {AdmitPassiveWake(s, w, evidence, g) :
              w \in {v \in Works : r.effect \in {"promote_secondary", "park_active"}}, g \in Grants}

\* There is a portfolio, and the bounds leave room for one more.
MayObserve ==
    head # None /\ Cardinality({i \in DOMAIN events : ~ IsDecision(events[i])}) < MaxEvents
MayDecide ==
    head # None /\ Cardinality({i \in DOMAIN events : IsDecision(events[i])}) < MaxDecisions

Offer(t) ==
    /\ \A i \in DOMAIN events : events[i] # t
    /\ events' = Append(events, t)
    /\ UNCHANGED <<store, requests, host, crashes>>

\* ProviderWatchContract: no rule of its own policy asks for a grant.
ProviderRules == {r \in Policy : r.mode # "preauthorized_required"}

\* build_provider_runtime_event: one piece of evidence the matched rule asks
\* for, bound to the current state; its event id is a digest of all that.
ProviderEvent(k, r, kind) ==
    /\ r.from = head.active.state
    /\ \A i \in DOMAIN events : events[i].trigger # k
    /\ Offer([trigger |-> k, expected |-> Digest(head), event |-> r.event,
              evidence |-> {kind}, wake |-> None, grant |-> None])

ObserveProvider ==
    /\ MayObserve
    /\ \E k \in Identities : \E r \in ProviderRules : \E kind \in r.evidence :
        ProviderEvent(k, r, kind)

\* _validate_transition_class: where a result of this class may lead
ClassFits(class, r) ==
    CASE class = "HUMAN_GATE" -> r.to = "human_gate" /\ r.mode = "human_required"
      [] class = "DI_REQUIRED" -> r.to = "di_required"
      [] class = "FAILED" -> r.to = "failed"
      [] class = "WAIT" -> r.to = "waiting_external"
      [] class = "DONE" -> r.to = "complete"
      [] class = "NEXT_FRONTIER_DISPATCHED" -> r.to \in Continuable \union {"passive"}

\* reconcile_workstream_result: the result of a workstream, declared for one
\* class, becomes a provider event for the state as it is now.
ObserveResult(class, needed) ==
    /\ MayObserve
    /\ \E k \in Identities : \E r \in ProviderRules : \E kind \in r.evidence :
        /\ ClassFits(class, r)
        /\ needed = "existing" => /\ head.active.authority # None
                                  /\ head.active.boundary # None
                                  /\ r.mode = "none"
        /\ ProviderEvent(k, r, kind)

\* An event authored outside, for the head or for a state it will lead to.
\* Nothing keeps an author from using an identity again.
ObserveExternal ==
    /\ MayObserve
    /\ \E k \in Identities : \E s \in Foreseen : \E r \in Policy : \E evidence \in Bundles :
        /\ r.from = s.active.state
        /\ \E wake \in Wakings(s, r, evidence) :
            Offer([trigger |-> k, expected |-> Digest(s), event |-> r.event,
                   evidence |-> evidence, wake |-> wake, grant |-> None])

\* An observation an operator hands to resume_tick, with a grant for this rule or
\* for another, or without one.
ObserveOperator ==
    /\ MayObserve
    /\ \E r \in Policy : \E evidence \in Bundles : \E grant \in Grants :
        /\ r.from = head.active.state
        /\ \E wake \in Wakings(head, r, evidence) :
            Offer([trigger |-> None, expected |-> Digest(head), event |-> r.event,
                   evidence |-> evidence, wake |-> wake, grant |-> grant])

\* admit_human_authority: an operator's observation gets its grant from the trusted
\* actor, for the gate a rule stopped at and a rule of the same boundary;
\* consume_human_authority hands it to resume_tick.
AdmitHumanAuthority ==
    /\ MayObserve
    /\ Recovers
    /\ head.active.state = "human_gate"
    /\ Latest # None /\ Latest.stop # None
    /\ \E r \in Policy : \E evidence \in Bundles :
        /\ r.from = "human_gate"
        /\ r.mode = "preauthorized_required"
        /\ r.boundary = head.active.boundary
        /\ \E wake \in Wakings(head, r, evidence) :
            Offer([trigger |-> None, expected |-> Digest(head), event |-> r.event,
                   evidence |-> evidence, wake |-> wake, grant |-> r])

\* prepare_independent_verification, for a tick that was reported committed
PrepareVerification(h) ==
    /\ host[h].job = "direct"
    /\ host[h].status = "committed"
    /\ \E i \in DOMAIN checkpoints :
        /\ checkpoints[i].tick = host[h].tick
        /\ checkpoints[i].after = "verifying"
        /\ requests' = requests \union {i}
    /\ UNCHANGED <<store, events, host, crashes>>

\* build_verification_observation: the verifier's answer is bound to the state
\* it was asked about, whatever the portfolio has come to since.
ObserveVerification(passed) ==
    /\ MayObserve
    /\ \E i \in requests :
        Offer([trigger |-> None, expected |-> checkpoints[i].state,
               event |-> IF passed THEN "verification_passed" ELSE "verification_failed",
               evidence |-> {IF passed THEN "verifier_pass" ELSE "verifier_reject"},
               wake |-> None, grant |-> None])

\* A human rejects or supersedes what waits at the gate.
ObserveHuman ==
    /\ MayDecide
    /\ head.active.state = "human_gate"
    /\ \E target \in {"rework", "failed"} :
        Offer([trigger |-> None, expected |-> Digest(head), target |-> target])

-----------------------------------------------------------------------------
(* Calls *)

\* The bootstrap event.  Once there is a head, initialize returns it if it is
\* the same state and raises otherwise: neither has an effect.
Bootstrap ==
    /\ head = None
    /\ head' \in Genesis
    /\ UNCHANGED <<checkpoints, bindings, made, host, crashes>>

\* resume_tick called directly, or process_persistent_runtime_event: the reads
\* before the event is bound only label its report.
Deliver(h, i) ==
    /\ host[h].pc = "idle"
    /\ i \in DOMAIN events
    /\ ~ IsDecision(events[i])
    /\ AtRead(h, IF events[i].trigger = None
                 THEN [Idle EXCEPT !.pc = "recover", !.job = "direct", !.tick = events[i]]
                 ELSE [Idle EXCEPT !.pc = "bind", !.job = "event", !.tick = events[i]])
    /\ UNCHANGED <<store, made, crashes>>

\* consume_human_gate_decision up to its commit; a decision that is not for the
\* state it finds, or for no gate a rule stopped at, raises.
Judge(h, i) ==
    /\ host[h].pc = "idle"
    /\ i \in DOMAIN events
    /\ IsDecision(events[i])
    /\ Recovers
    /\ \E x \in Decided(head, Latest, events[i]) :
        Becomes(h, [Idle EXCEPT !.pc = "commit", !.job = "decision", !.tick = events[i],
                                !.read = head, !.next = x])
    /\ UNCHANGED <<store, made, crashes>>

Manifests ==
    {m \in UNION {[1 .. n -> {events[i] : i \in DOMAIN events}] : n \in 1 .. MaxBurst} :
        /\ \A i \in DOMAIN m : m[i].trigger # None
        /\ \A i, j \in DOMAIN m : m[i].trigger = m[j].trigger => i = j}

\* execute_persistent_burst up to its first event
StartBurst(h) ==
    /\ host[h].pc = "idle"
    /\ \E m \in Manifests :
        AtRead(h, IF Digest(head) = m[1].expected
                  THEN [Idle EXCEPT !.pc = "bind", !.job = "burst", !.tick = m[1],
                                    !.rest = Tail(m)]
                  ELSE Idle)
    /\ UNCHANGED <<store, made, crashes>>

-----------------------------------------------------------------------------
(* consume_external_trigger *)

\* Faulty variant: an identity is taken over by later evidence.
BindAnew(h) ==
    /\ host[h].pc = "bind"
    /\ bindings' = [bindings EXCEPT ![host[h].tick.trigger] = host[h].tick]
    /\ Becomes(h, Goto(h, "scan"))
    /\ UNCHANGED <<head, checkpoints, made, crashes>>

\* Faulty variant: a bound identity is refused, its own tick's included.
BindOnce(h) ==
    LET t == host[h].tick IN
    /\ host[h].pc = "bind"
    /\ IF bindings[t.trigger] = None
       THEN bindings' = [bindings EXCEPT ![t.trigger] = t] /\ Becomes(h, Goto(h, "scan"))
       ELSE UNCHANGED bindings /\ Becomes(h, Idle)
    /\ UNCHANGED <<head, checkpoints, made, crashes>>

Bind(h) ==
    LET t == host[h].tick IN
    /\ host[h].pc = "bind"
    /\ IF bindings[t.trigger] \in {None, t}
       THEN bindings' = [bindings EXCEPT ![t.trigger] = t] /\ Becomes(h, Goto(h, "scan"))
       ELSE UNCHANGED bindings /\ Becomes(h, Idle)
    /\ UNCHANGED <<head, checkpoints, made, crashes>>

Scan(h) ==
    /\ host[h].pc = "scan"
    /\ Becomes(h, IF \E i \in DOMAIN checkpoints : checkpoints[i].tick = host[h].tick
                  THEN Result(h, "already_applied") ELSE Goto(h, "recover"))
    /\ UNCHANGED <<store, made, crashes>>

-----------------------------------------------------------------------------
(* resume_tick *)

Recover(h) ==
    /\ host[h].pc = "recover"
    /\ AtRead(h, [host[h] EXCEPT !.pc = "latest", !.read = head])
    /\ UNCHANGED <<store, made, crashes>>

LatestHas(t) == Latest # None /\ Latest.tick = t

\* Faulty variant: what the tick expects is not compared.
DecideAnywhere(h) ==
    LET t == host[h].tick  s == host[h].read IN
    /\ host[h].pc = "latest"
    /\ IF ~ Recovers THEN Becomes(h, Idle)
       ELSE IF LatestHas(t) THEN Becomes(h, Result(h, "already_applied"))
       ELSE \/ Transitions(s, t) = {} /\ Becomes(h, Idle)
            \/ \E x \in Transitions(s, t) :
                  Becomes(h, [host[h] EXCEPT !.pc = "commit", !.next = x])
    /\ UNCHANGED <<store, made, crashes>>

\* _already_applied reads again; the rest looks at the state read before.
Decide(h) ==
    LET t == host[h].tick  s == host[h].read IN
    /\ host[h].pc = "latest"
    /\ IF ~ Recovers THEN Becomes(h, Idle)
       ELSE IF LatestHas(t) THEN Becomes(h, Result(h, "already_applied"))
       ELSE IF t.expected # Digest(s) THEN Becomes(h, Result(h, "stale_observation"))
       ELSE \/ Transitions(s, t) = {} /\ Becomes(h, Idle)
            \/ \E x \in Transitions(s, t) :
                  Becomes(h, [host[h] EXCEPT !.pc = "commit", !.next = x])
    /\ UNCHANGED <<store, made, crashes>>

\* The checks of commit, under BEGIN IMMEDIATE
CommitHolds(s, x) ==
    /\ head # None
    /\ Digest(head) = Digest(s)
    /\ x.state.generation = head.generation + 1
    /\ x.state.previous = Digest(head)
    /\ x.checkpoint.generation = x.state.generation
    /\ x.checkpoint.state = Digest(x.state)
    /\ x.state.generation \notin DOMAIN checkpoints

\* Faulty variant: the checkpoint is left to a transaction of its own.
CommitHeadFirst(h) ==
    /\ host[h].pc = "commit"
    /\ head' = IF CommitHolds(host[h].read, host[h].next) THEN host[h].next.state ELSE head
    /\ Becomes(h, Goto(h, "post"))
    /\ UNCHANGED <<checkpoints, bindings, made, crashes>>

Commit(h) ==
    LET x == host[h].next IN
    /\ host[h].pc = "commit"
    /\ IF CommitHolds(host[h].read, x)
       THEN /\ head' = x.state
            /\ checkpoints' = Append(checkpoints, x.checkpoint)
            /\ Becomes(h, Goto(h, "post"))
       ELSE /\ UNCHANGED <<head, checkpoints>>
            /\ Becomes(h, IF host[h].job = "decision" THEN Idle ELSE Goto(h, "failed"))
    /\ UNCHANGED <<bindings, made, crashes>>

\* Faulty variant: a head that moved on is taken for the tick's own success.
FailedAsApplied(h) ==
    /\ host[h].pc = "failed"
    /\ AtRead(h, IF Digest(head) = Digest(host[h].read) THEN Idle ELSE Result(h, "already_applied"))
    /\ UNCHANGED <<store, made, crashes>>

\* After a refused commit
Failed(h) ==
    /\ host[h].pc = "failed"
    /\ AtRead(h, IF Digest(head) = Digest(host[h].read) THEN Idle
                 ELSE IF LatestHas(host[h].tick) THEN Result(h, "already_applied")
                 ELSE Result(h, "stale_observation"))
    /\ UNCHANGED <<store, made, crashes>>

\* After a commit: a successor that got in between makes the call raise.
Post(h) ==
    /\ host[h].pc = "post"
    /\ AtRead(h, IF Latest = host[h].next.checkpoint /\ head = host[h].next.state
                 THEN Result(h, "committed") ELSE Idle)
    /\ UNCHANGED <<store, made, crashes>>

-----------------------------------------------------------------------------
(* The event's report, and the burst around it *)

\* A direct call returns; an event's report reads the portfolio again.
After(h) ==
    /\ host[h].pc = "after"
    /\ AtRead(h, IF host[h].job = "burst" THEN [host[h] EXCEPT !.pc = "fresh", !.post = head]
                 ELSE Idle)
    /\ UNCHANGED <<store, made, crashes>>

\* Faulty variant: only a human gate stops a burst.
ContinuesToGate(s) == s.active.state # "human_gate"

\* Whether a burst goes on from the state its last event left.
Continues(s) == s.active.state \in Continuable

Fresh(h) ==
    /\ host[h].pc = "fresh"
    /\ AtRead(h, IF Digest(head) # Digest(host[h].post) THEN Idle
                 ELSE IF host[h].status # "committed" \/ ~ Continues(host[h].post)
                      THEN Idle
                 ELSE IF host[h].rest = <<>> THEN Idle
                 ELSE [host[h] EXCEPT !.pc = "bind", !.tick = host[h].rest[1],
                                      !.rest = Tail(host[h].rest), !.status = None])
    /\ UNCHANGED <<store, made, crashes>>

Crash(h) ==
    /\ host[h].pc # "idle"
    /\ crashes < MaxCrashes
    /\ crashes' = crashes + 1
    /\ Becomes(h, Idle)
    /\ UNCHANGED <<store, made>>

-----------------------------------------------------------------------------

\* WAIT and DONE stand for classes that are checked alike.
TransitionClasses == {"HUMAN_GATE", "DI_REQUIRED", "FAILED", "WAIT", "DONE",
                      "NEXT_FRONTIER_DISPATCHED"}

MaxMade == MaxEvents + MaxDecisions

Step(h) ==
    \/ Bind(h) \/ Scan(h) \/ Recover(h) \/ Decide(h) \/ Commit(h)
    \/ Failed(h) \/ Post(h) \/ After(h) \/ Fresh(h)

Next ==
    \/ Bootstrap \/ ObserveProvider \/ ObserveExternal \/ ObserveOperator
    \/ AdmitHumanAuthority \/ ObserveHuman
    \/ \E class \in TransitionClasses, needed \in {"none", "existing"} :
           ObserveResult(class, needed)
    \/ \E passed \in BOOLEAN : ObserveVerification(passed)
    \/ \E h \in Hosts :
        \/ StartBurst(h) \/ PrepareVerification(h)
        \/ \E i \in 1 .. MaxMade : Deliver(h, i) \/ Judge(h, i)
        \/ Step(h) \/ Crash(h)

Spec == Init /\ [][Next]_vars

\* A host that runs takes its next step; an event is delivered again and again,
\* as its sender does until a report settles it.
FairSpec ==
    /\ Spec
    /\ \A h \in Hosts : WF_vars(Step(h))
    /\ \A i \in 1 .. MaxMade : SF_vars(\E h \in Hosts : Deliver(h, i) \/ Judge(h, i))

-----------------------------------------------------------------------------
(* Properties *)

Jobs == {"none", "direct", "event", "burst", "decision"}
Places == {"idle", "bind", "scan", "recover", "latest", "commit", "failed",
           "post", "after", "fresh"}

\* The stored state is a well-formed portfolio, and every record is of its kind.
RuntimeTypeOK ==
    /\ head = None \/ (head \in States /\ WellFormed(head))
    /\ \A i \in DOMAIN checkpoints : checkpoints[i] \in Checkpoints
    /\ \A k \in Identities : bindings[k] = None \/ bindings[k] \in Ticks
    /\ \A i \in DOMAIN events : events[i] \in Ticks \union Decisions
    /\ requests \subseteq DOMAIN checkpoints
    /\ \A h \in Hosts : /\ host[h].pc \in Places /\ host[h].job \in Jobs
                        /\ host[h].status \in Statuses \union {None}
    /\ crashes \in 0 .. MaxCrashes

\* Every recovery finds the head and the checkpoint that binds it, whatever the
\* order of commits and crashes (load_recovery_snapshot, commit).
AlwaysRecovers == head # None => Recovers

\* No observation and no trigger identity advances the portfolio twice, however
\* often it is delivered (external_trigger_bindings, resume_tick, commit).
AppliedOnce ==
    \A i, j \in DOMAIN checkpoints :
        \/ i = j
        \/ /\ checkpoints[i].tick # checkpoints[j].tick
           /\ checkpoints[i].tick.trigger # None =>
                checkpoints[i].tick.trigger # checkpoints[j].tick.trigger

\* What a tick reports is so: "committed" and "already_applied" only for an
\* observation in a checkpoint, and one caller at most is told it committed it,
\* however the deliveries overlap (ResumeTickResult).
ResultsAreTrue ==
    /\ \A h \in Hosts :
        host[h].status \in {"committed", "already_applied"} =>
            \E i \in DOMAIN checkpoints : checkpoints[i].tick = host[h].tick
    /\ \A h, g \in Hosts :
        h # g /\ host[h].status = "committed" /\ host[g].status = "committed" =>
            host[h].tick # host[g].tick

\* No work of the first portfolio disappears: it is still in a slot, or a
\* checkpoint records its completion (apply_active_transition).
NoWorkIsLost ==
    head # None =>
        WorksOf(Digest(head)[1]) \subseteq
            WorksOf(head) \union {checkpoints[i].work :
                i \in {j \in DOMAIN checkpoints : checkpoints[j].after = "complete"}}

\* Work leaves a human gate by a grant for the very rule applied, or by a human
\* decision about this gate, which resumes nothing and grants nothing; so no
\* trigger and no burst does it (_verify_authority, consume_external_trigger,
\* consume_human_gate_decision).
GateNeedsAuthority ==
    [][head # None /\ head # head' /\ head.active.state = "human_gate" =>
          LET t == checkpoints'[Len(checkpoints')].tick IN
          /\ t.trigger = None
          /\ IF IsDecision(t)
             THEN /\ Latest # None /\ Latest.stop = head.active.boundary
                  /\ head'.active.work = head.active.work
                  /\ head'.active.state \in {"rework", "failed"}
                  /\ head'.active.authority = None
             ELSE t.grant \in Matching("human_gate", t.event)]_vars

\* A burst commits nothing more once its own last event left a state in which
\* it has to stop (execute_persistent_burst).
BurstStops ==
    [][\A h \in Hosts :
          host[h].pc = "commit" /\ host[h].post # None /\ head' # head /\ host'[h].pc = "post" =>
              host[h].post.active.state \notin
                  {"human_gate", "waiting_external", "passive", "complete", "failed", "di_required"}]_vars

\* The hosts together implement the abstract portfolio: what happens between
\* reading a state and committing its successor is invisible (commit).
Abstract == INSTANCE PortfolioHead WITH
            state <- head, log <- checkpoints, offered <- {events[i] : i \in DOMAIN events}
HeadSpec == Abstract!Spec

\* An observation that can still be applied is applied, or the portfolio moves
\* past it, or its identity belongs to another: crashes and refused commits
\* do not lose it (redelivery, external_trigger.py).
EventsSettle ==
    \A i \in 1 .. MaxMade :
        /\ i \in DOMAIN events
        /\ events[i].expected = Digest(head)
        /\ Advances(head, Latest, events[i]) # {}
        ~>
        /\ i \in DOMAIN events
        /\ \/ events[i].expected # Digest(head)
           \/ events[i].trigger # None /\ bindings[events[i].trigger] \notin {None, events[i]}
=============================================================================
