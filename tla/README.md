# A TLA+ specification of General Execution

General Execution turns an execution plan into provider work: it authorizes
physical attempts, reserves runner capacity for them, keeps a durable outbox of
what was or may have been submitted, reconciles with the provider after a crash,
and recovers logical Sessions from what is durable. Above that kernel sits a
portfolio layer that carries long-running work across hosts and restarts.

These modules specify the kernel, the activation of executors, the durable portfolio
with the hosts that advance it, and the provider auth leases. TLC checks them on small
instances. Every safety property of those runs, and every refinement, is also proved for
all instances with TLAPS. `PROJECT.json` lists the components, runs, mutants, hazards and
theorems, and maps every definition to the source lines it models.

## Inventory

Paths are under `src/src/general_execution/`.

| Component | State | Operations | Interacts with | Hard because | Correct when |
|---|---|---|---|---|---|
| Capacity protocol (`capacity.py`, `physical.py`) | an append-only history of reserve and release transitions; authorizations and outcomes as immutable values | authorize, retry, reserve, release for an outcome or a revocation, replay | every operation below reads it | retries name earlier outcomes; several leases and slots | occupancy bounded, leases serial, released once, retries rest on canonical failures |
| Durable capacity head (`durable.py`) | one SQLite row per runner | initialize, load, commit (CAS), restart | controllers in other processes | two controllers work on copies; crashes | one history, never rewritten |
| Dispatch outbox (`dispatch.py`) | one row per lease: prepared, submission_unknown, observed | prepare, begin_submission, load | reads the capacity head, another database | check in one database, commit in the other | only canonical leases are submitted, by one controller |
| Observed outcomes (`observed.py`) | the admitted outcome, in the transaction that marks the row observed | record_observed, release_observed_capacity_after_restart | outbox then capacity head | crash between the two; duplicate or conflicting outcomes | releases are backed by evidence, evidence is final |
| Live dispatch guard (`dispatch_guard.py`) | permits as values | authorize_live_dispatch, verify | capacity head | the permit is derived from a held state | no submission without an active lease |
| Reconciliation, conformance (`reconciliation.py`, `conformance.py`) | evidence, decisions, attestations as values | query, admit, decide, attest, authorize resubmission | external provider | submission delayed, lost, repeated; contracts that overclaim | an invocation is performed at most once; ambiguity ends |
| Session recovery (`session_recovery.py`, `recovery_driver.py`) | none: a projection | project, apply one step | both databases | torn reads, stale projections, other controllers | stale steps touch only what is gone, leases that can be rebuilt end |
| Activation, escalation, launch (`executor_activation.py`, `work_escalation_bridge.py`, `execution_launch_admission.py`) | outbox rows, reserved slots | prepare, begin, observe, reserve | external platforms | lost observations, last slot | one activation, slots bounded |
| Portfolio (`portfolio_state.py`, `portfolio_persistence.py`, `execution_checkpoint.py`) | one head row, one checkpoint per generation | initialize, load, commit (CAS), recover | every host | several hosts; head and checkpoint in one commit | one head, each with its checkpoint |
| Transitions (`transition_policy.py`, `asp_transition.py`, `human_gate_decision.py`, `human_authority.py`) | portfolio entries in three roles | match a rule, admit a wake, apply a transition, decide at a gate, grant at a gate | portfolio store | long sequences of rotations; authority that must not leak | no work lost, gates open only by authority |
| Ticks and triggers (`resume_tick.py`, `external_trigger.py`) | trigger bindings | bind, scan, recover, decide, commit, report | portfolio store | duplicate, late and competing deliveries; a crash between commit and report | one transition per observation, true reports |
| Runtime hosts (`persistent_runtime.py`, `persistent_burst_host.py`, `provider_host.py`, `workstream_result_handoff.py`, `verification_escalation.py`) | none of their own | bootstrap, process an event, run a burst, turn an answer into an observation | ticks | the head moves between two events of a burst, or while a verifier works | replays change nothing, bursts stop where they must |
| Provider auth (`persistent_auth_lease.py`) | leases by surface, a queue | observe, enqueue, plan, hand off, mark drained | provider, humans | late evidence, expiry between plan and use, drainers that overlap | the newest evidence stands, a human is asked only after a rejection or where there is no evidence at all, work is drained once done, and all of it in the end |
| Inspection and policy (`continuity_check.py`, `architecture_integrity.py`, ...) | none | classify, validate | - | - | not modelled: stateless |

## Modules

| Module | Models |
|---|---|
| `Capacity` | the operators of `capacity.py`: a history, what may extend it, replay, and what a history promises |
| `CapacityHead` | the abstract head: one history, extended atomically by legal transitions |
| `CapacityStore` | `durable.py`: controllers with copies, compare-and-swap, crashes; implements `CapacityHead` |
| `CapacityHeadProofs` | lemmas about histories and the abstract head, used by the next three |
| `CapacityStoreProofs` | the proofs about `CapacityStore` |
| `DispatchProofs` | the proofs about `Dispatch` |
| `ControllerProofs` | the proofs about `Submission` and `SessionRecovery`, from those about `Dispatch` |
| `Dispatch` | `dispatch.py` and `observed.py`, composed with `CapacityHead` |
| `SessionRecovery` | `session_recovery.py` and `recovery_driver.py`, on top of `Dispatch` |
| `Submission` | `dispatch_guard.py`, `reconciliation.py`, `conformance.py` and an external provider, on top of `Dispatch` |
| `LaunchAdmission` | `execution_launch_admission.py`: the disposition of a launch order |
| `ExecutorActivation` | `executor_activation.py`: the activation rows and the steps of `activate_or_reconcile_executor`, for any adapter |
| `GitHubActivation` | that, with the adapter of `github_actions_executor_activation.py` |
| `GitHubActivationProofs` | the proofs about `ExecutorActivation`, with the GitHub adapter |
| `WorkEscalationProofs` | the proofs about `WorkEscalation`, from those about `ExecutorActivation` |
| `WorkEscalation` | `work_escalation_bridge.py` on top of `ExecutorActivation`, with an external Work platform |
| `Portfolio` | the operators of `portfolio_state.py`, `transition_policy.py`, `asp_transition.py`, `execution_checkpoint.py` and of the decision in `human_gate_decision.py` |
| `PortfolioHead` | the abstract portfolio: opened once, advanced atomically by one observation or decision at a time |
| `PortfolioRuntime` | `portfolio_persistence.py`, `resume_tick.py`, `external_trigger.py` and the hosts above them; implements `PortfolioHead` |
| `ProviderAuth` | `persistent_auth_lease.py`, with an external provider and a human |
| `PortfolioRuntimeProofs`, `ProviderAuthProofs` | the proofs about those modules |
| `MC*` | instances and symmetry for TLC |

How state and actions correspond to the code:

- **Identities.** Every id of the code is a digest of a whole value. The model
  compares values. A lease id covers the state the lease was reserved in, so it is
  the history up to the reservation (`LeaseId`); inside one history a lease is its
  position. Serialization followed by a digest check is equality.
- **Capacity.** `head` is the transition list of the row. `mem[c]` is the
  `RunnerCapacityState` a controller holds; `ReserveCapacity` and the two releases
  are the pure functions of `capacity.py` on it, `Initialize`, `Load`, `Commit` the
  store's transactions. Authorizations are values any controller may hold, so
  `authOf` is global. Each has an invocation id of its own: `physical.py` draws a uuid4 by
  default, and a caller who passes an id (lines 191, 216) is taken to pass a new one.
  The reservation compares digests of authorizations (`capacity.py:257`), not ids, so for
  a caller who gives one id to two attempts "one submission per invocation" is not claimed.
  A retry names an outcome; nothing in `authorize_retry` asks
  whether that outcome is canonical, the reservation does. `initialize` accepts any
  history that replays, so the abstract head has `Adopt`.
- **Outcomes.** `completed` and the failures of `FailureStatuses`: one reported by the
  provider and one only the transport saw, which is how the code tells its statuses
  apart. `capacity_store` needs one of them only.
- **Outbox.** `begin_submission` is three actions, because it reads the row and the
  capacity head (`BeginCheck`) and then commits to the outbox (`BeginCommit`, or
  `BeginStale`). `record_observed` is one transaction. A load, extend and commit on
  the capacity head succeeds only if nothing came between, so it is one action on
  the atomic head; its failures change nothing.
- **SpeculativeIntents, UntrackedReleases.** Two constants for what callers may do:
  prepare an intent from a reservation not yet committed, and release capacity with
  an outcome the outbox does not hold (the protocol before v0.0.10, which the
  projection calls `legacy_untracked`).
- **Recovery.** A recovery call is a sequence of phases in `drive[c]`: two reads for
  the projection supplied by the caller, two for the fresh one, then the step.
  Preparing an intent is a read of the capacity head (`DriverRebuild`) and a later
  write of the row (`DriverPrepare`); beginning a submission is the check of row and
  head (`DriverBegin`) and a later write of the row (`DriverFinishBegin`). A controller
  makes one call at a time, so it begins nothing of its own during a driver call. Loading
  a row that is already `submission_unknown` matters to `Submission` only and is left out.
- **Submission.** The transport and the provider are external. A transport submits
  once for a `begin_submission` it won and once for each attested resubmission.
  `contract` is what the provider declares, what its conformance run showed, and
  what it does. A sandbox run may pass for a provider that does not deduplicate;
  a production-equivalent run is taken to be sound.
- **Activation.** A launch order stands for the receipt and the dispatch identity
  derived from it. `row[d]` is the row of a dispatch; revision and predecessor digest
  follow from its status. `job[p]` is a call of `activate_or_reconcile_executor`
  between its transactions, with the answer its adapter will give (None: it raises).
  `told` and `answers` record what was returned and what adapters said. The GitHub
  adapter answers with the run its process is in, so each call picks a host.
- **Escalation.** `bridge[q]` is the row of a Work request, `held[p]` what a
  controller has in memory: the row it read, the order it had admitted, the last
  platform observation. Observations carry a time, which is part of their digest, so
  two observations of one execution may differ. The platform is external: it starts
  or refuses a platform request once. A controller may bind an observation to the
  order of any request and with the capability of the moment; what is refused is
  what the code refuses.
- **Portfolio values.** A digest covers the digest before it, so the digest of a state
  is the sequence of all bodies so far; a checkpoint reference is the whole observation.
  Storing and reading back is equality, because the code reads the same value or raises.
  An operation that raises yields the empty set of results. `Policy` is any policy
  `TransitionPolicy` accepts (`PolicyAssumption`); the instances use one with every
  effect. In the code every event brings the policy it was made for, bound by digest, and
  a provider contract needs one without rules that ask for a grant; the model has one
  policy for all of them and lets provider events use those of its rules
  (`ProviderRules`). Events of policies that contradict each other are not modelled.
- **Portfolio runtime.** `head`, `checkpoints`, `bindings` are the three tables.
  `host[h]` is one call between its transactions; `pc` names the transaction or
  recovery read that comes next: `Bind` and `Scan` of `consume_external_trigger`,
  `Recover`, `Decide`, `Commit`, `Failed`, `Post` of `resume_tick`, `After` of the event's
  report, `Fresh` of the burst. A call that raises leaves the host idle, whatever it
  had committed before. `Judge` and `Commit` are `consume_human_gate_decision`.
- **Observations.** `events` holds every observation and decision made, and each may be
  delivered any number of times. They are made the ways the code makes them: by the
  provider host (`ObserveProvider`), from a workstream's result (`ObserveResult`), by an
  outside author for a state foreseen (`ObserveExternal`; an author may use an identity
  twice), by an operator with a grant for this rule, for another or without one
  (`ObserveOperator`), through the channel for human authority (`AdmitHumanAuthority`), from a verifier's answer about the state it
  was asked about (`PrepareVerification`, `ObserveVerification`), by a human
  (`ObserveHuman`). A call without an observation, or behind a closed verification gate,
  returns before it changes anything and is not a step; the gate is taken as open.
- **Provider auth.** One provider; leases by surface, the queue by id. `session` is what
  the provider would answer, `sent` the unsolicited reports under way. A drainer reads
  the leases (`StartPlan`) and then, if auth is accepted, selects from the queue (`Plan`),
  and hands off from the plan it holds (`Handoff`), which looks at neither leases nor clock
  again. The provider is external: it performs what was handed off if it still accepts the
  session of the plan (`Perform`) and refuses it otherwise (`Refuse`), and the drainer may
  tell nobody (`GiveUp`). Probing and logging in stand for whoever the plan asks. `done` and
  `newest` are history variables.

## Runs

| Run | Instance | Shows |
|---|---|---|
| `capacity_store` | 2 controllers, 2 sessions, 2 invocations, parallelism 2 | occupancy, serial leases, one lease per authorization, retries after failures, replay, refinement of the atomic head (`HeadSpec`) |
| `dispatch` | 2 controllers, 2 sessions, 2 invocations, parallelism 2, speculative intents | canonical submissions, one per invocation, evidence for releases, rebuildable retries, final evidence; the head seen through the outbox still refines `CapacityHead` |
| `recovery` | 1 driver and 1 other controller, 1 session, 2 invocations (a first attempt and its retry), untracked releases, 1 crash | stale steps are confined to leases that are gone, nothing is reported coherent without the exact evidence, every lease that has a row or can be rebuilt is released in the end |
| `submission` | 2 controllers, 1 invocation, 2 in flight, 1 loss, every contract | at most one operation, work is canonical |
| `submission_liveness` | 1 controller, 1 invocation, 2 in flight, 1 loss, every contract | ambiguity resolves |
| `activation` | 2 processes, 3 orders (one not covered by its authority, one for another executor), capability available or not, 4 hosts | calls are announced, results are durable, a prepared activation gets its outcome |
| `work` | 2 controllers, 2 requests with budgets 2 and 1 | budget, launches need a slot, no outcome is made up, stores agree with the platform |
| `work_liveness` | 2 controllers, 1 request, 2 waits | rows only advance, a request ends in both databases |
| `portfolio` | 2 hosts, 3 works, 2 identities, a policy of 10 rules, 2 observations, 1 decision, bursts of 2, 1 crash | recovery never fails, one transition per observation and identity, true reports, no work lost, gates, bursts, refinement of the abstract portfolio |
| `portfolio_liveness` | 2 hosts, 1 identity, the rules about the gate, 2 observations, 1 decision, 1 crash | an observation that is delivered until it is settled is applied or overtaken |
| `auth` | 2 surfaces, 2 queue ids, 2 items, 2 drainers, clock 0..1, 1 fault | the newest evidence stands, a human is asked only after a rejection (or where there is no evidence), nothing is drained that was not done, queued work is drained |
| `dispatch_begin` | 2 controllers, 1 invocation | a disagreement, below |

**Bounds.** Two controllers, processes, hosts or drainers are the least for a race. Two
invocations give a first attempt and a retry, or two Sessions that compete for slots;
longer chains are covered by the proofs. Histories are bounded because an authorization
is reserved at most once. `MaxCrashes` bounds crashes where a driver or host is in the
middle of a call. `recovery` has one driver: the other controller makes every step of the
protocol at any moment, and a second driver makes no step that it does not
(`RecoveryIsDispatch`); the theorems are for any number. Elsewhere a crash is a step back to the empty memory and needs no
bound. `MaxInFlight` 2 lets an original submission and a resubmission be under way
together; `MaxLosses` 1 loses either. `MaxWaits` bounds the waiting observations
recorded for a request (2 lets a wait be followed by a reauthentication); `work`
records none, as budget and agreement do not depend on them.

In the portfolio runs `MaxEvents` 2 gives two observations that compete for one state,
follow each other (a burst of two), or share an identity; with `MaxDecisions` 1 a gate is
reached by one observation and left by a decision, a grant or neither. The genesis states
are chosen so that two steps reach every rule with an effect: running work leads to a gate,
to diagnosis or to a verification that promotes; waiting work is parked. Deliveries are
not bounded. `MaxTime` 1 with a staleness limit of 1 makes evidence go stale, and one
observation older than another; `MaxFaults` 1 spends one fault on an expiry, an unsolicited
or unclear report, or a crash. A report is delivered once in the run (`MaxCopies` 1), late,
and the two drainers' probes give the same evidence twice; the theorems are for any number
of copies. `MaxItems` 1 makes queued work wait behind other work. In `activation` a process
without a run id would fail as one with an invalid SHA does, and is left out.

Deadlock is not checked in the runs of the kernel, the portfolio and the auth queue: when
every authorization is used and every lease released, or every observation the bound
allows is settled, the system has stopped, rightly. Activation and escalation can always
be called again, and their runs check it.

**Fairness.** The code is a library: nothing in it schedules. Each fair specification
states what its callers must do. `RecoveryFairness`: a controller that runs the driver completes what it began and
calls the driver again (weak fairness of both together), and the provider's answer to what
was submitted is recorded. Nothing else (authorizing,
reserving, revoking, other controllers) is fair. `SubmissionFairness` asks that the
network and the provider progress, that a reconciling controller loads the
ambiguous row and refreshes its permit (weak fairness, these stay enabled), that
informed answers and the decisions taken on them, which interleave with
uninformative answers, are not avoided forever (strong fairness), and that
controllers do not crash forever. `FairSpec` of `GitHubActivation` asks that a call
runs to its end and that a dispatch without an outcome is called again, for the intent
it was prepared for; `FairWorkSpec` that controllers keep reserving, asking, recording
and binding, and that the platform decides. The steps that another controller's
progress may disable are strongly fair. `FairSpec` of `PortfolioRuntime` asks that a
running host takes its next step (weak) and that an observation is delivered again, by
some host, as long as it can be (strong, since a host is idle only between calls);
observing, bursts and verification are not fair. `ProviderAuth` asks that one drainer keeps planning
with the default limit and finishes what it began, which includes that whoever it asks
to probe or to log in does so; the other drainers may stop, crash or interfere. It also
asks that of the attempts this drainer makes again and again some are answered: performed,
or refused and the refusal reported (strong fairness of `Perform` and `Refuse` together).
Without that a lease that is `AUTH_AVAILABLE` for a session that ended would, under the
default limit, never be doubted, and the drainer would hand off the same work forever.

### Disagreements with the documentation

`dispatch_begin` checks a sentence of the documentation and finds a behaviour of the code
that contradicts it: `docs/v0.0.6-durable-dispatch-intent.md:42`. The lease can be
released between the capacity check and the outbox commit of `begin_submission`. The row
is then `submission_unknown` for a released lease. No work follows from it: a live permit
still needs an active lease.

Behaviours a reader may not expect, which no run is spent on:

- `authorize_live_dispatch` sees the caller's dispatch state, not the durable one, so a
  permit can be derived for a row that is already observed, until the capacity is
  released (`docs/v0.0.6-durable-dispatch-intent.md:76`). `AtMostOneOperation` holds all
  the same.
- The GitHub adapter names the workflow run of its own process, whatever the dispatch. A
  replay from a second workflow run answers with a second reference
  (`docs/executor-activation.md:28`). The store records one of them, and
  `ResultsAreDurable` holds.
- `resume_tick` looks for a duplicate in the latest checkpoint only, so an observation
  handed to it again after a successor is reported `stale_observation`. A trigger event is
  looked up in all checkpoints (`docs/durable-execution-wave8-offline.md:12`), but before the
  tick: if another host commits it and a successor in between, it too is reported stale.
  Nothing is applied twice (`AppliedOnce`).
- A tick that committed raises if a successor was committed before its closing read
  (`Post`). The sender learns only by delivering again.
- A result of a workstream is a new event in every state, so one result may be reconciled
  twice when the portfolio comes back to the same lifecycle state. The tests want that.
- The provider queue has no claimed state: two drainers may hold a handoff of the same
  item, and both may have it performed. The first drain recorded stands, and
  `DrainedWasDone` is what remains true.
- A retry of a failure that was released without an outbox row can be reserved, but if the
  controller crashes before it prepares the intent, nothing can: `_prior_outcome_for_retry`
  finds no outcome (`recovery_driver.py:130`) and the driver raises every time. The lease
  keeps its slot until the Session is revoked. `RecoveryCompletes` leaves exactly these
  leases out, and `RetryIsRebuildable` shows that there are none when callers record outcomes
  before they release with them.
- The race of `dispatch_begin` is open to the recovery driver as well: its `begin_submission`
  may leave a `submission_unknown` row, and its preparation a prepared row, for a lease
  released meanwhile. `StaleStepsAreConfined` says that it does nothing else.
- A retry is reserved when its predecessor outcome is canonical, and nothing asks whether
  that outcome was retried before: after the first retry is released a second one, with
  the same attempt number, can be reserved.
- `project_session_after_restart` reads the capacity head before the outbox, so a
  reservation with its intent made in between is reported as `inconsistent`; the driver
  then does nothing, and the next projection is right.

## Proofs

For every instance, TLAPS proves all the invariants and action properties that the passing
runs check, the type invariants, and the refinements `CapacityStore` to `CapacityHead`,
`Dispatch` and `Submission` to `CapacityHead`, `SessionRecovery` to `Dispatch` and `PortfolioRuntime` to
`PortfolioHead`. `PROJECT.json` names the theorem for each property.

The constants are arbitrary but for the named assumptions of the modules: bounds are
natural numbers, `None` is not a value it could be confused with, the genesis states and
the policy are ones the code accepts, and what adapters answer is in `Refs`. TLC evaluates
them in every run. The bounds that keep the runs finite (`MaxEvents`, `MaxInFlight`, ...)
are constants too, so the theorems hold for every bound.

Almost none of the properties is inductive: in each component a step relies on something
read earlier, about which the property is silent. Each inductive invariant says what a
process in the middle of a call may still rely on.

**Capacity** (`CapacityHeadProofs`, `CapacityStoreProofs`). A commit publishes what a
controller holds in memory. `Inv` therefore says of the head *and of every history in
memory* that it is well typed, that each transition was legal for the history before it
(`Derived`, from which it replays) and that it keeps the four promises (`Sound`).

1. *Extending.* A sound history with one legal transition more is sound (`LegalStep`, from
   `ReserveSound` and `ReleaseSound`). Occupancy, seriality, single release and the retry
   chain are proved here, from what `Append` does to `Leases`, `Releases`, `ActiveLeases`.
2. *Authorizing.* A new authorization changes no earlier one, so a derived history stays
   derived (`DerivedStable`).
3. *Publishing.* `Initialize`, `Load`, `Commit` and `Crash` move histories that are already
   good (`PublishStep`, `HoldStep`).

A commit is then an `Advance` of the abstract head because the candidate is derived and
extends it; an initialize is an `Adopt`.

**Dispatch** (`DispatchProofs`). The two databases share no transaction. What ties them is
that the history only grows and a lease id is a prefix of it (`PrefixAppend`), so what
`begin_submission` saw of the head is still true of a later head, the lease's being active
excepted (`PendOK`). `DispatchInv` adds the types of the rows, `SubmissionsAreCanonical` and
the evidence behind releases (`Backed`). One submission per invocation follows, because a
canonical history has one lease per invocation (`OneLeasePerInvocation`).
`ReleaseHasEvidence` and `RetryIsRebuildable` assume `~UntrackedReleases`: they are claims
about callers that record an outcome before they release with it.

**Submission** (`ControllerProofs`). `AtMostOneOperation` rests on `SentOnce`: for a provider
that does not deduplicate, the operations performed, the submissions in flight and the
`begin_submission` won but not yet sent add up to at most one. A resubmission is only
authorized with an attestation, and one is issued only for a provider that deduplicates
(`CertifiedDedups`). That step uses the model's assumption that a production-equivalent
conformance run is sound.

**Recovery** (`ControllerProofs`). Each step of a driver is a step of `Dispatch` or changes
neither database (`RecoveryIsDispatch`), so `DispatchInv` carries over. `RecoveryInv` adds
what a driver holds between its reads (`DriveOK`): a log that is a prefix of the head, and a
view whose evidence is on record for good. A stale step therefore meets a newer history that
agrees with it on everything it granted, moves the row of a lease that is gone, or is
refused (`StaleStepsAreConfined`).

**Activation** (`GitHubActivationProofs`). What a call does next depends on the state it
read. `ActivationInv` adds that a call follows its row (`JobsFollow`: same intent, the row
begun if the call thinks so, an observation only after that) and that results are final.
`AdvanceKeeps` is the heart: a row that is not final and moves past prepared, keeping its
intent, disturbs no other call, no answer and no result. `GroundedInv` traces an outcome
back to an answer.

**Escalation** (`WorkEscalationProofs`). The bridge drives the same store with another
adapter, and the lemmas above are used again. `WorkInv` adds that the highest slot is held
by some request (`TopSlot`, so the slot after it is free), that what a controller holds follows the row it read, and that every
observation held, stored or answered is what the platform did (`RowsTruthful`,
`AnswersTruthful`). The two stores agree because both agree with the platform.

**Portfolio** (`PortfolioRuntimeProofs`). `DigestInjective`: two states with one digest are
one state, so a compare-and-swap on digests advances exactly the state the transition was
computed from. `ChainOK` makes the checkpoints a chain, one for each generation, each for a
tick that expected the state before; hence no tick is applied twice, and, with
`BindingsOK`, no identity. `HostOK` says of each call what it read, what it will commit
(`NextOK`) and what it may report. The facts about transitions (`NextBodyFacts`,
`DecidedFacts`) hold for every accepted policy; they give `NoWorkIsLost`. The refinement is
an `Advance` for each commit, an `Open` for the bootstrap and an `Observe` for each
observation made; the other steps of hosts are stutters.

**Provider auth** (`ProviderAuthProofs`). Leases and the history variable `newest` are
written in one action, so `StoreStep` is the argument about evidence; `AuthInv` also bounds
the evidence still under way to observations of the provider's surfaces. `DoneInv` says of
every drainer that the work it is about to record was performed; `MarkDrained` compares that
work with the item of the row, and no enqueue rebinds an id.

`ControllerProofs` and `WorkEscalationProofs` extend several specifications so that they can
share lemmas. Their constants are declared side by side and nothing in one constrains those
of the other, `Hosts` of `GitHubActivation` for instance may be empty in the theorems about
the bridge.

Only model-checked: the liveness properties (`RecoveryCompletes`, `AmbiguityResolves`,
`ActivationResolves`, `WorkResolves`, `EventsSettle`, `QueuedWorkDrains`), since the provers
have no support for fairness and `ENABLED`; and the disagreement of `dispatch_begin`. Nor do
they support induction over data, which the modules avoid: replay and derivation are
conditions on every position of a history, and a digest is the sequence it stands for.

## Not modelled

- Validation of malformed, tampered or corrupted input: the model's values are ones
  the code itself produced.
- The base store's `record_observed` of `dispatch.py`, replaced by the durable one.
- Grants, ledger records and recovery reports, which restate a transition; the execution
  ledger, a hash chain appended in memory.
- The receipt of `human_authority.py`, which nothing reads back, and its check of the trusted
  actor and of the approved action: the grant it yields is modelled.
- The conformance harness, its verdict excepted, and the Vercel adapter: I/O.
- Schema, secret and authority flags of the activation and escalation records, which
  their constructors fix; the checks of `prepare_work_escalation_request`, whose result
  is a request with a limit.
- Core verification and rehearsal, which check receipts handed to a tick: the gate is
  open in the model, and a closed one changes nothing.
- `asp_transition_engine.py`, an older engine no store or host calls; `autonomous_burst.py`,
  a loop over injected callbacks that only a rehearsal script uses; `retry_authority.py`, a
  decision table nothing else calls.
- The Red Team escalation, which is advisory and reaches no store.
- Work-sparse routing, the execution protocol, continuity and liveness inspection,
  the validators of architecture, constitution and policy, and portfolio backup:
  functions of one snapshot with no state of their own, whose answer nothing modelled
  here reads.

## Plan

1. An abstract activation store (one intent and one final state per dispatch) that
   `GitHubActivation` and `WorkEscalation` both implement, in place of the lemmas they
   share now.
2. Stating on the abstract portfolio what `PortfolioRuntime` promises of head and
   checkpoints, so that it follows there once and is inherited by the refinement.
3. The pure decisions (`retry_authority.py`, `execution_protocol.py`,
   `work_sparse_unattended.py`) as operators checked against reference definitions, should
   a component come to depend on them.
