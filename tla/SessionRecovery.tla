--------------------------- MODULE SessionRecovery ---------------------------
(***************************************************************************)
(* Recovery of a logical Session after a restart: the projection of the    *)
(* durable layers (session_recovery.py) and the driver that applies at     *)
(* most one mechanical step for each projection (recovery_driver.py),      *)
(* running beside controllers that did not crash.                          *)
(*                                                                         *)
(* No Session is stored.  Its state is read off the capacity history and   *)
(* the outbox, which are read one after the other.                         *)
(***************************************************************************)
EXTENDS Dispatch

CONSTANTS
    Drivers,     \* the controllers that run the recovery driver
    MaxCrashes   \* bound on the crashes of a behaviour

ASSUME DriversAssumption == Drivers \subseteq Controllers
ASSUME CrashAssumption == MaxCrashes \in Nat

VARIABLES
    drive,    \* drive[c]: the recovery call controller c is executing
    crashes   \* crashes so far

recoveryVars == <<vars, drive, crashes>>

-----------------------------------------------------------------------------
(* The projection of one Session, of a capacity state and an outbox *)

SessionAt(log, i) ==
    IF log[i].kind = "reserve" THEN log[i].auth.session ELSE LeaseOf(log, i).auth.session

\* A projection: its class, the projected Session state, the pending step, the
\* lease the step is about, and the capacity state it was read from.
View(log, status, state, action, id) ==
    [status |-> status, state |-> state, action |-> action, id |-> id, at |-> log]

\* project_session_after_restart for a Session with an active lease: the row of
\* the lease decides the step.
ActiveView(log, box, id) ==
    LET row == IF id \in DOMAIN box THEN box[id].status ELSE "none"
        step == [none |-> "prepare_dispatch_intent",
                 prepared |-> "begin_submission",
                 submission_unknown |-> "reconcile_provider",
                 observed |-> "release_observed_capacity"]
    IN View(log, "recovery_required", "running", step[row], id)

\* Faulty variant: the recorded outcome is not compared with the release.
TrustingView(log, box, j) ==
    LET id == LeaseId(log, log[j].lease)
    IN CASE log[j].cause = "session_revoked" ->
                View(log, "coherent", "revoked", "none", id)
         [] log[j].cause = "terminal_outcome" /\ id \notin DOMAIN box ->
                View(log, "legacy_untracked", "running", "none", id)
         [] OTHER ->
                View(log, "coherent",
                     IF log[j].outcome.status = "completed" THEN "result_submitted" ELSE "running",
                     "none", id)

\* ... and for one whose last lease was released by transition j of log.
ReleasedView(log, box, j) ==
    LET id == LeaseId(log, log[j].lease)
        observed == id \in DOMAIN box /\ box[id].status = "observed"
    IN CASE log[j].cause = "session_revoked" ->
                View(log, "coherent", "revoked", "none", id)
         [] log[j].cause = "terminal_outcome" /\ ~observed ->
                View(log, "legacy_untracked", "running", "none", id)
         [] log[j].cause = "terminal_outcome" /\ observed /\ box[id].outcome # log[j].outcome ->
                View(log, "error", "running", "none", id)
         [] OTHER ->
                View(log, "coherent",
                     IF log[j].outcome.status = "completed" THEN "result_submitted" ELSE "running",
                     "none", id)

\* project_session_after_restart
Project(log, box, s) ==
    LET history == {i \in DOMAIN log : SessionAt(log, i) = s}
        active == {l \in ActiveLeases(log) : log[l].auth.session = s}
        released == history \intersect Releases(log)
        rows == {id \in DOMAIN box : AuthOfLease(id).session = s}
    IN CASE Cardinality(active) > 1 -> View(log, "error", "running", "none", None)
         [] history = {} /\ rows # {} -> View(log, "inconsistent", "bound", "none", None)
         [] history = {} /\ rows = {} ->
                View(log, "recovery_required", "bound", "start_session", None)
         [] Cardinality(active) = 1 ->
                ActiveView(log, box, LeaseId(log, CHOOSE l \in active : TRUE))
         [] history # {} /\ active = {} /\ released = {} ->
                View(log, "inconsistent", "running", "none", None)
         [] OTHER ->
                ReleasedView(log, box, CHOOSE j \in released : \A i \in released : i <= j)

-----------------------------------------------------------------------------
(* The driver *)

Idle == [phase |-> "idle"]

Become(c, d) == drive' = [drive EXCEPT ![c] = d]

\* Project a Session: read the capacity head ...
ReadCapacity(c, s) ==
    /\ drive[c] = Idle /\ pend[c] = None
    /\ Become(c, [phase |-> "projecting", session |-> s, log |-> head])
    /\ UNCHANGED <<vars, crashes>>

\* ... then the outbox.
ReadOutbox(c) ==
    /\ drive[c].phase = "projecting"
    /\ Become(c, [phase |-> "supplied", session |-> drive[c].session,
                  view |-> Project(drive[c].log, outbox, drive[c].session)])
    /\ UNCHANGED <<vars, crashes>>

\* apply_recovery_step projects again, in the same two reads ...
RereadCapacity(c) ==
    /\ drive[c].phase = "supplied"
    /\ Become(c, [phase |-> "verifying", session |-> drive[c].session,
                  view |-> drive[c].view, log |-> head])
    /\ UNCHANGED <<vars, crashes>>

FreshView(c) == Project(drive[c].log, outbox, drive[c].session)

\* ... and goes on only with a projection that is the supplied one and names a
\* step.
VerifyFresh(c) ==
    /\ drive[c].phase = "verifying"
    /\ FreshView(c) = drive[c].view
    /\ drive[c].view.status = "recovery_required"
    /\ Become(c, [phase |-> "armed", view |-> drive[c].view])
    /\ UNCHANGED <<vars, crashes>>

\* Otherwise the call ends: stale, refused, or nothing to do.
EndUnarmed(c) ==
    /\ drive[c].phase = "verifying"
    /\ \/ FreshView(c) # drive[c].view
       \/ drive[c].view.status # "recovery_required"
    /\ Become(c, Idle)
    /\ UNCHANGED <<vars, crashes>>

Armed(c, action) == drive[c].phase = "armed" /\ drive[c].view.action = action

\* The authorization of lease id can be rebuilt: a first attempt from the Session,
\* a retry from the one observed outcome that it names.
Rebuildable(id) ==
    \/ AuthOfLease(id).attempt = 1
    \/ Cardinality({k \in DOMAIN outbox :
                        /\ outbox[k].status = "observed"
                        /\ outbox[k].outcome = AuthOfLease(id).prev}) = 1

\* Faulty variant: retries are not rebuilt.
CanRebuildFirst(id) == ActiveIn(head, id) /\ AuthOfLease(id).attempt = 1

CanRebuild(id) == ActiveIn(head, id) /\ Rebuildable(id)

\* Preparing the missing intent: the lease is read from the capacity head and its
\* authorization rebuilt ...
DriverRebuild(c) ==
    /\ Armed(c, "prepare_dispatch_intent")
    /\ CanRebuild(drive[c].view.id)
    /\ Become(c, [drive[c] EXCEPT !.phase = "rebuilt"])
    /\ UNCHANGED <<vars, crashes>>

\* Faulty variant: initialize replaces a row that is there.
DriverReplace(c) ==
    /\ drive[c].phase = "rebuilt"
    /\ Put(drive[c].view.id, [status |-> "prepared", outcome |-> None])
    /\ Become(c, Idle)
    /\ UNCHANGED <<headVars, pend, hand, crashes>>

\* ... before initialize writes the row; the lease may have been released meanwhile.
DriverPrepare(c) ==
    /\ drive[c].phase = "rebuilt"
    /\ LET id == drive[c].view.id IN PrepareDispatchIntent(id, PositionOf(id))
    /\ Become(c, Idle)
    /\ UNCHANGED crashes

\* begin_submission: the row and the capacity head are read ...
DriverBegin(c) ==
    /\ Armed(c, "begin_submission")
    /\ BeginCheck(c, drive[c].view.id)
    /\ Become(c, [drive[c] EXCEPT !.phase = "begun"])
    /\ UNCHANGED crashes

\* ... before the outbox is written; the lease may have been released meanwhile.
DriverFinishBegin(c) ==
    /\ drive[c].phase = "begun"
    /\ BeginCommit(c) \/ BeginStale(c)
    /\ Become(c, Idle)
    /\ UNCHANGED crashes

DriverRelease(c) ==
    /\ Armed(c, "release_observed_capacity")
    /\ ReleaseObserved(drive[c].view.id)
    /\ Become(c, Idle)
    /\ UNCHANGED crashes

\* The step has no durable effect: a Session started in memory, a reconciliation
\* left to the caller, a step that another controller completed or made
\* impossible.
DriverNoEffect(c) ==
    LET id == drive[c].view.id
    IN /\ \/ Armed(c, "start_session")
          \/ Armed(c, "reconcile_provider")
          \/ Armed(c, "prepare_dispatch_intent") /\ ~CanRebuild(id)
          \/ drive[c].phase = "rebuilt" /\ StatusOf(id) # "none"
          \/ Armed(c, "begin_submission") /\ ~(StatusOf(id) = "prepared" /\ ActiveIn(head, id))
          \/ Armed(c, "release_observed_capacity") /\ ~ActiveIn(head, id)
       /\ Become(c, Idle)
       /\ UNCHANGED <<vars, crashes>>

DriverStep(c) ==
    \/ \E s \in Sessions : ReadCapacity(c, s)
    \/ ReadOutbox(c)
    \/ RereadCapacity(c)
    \/ VerifyFresh(c)
    \/ EndUnarmed(c)
    \/ DriverRebuild(c)
    \/ DriverPrepare(c)
    \/ DriverBegin(c)
    \/ DriverFinishBegin(c)
    \/ DriverRelease(c)
    \/ DriverNoEffect(c)

RecoveryInit ==
    /\ Init
    /\ drive = [c \in Drivers |-> Idle]
    /\ crashes = 0

\* A crash loses what the controller held and the call it was executing.
CrashAndRestart(c) ==
    /\ crashes < MaxCrashes
    /\ crashes' = crashes + 1
    /\ Crash(c)
    /\ drive' = [d \in Drivers |-> IF d = c THEN Idle ELSE drive[d]]

\* A step of the protocol outside the driver's calls.  A controller makes one call
\* at a time, so it begins no submission of its own during a driver's call.  A row
\* that is only loaded (LoadUnknown) matters to Submission, not here.
ProtocolStep ==
    /\ CapacityStep \/ OutboxStep
    /\ pend' = pend => hand' = hand
    /\ \A c \in Drivers : drive[c] # Idle => pend'[c] = pend[c]
    /\ UNCHANGED <<drive, crashes>>

RecoveryNext ==
    \/ ProtocolStep
    \/ \E c \in Drivers : DriverStep(c)
    \/ \E c \in Controllers : CrashAndRestart(c)

RecoverySpec == RecoveryInit /\ [][RecoveryNext]_recoveryVars

\* A controller that runs the driver keeps running: it completes the calls it has
\* begun and goes on calling the driver, and the provider's answer to a submitted
\* invocation is recorded in the end.  Nothing is assumed of the others.
RecoveryFairness ==
    /\ \A c \in Drivers :
        WF_recoveryVars(\/ DriverStep(c)
                        \/ UNCHANGED <<drive, crashes>> /\ (BeginCommit(c) \/ BeginStale(c)))
    /\ WF_recoveryVars(/\ UNCHANGED <<drive, crashes>>
                       /\ \E id \in DOMAIN outbox :
                            \E outcome \in Outcome : RecordObserved(id, outcome))

FairRecoverySpec == RecoverySpec /\ RecoveryFairness

-----------------------------------------------------------------------------
(* Properties *)

\* A recovery step decided from a projection that has become stale is confined to
\* a lease that is gone: whenever the driver writes to a database, either the
\* layers at that instant name this very step, or the lease was released
\* meanwhile, and all the step does is to move the row of that lease on, to
\* prepared or to submission_unknown; it never repeats or undoes what another
\* controller did (apply_recovery_step with the checks of the stores behind it).
StaleStepsAreConfined ==
    [][\A c \in Drivers :
        (/\ drive[c].phase \in {"armed", "rebuilt", "begun"}
         /\ drive'[c] = Idle
         /\ crashes' = crashes
         /\ <<head, outbox>>' # <<head, outbox>>) =>
            LET id == drive[c].view.id
                now == Project(head, outbox, AuthOfLease(id).session)
            IN \/ now.action = drive[c].view.action /\ now.id = id
               \/ /\ IsPrefixOf(id, head) /\ ~ActiveIn(head, id)
                  /\ head' = head
                  /\ \A k \in DOMAIN outbox \ {id} : outbox'[k] = outbox[k]
                  /\ \/ StatusOf(id) = "none" /\ outbox'[id].status = "prepared"
                     \/ StatusOf(id) = "prepared" /\ outbox'[id].status = "submission_unknown"]_recoveryVars

\* A Session is reported coherent after a terminal release only on evidence that
\* is, and stays, durable: the row of that lease is observed with the very outcome
\* the release carries, whichever of several outcomes of one invocation reached
\* which database first (_load_release_outcome).
CoherentIsBacked ==
    \A c \in Drivers :
        (drive[c].phase \in {"supplied", "verifying"}
            /\ drive[c].view.status = "coherent" /\ drive[c].view.state # "revoked") =>
                LET v == drive[c].view
                IN \E j \in Releases(head) :
                    /\ LeaseId(head, head[j].lease) = v.id
                    /\ StatusOf(v.id) = "observed"
                    /\ outbox[v.id].outcome = head[j].outcome
                    /\ v.state = "result_submitted" <=> head[j].outcome.status = "completed"

\* In the end no lease is held that recovery can deal with: every active lease
\* that has a row, or whose authorization can be rebuilt, is released, wherever
\* its controller crashed and however often others overtake the driver.  The one
\* lease left out is a retry of an outcome the outbox does not have
\* (project_session_after_restart, apply_recovery_step).
RecoveryCompletes ==
    <>[](\A l \in ActiveLeases(head) :
            LET id == LeaseId(head, l) IN StatusOf(id) = "none" /\ ~Rebuildable(id))
=============================================================================
