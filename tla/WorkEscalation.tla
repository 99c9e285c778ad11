--------------------------- MODULE WorkEscalation ---------------------------
(***************************************************************************)
(* The bridge from a routing decision for Work to a native Work execution  *)
(* (work_escalation_bridge.py): budget slots and platform observations in  *)
(* one database, executor activation in another, and a platform outside.   *)
(*                                                                         *)
(* Controllers drive a request as the documented chain does: reserve a     *)
(* slot, have the launch order admitted, hand the platform request over,   *)
(* record what the platform says, and bind a terminal answer to the        *)
(* activation of the order.  Nothing but the two stores survives a crash.  *)
(*                                                                         *)
(* The platform is not part of the repository: it starts or refuses a      *)
(* platform request once and then always gives that answer.                *)
(***************************************************************************)
EXTENDS ExecutorActivation

CONSTANTS
    Requests,       \* Work escalation requests under one authority and envelope
    EnvelopeLimit,  \* max_work_invocations of the envelope
    AuthorityLimit, \* AuthorityLimit[q]: max_invocations of the authority of q
    Times,          \* times at which the platform may be observed
    MaxWaits        \* bound on the waiting observations recorded for a request

ASSUME LimitAssumption ==
    EnvelopeLimit \in Nat \ {0} /\ AuthorityLimit \in [Requests -> Nat \ {0}]
ASSUME WaitsAssumption == MaxWaits \in Nat

VARIABLES
    bridge,     \* bridge[q]: the Work escalation row of request q, or None
    held,       \* held[p]: the row controller p read, the order it had admitted and
                \* the platform observation it has
    platform    \* platform[d]: "unasked", "pending", "accepted" or "failed"

bridgeVars == <<bridge, held, platform>>
workVars == <<activationVars, bridgeVars>>

-----------------------------------------------------------------------------
(* Budget slots *)

\* prepare_work_escalation_request: the smaller of the two budgets.
Limit == [q \in Requests |->
              IF AuthorityLimit[q] < EnvelopeLimit THEN AuthorityLimit[q] ELSE EnvelopeLimit]

Used == {q \in Requests : bridge[q] # None}
MaxSlot == IF Used = {} THEN 0
           ELSE CHOOSE n \in {bridge[q].slot : q \in Used} : \A q \in Used : bridge[q].slot <= n

Reserved(slot) == [slot |-> slot, status |-> "reserved", waits |-> 0, obs |-> None]

Hold(p, q, st) == held' = [held EXCEPT ![p] = [q |-> q, st |-> st, d |-> None, obs |-> None]]

\* Faulty variant: slots of requests that came to an end are free again.
ReserveFreed(p, q) ==
    /\ held[p] = None
    /\ IF bridge[q] # None
       THEN Hold(p, q, bridge[q]) /\ UNCHANGED bridge
       ELSE LET open == {r \in Used : bridge[r].status \notin {"platform_accepted", "failed_activation"}}
            IN  /\ Cardinality(open) < Limit[q]
                /\ bridge' = [bridge EXCEPT ![q] = Reserved(Cardinality(open) + 1)]
                /\ Hold(p, q, Reserved(Cardinality(open) + 1))
    /\ UNCHANGED <<platform, activationVars>>

\* Faulty variant: the slot is counted but its row not inserted.
ReserveUnwritten(p, q) ==
    /\ held[p] = None
    /\ IF bridge[q] # None THEN Hold(p, q, bridge[q])
       ELSE Cardinality(Used) < Limit[q] /\ Hold(p, q, Reserved(MaxSlot + 1))
    /\ UNCHANGED <<bridge, platform, activationVars>>

\* reserve: a request that has a row keeps it; a new one takes the next slot while
\* the budget lasts.
Reserve(p, q) ==
    /\ held[p] = None
    /\ IF bridge[q] # None
       THEN Hold(p, q, bridge[q]) /\ UNCHANGED bridge
       ELSE /\ Cardinality(Used) < Limit[q]
            /\ MaxSlot + 1 <= Limit[q]
            /\ bridge' = [bridge EXCEPT ![q] = Reserved(MaxSlot + 1)]
            /\ Hold(p, q, Reserved(MaxSlot + 1))
    /\ UNCHANGED <<platform, activationVars>>

-----------------------------------------------------------------------------
(* The launch order and the platform request *)

WorkScopes == {"executor_activation", "work_invocation"}

\* build_work_launch_order: the order carries the authority of the request and the
\* availability of the capability; both are part of its identity.  Of the capability's
\* evidence only the availability is kept; orders that differ in the rest are one here.
WorkOrder(q, cap) ==
    [workstream |-> q, owner |-> "general_execution", repository |-> "repository",
     executor |-> "work", required |-> WorkScopes,
     authority |-> [actor |-> Actor, scopes |-> WorkScopes],
     binding |-> [executor |-> "work", available |-> cap.available]]

\* The dispatches are those orders; a native execution is named after its request.
ASSUME OrderAssumption == Dispatches = {WorkOrder(q, cap) : q \in Requests, cap \in Capabilities}
ASSUME NativeAssumption == Requests \union {None} \subseteq Refs /\ Times \subseteq Nat

\* prepare_work_platform_activation_request, for an admitted order, and its handover.
HandOver(p, cap) ==
    /\ held[p] # None
    /\ held[p].d = None
    /\ LET order == WorkOrder(held[p].q, cap)
       IN  /\ Admitted(order, Actor)
           /\ held' = [held EXCEPT ![p].d = order]
           /\ platform' = [platform EXCEPT ![order] = IF @ = "unasked" THEN "pending" ELSE @]
    /\ UNCHANGED <<bridge, activationVars>>

\* The platform (external) starts the Work, or refuses it.
Decide(d) ==
    /\ platform[d] = "pending"
    /\ \E answer \in {"accepted", "failed"} : platform' = [platform EXCEPT ![d] = answer]
    /\ UNCHANGED <<bridge, held, activationVars>>

\* What the platform (external) answers when asked about a platform request.
PlatformOutcomes(d) ==
    CASE platform[d] = "accepted" -> {"PLATFORM_ACCEPTED"}
      [] platform[d] = "failed" -> {"FAILED_ACTIVATION"}
      [] OTHER -> {"PLATFORM_WAIT", "HUMAN_REAUTH_REQUIRED"}

\* The native execution of a request is named after it.
NativeRef(d) == IF platform[d] = "accepted" THEN d.workstream ELSE None

Ask(p) ==
    /\ held[p] # None
    /\ held[p].d # None
    /\ \E outcome \in PlatformOutcomes(held[p].d), at \in Times :
        held' = [held EXCEPT ![p].obs = [d |-> held[p].d, outcome |-> outcome,
                                         ref |-> NativeRef(held[p].d), at |-> at]]
    /\ UNCHANGED <<bridge, platform, activationVars>>

-----------------------------------------------------------------------------
(* Recording what the platform said *)

BridgeStatus(outcome) ==
    CASE outcome = "PLATFORM_ACCEPTED" -> "platform_accepted"
      [] outcome = "PLATFORM_WAIT" -> "platform_wait"
      [] outcome = "HUMAN_REAUTH_REQUIRED" -> "human_reauth_required"
      [] outcome = "FAILED_ACTIVATION" -> "failed_activation"

PlatformObservations ==
    [d: Dispatches, ref: Refs, at: Times,
     outcome: {"PLATFORM_ACCEPTED", "PLATFORM_WAIT", "HUMAN_REAUTH_REQUIRED", "FAILED_ACTIVATION"}]
BridgeRows ==
    [slot: Nat, waits: Nat, obs: PlatformObservations \union {None},
     status: {"reserved", "platform_accepted", "platform_wait", "human_reauth_required",
              "failed_activation"}]

ASSUME RowAssumption == None \notin BridgeRows

Terminal(st) == st.status \in {"platform_accepted", "failed_activation"}
IsWait(outcome) == outcome \in {"PLATFORM_WAIT", "HUMAN_REAUTH_REQUIRED"}

\* A row's revision is told by its waits and its status.
Recorded(st, obs) ==
    [slot |-> st.slot, status |-> BridgeStatus(obs.outcome),
     waits |-> IF IsWait(obs.outcome) THEN st.waits + 1 ELSE st.waits, obs |-> obs]

Recordable(p) ==
    /\ held[p] # None
    /\ held[p].obs # None
    /\ ~Terminal(held[p].st)
    /\ IsWait(held[p].obs.outcome) => held[p].st.waits < MaxWaits

\* Faulty variant: the row is written over.
RecordOver(p) ==
    /\ Recordable(p)
    /\ bridge' = [bridge EXCEPT ![held[p].q] = Recorded(held[p].st, held[p].obs)]
    /\ held' = [held EXCEPT ![p].st = Recorded(held[p].st, held[p].obs)]
    /\ UNCHANGED <<platform, activationVars>>

\* record_work_platform_observation and compare_and_swap; a conflict is an exception.
RecordObservation(p) ==
    /\ Recordable(p)
    /\ IF bridge[held[p].q] = held[p].st
       THEN /\ bridge' = [bridge EXCEPT ![held[p].q] = Recorded(held[p].st, held[p].obs)]
            /\ held' = [held EXCEPT ![p].st = Recorded(held[p].st, held[p].obs)]
       ELSE /\ held' = [held EXCEPT ![p] = None]
            /\ UNCHANGED bridge
    /\ UNCHANGED <<platform, activationVars>>

-----------------------------------------------------------------------------
(* Binding a terminal answer to the activation *)

\* Faulty variant: the observation may be of any platform request.
WorkAnswerUnbound(obs, d) ==
    IF IsWait(obs.outcome) THEN None
    ELSE [outcome |-> IF obs.outcome = "PLATFORM_ACCEPTED" THEN "EXECUTOR_ACCEPTED"
                      ELSE "FAILED_ACTIVATION",
          ref |-> obs.ref, at |-> obs.at]

\* Faulty variant: a wait of the platform is a wait of the activation.
WorkAnswerWaiting(obs, d) ==
    IF obs.d # d THEN None
    ELSE [outcome |-> IF obs.outcome = "PLATFORM_ACCEPTED" THEN "EXECUTOR_ACCEPTED"
                      ELSE IF IsWait(obs.outcome) THEN "CONDITION_WAIT"
                      ELSE "FAILED_ACTIVATION",
          ref |-> obs.ref, at |-> obs.at]

\* activate of ExternalWorkExecutorActivationAdapter: an observation of another
\* dispatch, or of a wait, is an exception.
WorkAnswer(obs, d) ==
    IF obs.d # d \/ IsWait(obs.outcome) THEN None
    ELSE [outcome |-> IF obs.outcome = "PLATFORM_ACCEPTED" THEN "EXECUTOR_ACCEPTED"
                      ELSE "FAILED_ACTIVATION",
          ref |-> obs.ref, at |-> obs.at]

\* A controller with an observation activates an admitted order of a request, with
\* the capability as it is now.
Bind(p, q, cap, now) ==
    /\ held[p] # None
    /\ held[p].obs # None
    /\ InitializeActivation(p, WorkOrder(q, cap), now, WorkAnswer(held[p].obs, WorkOrder(q, cap)))
    /\ UNCHANGED bridgeVars

ActivationStep(p) == DriverStep(p) /\ UNCHANGED bridgeVars

-----------------------------------------------------------------------------
\* A crash, or an exception the controller starts over from.
CrashController(p) ==
    /\ held[p] # None
    /\ held' = [held EXCEPT ![p] = None]
    /\ job' = [job EXCEPT ![p] = None]
    /\ told' = [told EXCEPT ![p] = None]
    /\ UNCHANGED <<bridge, platform, row, answers>>

WorkInit ==
    /\ ActivationInit
    /\ bridge = [q \in Requests |-> None]
    /\ held = [p \in Drivers |-> None]
    /\ platform = [d \in Dispatches |-> "unasked"]

\* A controller does one thing at a time: an activation it called returns before it
\* goes on.
ControllerStep(p) ==
    \/ /\ job[p] = None
       /\ \/ \E q \in Requests : Reserve(p, q)
          \/ \E cap \in Capabilities :
                \/ HandOver(p, cap)
                \/ \E q \in Requests, now \in Capabilities : Bind(p, q, cap, now)
          \/ Ask(p)
          \/ RecordObservation(p)
    \/ ActivationStep(p)

WorkNext ==
    \/ \E p \in Drivers : ControllerStep(p) \/ CrashController(p)
    \/ \E d \in Dispatches : Decide(d)

WorkSpec == WorkInit /\ [][WorkNext]_workVars

\* Controllers keep at it: each holds a row, hands its request over, asks until the
\* platform has decided, records the answer and binds it to the activation, and an
\* activation that was called returns.  The platform decides, and crashes stop.
\* (A recording that conflicts gives the row up as well.)
FairWorkSpec ==
    /\ WorkSpec
    /\ \A d \in Dispatches : WF_workVars(Decide(d))
    /\ \A p \in Drivers :
        /\ WF_workVars(job[p] = None /\ \E q \in Requests : Reserve(p, q))
        /\ WF_workVars(job[p] = None /\ \E cap \in Capabilities : HandOver(p, cap))
        /\ SF_workVars(job[p] = None /\ Ask(p) /\ ~IsWait(held'[p].obs.outcome))
        /\ SF_workVars(job[p] = None /\ RecordObservation(p))
        /\ SF_workVars(/\ job[p] = None /\ held[p] # None /\ held[p].obs # None
                       /\ ~IsWait(held[p].obs.outcome)
                       /\ \E cap \in Capabilities : Bind(p, held[p].q, cap, cap))
        /\ WF_workVars(ActivationStep(p))
    /\ <>[][\A p \in Drivers : (held[p] # None /\ held'[p] = None) => RecordObservation(p)]_workVars

-----------------------------------------------------------------------------
(* Properties *)

\* The budget is never overdrawn: requests that race for slots, or come back after a
\* crash, hold different slots, none beyond what its request allows (reserve).
BudgetHolds ==
    /\ \A q, r \in Used : bridge[q].slot = bridge[r].slot => q = r
    /\ \A q \in Used : bridge[q].slot <= Limit[q]

\* The platform is only asked to start Work for a request that has a durable slot.
LaunchesAreReserved ==
    \A d \in Dispatches : platform[d] # "unasked" => d.workstream \in Used

\* What the two databases say of a request came from the platform and agrees with
\* it, although they are written one after the other by controllers that race and
\* crash: an accepted row names the native execution of this request, and a failed
\* one was refused.
StoresAgree ==
    \A d \in Dispatches :
        LET q == d.workstream
            says(st, accepted) ==
                /\ st.status = accepted => platform[d] = "accepted" /\ st.obs.ref = q
                /\ st.status = "failed_activation" => platform[d] = "failed"
        IN  /\ row[d] # None => says(row[d], "executor_accepted")
            /\ (bridge[q] # None /\ Admitted(d, Actor)) => says(bridge[q], "platform_accepted")

\* A row of the bridge never leaves a terminal status and keeps its slot.
BridgeIsMonotone ==
    [][\A q \in Requests : bridge[q] # None =>
        /\ bridge'[q] # None
        /\ bridge'[q].slot = bridge[q].slot
        /\ bridge'[q].waits >= bridge[q].waits
        /\ Terminal(bridge[q]) => bridge'[q] = bridge[q]]_workVars

\* A request that has a slot comes to its end in both databases, wherever crashes
\* and waits interrupted it, while the platform can be called: a wait or a
\* reauthentication never ends the activation.
WorkResolves ==
    \A q \in Requests :
        bridge[q] # None ~>
            /\ bridge[q] # None /\ Terminal(bridge[q])
            /\ \E d \in Dispatches :
                /\ d.workstream = q /\ row[d] # None
                /\ row[d].status \in {"executor_accepted", "failed_activation"}
=============================================================================
