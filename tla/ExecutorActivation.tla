------------------------- MODULE ExecutorActivation -------------------------
(***************************************************************************)
(* Receipt-bound activation of an executor (executor_activation.py): one   *)
(* durable row per dispatch identity, prepared, activation_unknown and     *)
(* then an observed outcome, and the drivers that race, crash and replay   *)
(* activate_or_reconcile_executor on it.                                   *)
(*                                                                         *)
(* The row is committed as activation_unknown before the adapter is        *)
(* called.  What an adapter answers is a parameter: modules that extend    *)
(* this one say which adapters there are.                                  *)
(***************************************************************************)
EXTENDS LaunchAdmission, Naturals, FiniteSets

CONSTANTS
    Drivers,        \* processes that call activate_or_reconcile_executor
    Dispatches,     \* launch orders; an order stands for its dispatch identity
    Capabilities,   \* activation capabilities: an executor and whether it is available
    Refs,           \* native references, conditions and failure reasons
    Actor           \* the authenticated actor of the receipts

VARIABLES
    row,        \* row[d]: the activation store's row of dispatch identity d, or None
    job,        \* job[p]: the call process p is in
    told,       \* told[p]: the last result p returned
    answers     \* what adapters answered so far: the dispatch, the capability it
                \* was called with and the observation

activationVars == <<row, job, told, answers>>

\* The intent of a dispatch is its receipt, one per dispatch, and the capability.
\* Revision and predecessor digest of a state follow from its status.
Prepared(cap) == [cap |-> cap, status |-> "prepared", obs |-> None]
Unknown(cap) == [cap |-> cap, status |-> "activation_unknown", obs |-> None]

Statuses == {"prepared", "activation_unknown", "executor_accepted",
             "condition_wait", "failed_activation"}
Outcomes == {"EXECUTOR_ACCEPTED", "CONDITION_WAIT", "FAILED_ACTIVATION"}
Observations == [outcome: Outcomes, ref: Refs, at: Nat]
States == [cap: Capabilities, status: Statuses, obs: Observations \union {None}]

ASSUME StateAssumption == None \notin States \union Observations
ASSUME DispatchAssumption == \A d \in Dispatches : ValidOrder(d)
ASSUME RefAssumption == "executor_available" \in Refs

ObservedStatus(outcome) ==
    IF outcome = "EXECUTOR_ACCEPTED" THEN "executor_accepted"
    ELSE IF outcome = "CONDITION_WAIT" THEN "condition_wait" ELSE "failed_activation"

\* observe_activation
Observed(st, obs) == [cap |-> st.cap, status |-> ObservedStatus(obs.outcome), obs |-> obs]

Final(st) == st.status \in {"executor_accepted", "condition_wait", "failed_activation"}

\* _condition_wait_observation
WaitObservation == [outcome |-> "CONDITION_WAIT", ref |-> "executor_available", at |-> 0]

-----------------------------------------------------------------------------
(* activate_or_reconcile_executor, one action per transaction or call *)

\* Faulty variant: a row that is activation_unknown is left to the call that began it.
EnterUnbegun(p, d, st, answer) ==
    /\ st.status # "activation_unknown"
    /\ IF Final(st)
       THEN /\ told' = [told EXCEPT ![p] = [d |-> d, st |-> st]]
            /\ UNCHANGED job
       ELSE /\ job' = [job EXCEPT ![p] = [d |-> d, st |-> st, obs |-> None, answer |-> answer]]
            /\ UNCHANGED told

\* The call enters with a state of its row, or returns at once when it is final.
Enter(p, d, st, answer) ==
    IF Final(st)
    THEN /\ told' = [told EXCEPT ![p] = [d |-> d, st |-> st]]
         /\ UNCHANGED job
    ELSE /\ job' = [job EXCEPT ![p] = [d |-> d, st |-> st, obs |-> None, answer |-> answer]]
         /\ UNCHANGED told

\* prepare_executor_activation and initialize: the row is created, or found with the
\* same intent; another intent is an error.  "answer" is what the adapter the caller
\* passes will say, None for an exception.
InitializeActivation(p, d, cap, answer) ==
    /\ job[p] = None
    /\ Admitted(d, Actor)
    /\ d.executor = cap.executor
    /\ IF row[d] = None
       THEN /\ row' = [row EXCEPT ![d] = Prepared(cap)]
            /\ Enter(p, d, Prepared(cap), answer)
       ELSE /\ row[d].cap = cap
            /\ Enter(p, d, row[d], answer)
            /\ UNCHANGED row
    /\ UNCHANGED answers

\* A call ends with an exception, or with its process.
Abandon(p) ==
    /\ job[p] # None
    /\ job' = [job EXCEPT ![p] = None]
    /\ UNCHANGED <<row, told, answers>>

\* compare_and_swap to activation_unknown; a conflict is an exception.
BeginActivation(p) ==
    /\ job[p] # None
    /\ job[p].st.status = "prepared"
    /\ IF row[job[p].d] = job[p].st
       THEN /\ row' = [row EXCEPT ![job[p].d] = Unknown(job[p].st.cap)]
            /\ job' = [job EXCEPT ![p].st = Unknown(job[p].st.cap)]
            /\ UNCHANGED <<told, answers>>
       ELSE Abandon(p)

\* Faulty variant: the adapter is called before the row says so.
ActivateEarly(p) ==
    /\ job[p] # None
    /\ job[p].obs = None
    /\ IF ~job[p].st.cap.available
       THEN job' = [job EXCEPT ![p].obs = WaitObservation] /\ UNCHANGED <<row, told, answers>>
       ELSE IF job[p].answer = None THEN Abandon(p)
       ELSE /\ job' = [job EXCEPT ![p].obs = job[p].answer]
            /\ answers' = answers \union
                   {[d |-> job[p].d, cap |-> job[p].st.cap, obs |-> job[p].answer]}
            /\ UNCHANGED <<row, told>>

\* Faulty variant: an exception of the adapter is recorded as a failure.
ActivateFabricated(p) ==
    /\ job[p] # None
    /\ job[p].st.status = "activation_unknown"
    /\ job[p].obs = None
    /\ IF ~job[p].st.cap.available
       THEN job' = [job EXCEPT ![p].obs = WaitObservation] /\ UNCHANGED <<row, told, answers>>
       ELSE IF job[p].answer = None
       THEN /\ job' = [job EXCEPT ![p].obs = [outcome |-> "FAILED_ACTIVATION", ref |-> None, at |-> 0]]
            /\ UNCHANGED <<row, told, answers>>
       ELSE /\ job' = [job EXCEPT ![p].obs = job[p].answer]
            /\ answers' = answers \union
                   {[d |-> job[p].d, cap |-> job[p].st.cap, obs |-> job[p].answer]}
            /\ UNCHANGED <<row, told>>

\* The adapter is called when the capability says its executor is available; an
\* exception leaves the row activation_unknown.
Activate(p) ==
    /\ job[p] # None
    /\ job[p].st.status = "activation_unknown"
    /\ job[p].obs = None
    /\ IF ~job[p].st.cap.available
       THEN job' = [job EXCEPT ![p].obs = WaitObservation] /\ UNCHANGED <<row, told, answers>>
       ELSE IF job[p].answer = None THEN Abandon(p)
       ELSE /\ job' = [job EXCEPT ![p].obs = job[p].answer]
            /\ answers' = answers \union
                   {[d |-> job[p].d, cap |-> job[p].st.cap, obs |-> job[p].answer]}
            /\ UNCHANGED <<row, told>>

\* Faulty variant: after a conflict the caller is given its own observation.
CommitTrusting(p) ==
    /\ job[p] # None
    /\ job[p].obs # None
    /\ LET observed == Observed(job[p].st, job[p].obs)
       IN  /\ row' = IF row[job[p].d] = job[p].st THEN [row EXCEPT ![job[p].d] = observed] ELSE row
           /\ told' = [told EXCEPT ![p] = [d |-> job[p].d, st |-> observed]]
           /\ job' = [job EXCEPT ![p] = None]
    /\ UNCHANGED answers

\* observe_activation and compare_and_swap; after a conflict the row is loaded and
\* is the result when it is the same observation, an exception otherwise.
CommitObservation(p) ==
    /\ job[p] # None
    /\ job[p].obs # None
    /\ LET observed == Observed(job[p].st, job[p].obs)
       IN  IF row[job[p].d] \in {job[p].st, observed}
           THEN /\ row' = [row EXCEPT ![job[p].d] = observed]
                /\ told' = [told EXCEPT ![p] = [d |-> job[p].d, st |-> observed]]
                /\ job' = [job EXCEPT ![p] = None]
                /\ UNCHANGED answers
           ELSE Abandon(p)

DriverStep(p) == BeginActivation(p) \/ Activate(p) \/ CommitObservation(p)

ActivationInit ==
    /\ row = [d \in Dispatches |-> None]
    /\ job = [p \in Drivers |-> None]
    /\ told = [p \in Drivers |-> None]
    /\ answers = {}

-----------------------------------------------------------------------------
(* Properties *)

\* A state has an outcome if and only if its status is that outcome's.
Consistent(st) ==
    IF st.obs = None THEN st.status \in {"prepared", "activation_unknown"}
    ELSE st.status = ObservedStatus(st.obs.outcome)

Jobs == [d: Dispatches, st: States, obs: Observations \union {None},
         answer: Observations \union {None}]
Results == [d: Dispatches, st: States]

\* Type invariant of the activation store and of the calls on it.
ActivationTypeOK ==
    /\ row \in [Dispatches -> States \union {None}]
    /\ job \in [Drivers -> Jobs \union {None}]
    /\ told \in [Drivers -> Results \union {None}]
    /\ \A d \in Dispatches : row[d] # None => Consistent(row[d])
    /\ answers \subseteq [d: Dispatches, cap: Capabilities, obs: Observations]

\* An adapter is called for a dispatch only once its durable row says
\* activation_unknown, and only for the one intent of that row, so that a crash at
\* any moment leaves a row that shows the call may have been made
\* (activate_or_reconcile_executor).
CallsAreAnnounced ==
    \A a \in answers :
        /\ row[a.d] # None
        /\ row[a.d].status # "prepared"
        /\ row[a.d].cap = a.cap

\* A result returned to a caller is the durable row and stays so, whoever raced it.
ResultsAreDurable ==
    \A p \in Drivers : told[p] # None => row[told[p].d] = told[p].st

\* A final outcome was observed: an adapter gave it for this dispatch, or the
\* executor was declared unavailable and no adapter was ever called
\* (an exception is never turned into an outcome).
OutcomesAreGrounded ==
    \A d \in Dispatches :
        (row[d] # None /\ Final(row[d])) =>
            IF row[d].cap.available
            THEN [d |-> d, cap |-> row[d].cap, obs |-> row[d].obs] \in answers
            ELSE row[d].status = "condition_wait" /\ \A a \in answers : a.d # d
=============================================================================
