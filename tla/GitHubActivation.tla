-------------------------- MODULE GitHubActivation --------------------------
(***************************************************************************)
(* Executor activation with the GitHub Actions adapter                     *)
(* (github_actions_executor_activation.py).  The adapter launches nothing: *)
(* it reports the workflow run its own process is in.                      *)
(***************************************************************************)
EXTENDS ExecutorActivation

CONSTANT Hosts   \* environments a process may run in: in GitHub Actions or not, the
                 \* repository, the run id (None when absent) and whether the SHA is valid

Failed(reason) == [outcome |-> "FAILED_ACTIVATION", ref |-> reason, at |-> 0]

\* activate of GitHubActionsExecutorActivationAdapter; the adapter's capability is the
\* caller's, and so for the executor of the order.
GitHubAnswer(host, d) ==
    IF d.executor # "github_actions" THEN Failed("unsupported_executor")
    ELSE IF ~host.actions THEN [outcome |-> "CONDITION_WAIT", ref |-> "runner_available", at |-> 0]
    ELSE IF host.repository # d.repository THEN Failed("repository_mismatch")
    ELSE IF host.run = None THEN Failed("github_run_id_missing")
    ELSE IF ~host.sha THEN Failed("github_sha_invalid")
    ELSE [outcome |-> "EXECUTOR_ACCEPTED", ref |-> host.run, at |-> 0]

ASSUME AnswerAssumption ==
    \A host \in Hosts, d \in Dispatches : GitHubAnswer(host, d).ref \in Refs

\* A process in some environment calls activate_or_reconcile_executor.
Call(p, d, cap) ==
    \E host \in Hosts : InitializeActivation(p, d, cap, GitHubAnswer(host, d))

Next ==
    \E p \in Drivers :
        \/ \E d \in Dispatches, cap \in Capabilities : Call(p, d, cap)
        \/ DriverStep(p)
        \/ Abandon(p)

Spec == ActivationInit /\ [][Next]_activationVars

\* Calls that are made run to their end, and a dispatch whose row is not final is
\* called again with the capability it was prepared for.  Crashes stop.
FairSpec ==
    /\ Spec
    /\ \A p \in Drivers :
        /\ WF_activationVars(DriverStep(p))
        /\ \A d \in Dispatches :
            SF_activationVars(row[d] # None /\ Call(p, d, row[d].cap))
    /\ <>[][\A p \in Drivers : (job[p] # None /\ job'[p] = None) => DriverStep(p)]_activationVars

-----------------------------------------------------------------------------
(* Properties *)

\* A prepared activation is never stuck: wherever a process crashed, the dispatch
\* gets its outcome (the recovery branch of activate_or_reconcile_executor).
ActivationResolves ==
    \A d \in Dispatches : row[d] # None ~> (row[d] # None /\ Final(row[d]))
=============================================================================
