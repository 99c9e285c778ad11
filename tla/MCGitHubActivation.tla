------------------------- MODULE MCGitHubActivation -------------------------
EXTENDS GitHubActivation

Repository == "general-execution"

\* One order for this adapter, one whose authority does not cover it, and one for
\* an executor the adapter does not know.
MCOrder(executor, scopes) ==
    [owner |-> "ge", repository |-> Repository, executor |-> executor,
     required |-> {"candidate_write", "executor_activation"},
     authority |-> [actor |-> "waterfound", scopes |-> scopes],
     binding |-> [executor |-> executor, available |-> TRUE]]

MCDispatches ==
    {MCOrder("github_actions", {"candidate_write", "executor_activation"}),
     MCOrder("github_actions", {"candidate_write"}),
     MCOrder("other", {"candidate_write", "executor_activation"})}

MCCapabilities == {[executor |-> "github_actions", available |-> TRUE],
                   [executor |-> "github_actions", available |-> FALSE],
                   [executor |-> "other", available |-> TRUE]}

\* A process without a run id fails like one with an invalid SHA.
MCHosts ==
    {[actions |-> FALSE, repository |-> Repository, run |-> None, sha |-> TRUE],
     [actions |-> TRUE, repository |-> "other", run |-> "run1", sha |-> TRUE],
     [actions |-> TRUE, repository |-> Repository, run |-> "run1", sha |-> FALSE],
     [actions |-> TRUE, repository |-> Repository, run |-> "run1", sha |-> TRUE]}

MCRefs == {"executor_available", "runner_available", "unsupported_executor", "repository_mismatch",
           "github_sha_invalid", "run1"}
=============================================================================
