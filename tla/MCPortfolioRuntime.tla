------------------------ MODULE MCPortfolioRuntime ------------------------
EXTENDS PortfolioRuntime, TLC

MCRule(from, event, to, effect, evidence, mode) ==
    [from |-> from, event |-> event, to |-> to, effect |-> effect, evidence |-> evidence,
     mode |-> mode, boundary |-> IF mode = "none" THEN None ELSE "spend"]

MCPolicy ==
    {MCRule("ready", "execution_started", "running", "none", {}, "none"),
     MCRule("verifying", "verification_passed", "complete", "promote_secondary",
            {"verifier_pass"}, "none"),
     MCRule("waiting_external", "external_blocker", "passive", "park_active",
            {"external_blocker", "no_internal_work"}, "none"),
     MCRule("passive", "wake_satisfied", "ready", "wake_passive",
            {"wake_condition_satisfied"}, "preauthorized_required"),
     MCRule("running", "authority_required", "human_gate", "stop_human_gate", {},
            "human_required"),
     MCRule("human_gate", "execution_started", "running", "none", {},
            "preauthorized_required"),
     MCRule("running", "execution_completed", "verifying", "none", {}, "none"),
     MCRule("verifying", "verification_failed", "rework", "none", {"verifier_reject"}, "none"),
     MCRule("running", "diagnosis_required", "di_required", "request_di",
            {"provider_report"}, "none"),
     MCRule("di_required", "execution_started", "running", "none", {}, "none")}

\* The rules that lead to a gate and from it.
MCGatePolicy == {r \in MCPolicy : "human_gate" \in {r.from, r.to}}

MCEntry(work, state, blockers, wake) ==
    [work |-> work, state |-> state, blockers |-> blockers, wake |-> wake,
     boundary |-> None, authority |-> None]

MCGenesis ==
    {[generation |-> 0, active |-> a, secondary |-> MCEntry("w2", "ready", {}, None),
      passive |-> {MCEntry("w3", "passive", {"external_dependency"}, "wake")},
      previous |-> <<>>] :
        a \in {MCEntry("w1", "running", {}, None),
               MCEntry("w1", "waiting_external", {"external_dependency"}, "wake")}}

MCRunning == {g \in MCGenesis : g.active.state = "running"}

Symmetry == Permutations(Hosts) \union Permutations(Identities)

MCBundles == {EvidenceKinds}
=============================================================================
