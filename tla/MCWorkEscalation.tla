-------------------------- MODULE MCWorkEscalation --------------------------
EXTENDS WorkEscalation, TLC

CONSTANTS q1, q2

\* The second request was made under an authority with a smaller budget.
MCAuthorityLimit == [q \in Requests |-> IF q = q1 THEN 2 ELSE 1]

\* A platform that can always be called.
Callable == [executor: {"work"}, available: {TRUE}]

MCRefs == Requests \union {"executor_available", None}

\* Every order the capabilities of a configuration may give.
MCDispatches == {WorkOrder(q, cap) : q \in Requests, cap \in Capabilities}

\* Controllers are interchangeable.
DriverSymmetry == Permutations(Drivers)
=============================================================================
