--------------------------- MODULE PortfolioHead ---------------------------
(***************************************************************************)
(* What the durable portfolio promises: one state that is opened once and  *)
(* then advanced by one observation or human decision at a time, each      *)
(* expecting exactly the state it advances.  A trigger advances it at most *)
(* once and brings no grant for the rule it applies; a wake it brings has  *)
(* been admitted with a grant of its own where the rule of the wake asks   *)
(* for one.                                                                *)
(***************************************************************************)
EXTENDS Portfolio

VARIABLES
    state,    \* the portfolio state, None before it is opened
    log,      \* one checkpoint per generation
    offered   \* the observations and decisions made so far

vars == <<state, log, offered>>

Init == state = None /\ log = <<>> /\ offered = {}

Open ==
    /\ state = None
    /\ state' \in States /\ WellFormed(state') /\ state'.generation = 0
    /\ UNCHANGED <<log, offered>>

Observe ==
    /\ UNCHANGED <<state, log>>
    /\ offered \subseteq offered'
    /\ offered' \ offered \subseteq Ticks \union Decisions

Advance ==
    /\ state # None
    /\ \E t \in offered :
        /\ t.expected = Digest(state)
        /\ t.trigger # None =>
            t.grant = None /\ \A i \in DOMAIN log : log[i].tick.trigger # t.trigger
        /\ \E x \in Advances(state, IF log = <<>> THEN None ELSE log[Len(log)], t) :
            state' = x.state /\ log' = Append(log, x.checkpoint)
    /\ UNCHANGED offered

Next == Open \/ Observe \/ Advance

Spec == Init /\ [][Next]_vars
=============================================================================
