--------------------------- MODULE LaunchAdmission ---------------------------
(***************************************************************************)
(* Admission of an explicit execution launch order                         *)
(* (execution_launch_admission.py).  Admission is a pure function: one     *)
(* order always gives one receipt, so a receipt is the order with its      *)
(* disposition, and the identity under which an admitted order is          *)
(* dispatched is derived from the order alone.                             *)
(***************************************************************************)
CONSTANT None    \* absence of a value

\* ExecutionLaunchOrder with its two bindings: an authority, if any, is an actor's
\* and grants scopes; executor evidence, if any, says whether it is available.
ValidOrder(order) ==
    /\ order.required \subseteq STRING
    /\ order.authority # None => order.authority.scopes \subseteq STRING
    /\ order.binding # None => order.binding.available \in BOOLEAN

\* What an order's authority (None, or an actor with the scopes granted) gives it.
AuthorityVerdict(order, actor) ==
    IF order.required = {} THEN "granted"
    ELSE IF order.authority = None THEN "HUMAN_GATE"
    ELSE IF order.authority.actor # actor THEN "REJECTED"
    ELSE IF order.required \subseteq order.authority.scopes THEN "granted" ELSE "HUMAN_GATE"

\* What its executor evidence (None, or whom it speaks of and whether that executor
\* is available) gives it.
ExecutorVerdict(order) ==
    IF order.binding = None THEN "FAILED_BEFORE_LAUNCH"
    ELSE IF order.binding.executor # order.executor THEN "REJECTED"
    ELSE IF order.binding.available THEN "ADMITTED" ELSE "FAILED_BEFORE_LAUNCH"

\* admit_execution_launch_order
Disposition(order, actor) ==
    IF None \in {order.owner, order.repository, order.executor} THEN "REJECTED"
    ELSE IF AuthorityVerdict(order, actor) # "granted" THEN AuthorityVerdict(order, actor)
    ELSE ExecutorVerdict(order)

Admitted(order, actor) == Disposition(order, actor) = "ADMITTED"
=============================================================================
