------------------------ MODULE WorkEscalationProofs ------------------------
(***************************************************************************)
(* For any requests, budgets, controllers and capabilities: the budget is  *)
(* never overdrawn, the platform is only asked for reserved requests, and  *)
(* the two databases only say what the platform did.                       *)
(*                                                                         *)
(* The activation store is the one of GitHubActivation, driven through     *)
(* another adapter, and its lemmas are used here as they are.              *)
(***************************************************************************)
EXTENDS WorkEscalation, GitHubActivationProofs

Holds == [q: Requests, st: BridgeRows, d: Dispatches \union {None},
          obs: PlatformObservations \union {None}]

\* The bridge's store, the platform, and what controllers hold.
WorkTypeOK ==
    /\ bridge \in [Requests -> BridgeRows \union {None}]
    /\ held \in [Drivers -> Holds \union {None}]
    /\ platform \in [Dispatches -> {"unasked", "pending", "accepted", "failed"}]

\* Some request holds the highest slot.
TopSlot == Used # {} => \E q \in Used : \A r \in Used : bridge[r].slot <= bridge[q].slot

\* An observation of the platform is what the platform did and will keep saying.
Truthful(obs) ==
    /\ obs.outcome = "PLATFORM_ACCEPTED" =>
            platform[obs.d] = "accepted" /\ obs.ref = obs.d.workstream
    /\ obs.outcome = "FAILED_ACTIVATION" => platform[obs.d] = "failed"

\* So is an answer to the activation of dispatch d.
TruthfulAnswer(d, obs) ==
    /\ obs.outcome = "EXECUTOR_ACCEPTED" => platform[d] = "accepted" /\ obs.ref = d.workstream
    /\ obs.outcome = "FAILED_ACTIVATION" => platform[d] = "failed"

\* A controller holds a row of a request that has one, an admitted order of that
\* request, and an observation of that order.
HeldFollows ==
    \A p \in Drivers : held[p] # None =>
        /\ bridge[held[p].q] # None
        /\ held[p].d # None => held[p].d.workstream = held[p].q /\ Admitted(held[p].d, Actor)
        /\ held[p].obs # None =>
              held[p].d # None /\ held[p].obs.d = held[p].d /\ Truthful(held[p].obs)

\* A terminal row carries the observation, of an admitted order, that ended it.
RowsTruthful ==
    \A q \in Requests : (bridge[q] # None /\ Terminal(bridge[q])) =>
        LET obs == bridge[q].obs
        IN  /\ obs # None
            /\ obs.d.workstream = q /\ Admitted(obs.d, Actor)
            /\ bridge[q].status = BridgeStatus(obs.outcome)
            /\ Truthful(obs)

AnswersTruthful ==
    /\ \A a \in answers : TruthfulAnswer(a.d, a.obs)
    /\ \A p \in Drivers : (job[p] # None /\ job[p].answer # None) =>
            TruthfulAnswer(job[p].d, job[p].answer)

BridgeInv ==
    /\ WorkTypeOK
    /\ BudgetHolds
    /\ TopSlot
    /\ HeldFollows
    /\ RowsTruthful
    /\ LaunchesAreReserved

WorkInv == ActivationInv /\ GroundedInv /\ BridgeInv /\ AnswersTruthful

-----------------------------------------------------------------------------
(* Orders, slots and the platform *)

\* The dispatches are the orders of the requests.
LEMMA OrdersOfRequests ==
    /\ \A d \in Dispatches : d.workstream \in Requests
    /\ \A q \in Requests, cap \in Capabilities :
            WorkOrder(q, cap) \in Dispatches /\ WorkOrder(q, cap).workstream = q
  <1>1. \A q, cap : WorkOrder(q, cap).workstream = q
    BY DEF WorkOrder
  <1> QED BY <1>1, OrderAssumption

\* A request has at most one order that is admitted: the one that says Work is
\* available.
LEMMA OneAdmittedOrder ==
    ASSUME NEW d \in Dispatches, NEW e \in Dispatches, d.workstream = e.workstream,
           Admitted(d, Actor), Admitted(e, Actor)
    PROVE  d = e
  <1>1. ASSUME NEW q \in Requests, NEW cap \in Capabilities, Admitted(WorkOrder(q, cap), Actor)
        PROVE  cap.available = TRUE
    <2> DEFINE o == WorkOrder(q, cap)
    <2>1. o \in Dispatches
      BY OrdersOfRequests
    <2>2. o.binding = [executor |-> "work", available |-> cap.available]
      BY DEF WorkOrder
    <2>3. ExecutorVerdict(o) = "ADMITTED"
      <3> HIDE DEF o
      <3> QED BY <1>1 DEF o, Admitted, Disposition, AuthorityVerdict
    <2>4. o.binding # None /\ o.binding.available
      <3> HIDE DEF o
      <3> QED BY <2>3 DEF ExecutorVerdict
    <2>5. o.binding.available \in BOOLEAN
      BY <2>1, <2>4, DispatchAssumption DEF ValidOrder
    <2> QED BY <2>2, <2>4, <2>5
  <1>2. PICK q1 \in Requests, cap1 \in Capabilities : d = WorkOrder(q1, cap1)
    BY OrderAssumption
  <1>3. PICK q2 \in Requests, cap2 \in Capabilities : e = WorkOrder(q2, cap2)
    BY OrderAssumption
  <1>4. q1 = q2
    BY <1>2, <1>3, OrdersOfRequests
  <1>5. cap1.available = cap2.available
    BY <1>1, <1>2, <1>3
  <1> QED BY <1>2, <1>3, <1>4, <1>5 DEF WorkOrder

LEMMA LimitIsNat == Limit \in [Requests -> Nat]
  BY LimitAssumption DEF Limit

\* The slot that is counted up from is the highest one taken.
LEMMA TopIsMax ==
    ASSUME WorkTypeOK, TopSlot
    PROVE  MaxSlot \in Nat /\ \A r \in Used : bridge[r].slot <= MaxSlot
  <1>1. CASE Used = {}
    BY <1>1 DEF MaxSlot
  <1>2. CASE Used # {}
    <2>1. PICK q \in Used : \A r \in Used : bridge[r].slot <= bridge[q].slot
      BY <1>2 DEF TopSlot
    <2>2. \A r \in Used : bridge[r].slot \in Nat
      BY DEF Used, WorkTypeOK, BridgeRows
    <2>3. \E n \in {bridge[r].slot : r \in Used} : \A r \in Used : bridge[r].slot <= n
      BY <2>1
    <2>4. /\ MaxSlot \in {bridge[r].slot : r \in Used}
          /\ \A r \in Used : bridge[r].slot <= MaxSlot
      BY <1>2, <2>3 DEF MaxSlot
    <2> QED BY <2>2, <2>4
  <1> QED BY <1>1, <1>2

\* The platform never takes an answer back.
Settled == \A d \in Dispatches :
    platform[d] \in {"accepted", "failed"} => platform'[d] = platform[d]

LEMMA SettledKeeps ==
    ASSUME Settled
    PROVE  /\ \A obs \in PlatformObservations : Truthful(obs) => Truthful(obs)'
           /\ \A d \in Dispatches : \A obs : TruthfulAnswer(d, obs) => TruthfulAnswer(d, obs)'
  <1>1. ASSUME NEW obs \in PlatformObservations, Truthful(obs)
        PROVE  Truthful(obs)'
    <2>1. obs.d \in Dispatches
      BY DEF PlatformObservations
    <2> QED BY <1>1, <2>1 DEF Settled, Truthful
  <1>2. ASSUME NEW d \in Dispatches, NEW obs, TruthfulAnswer(d, obs)
        PROVE  TruthfulAnswer(d, obs)'
    BY <1>2 DEF Settled, TruthfulAnswer
  <1> QED BY <1>1, <1>2

\* What Work answers is what the platform said of this very dispatch.
LEMMA WorkAnswers ==
    ASSUME NEW obs \in PlatformObservations, NEW d \in Dispatches, Truthful(obs)
    PROVE  /\ WorkAnswer(obs, d) \in Observations \union {None}
           /\ WorkAnswer(obs, d) # None => TruthfulAnswer(d, WorkAnswer(obs, d))
  <1>1. CASE obs.d # d \/ IsWait(obs.outcome)
    BY <1>1 DEF WorkAnswer
  <1>2. CASE ~(obs.d # d \/ IsWait(obs.outcome))
    <2>1. PICK o : /\ o = WorkAnswer(obs, d)
                   /\ o = [outcome |-> IF obs.outcome = "PLATFORM_ACCEPTED" THEN "EXECUTOR_ACCEPTED"
                                       ELSE "FAILED_ACTIVATION",
                           ref |-> obs.ref, at |-> obs.at]
      BY <1>2 DEF WorkAnswer
    <2>2. obs.d = d /\ obs.outcome \in {"PLATFORM_ACCEPTED", "FAILED_ACTIVATION"}
      BY <1>2 DEF PlatformObservations, IsWait
    <2>3. obs.ref \in Refs /\ obs.at \in Nat
      BY NativeAssumption DEF PlatformObservations
    <2>4. o \in Observations
      BY <2>1, <2>3 DEF Observations, Outcomes
    <2>5. TruthfulAnswer(d, o)
      BY <2>1, <2>2 DEF Truthful, TruthfulAnswer
    <2> QED BY <2>1, <2>4, <2>5
  <1> QED BY <1>1, <1>2

-----------------------------------------------------------------------------
(* Steps of the bridge *)

\* A step that leaves the bridge's rows alone keeps what is said about them alone.
LEMMA SlotsUnchanged ==
    ASSUME bridge' = bridge
    PROVE  Used' = Used /\ (BudgetHolds => BudgetHolds') /\ (TopSlot => TopSlot')
  BY DEF Used, BudgetHolds, TopSlot

\* So does a settled platform.
LEMMA RowsUnchanged ==
    ASSUME BridgeInv, bridge' = bridge, Settled
    PROVE  RowsTruthful'
  <1> SUFFICES ASSUME NEW q \in Requests, bridge[q] # None, Terminal(bridge[q])
               PROVE  /\ bridge[q].obs # None
                      /\ bridge[q].obs.d.workstream = q /\ Admitted(bridge[q].obs.d, Actor)
                      /\ bridge[q].status = BridgeStatus(bridge[q].obs.outcome)
                      /\ Truthful(bridge[q].obs)'
    BY DEF RowsTruthful, Truthful
  <1>1. /\ bridge[q].obs # None
        /\ bridge[q].obs.d.workstream = q /\ Admitted(bridge[q].obs.d, Actor)
        /\ bridge[q].status = BridgeStatus(bridge[q].obs.outcome)
        /\ Truthful(bridge[q].obs)
    BY DEF BridgeInv, RowsTruthful
  <1>2. PICK o : o = bridge[q].obs
    OBVIOUS
  <1>3. o \in PlatformObservations
    BY <1>1, <1>2 DEF BridgeInv, WorkTypeOK, BridgeRows
  <1>4. Truthful(o)'
    BY <1>1, <1>2, <1>3, SettledKeeps
  <1>5. Truthful(bridge[q].obs)'
    BY <1>2, <1>4 DEF Truthful
  <1> QED BY <1>1, <1>5

\* A controller reserves a slot, or finds the one its request has.
LEMMA ReserveKeeps ==
    ASSUME BridgeInv, NEW p \in Drivers, NEW q \in Requests, Reserve(p, q)
    PROVE  BridgeInv'
  <1>a. /\ bridge \in [Requests -> BridgeRows \union {None}]
        /\ held \in [Drivers -> Holds \union {None}]
        /\ platform \in [Dispatches -> {"unasked", "pending", "accepted", "failed"}]
    BY DEF BridgeInv, WorkTypeOK
  <1>b. platform' = platform
    BY DEF Reserve
  <1>c. Settled
    BY <1>b DEF Settled
  <1>1. CASE bridge[q] # None
    <2>1. PICK h : /\ h = [q |-> q, st |-> bridge[q], d |-> None, obs |-> None]
                   /\ held' = [held EXCEPT ![p] = h] /\ bridge' = bridge
      BY <1>1 DEF Reserve, Hold
    <2>2. /\ h \in Holds /\ h.q = q /\ h.d = None /\ h.obs = None
      BY <1>1, <1>a, <2>1 DEF Holds
    <2>3. WorkTypeOK'
      BY <1>a, <1>b, <2>1, <2>2 DEF WorkTypeOK
    <2>4. HeldFollows'
      BY <1>1, <1>a, <1>b, <2>1, <2>2 DEF BridgeInv, HeldFollows, Truthful
    <2>5. BudgetHolds' /\ TopSlot' /\ RowsTruthful' /\ LaunchesAreReserved'
      BY <1>b, <1>c, <2>1, SlotsUnchanged, RowsUnchanged DEF BridgeInv, LaunchesAreReserved
    <2> QED BY <2>3, <2>4, <2>5 DEF BridgeInv
  <1>2. CASE bridge[q] = None
    <2>1. PICK n, h, st :
            /\ n = MaxSlot + 1 /\ n <= Limit[q]
            /\ st = [slot |-> n, status |-> "reserved", waits |-> 0, obs |-> None]
            /\ h = [q |-> q, st |-> [slot |-> n, status |-> "reserved", waits |-> 0, obs |-> None],
                    d |-> None, obs |-> None]
            /\ bridge' = [bridge EXCEPT ![q] = st]
            /\ held' = [held EXCEPT ![p] = h]
      BY <1>2 DEF Reserve, Hold, Reserved
    <2>2. n \in Nat /\ \A r \in Used : bridge[r].slot < n
      <3>1. MaxSlot \in Nat /\ \A r \in Used : bridge[r].slot <= MaxSlot
        BY TopIsMax DEF BridgeInv
      <3>2. \A r \in Used : bridge[r].slot \in Nat
        BY <1>a DEF Used, BridgeRows
      <3> QED BY <2>1, <3>1, <3>2
    <2>3. /\ st \in BridgeRows /\ st # None /\ st.slot = n /\ ~Terminal(st)
          /\ h \in Holds /\ h.q = q /\ h.d = None /\ h.obs = None
      BY <2>1, <2>2, RowAssumption DEF BridgeRows, Holds, Terminal
    <2>4. WorkTypeOK'
      BY <1>a, <1>b, <2>1, <2>3 DEF WorkTypeOK
    <2>5. Used' = Used \union {q} /\ q \notin Used
      BY <1>2, <1>a, <2>1, <2>3 DEF Used
    <2>6. \A r \in Used : bridge'[r] = bridge[r]
      BY <1>2, <1>a, <2>1 DEF Used
    <2>7. bridge'[q] = st
      BY <1>a, <2>1
    <2>8. BudgetHolds'
      <3>1. ASSUME NEW r \in Used', NEW s \in Used', bridge'[r].slot = bridge'[s].slot
            PROVE  r = s
        <4>1. CASE r \in Used /\ s \in Used
          BY <3>1, <4>1, <2>6 DEF BridgeInv, BudgetHolds
        <4>2. CASE r \notin Used \/ s \notin Used
          <5>1. \A x \in Used : bridge'[x].slot < n /\ bridge'[x].slot \in Nat
            BY <1>a, <2>2, <2>6 DEF Used, BridgeRows
          <5> QED BY <3>1, <4>2, <5>1, <2>2, <2>3, <2>5, <2>7
        <4> QED BY <4>1, <4>2
      <3>2. \A r \in Used' : bridge'[r].slot <= Limit[r]
        BY <2>1, <2>3, <2>5, <2>6, <2>7 DEF BridgeInv, BudgetHolds
      <3>3. Limit' = Limit
        BY DEF Limit
      <3> QED BY <3>1, <3>2, <3>3 DEF BudgetHolds
    <2>9. TopSlot'
      <3>1. \A r \in Used' : bridge'[r].slot <= bridge'[q].slot
        <4>1. \A x \in Used : bridge'[x].slot <= n
          BY <1>a, <2>2, <2>6 DEF Used, BridgeRows
        <4> QED BY <4>1, <2>2, <2>3, <2>5, <2>7
      <3> QED BY <3>1, <2>5 DEF TopSlot
    <2>10. HeldFollows'
      <3> SUFFICES ASSUME NEW c \in Drivers, held'[c] # None
                   PROVE  /\ bridge'[held'[c].q] # None
                          /\ held'[c].d # None =>
                                held'[c].d.workstream = held'[c].q /\ Admitted(held'[c].d, Actor)
                          /\ held'[c].obs # None =>
                                /\ held'[c].d # None /\ held'[c].obs.d = held'[c].d
                                /\ Truthful(held'[c].obs)
        BY <1>b DEF HeldFollows, Truthful
      <3>1. CASE c = p
        BY <1>a, <2>1, <2>3, <2>7, <3>1
      <3>2. CASE c # p
        <4>1. held'[c] = held[c] /\ held[c].q \in Requests /\ bridge[held[c].q] # None
          BY <1>a, <2>1, <3>2 DEF BridgeInv, HeldFollows, Holds
        <4>2. bridge'[held[c].q] # None
          BY <4>1, <2>6 DEF Used
        <4> QED BY <4>1, <4>2 DEF BridgeInv, HeldFollows
      <3> QED BY <3>1, <3>2
    <2>11. RowsTruthful'
      <3> SUFFICES ASSUME NEW r \in Requests, bridge'[r] # None, Terminal(bridge'[r])
                   PROVE  /\ bridge'[r].obs # None
                          /\ bridge'[r].obs.d.workstream = r /\ Admitted(bridge'[r].obs.d, Actor)
                          /\ bridge'[r].status = BridgeStatus(bridge'[r].obs.outcome)
                          /\ Truthful(bridge'[r].obs)
        BY <1>b DEF RowsTruthful, Truthful
      <3>1. r # q
        BY <2>3, <2>7
      <3>2. bridge'[r] = bridge[r]
        BY <1>a, <2>1, <3>1
      <3> QED BY <3>2 DEF BridgeInv, RowsTruthful
    <2>12. LaunchesAreReserved'
      BY <1>b, <2>5 DEF BridgeInv, LaunchesAreReserved
    <2> QED BY <2>4, <2>8, <2>9, <2>10, <2>11, <2>12 DEF BridgeInv
  <1> QED BY <1>1, <1>2

\* What a controller holds survives what others do, as long as rows stay and the
\* platform keeps its answers.
LEMMA OthersHold ==
    ASSUME BridgeInv, Settled, NEW p \in Drivers, held[p] # None,
           bridge'[held[p].q] # None, held'[p] = held[p]
    PROVE  /\ held[p].d # None => held[p].d.workstream = held[p].q /\ Admitted(held[p].d, Actor)
           /\ held[p].obs # None =>
                held[p].d # None /\ held[p].obs.d = held[p].d /\ Truthful(held[p].obs)'
  <1>1. PICK h : h = held[p]
    OBVIOUS
  <1>2. ASSUME h.obs # None
        PROVE  Truthful(h.obs)'
    <2>1. h.obs \in PlatformObservations /\ Truthful(h.obs)
      BY <1>1, <1>2 DEF BridgeInv, WorkTypeOK, HeldFollows, Holds
    <2> QED BY <2>1, SettledKeeps
  <1> QED BY <1>1, <1>2 DEF BridgeInv, HeldFollows, Truthful

\* A step in which one controller comes to hold something else and rows stay.
LEMMA HoldKeeps ==
    ASSUME BridgeInv, bridge' = bridge, Settled,
           platform' \in [Dispatches -> {"unasked", "pending", "accepted", "failed"}],
           NEW p \in Drivers, NEW h \in Holds \union {None}, held' = [held EXCEPT ![p] = h],
           h # None =>
              /\ bridge[h.q] # None
              /\ h.d # None => h.d.workstream = h.q /\ Admitted(h.d, Actor)
              /\ h.obs # None => h.d # None /\ h.obs.d = h.d /\ Truthful(h.obs)'
    PROVE  WorkTypeOK' /\ BudgetHolds' /\ TopSlot' /\ HeldFollows' /\ RowsTruthful'
  <1>a. /\ bridge \in [Requests -> BridgeRows \union {None}]
        /\ held \in [Drivers -> Holds \union {None}]
    BY DEF BridgeInv, WorkTypeOK
  <1>1. WorkTypeOK'
    BY <1>a DEF WorkTypeOK
  <1>2. BudgetHolds' /\ TopSlot' /\ RowsTruthful'
    BY SlotsUnchanged, RowsUnchanged DEF BridgeInv
  <1>3. HeldFollows'
    <2> SUFFICES ASSUME NEW c \in Drivers, held'[c] # None
                 PROVE  /\ bridge'[held'[c].q] # None
                        /\ held'[c].d # None =>
                              held'[c].d.workstream = held'[c].q /\ Admitted(held'[c].d, Actor)
                        /\ held'[c].obs # None =>
                              /\ held'[c].d # None /\ held'[c].obs.d = held'[c].d
                              /\ Truthful(held[c].obs)'
      BY DEF HeldFollows, Truthful
    <2>1. CASE c = p
      <3>1. held'[c] = h
        BY <1>a, <2>1
      <3> QED BY <3>1 DEF Truthful
    <2>2. CASE c # p
      <3>1. held'[c] = held[c] /\ bridge[held[c].q] # None
        BY <1>a, <2>2 DEF BridgeInv, HeldFollows
      <3> QED BY <3>1, OthersHold
    <2> QED BY <2>1, <2>2
  <1> QED BY <1>1, <1>2, <1>3

\* The platform request of an admitted order is handed over.
LEMMA HandOverKeeps ==
    ASSUME BridgeInv, NEW p \in Drivers, NEW cap \in Capabilities, HandOver(p, cap)
    PROVE  BridgeInv' /\ Settled
  <1>a. /\ held \in [Drivers -> Holds \union {None}] /\ held[p] \in Holds /\ held[p] # None
        /\ platform \in [Dispatches -> {"unasked", "pending", "accepted", "failed"}]
    BY DEF BridgeInv, WorkTypeOK, HandOver
  <1>b. held[p].q \in Requests /\ held[p].st \in BridgeRows
    BY <1>a DEF Holds
  <1>1. PICK o : /\ o = WorkOrder(held[p].q, cap) /\ Admitted(o, Actor)
                 /\ held' = [held EXCEPT ![p] = [held[p] EXCEPT !.d = o]]
                 /\ platform' = [platform EXCEPT ![o] = IF platform[o] = "unasked" THEN "pending"
                                                        ELSE platform[o]]
    BY DEF HandOver
  <1>2. o \in Dispatches /\ o.workstream = held[p].q
    BY <1>b, <1>1, OrdersOfRequests
  <1>3. bridge' = bridge
    BY DEF HandOver
  <1>4. Settled /\ platform' \in [Dispatches -> {"unasked", "pending", "accepted", "failed"}]
    BY <1>a, <1>1, <1>2 DEF Settled
  <1>5. held[p].obs = None
    BY <1>a DEF BridgeInv, HeldFollows, HandOver
  <1>6. PICK h : h = [held[p] EXCEPT !.d = o]
    OBVIOUS
  <1>7. h \in Holds /\ h.q = held[p].q /\ h.d = o /\ h.obs = None
    BY <1>a, <1>2, <1>5, <1>6 DEF Holds
  <1>8. bridge[held[p].q] # None
    BY <1>a DEF BridgeInv, HeldFollows
  <1>9. WorkTypeOK' /\ BudgetHolds' /\ TopSlot' /\ HeldFollows' /\ RowsTruthful'
    BY <1>1, <1>2, <1>3, <1>4, <1>6, <1>7, <1>8, HoldKeeps
  <1>10. LaunchesAreReserved'
    <2>1. Used' = Used /\ held[p].q \in Used
      BY <1>3, <1>8, <1>b DEF Used
    <2> QED BY <1>a, <1>1, <1>2, <2>1 DEF BridgeInv, LaunchesAreReserved
  <1> QED BY <1>4, <1>9, <1>10 DEF BridgeInv

\* The platform decides.
LEMMA DecideKeeps ==
    ASSUME BridgeInv, NEW d \in Dispatches, Decide(d)
    PROVE  BridgeInv' /\ Settled
  <1>a. /\ held \in [Drivers -> Holds \union {None}]
        /\ platform \in [Dispatches -> {"unasked", "pending", "accepted", "failed"}]
    BY DEF BridgeInv, WorkTypeOK
  <1>1. PICK answer \in {"accepted", "failed"} : platform' = [platform EXCEPT ![d] = answer]
    BY DEF Decide
  <1>2. bridge' = bridge /\ held' = held /\ platform[d] = "pending"
    BY DEF Decide
  <1>3. Settled /\ platform' \in [Dispatches -> {"unasked", "pending", "accepted", "failed"}]
    BY <1>a, <1>1, <1>2 DEF Settled
  <1>4. WorkTypeOK'
    BY <1>2, <1>3 DEF BridgeInv, WorkTypeOK
  <1>5. BudgetHolds' /\ TopSlot' /\ RowsTruthful'
    BY <1>2, <1>3, SlotsUnchanged, RowsUnchanged DEF BridgeInv
  <1>6. HeldFollows'
    <2> SUFFICES ASSUME NEW c \in Drivers, held[c] # None
                 PROVE  /\ bridge[held[c].q] # None
                        /\ held[c].d # None =>
                              held[c].d.workstream = held[c].q /\ Admitted(held[c].d, Actor)
                        /\ held[c].obs # None =>
                              /\ held[c].d # None /\ held[c].obs.d = held[c].d
                              /\ Truthful(held[c].obs)'
      BY <1>2 DEF HeldFollows, Truthful
    <2>1. bridge[held[c].q] # None
      BY DEF BridgeInv, HeldFollows
    <2> QED BY <1>2, <1>3, <2>1, OthersHold
  <1>7. LaunchesAreReserved'
    <2>1. Used' = Used
      BY <1>2 DEF Used
    <2> QED BY <1>a, <1>1, <1>2, <2>1 DEF BridgeInv, LaunchesAreReserved
  <1> QED BY <1>3, <1>4, <1>5, <1>6, <1>7 DEF BridgeInv

\* What the platform answers is true.
LEMMA AskKeeps ==
    ASSUME BridgeInv, NEW p \in Drivers, Ask(p)
    PROVE  BridgeInv' /\ Settled
  <1>a. /\ held \in [Drivers -> Holds \union {None}] /\ held[p] \in Holds /\ held[p] # None
        /\ held[p].d \in Dispatches /\ held[p].d # None
        /\ platform \in [Dispatches -> {"unasked", "pending", "accepted", "failed"}]
    BY DEF BridgeInv, WorkTypeOK, Ask, Holds
  <1>1. PICK outcome \in PlatformOutcomes(held[p].d), at \in Times :
            held' = [held EXCEPT ![p].obs = [d |-> held[p].d, outcome |-> outcome,
                                             ref |-> NativeRef(held[p].d), at |-> at]]
    BY DEF Ask
  <1>2. PICK o : o = [d |-> held[p].d, outcome |-> outcome, ref |-> NativeRef(held[p].d), at |-> at]
    OBVIOUS
  <1>3. PICK h : h = [held[p] EXCEPT !.obs = o]
    OBVIOUS
  <1>4. held' = [held EXCEPT ![p] = h]
    BY <1>1, <1>2, <1>3
  <1>5. bridge' = bridge /\ platform' = platform /\ Settled
    BY DEF Ask, Settled
  <1>6. /\ o.d = held[p].d /\ o.outcome = outcome /\ o.ref = NativeRef(held[p].d) /\ o.at = at
    BY <1>2
  <1>7. /\ outcome = "PLATFORM_ACCEPTED" => platform[held[p].d] = "accepted"
        /\ outcome = "FAILED_ACTIVATION" => platform[held[p].d] = "failed"
        /\ outcome \in {"PLATFORM_ACCEPTED", "PLATFORM_WAIT", "HUMAN_REAUTH_REQUIRED", "FAILED_ACTIVATION"}
    BY <1>a DEF PlatformOutcomes
  <1>8. Truthful(o)
    BY <1>6, <1>7 DEF Truthful, NativeRef
  <1>9. o \in PlatformObservations
    <2>1. NativeRef(held[p].d) \in Refs
      BY <1>a, OrdersOfRequests, NativeAssumption DEF NativeRef
    <2> QED BY <1>2, <1>7, <1>a, <2>1 DEF PlatformObservations
  <1>10. h \in Holds /\ h.q = held[p].q /\ h.d = held[p].d /\ h.obs = o
    BY <1>a, <1>3, <1>9 DEF Holds
  <1>11. /\ bridge[held[p].q] # None
         /\ held[p].d.workstream = held[p].q /\ Admitted(held[p].d, Actor)
    BY <1>a DEF BridgeInv, HeldFollows
  <1>12. Truthful(o)'
    BY <1>5, <1>8, <1>9, SettledKeeps
  <1>13. Truthful(h.obs)'
    BY <1>10, <1>12 DEF Truthful
  <1>14. WorkTypeOK' /\ BudgetHolds' /\ TopSlot' /\ HeldFollows' /\ RowsTruthful'
    BY <1>a, <1>4, <1>5, <1>6, <1>10, <1>11, <1>13, HoldKeeps
  <1>15. LaunchesAreReserved'
    BY <1>5, SlotsUnchanged DEF BridgeInv, LaunchesAreReserved
  <1> QED BY <1>5, <1>14, <1>15 DEF BridgeInv

\* Recording an observation ends or continues the row it was read from.
LEMMA RecordKeeps ==
    ASSUME BridgeInv, NEW p \in Drivers, RecordObservation(p)
    PROVE  BridgeInv' /\ Settled
  <1>a. /\ bridge \in [Requests -> BridgeRows \union {None}]
        /\ held \in [Drivers -> Holds \union {None}] /\ held[p] \in Holds /\ held[p] # None
        /\ platform \in [Dispatches -> {"unasked", "pending", "accepted", "failed"}]
    BY DEF BridgeInv, WorkTypeOK, RecordObservation, Recordable
  <1>b. platform' = platform /\ Settled
    BY DEF RecordObservation, Settled
  <1>1. CASE bridge[held[p].q] # held[p].st
    <2>1. held' = [held EXCEPT ![p] = None] /\ bridge' = bridge
      BY <1>1 DEF RecordObservation
    <2>2. WorkTypeOK' /\ BudgetHolds' /\ TopSlot' /\ HeldFollows' /\ RowsTruthful'
      BY <1>a, <1>b, <2>1, HoldKeeps
    <2>3. LaunchesAreReserved'
      BY <1>b, <2>1, SlotsUnchanged DEF BridgeInv, LaunchesAreReserved
    <2> QED BY <1>b, <2>2, <2>3 DEF BridgeInv
  <1>2. CASE bridge[held[p].q] = held[p].st
    <2>1. PICK q, st, obs : q = held[p].q /\ st = held[p].st /\ obs = held[p].obs
      OBVIOUS
    <2>2. q \in Requests /\ st \in BridgeRows /\ obs \in PlatformObservations /\ bridge[q] = st
      BY <1>2, <1>a, <2>1 DEF Holds, RecordObservation, Recordable
    <2>3. PICK new : /\ new = [slot |-> st.slot, status |-> BridgeStatus(obs.outcome),
                               waits |-> IF IsWait(obs.outcome) THEN st.waits + 1 ELSE st.waits,
                               obs |-> obs]
                     /\ bridge' = [bridge EXCEPT ![q] = new]
                     /\ held' = [held EXCEPT ![p] = [held[p] EXCEPT !.st = new]]
      BY <1>2, <2>1 DEF RecordObservation, Recorded
    <2>4. /\ new \in BridgeRows /\ new # None /\ new.slot = st.slot
          /\ new.obs = obs /\ new.status = BridgeStatus(obs.outcome)
      <3>1. BridgeStatus(obs.outcome) \in {"platform_accepted", "platform_wait",
                                           "human_reauth_required", "failed_activation"}
        BY <2>2 DEF PlatformObservations, BridgeStatus
      <3> QED BY <2>2, <2>3, <3>1, RowAssumption DEF BridgeRows
    <2>5. PICK h : h = [held[p] EXCEPT !.st = new]
      OBVIOUS
    <2>6. h \in Holds /\ h.q = q /\ h.d = held[p].d /\ h.obs = obs
      BY <1>a, <2>1, <2>4, <2>5 DEF Holds
    <2>7. WorkTypeOK'
      BY <1>a, <1>b, <2>2, <2>3, <2>4, <2>5, <2>6 DEF WorkTypeOK
    <2>8. /\ bridge[q] # None /\ held[p].d # None /\ obs.d = held[p].d
          /\ held[p].d.workstream = q /\ Admitted(held[p].d, Actor) /\ Truthful(obs)
      BY <1>a, <2>1 DEF BridgeInv, HeldFollows, RecordObservation, Recordable
    <2>9. Used' = Used /\ \A r \in Requests : bridge'[r].slot = bridge[r].slot
      <3>1. \A r \in Requests : r # q => bridge'[r] = bridge[r]
        BY <1>a, <2>3
      <3>2. bridge'[q] = new
        BY <1>a, <2>2, <2>3
      <3> QED BY <3>1, <3>2, <2>2, <2>4, <2>8 DEF Used
    <2>10. BudgetHolds' /\ TopSlot'
      <3>1. Limit' = Limit /\ Used \subseteq Requests
        BY DEF Limit, Used
      <3> QED BY <3>1, <2>9 DEF BridgeInv, BudgetHolds, TopSlot
    <2>11. \A o : Truthful(o)' <=> Truthful(o)
      BY <1>b DEF Truthful
    <2>12. RowsTruthful'
      <3> SUFFICES ASSUME NEW r \in Requests, bridge'[r] # None, Terminal(bridge'[r])
                   PROVE  /\ bridge'[r].obs # None
                          /\ bridge'[r].obs.d.workstream = r /\ Admitted(bridge'[r].obs.d, Actor)
                          /\ bridge'[r].status = BridgeStatus(bridge'[r].obs.outcome)
                          /\ Truthful(bridge'[r].obs)
        BY <1>b DEF RowsTruthful, Truthful
      <3>1. CASE r = q
        <4>1. bridge'[r] = new
          BY <1>a, <2>2, <2>3, <3>1
        <4>2. obs # None
          BY <2>1 DEF RecordObservation, Recordable
        <4> QED BY <3>1, <4>1, <4>2, <2>4, <2>8
      <3>2. CASE r # q
        <4>1. bridge'[r] = bridge[r]
          BY <1>a, <2>3, <3>2
        <4> QED BY <4>1 DEF BridgeInv, RowsTruthful
      <3> QED BY <3>1, <3>2
    <2>13. HeldFollows'
      <3> SUFFICES ASSUME NEW c \in Drivers, held'[c] # None
                   PROVE  /\ bridge'[held'[c].q] # None
                          /\ held'[c].d # None =>
                                held'[c].d.workstream = held'[c].q /\ Admitted(held'[c].d, Actor)
                          /\ held'[c].obs # None =>
                                /\ held'[c].d # None /\ held'[c].obs.d = held'[c].d
                                /\ Truthful(held'[c].obs)
        BY <1>b DEF HeldFollows, Truthful
      <3>1. CASE c = p
        <4>1. held'[c] = h
          BY <1>a, <2>3, <2>5, <3>1
        <4>2. bridge'[q] # None
          BY <2>2, <2>8, <2>9 DEF Used
        <4> QED BY <4>1, <4>2, <2>6, <2>8
      <3>2. CASE c # p
        <4>1. held'[c] = held[c] /\ held[c].q \in Requests /\ bridge[held[c].q] # None
          BY <1>a, <2>3, <3>2 DEF BridgeInv, HeldFollows, Holds
        <4>2. bridge'[held[c].q] # None
          BY <4>1, <2>9 DEF Used
        <4> QED BY <4>1, <4>2 DEF BridgeInv, HeldFollows
      <3> QED BY <3>1, <3>2
    <2>14. LaunchesAreReserved'
      BY <1>b, <2>9 DEF BridgeInv, LaunchesAreReserved
    <2> QED BY <1>b, <2>7, <2>10, <2>12, <2>13, <2>14 DEF BridgeInv
  <1> QED BY <1>1, <1>2

\* A crash takes only what the controller held.
LEMMA CrashKeeps ==
    ASSUME BridgeInv, NEW p \in Drivers, CrashController(p)
    PROVE  BridgeInv' /\ Settled
  <1>1. /\ held' = [held EXCEPT ![p] = None] /\ bridge' = bridge /\ platform' = platform
        /\ Settled
    BY DEF CrashController, Settled
  <1>2. WorkTypeOK' /\ BudgetHolds' /\ TopSlot' /\ HeldFollows' /\ RowsTruthful'
    <2>1. platform' \in [Dispatches -> {"unasked", "pending", "accepted", "failed"}]
      BY <1>1 DEF BridgeInv, WorkTypeOK
    <2> QED BY <1>1, <2>1, HoldKeeps
  <1>3. LaunchesAreReserved'
    BY <1>1, SlotsUnchanged DEF BridgeInv, LaunchesAreReserved
  <1> QED BY <1>1, <1>2, <1>3 DEF BridgeInv

\* The activation does not touch the bridge.
LEMMA BridgeUnchanged ==
    ASSUME BridgeInv, UNCHANGED bridgeVars
    PROVE  BridgeInv' /\ Settled
  BY DEF bridgeVars, BridgeInv, WorkTypeOK, Used, BudgetHolds, TopSlot, HeldFollows, Truthful,
         RowsTruthful, LaunchesAreReserved, Settled, Limit

-----------------------------------------------------------------------------
(* Steps of the activation *)

\* A crash takes only the call and the result of its process.
LEMMA CrashActivation ==
    ASSUME ActivationInv, GroundedInv, AnswersTruthful, NEW p \in Drivers, CrashController(p)
    PROVE  ActivationInv' /\ GroundedInv' /\ AnswersTruthful'
  <1>a. /\ job \in [Drivers -> Jobs \union {None}]
        /\ told \in [Drivers -> Results \union {None}]
    BY DEF ActivationInv, ActivationTypeOK
  <1>1. /\ job' = [job EXCEPT ![p] = None] /\ told' = [told EXCEPT ![p] = None]
        /\ row' = row /\ answers' = answers /\ platform' = platform
    BY DEF CrashController
  <1>2. \A c \in Drivers : /\ job'[c] # None => job'[c] = job[c]
                           /\ told'[c] # None => told'[c] = told[c]
    BY <1>a, <1>1
  <1>3. ActivationTypeOK'
    BY <1>a, <1>1 DEF ActivationInv, ActivationTypeOK
  <1>4. JobsFollow' /\ CallsAreAnnounced'
    BY <1>1, <1>2 DEF ActivationInv, JobsFollow, CallsAreAnnounced
  <1>5. ResultsAreDurable' /\ ResultsAreFinal'
    BY <1>1, <1>2 DEF ActivationInv, ResultsAreDurable, ResultsAreFinal
  <1>6. GroundedInv'
    BY <1>1, <1>2 DEF GroundedInv, JobsGrounded, CallsAreAvailable, RowsGrounded
  <1>7. AnswersTruthful'
    BY <1>1, <1>2 DEF AnswersTruthful, TruthfulAnswer
  <1> QED BY <1>3, <1>4, <1>5, <1>6, <1>7 DEF ActivationInv

\* Answers stay true while the platform keeps its own.
LEMMA AnswersUnchanged ==
    ASSUME ActivationInv, AnswersTruthful, Settled, job' = job, answers' = answers
    PROVE  AnswersTruthful'
  <1>1. ASSUME NEW a \in answers
        PROVE  TruthfulAnswer(a.d, a.obs)'
    <2>1. a.d \in Dispatches /\ TruthfulAnswer(a.d, a.obs)
      BY DEF ActivationInv, ActivationTypeOK, AnswersTruthful
    <2> QED BY <2>1 DEF Settled, TruthfulAnswer
  <1>2. ASSUME NEW p \in Drivers, job[p] # None, job[p].answer # None
        PROVE  TruthfulAnswer(job[p].d, job[p].answer)'
    <2>1. job[p].d \in Dispatches /\ TruthfulAnswer(job[p].d, job[p].answer)
      BY <1>2 DEF ActivationInv, ActivationTypeOK, Jobs, AnswersTruthful
    <2> QED BY <2>1 DEF Settled, TruthfulAnswer
  <1> QED BY <1>1, <1>2 DEF AnswersTruthful, TruthfulAnswer

\* A call is entered with a true answer.
LEMMA BindKeeps ==
    ASSUME WorkInv, NEW p \in Drivers, NEW q \in Requests, NEW cap \in Capabilities,
           NEW now \in Capabilities, Bind(p, q, cap, now)
    PROVE  ActivationInv' /\ GroundedInv' /\ AnswersTruthful'
  <1>1. PICK d, answer : /\ d = WorkOrder(q, cap) /\ answer = WorkAnswer(held[p].obs, d)
                         /\ InitializeActivation(p, d, now, answer)
    BY DEF Bind
  <1>2. d \in Dispatches
    BY <1>1, OrdersOfRequests
  <1>3. held[p].obs \in PlatformObservations /\ Truthful(held[p].obs)
    BY DEF Bind, WorkInv, BridgeInv, WorkTypeOK, HeldFollows, Holds
  <1>4. answer \in Observations \union {None} /\ (answer # None => TruthfulAnswer(d, answer))
    BY <1>1, <1>2, <1>3, WorkAnswers
  <1>5. ActivationInv'
    BY <1>1, <1>2, <1>4, InitializeKeeps DEF WorkInv
  <1>6. GroundedInv'
    BY <1>1, <1>2, InitializeGrounded DEF WorkInv
  <1>7. platform' = platform /\ answers' = answers
    BY <1>1 DEF Bind, bridgeVars, InitializeActivation
  <1>8. PICK call : /\ call.d = d /\ call.answer = answer
                    /\ job' = job \/ job' = [job EXCEPT ![p] = call]
    <2>1. ASSUME NEW st, Enter(p, d, st, answer)
          PROVE  job' = job \/ job' = [job EXCEPT ![p] = [d |-> d, st |-> st, obs |-> None, answer |-> answer]]
      BY <2>1 DEF Enter
    <2>2. \E st : Enter(p, d, st, answer)
      BY <1>1 DEF InitializeActivation
    <2>3. \A st : /\ [d |-> d, st |-> st, obs |-> None, answer |-> answer].d = d
                  /\ [d |-> d, st |-> st, obs |-> None, answer |-> answer].answer = answer
      OBVIOUS
    <2> QED BY <2>1, <2>2, <2>3
  <1>9. job \in [Drivers -> Jobs \union {None}]
    BY DEF WorkInv, ActivationInv, ActivationTypeOK
  <1>10. AnswersTruthful'
    <2>1. ASSUME NEW c \in Drivers, job'[c] # None, job'[c].answer # None
          PROVE  TruthfulAnswer(job'[c].d, job'[c].answer)
      <3>1. CASE job'[c] = job[c]
        BY <2>1, <3>1 DEF WorkInv, AnswersTruthful
      <3>2. CASE job'[c] # job[c]
        <4>1. job'[c] = call
          BY <1>8, <1>9, <3>2
        <4> QED BY <2>1, <4>1, <1>4, <1>8
      <3> QED BY <3>1, <3>2
    <2> QED BY <1>7, <2>1 DEF WorkInv, AnswersTruthful, TruthfulAnswer
  <1> QED BY <1>5, <1>6, <1>10

\* A call goes on with its answer.
LEMMA DriverKeeps ==
    ASSUME ActivationInv, GroundedInv, AnswersTruthful, NEW p \in Drivers, DriverStep(p),
           platform' = platform
    PROVE  ActivationInv' /\ GroundedInv' /\ AnswersTruthful'
  <1>1. ActivationInv'
    BY BeginKeeps, ActivateKeeps, CommitKeeps DEF DriverStep
  <1>2. GroundedInv'
    BY BeginGrounded, ActivateGrounded, CommitGrounded DEF DriverStep
  <1>a. job \in [Drivers -> Jobs \union {None}] /\ job[p] \in Jobs /\ job[p] # None
    BY DEF DriverStep, BeginActivation, Activate, CommitObservation, ActivationInv, ActivationTypeOK
  <1>3. \A c \in Drivers : job'[c] # None =>
            job'[c].d = job[c].d /\ job'[c].answer = job[c].answer /\ job[c] # None
    <2>1. CASE job' = [job EXCEPT ![p] = None]
      BY <1>a, <2>1
    <2>2. ASSUME NEW st, job' = [job EXCEPT ![p].st = st]
          PROVE  \A c \in Drivers : job'[c] # None =>
                    job'[c].d = job[c].d /\ job'[c].answer = job[c].answer /\ job[c] # None
      BY <1>a, <2>2 DEF Jobs
    <2>3. ASSUME NEW o, job' = [job EXCEPT ![p].obs = o]
          PROVE  \A c \in Drivers : job'[c] # None =>
                    job'[c].d = job[c].d /\ job'[c].answer = job[c].answer /\ job[c] # None
      BY <1>a, <2>3 DEF Jobs
    <2> QED BY <2>1, <2>2, <2>3 DEF DriverStep, BeginActivation, Activate, CommitObservation, Abandon
  <1>4. \A a \in answers' : a \in answers \/
            /\ a.d = job[p].d /\ a.obs = job[p].answer /\ job[p].answer # None
    BY DEF DriverStep, BeginActivation, Activate, CommitObservation, Abandon
  <1>5. \A a \in answers' : TruthfulAnswer(a.d, a.obs)
    BY <1>4, <1>a DEF AnswersTruthful
  <1>6. \A c \in Drivers : (job'[c] # None /\ job'[c].answer # None) =>
            TruthfulAnswer(job'[c].d, job'[c].answer)
    BY <1>3 DEF AnswersTruthful
  <1>7. AnswersTruthful'
    BY <1>5, <1>6 DEF AnswersTruthful, TruthfulAnswer
  <1> QED BY <1>1, <1>2, <1>7

-----------------------------------------------------------------------------
(* Theorems *)

\* Every step keeps the inductive invariant.
LEMMA WorkStep ==
    ASSUME WorkInv, [WorkNext]_workVars
    PROVE  WorkInv'
  <1>1. CASE UNCHANGED workVars
    <2>1. UNCHANGED bridgeVars /\ UNCHANGED activationVars
      BY <1>1 DEF workVars
    <2>2. BridgeInv' /\ Settled
      BY <2>1, BridgeUnchanged DEF WorkInv
    <2>3. ActivationInv' /\ GroundedInv'
      BY <2>1 DEF WorkInv, activationVars, ActivationInv, ActivationTypeOK, JobsFollow,
                  CallsAreAnnounced, ResultsAreDurable, ResultsAreFinal, GroundedInv, JobsGrounded,
                  CallsAreAvailable, RowsGrounded
    <2>4. AnswersTruthful'
      BY <2>1, <2>2, AnswersUnchanged DEF WorkInv, activationVars
    <2> QED BY <2>2, <2>3, <2>4 DEF WorkInv
  <1>2. ASSUME UNCHANGED activationVars, BridgeInv', Settled
        PROVE  WorkInv'
    <2>1. ActivationInv' /\ GroundedInv'
      BY <1>2 DEF WorkInv, activationVars, ActivationInv, ActivationTypeOK, JobsFollow,
                  CallsAreAnnounced, ResultsAreDurable, ResultsAreFinal, GroundedInv, JobsGrounded,
                  CallsAreAvailable, RowsGrounded
    <2>2. AnswersTruthful'
      BY <1>2, AnswersUnchanged DEF WorkInv, activationVars
    <2> QED BY <1>2, <2>1, <2>2 DEF WorkInv
  <1>3. ASSUME NEW p \in Drivers, NEW q \in Requests, Reserve(p, q)
        PROVE  WorkInv'
    <2>1. UNCHANGED activationVars /\ Settled
      BY <1>3 DEF Reserve, Settled
    <2> QED BY <1>2, <1>3, <2>1, ReserveKeeps DEF WorkInv
  <1>4. ASSUME NEW p \in Drivers, NEW cap \in Capabilities, HandOver(p, cap)
        PROVE  WorkInv'
    <2>1. UNCHANGED activationVars
      BY <1>4 DEF HandOver
    <2> QED BY <1>2, <1>4, <2>1, HandOverKeeps DEF WorkInv
  <1>5. ASSUME NEW p \in Drivers, NEW q \in Requests, NEW cap \in Capabilities,
               NEW now \in Capabilities, Bind(p, q, cap, now)
        PROVE  WorkInv'
    <2>1. UNCHANGED bridgeVars
      BY <1>5 DEF Bind
    <2> QED BY <1>5, <2>1, BindKeeps, BridgeUnchanged DEF WorkInv
  <1>6. ASSUME NEW p \in Drivers, Ask(p)
        PROVE  WorkInv'
    <2>1. UNCHANGED activationVars
      BY <1>6 DEF Ask
    <2> QED BY <1>2, <1>6, <2>1, AskKeeps DEF WorkInv
  <1>7. ASSUME NEW p \in Drivers, RecordObservation(p)
        PROVE  WorkInv'
    <2>1. UNCHANGED activationVars
      BY <1>7 DEF RecordObservation
    <2> QED BY <1>2, <1>7, <2>1, RecordKeeps DEF WorkInv
  <1>8. ASSUME NEW p \in Drivers, ActivationStep(p)
        PROVE  WorkInv'
    <2>1. DriverStep(p) /\ UNCHANGED bridgeVars /\ platform' = platform
      BY <1>8 DEF ActivationStep, bridgeVars
    <2> QED BY <2>1, DriverKeeps, BridgeUnchanged DEF WorkInv
  <1>9. ASSUME NEW p \in Drivers, CrashController(p)
        PROVE  WorkInv'
    BY <1>9, CrashKeeps, CrashActivation DEF WorkInv
  <1>10. ASSUME NEW d \in Dispatches, Decide(d)
         PROVE  WorkInv'
    <2>1. UNCHANGED activationVars
      BY <1>10 DEF Decide
    <2> QED BY <1>2, <1>10, <2>1, DecideKeeps DEF WorkInv
  <1> QED
    BY <1>1, <1>3, <1>4, <1>5, <1>6, <1>7, <1>8, <1>9, <1>10 DEF WorkNext, ControllerStep

\* The inductive invariant holds in every reachable state, whichever controllers
\* race, crash and start over between the two databases and the platform.
THEOREM WorkInvariance == WorkSpec => []WorkInv
  <1>1. WorkInit => WorkInv
    <2> SUFFICES ASSUME WorkInit
                 PROVE  WorkInv
      OBVIOUS
    <2>1. /\ bridge = [q \in Requests |-> None] /\ held = [p \in Drivers |-> None]
          /\ platform = [d \in Dispatches |-> "unasked"]
          /\ ActivationInit
      BY DEF WorkInit
    <2>2. ActivationInv
      BY <2>1 DEF ActivationInit, ActivationInv, ActivationTypeOK, JobsFollow, CallsAreAnnounced,
                  ResultsAreDurable, ResultsAreFinal
    <2>3. GroundedInv /\ AnswersTruthful
      BY <2>1 DEF ActivationInit, GroundedInv, JobsGrounded, CallsAreAvailable, RowsGrounded,
                  AnswersTruthful
    <2>4. Used = {}
      BY <2>1 DEF Used
    <2>5. BridgeInv
      BY <2>1, <2>4 DEF BridgeInv, WorkTypeOK, BudgetHolds, TopSlot, HeldFollows, RowsTruthful,
                        LaunchesAreReserved
    <2> QED BY <2>2, <2>3, <2>5 DEF WorkInv
  <1>2. WorkInv /\ [WorkNext]_workVars => WorkInv'
    BY WorkStep
  <1> QED BY <1>1, <1>2, PTL DEF WorkSpec

\* Requests that race for slots, or come back after a crash, hold different slots,
\* none beyond what its request allows (reserve).
THEOREM BudgetHoldsAlways == WorkSpec => []BudgetHolds
  <1>1. WorkInv => BudgetHolds
    BY DEF WorkInv, BridgeInv
  <1> QED BY <1>1, WorkInvariance, PTL

\* The platform is only asked to start Work for a request that has a durable slot.
THEOREM LaunchesAreReservedHolds == WorkSpec => []LaunchesAreReserved
  <1>1. WorkInv => LaunchesAreReserved
    BY DEF WorkInv, BridgeInv
  <1> QED BY <1>1, WorkInvariance, PTL

\* Every final outcome of a Work activation was observed for that very dispatch.
THEOREM WorkOutcomesAreGrounded == WorkSpec => []OutcomesAreGrounded
  <1>1. WorkInv => OutcomesAreGrounded
    BY GroundedOutcomes DEF WorkInv
  <1> QED BY <1>1, WorkInvariance, PTL

\* What the two databases say of a request came from the platform and agrees with
\* it, although they are written one after the other by controllers that race.
THEOREM StoresAgreeHolds == WorkSpec => []StoresAgree
  <1>1. ASSUME WorkInv
        PROVE  StoresAgree
    <2>1. ASSUME NEW d \in Dispatches, row[d] # None
          PROVE  /\ row[d].status = "executor_accepted" =>
                        platform[d] = "accepted" /\ row[d].obs.ref = d.workstream
                 /\ row[d].status = "failed_activation" => platform[d] = "failed"
      <3> SUFFICES ASSUME row[d].status \in {"executor_accepted", "failed_activation"}
                   PROVE  /\ row[d].status = "executor_accepted" =>
                                platform[d] = "accepted" /\ row[d].obs.ref = d.workstream
                          /\ row[d].status = "failed_activation" => platform[d] = "failed"
        OBVIOUS
      <3>1. Final(row[d]) /\ row[d].status # "condition_wait"
        BY DEF Final
      <3>2. [d |-> d, cap |-> row[d].cap, obs |-> row[d].obs] \in answers
        BY <1>1, <2>1, <3>1 DEF WorkInv, GroundedInv, RowsGrounded
      <3>3. TruthfulAnswer(d, row[d].obs)
        BY <1>1, <3>2 DEF WorkInv, AnswersTruthful
      <3>4. Consistent(row[d]) /\ row[d] \in States
        BY <1>1, <2>1 DEF WorkInv, ActivationInv, ActivationTypeOK
      <3>5. /\ row[d].obs \in Observations
            /\ row[d].status = ObservedStatus(row[d].obs.outcome)
        BY <3>4 DEF Consistent, States
      <3>6. row[d].obs.outcome \in Outcomes
        BY <3>5 DEF Observations
      <3> QED BY <3>3, <3>5, <3>6 DEF TruthfulAnswer, ObservedStatus, Outcomes
    <2>2. ASSUME NEW d \in Dispatches, bridge[d.workstream] # None, Admitted(d, Actor)
          PROVE  LET st == bridge[d.workstream]
                 IN  /\ st.status = "platform_accepted" =>
                            platform[d] = "accepted" /\ st.obs.ref = d.workstream
                     /\ st.status = "failed_activation" => platform[d] = "failed"
      <3>1. PICK q, st : q = d.workstream /\ st = bridge[q]
        OBVIOUS
      <3>2. q \in Requests /\ st \in BridgeRows
        BY <1>1, <2>2, <3>1, OrdersOfRequests DEF WorkInv, BridgeInv, WorkTypeOK
      <3> SUFFICES ASSUME Terminal(st)
                   PROVE  /\ st.status = "platform_accepted" => platform[d] = "accepted" /\ st.obs.ref = q
                          /\ st.status = "failed_activation" => platform[d] = "failed"
        BY <3>1 DEF Terminal
      <3>3. /\ st.obs # None /\ st.obs.d.workstream = q /\ Admitted(st.obs.d, Actor)
            /\ st.status = BridgeStatus(st.obs.outcome) /\ Truthful(st.obs)
        BY <1>1, <2>2, <3>1, <3>2 DEF WorkInv, BridgeInv, RowsTruthful
      <3>4. st.obs \in PlatformObservations /\ st.obs.d \in Dispatches
        BY <3>2, <3>3 DEF BridgeRows, PlatformObservations
      <3>5. st.obs.d = d
        BY <2>2, <3>1, <3>3, <3>4, OneAdmittedOrder
      <3>6. /\ st.status = "platform_accepted" => st.obs.outcome = "PLATFORM_ACCEPTED"
            /\ st.status = "failed_activation" => st.obs.outcome = "FAILED_ACTIVATION"
        BY <3>3, <3>4 DEF BridgeStatus, PlatformObservations
      <3> QED BY <3>1, <3>3, <3>5, <3>6 DEF Truthful
    <2> QED BY <2>1, <2>2 DEF StoresAgree
  <1> QED BY <1>1, WorkInvariance, PTL

\* A row of the bridge never leaves a terminal status, and keeps its slot.
THEOREM BridgeIsMonotoneHolds == WorkSpec => BridgeIsMonotone
  <1> DEFINE Monotone(q) == bridge[q] # None =>
        /\ bridge'[q] # None
        /\ bridge'[q].slot = bridge[q].slot
        /\ bridge'[q].waits >= bridge[q].waits
        /\ Terminal(bridge[q]) => bridge'[q] = bridge[q]
  <1>1. ASSUME WorkInv, [WorkNext]_workVars, NEW q \in Requests
        PROVE  Monotone(q)
    <2>a. bridge \in [Requests -> BridgeRows \union {None}]
      BY <1>1 DEF WorkInv, BridgeInv, WorkTypeOK
    <2>1. CASE bridge' = bridge
      <3>1. bridge[q] # None => bridge[q].waits \in Nat
        BY <2>a DEF BridgeRows
      <3> QED BY <2>1, <3>1
    <2>2. ASSUME NEW p \in Drivers, NEW r \in Requests, Reserve(p, r)
          PROVE  Monotone(q)
      <3>1. bridge[q] # None => bridge'[q] = bridge[q] /\ bridge[q].waits \in Nat
        BY <2>2, <2>a DEF Reserve, BridgeRows
      <3> QED BY <3>1
    <2>3. ASSUME NEW p \in Drivers, RecordObservation(p)
          PROVE  Monotone(q)
      <3> SUFFICES ASSUME bridge' # bridge
                   PROVE  Monotone(q)
        BY <2>1
      <3>1. /\ bridge[held[p].q] = held[p].st /\ ~Terminal(held[p].st)
            /\ bridge' = [bridge EXCEPT ![held[p].q] = Recorded(held[p].st, held[p].obs)]
        BY <2>3 DEF RecordObservation, Recordable
      <3>3. CASE q # held[p].q
        <4>1. bridge[q] # None => bridge'[q] = bridge[q] /\ bridge[q].waits \in Nat
          BY <2>a, <3>1, <3>3 DEF BridgeRows
        <4> QED BY <4>1
      <3>4. CASE q = held[p].q
        <4> SUFFICES ASSUME bridge[q] # None
                     PROVE  Monotone(q)
          OBVIOUS
        <4>1. PICK st, new : st = bridge[q] /\ new = Recorded(st, held[p].obs)
          OBVIOUS
        <4>2. bridge'[q] = new /\ ~Terminal(st) /\ st.waits \in Nat
          BY <2>a, <3>1, <3>4, <4>1 DEF BridgeRows
        <4>3. new.slot = st.slot /\ new.waits \in {st.waits, st.waits + 1}
          BY <4>1 DEF Recorded
        <4>4. bridge'[q] # None
          <5>1. held[p].st \in BridgeRows /\ held[p].obs \in PlatformObservations
            BY <1>1, <2>3 DEF WorkInv, BridgeInv, WorkTypeOK, Holds, RecordObservation, Recordable
          <5>2. new \in BridgeRows
            <6>1. BridgeStatus(held[p].obs.outcome) \in
                    {"platform_accepted", "platform_wait", "human_reauth_required", "failed_activation"}
              BY <5>1 DEF PlatformObservations, BridgeStatus
            <6> QED BY <3>1, <3>4, <4>1, <5>1, <6>1 DEF BridgeRows, Recorded
          <5> QED BY <4>2, <5>2, RowAssumption
        <4> QED BY <4>1, <4>2, <4>3, <4>4
      <3> QED BY <3>3, <3>4
    <2> QED
      BY <1>1, <2>1, <2>2, <2>3
         DEF workVars, bridgeVars, WorkNext, ControllerStep, HandOver, Bind, Ask, ActivationStep,
             CrashController, Decide
  <1>2. WorkInv /\ [WorkNext]_workVars => [\A q \in Requests : Monotone(q)]_workVars
    BY <1>1
  <1> QED BY <1>2, WorkInvariance, PTL DEF WorkSpec, BridgeIsMonotone
=============================================================================
