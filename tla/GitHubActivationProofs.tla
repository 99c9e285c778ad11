----------------------- MODULE GitHubActivationProofs -----------------------
(***************************************************************************)
(* For any drivers, orders, capabilities and hosts: the adapter is called  *)
(* only for the durable intent of a row that says so, and every result a   *)
(* caller is given is the durable row.                                     *)
(***************************************************************************)
EXTENDS GitHubActivation, TLAPS

\* A call in progress works on an earlier state of its row: same intent, begun if
\* the call thinks so, and it holds an observation only once it has begun.
Follows(r, call) ==
    /\ r # None
    /\ r.cap = call.st.cap
    /\ call.st \in {Prepared(call.st.cap), Unknown(call.st.cap)}
    /\ call.st.status = "activation_unknown" => r.status # "prepared"
    /\ call.obs # None => call.st.status = "activation_unknown"

JobsFollow == \A p \in Drivers : job[p] # None => Follows(row[job[p].d], job[p])

\* Results are final, and final rows do not change.
ResultsAreFinal == \A p \in Drivers : told[p] # None => Final(told[p].st)

ActivationInv ==
    /\ ActivationTypeOK
    /\ JobsFollow
    /\ CallsAreAnnounced
    /\ ResultsAreDurable
    /\ ResultsAreFinal

\* What a call has observed is its adapter's answer, or the wait that stands for an
\* executor that was declared unavailable; adapters are called for available ones.
JobsGrounded ==
    \A p \in Drivers :
        (job[p] # None /\ job[p].obs # None) =>
            IF job[p].st.cap.available
            THEN [d |-> job[p].d, cap |-> job[p].st.cap, obs |-> job[p].obs] \in answers
            ELSE job[p].obs = WaitObservation
CallsAreAvailable == \A a \in answers : a.cap.available

\* The part of the invariant about where outcomes come from.
RowsGrounded ==
    \A d \in Dispatches :
        (row[d] # None /\ Final(row[d])) =>
            IF row[d].cap.available
            THEN [d |-> d, cap |-> row[d].cap, obs |-> row[d].obs] \in answers
            ELSE row[d].status = "condition_wait"

GroundedInv == JobsGrounded /\ CallsAreAvailable /\ RowsGrounded

-----------------------------------------------------------------------------
(* States *)

\* The two states before an outcome.
LEMMA EarlyStates ==
    ASSUME NEW cap \in Capabilities
    PROVE  /\ Prepared(cap) \in States /\ Unknown(cap) \in States
           /\ Prepared(cap) # None /\ Unknown(cap) # None
           /\ Prepared(cap) # Unknown(cap)
           /\ Consistent(Prepared(cap)) /\ Consistent(Unknown(cap))
           /\ ~Final(Prepared(cap)) /\ ~Final(Unknown(cap))
  BY StateAssumption DEF Prepared, Unknown, States, Statuses, Consistent, Final

\* An observation makes a final state of the same intent.
LEMMA ObservedStates ==
    ASSUME NEW cap \in Capabilities, NEW obs \in Observations
    PROVE  /\ Observed(Unknown(cap), obs) \in States
           /\ Observed(Unknown(cap), obs) # None
           /\ Consistent(Observed(Unknown(cap), obs))
           /\ Final(Observed(Unknown(cap), obs))
           /\ Observed(Unknown(cap), obs).cap = cap
           /\ Observed(Unknown(cap), obs).status # "prepared"
  <1>1. ObservedStatus(obs.outcome) \in {"executor_accepted", "condition_wait", "failed_activation"}
    BY DEF ObservedStatus, Observations, Outcomes
  <1>2. obs # None
    BY StateAssumption
  <1>3. Observed(Unknown(cap), obs) \in States
    BY <1>1 DEF Observed, Unknown, States, Statuses
  <1> QED
    BY <1>1, <1>2, <1>3, StateAssumption DEF Observed, Unknown, Consistent, Final

\* The adapter's answers are observations.
LEMMA AnswersAreObservations ==
    ASSUME NEW host \in Hosts, NEW d \in Dispatches
    PROVE  GitHubAnswer(host, d) \in Observations
  BY AnswerAssumption DEF GitHubAnswer, Failed, Observations, Outcomes

LEMMA WaitIsObservation == WaitObservation \in Observations
  BY RefAssumption DEF WaitObservation, Observations, Outcomes

-----------------------------------------------------------------------------
(* Steps *)

\* Giving a call up leaves nothing behind.
LEMMA AbandonKeeps ==
    ASSUME ActivationInv, NEW p \in Drivers, Abandon(p)
    PROVE  ActivationInv'
  <1>1. ActivationTypeOK'
    BY DEF ActivationInv, ActivationTypeOK, Abandon
  <1>2. JobsFollow'
    BY DEF ActivationInv, ActivationTypeOK, JobsFollow, Abandon
  <1> QED
    BY <1>1, <1>2 DEF ActivationInv, Abandon, CallsAreAnnounced, ResultsAreDurable, ResultsAreFinal

\* Entering a call creates the row, joins it, or returns it.
LEMMA InitializeKeeps ==
    ASSUME ActivationInv, NEW p \in Drivers, NEW d \in Dispatches, NEW cap \in Capabilities,
           NEW answer \in Observations \union {None}, InitializeActivation(p, d, cap, answer)
    PROVE  ActivationInv'
  <1> DEFINE call(st) == [d |-> d, st |-> st, obs |-> None, answer |-> answer]
  <1> DEFINE result(st) == [d |-> d, st |-> st]
  <1>a. /\ row \in [Dispatches -> States \union {None}]
        /\ job \in [Drivers -> Jobs \union {None}]
        /\ told \in [Drivers -> Results \union {None}]
    BY DEF ActivationInv, ActivationTypeOK
  <1>b. answers' = answers
    BY DEF InitializeActivation
  <1>1. CASE row[d] = None
    <2>1. /\ row' = [row EXCEPT ![d] = Prepared(cap)]
          /\ job' = [job EXCEPT ![p] = call(Prepared(cap))]
          /\ told' = told
      BY <1>1, EarlyStates DEF InitializeActivation, Enter
    <2>2. call(Prepared(cap)) \in Jobs
      BY EarlyStates DEF Jobs
    <2>3. ActivationTypeOK'
      BY <1>a, <1>b, <2>1, <2>2, EarlyStates DEF ActivationInv, ActivationTypeOK
    <2>4. JobsFollow'
      <3> SUFFICES ASSUME NEW q \in Drivers, job'[q] # None
                   PROVE  Follows(row'[job'[q].d], job'[q])
        BY DEF JobsFollow
      <3>1. CASE q = p
        BY <1>a, <2>1, <3>1, EarlyStates DEF Prepared, Follows
      <3>2. CASE q # p
        <4>1. job'[q] = job[q] /\ job[q] \in Jobs
          BY <1>a, <2>1, <3>2
        <4>2. job[q].d # d
          BY <1>1, <4>1 DEF ActivationInv, JobsFollow, Follows
        <4>3. row'[job[q].d] = row[job[q].d]
          BY <1>a, <2>1, <4>1, <4>2 DEF Jobs
        <4> QED
          BY <4>1, <4>3 DEF ActivationInv, JobsFollow
      <3> QED BY <3>1, <3>2
    <2>5. CallsAreAnnounced'
      BY <1>1, <1>a, <1>b, <2>1 DEF ActivationInv, ActivationTypeOK, CallsAreAnnounced
    <2>6. ResultsAreDurable' /\ ResultsAreFinal'
      <3> SUFFICES ASSUME NEW q \in Drivers, told[q] # None
                   PROVE  row'[told[q].d] = told[q].st /\ Final(told[q].st)
        BY <2>1 DEF ResultsAreDurable, ResultsAreFinal
      <3>1. told[q].d \in Dispatches /\ told[q].st \in States
        BY <1>a DEF Results
      <3>2. row[told[q].d] = told[q].st /\ Final(told[q].st)
        BY DEF ActivationInv, ResultsAreDurable, ResultsAreFinal
      <3>3. told[q].d # d
        BY <1>1, <3>1, <3>2, StateAssumption
      <3> QED
        BY <1>a, <2>1, <3>1, <3>2, <3>3
    <2> QED
      BY <2>3, <2>4, <2>5, <2>6 DEF ActivationInv
  <1>2. CASE row[d] # None /\ Final(row[d])
    <2>1. /\ row' = row
          /\ job' = job
          /\ told' = [told EXCEPT ![p] = result(row[d])]
      BY <1>2 DEF InitializeActivation, Enter
    <2>2. result(row[d]) \in Results
      BY <1>2, <1>a DEF Results
    <2>3. ActivationTypeOK'
      BY <1>a, <1>b, <2>1, <2>2 DEF ActivationInv, ActivationTypeOK
    <2>4. JobsFollow' /\ CallsAreAnnounced'
      BY <1>b, <2>1 DEF ActivationInv, JobsFollow, CallsAreAnnounced
    <2>5. ResultsAreDurable' /\ ResultsAreFinal'
      BY <1>2, <1>a, <2>1 DEF ActivationInv, ResultsAreDurable, ResultsAreFinal
    <2> QED
      BY <2>3, <2>4, <2>5 DEF ActivationInv
  <1>3. CASE row[d] # None /\ ~Final(row[d])
    <2>1. /\ row' = row
          /\ job' = [job EXCEPT ![p] = call(row[d])]
          /\ told' = told
          /\ row[d].cap = cap
      BY <1>3 DEF InitializeActivation, Enter
    <2>2. row[d] \in States /\ Consistent(row[d])
      BY <1>3, <1>a DEF ActivationInv, ActivationTypeOK
    <2>3. row[d] \in {Prepared(cap), Unknown(cap)}
      <3>1. row[d].obs = None
        BY <1>3, <2>2 DEF Consistent, Final, ObservedStatus
      <3>2. row[d].status \in {"prepared", "activation_unknown"}
        BY <2>2, <3>1 DEF Consistent
      <3>3. row[d] = [cap |-> row[d].cap, status |-> row[d].status, obs |-> row[d].obs]
        BY <2>2 DEF States
      <3> QED
        BY <2>1, <3>1, <3>2, <3>3 DEF Prepared, Unknown
    <2>4. call(row[d]) \in Jobs
      BY <2>2 DEF Jobs
    <2>5. ActivationTypeOK'
      BY <1>a, <1>b, <2>1, <2>4 DEF ActivationInv, ActivationTypeOK
    <2>6. JobsFollow'
      <3> SUFFICES ASSUME NEW q \in Drivers, job'[q] # None
                   PROVE  Follows(row[job'[q].d], job'[q])
        BY <2>1 DEF JobsFollow
      <3>1. CASE q = p
        BY <1>3, <1>a, <2>1, <2>3, <3>1 DEF Follows
      <3>2. CASE q # p
        BY <1>a, <2>1, <3>2 DEF ActivationInv, JobsFollow
      <3> QED BY <3>1, <3>2
    <2> QED
      BY <1>b, <2>1, <2>5, <2>6
         DEF ActivationInv, CallsAreAnnounced, ResultsAreDurable, ResultsAreFinal
  <1> QED BY <1>1, <1>2, <1>3

\* A write of a state of the same intent, beyond prepared, over a row that is not
\* final disturbs nothing but the call that makes it.
LEMMA AdvanceKeeps ==
    ASSUME ActivationInv, NEW d \in Dispatches, NEW st \in States,
           row[d] # None, ~Final(row[d]), st.cap = row[d].cap, st.status # "prepared",
           Consistent(st), row' = [row EXCEPT ![d] = st]
    PROVE  /\ row' \in [Dispatches -> States \union {None}]
           /\ \A e \in Dispatches : row'[e] # None => Consistent(row'[e])
           /\ \A q \in Drivers : job[q] # None =>
                Follows(row'[job[q].d], job[q])
           /\ \A a \in answers :
                row'[a.d] # None /\ row'[a.d].status # "prepared" /\ row'[a.d].cap = a.cap
           /\ \A q \in Drivers : told[q] # None => row'[told[q].d] = told[q].st
  <1>a. /\ row \in [Dispatches -> States \union {None}]
        /\ job \in [Drivers -> Jobs \union {None}]
        /\ told \in [Drivers -> Results \union {None}]
        /\ answers \subseteq [d: Dispatches, cap: Capabilities, obs: Observations]
        /\ \A e \in Dispatches : row[e] # None => Consistent(row[e])
    BY DEF ActivationInv, ActivationTypeOK
  <1>b. st # None
    BY StateAssumption
  <1>1. /\ row' \in [Dispatches -> States \union {None}]
        /\ \A e \in Dispatches : row'[e] # None => Consistent(row'[e])
    BY <1>a
  <1>2. ASSUME NEW q \in Drivers, job[q] # None
        PROVE  Follows(row'[job[q].d], job[q])
    <2>1. job[q].d \in Dispatches
      BY <1>a, <1>2 DEF Jobs
    <2> QED
      BY <1>a, <1>b, <1>2, <2>1 DEF ActivationInv, JobsFollow, Follows
  <1>3. ASSUME NEW a \in answers
        PROVE  row'[a.d] # None /\ row'[a.d].status # "prepared" /\ row'[a.d].cap = a.cap
    <2>1. a.d \in Dispatches
      BY <1>a
    <2> QED
      BY <1>a, <1>b, <2>1 DEF ActivationInv, CallsAreAnnounced
  <1>4. ASSUME NEW q \in Drivers, told[q] # None
        PROVE  row'[told[q].d] = told[q].st
    <2>1. told[q].d \in Dispatches
      BY <1>a, <1>4 DEF Results
    <2>2. row[told[q].d] = told[q].st /\ Final(told[q].st)
      BY <1>4 DEF ActivationInv, ResultsAreDurable, ResultsAreFinal
    <2> QED
      BY <1>a, <2>1, <2>2
  <1> QED BY <1>1, <1>2, <1>3, <1>4

\* Beginning an activation.
LEMMA BeginKeeps ==
    ASSUME ActivationInv, NEW p \in Drivers, BeginActivation(p)
    PROVE  ActivationInv'
  <1> DEFINE d == job[p].d
             cap == job[p].st.cap
  <1>a. job \in [Drivers -> Jobs \union {None}] /\ job[p] \in Jobs /\ job[p] # None
    BY DEF ActivationInv, ActivationTypeOK, BeginActivation
  <1>b. d \in Dispatches /\ cap \in Capabilities
    BY <1>a DEF Jobs, States
  <1>1. CASE row[d] # job[p].st
    BY <1>1, AbandonKeeps DEF BeginActivation
  <1>2. CASE row[d] = job[p].st
    <2>1. /\ row' = [row EXCEPT ![d] = Unknown(cap)]
          /\ job' = [job EXCEPT ![p].st = Unknown(cap)]
          /\ told' = told /\ answers' = answers
      BY <1>2 DEF BeginActivation
    <2>2. job[p].st = Prepared(cap) /\ job[p].obs = None
      <3>1. job[p].st \in {Prepared(cap), Unknown(cap)}
        BY <1>a DEF ActivationInv, JobsFollow, Follows
      <3>2. job[p].st.status = "prepared"
        BY DEF BeginActivation
      <3>3. job[p].obs = None
        BY <1>a, <3>2 DEF ActivationInv, JobsFollow, Follows
      <3> QED BY <3>1, <3>2, <3>3 DEF Unknown
    <2>3. /\ row[d] # None /\ ~Final(row[d]) /\ row[d].cap = cap
          /\ Unknown(cap) \in States /\ Consistent(Unknown(cap)) /\ Unknown(cap) # None
          /\ Unknown(cap).cap = cap /\ Unknown(cap).status = "activation_unknown"
      BY <1>2, <1>b, <2>2, EarlyStates DEF Unknown, Prepared
    <2>4. /\ row' \in [Dispatches -> States \union {None}]
          /\ \A e \in Dispatches : row'[e] # None => Consistent(row'[e])
          /\ \A q \in Drivers : job[q] # None =>
                Follows(row'[job[q].d], job[q])
          /\ \A a \in answers :
                row'[a.d] # None /\ row'[a.d].status # "prepared" /\ row'[a.d].cap = a.cap
          /\ \A q \in Drivers : told[q] # None => row'[told[q].d] = told[q].st
      BY <1>b, <2>1, <2>3, AdvanceKeeps
    <2>5. [job[p] EXCEPT !.st = Unknown(cap)] \in Jobs
      BY <1>a, <2>3 DEF Jobs
    <2>6. job' = [job EXCEPT ![p] = [job[p] EXCEPT !.st = Unknown(cap)]]
      BY <2>1
    <2>7. ActivationTypeOK'
      BY <1>a, <2>1, <2>4, <2>5, <2>6 DEF ActivationInv, ActivationTypeOK
    <2>8. JobsFollow'
      <3> SUFFICES ASSUME NEW q \in Drivers, job'[q] # None
                   PROVE  Follows(row'[job'[q].d], job'[q])
        BY DEF JobsFollow
      <3>1. CASE q = p
        <4>1. /\ job'[p].d = d /\ job'[p].st = Unknown(cap) /\ job'[p].obs = None
          BY <1>a, <2>2, <2>6 DEF Jobs
        <4>2. row'[d] = Unknown(cap)
          BY <1>b, <2>1 DEF ActivationInv, ActivationTypeOK
        <4> QED BY <3>1, <4>1, <4>2, <2>3 DEF Follows
      <3>2. CASE q # p
        BY <1>a, <2>4, <2>6, <3>2
      <3> QED BY <3>1, <3>2
    <2> QED
      BY <2>1, <2>4, <2>7, <2>8
         DEF ActivationInv, CallsAreAnnounced, ResultsAreDurable, ResultsAreFinal
  <1> QED BY <1>1, <1>2

\* Calling the adapter.
LEMMA ActivateKeeps ==
    ASSUME ActivationInv, NEW p \in Drivers, Activate(p)
    PROVE  ActivationInv'
  <1>a. job \in [Drivers -> Jobs \union {None}] /\ job[p] \in Jobs /\ job[p] # None
    BY DEF ActivationInv, ActivationTypeOK, Activate
  <1>1. CASE job[p].st.cap.available /\ job[p].answer = None
    BY <1>1, AbandonKeeps DEF Activate
  <1>2. CASE ~(job[p].st.cap.available /\ job[p].answer = None)
    <2>1. PICK o \in Observations :
            /\ job' = [job EXCEPT ![p].obs = o]
            /\ row' = row /\ told' = told
            /\ \/ answers' = answers
               \/ answers' = answers \union {[d |-> job[p].d, cap |-> job[p].st.cap, obs |-> o]}
      <3>1. CASE ~job[p].st.cap.available
        BY <3>1, WaitIsObservation DEF Activate
      <3>2. CASE job[p].st.cap.available
        <4>1. job[p].answer \in Observations
          BY <1>a, <1>2, <3>2 DEF Jobs
        <4> QED BY <1>2, <3>2, <4>1 DEF Activate
      <3> QED BY <3>1, <3>2
    <2>2. job' = [job EXCEPT ![p] = [job[p] EXCEPT !.obs = o]] /\ [job[p] EXCEPT !.obs = o] \in Jobs
      BY <1>a, <2>1 DEF Jobs
    <2>3. /\ job[p].d \in Dispatches /\ job[p].st.cap \in Capabilities
          /\ job[p].st.status = "activation_unknown"
      BY <1>a DEF Jobs, States, Activate
    <2>4. ActivationTypeOK'
      BY <1>a, <2>1, <2>2, <2>3 DEF ActivationInv, ActivationTypeOK
    <2>5. JobsFollow'
      <3> SUFFICES ASSUME NEW q \in Drivers, job'[q] # None
                   PROVE  Follows(row[job'[q].d], job'[q])
        BY <2>1 DEF JobsFollow
      <3>1. CASE q = p
        <4>1. job'[p].d = job[p].d /\ job'[p].st = job[p].st
          BY <1>a, <2>2 DEF Jobs
        <4> QED BY <1>a, <2>3, <3>1, <4>1 DEF ActivationInv, JobsFollow, Follows
      <3>2. CASE q # p
        BY <1>a, <2>2, <3>2 DEF ActivationInv, JobsFollow
      <3> QED BY <3>1, <3>2
    <2>6. CallsAreAnnounced'
      BY <1>a, <2>1, <2>3 DEF ActivationInv, CallsAreAnnounced, JobsFollow, Follows
    <2> QED
      BY <2>1, <2>4, <2>5, <2>6 DEF ActivationInv, ResultsAreDurable, ResultsAreFinal
  <1> QED BY <1>1, <1>2

\* Storing the observation.
LEMMA CommitKeeps ==
    ASSUME ActivationInv, NEW p \in Drivers, CommitObservation(p)
    PROVE  ActivationInv'
  <1> DEFINE d == job[p].d
             cap == job[p].st.cap
             observed == Observed(job[p].st, job[p].obs)
  <1>a. /\ job \in [Drivers -> Jobs \union {None}] /\ job[p] \in Jobs /\ job[p] # None
        /\ told \in [Drivers -> Results \union {None}]
    BY DEF ActivationInv, ActivationTypeOK, CommitObservation
  <1>b. d \in Dispatches /\ cap \in Capabilities /\ job[p].obs \in Observations
    BY <1>a DEF Jobs, States, CommitObservation
  <1>c. job[p].st = Unknown(cap) /\ row[d].cap = cap
    BY <1>a DEF ActivationInv, JobsFollow, Follows, Prepared, CommitObservation
  <1>d. /\ observed \in States /\ observed # None /\ Consistent(observed) /\ Final(observed)
        /\ observed.cap = cap /\ observed.status # "prepared"
    BY <1>b, <1>c, ObservedStates
  <1>1. CASE row[d] \notin {job[p].st, observed}
    BY <1>1, AbandonKeeps DEF CommitObservation
  <1>2. CASE row[d] \in {job[p].st, observed}
    <2>1. /\ row' = [row EXCEPT ![d] = observed]
          /\ told' = [told EXCEPT ![p] = [d |-> d, st |-> observed]]
          /\ job' = [job EXCEPT ![p] = None]
          /\ answers' = answers
      BY <1>2 DEF CommitObservation
    <2>2. row \in [Dispatches -> States \union {None}] /\ row'[d] = observed
      BY <1>b, <2>1 DEF ActivationInv, ActivationTypeOK
    <2>3. /\ row' \in [Dispatches -> States \union {None}]
          /\ \A e \in Dispatches : row'[e] # None => Consistent(row'[e])
          /\ \A q \in Drivers : job[q] # None => Follows(row'[job[q].d], job[q])
          /\ \A a \in answers :
                row'[a.d] # None /\ row'[a.d].status # "prepared" /\ row'[a.d].cap = a.cap
          /\ \A q \in Drivers : told[q] # None => row'[told[q].d] = told[q].st
      <3>1. CASE row[d] = job[p].st
        <4>1. row[d] # None /\ ~Final(row[d])
          BY <1>b, <1>c, <3>1, EarlyStates
        <4> QED
          BY <1>b, <1>c, <1>d, <2>1, <4>1, AdvanceKeeps
      <3>2. CASE row[d] = observed
        <4>1. row' = row
          BY <2>1, <2>2, <3>2
        <4> QED
          BY <4>1 DEF ActivationInv, ActivationTypeOK, JobsFollow, CallsAreAnnounced, ResultsAreDurable
      <3> QED BY <1>2, <3>1, <3>2
    <2>4. [d |-> d, st |-> observed] \in Results
      BY <1>b, <1>d DEF Results
    <2>5. ActivationTypeOK'
      BY <1>a, <2>1, <2>3, <2>4 DEF ActivationInv, ActivationTypeOK
    <2>6. JobsFollow' /\ CallsAreAnnounced'
      BY <1>a, <2>1, <2>3 DEF JobsFollow, CallsAreAnnounced
    <2>7. ResultsAreDurable' /\ ResultsAreFinal'
      BY <1>a, <1>d, <2>1, <2>2, <2>3 DEF ActivationInv, ResultsAreDurable, ResultsAreFinal
    <2> QED
      BY <2>5, <2>6, <2>7 DEF ActivationInv
  <1> QED BY <1>1, <1>2

-----------------------------------------------------------------------------
(* Where outcomes come from *)

\* A row whose capability is not available has no calls.
LEMMA GroundedOutcomes ==
    ASSUME ActivationInv, GroundedInv
    PROVE  OutcomesAreGrounded
  <1> SUFFICES ASSUME NEW d \in Dispatches, row[d] # None, Final(row[d]), ~row[d].cap.available,
                      NEW a \in answers
               PROVE  a.d # d
    BY DEF GroundedInv, RowsGrounded, OutcomesAreGrounded
  <1>1. row[a.d].cap = a.cap
    BY DEF ActivationInv, CallsAreAnnounced
  <1> QED
    BY <1>1 DEF GroundedInv, CallsAreAvailable

\* Giving a call up.
LEMMA AbandonGrounded ==
    ASSUME ActivationInv, GroundedInv, NEW p \in Drivers, Abandon(p)
    PROVE  GroundedInv'
  <1>a. job \in [Drivers -> Jobs \union {None}]
    BY DEF ActivationInv, ActivationTypeOK
  <1>b. job' = [job EXCEPT ![p] = None] /\ row' = row /\ answers' = answers
    BY DEF Abandon
  <1>1. JobsGrounded'
    <2> SUFFICES ASSUME NEW q \in Drivers, job'[q] # None, job'[q].obs # None
                 PROVE  IF job'[q].st.cap.available
                        THEN [d |-> job'[q].d, cap |-> job'[q].st.cap, obs |-> job'[q].obs] \in answers
                        ELSE job'[q].obs = WaitObservation
      BY <1>b DEF JobsGrounded
    <2>1. job'[q] = job[q]
      BY <1>a, <1>b
    <2> QED
      BY <2>1 DEF GroundedInv, JobsGrounded
  <1> QED
    BY <1>1, <1>b DEF GroundedInv, CallsAreAvailable, RowsGrounded

\* Entering a call observes nothing.
LEMMA InitializeGrounded ==
    ASSUME ActivationInv, GroundedInv, NEW p \in Drivers, NEW d \in Dispatches,
           NEW cap \in Capabilities, NEW answer, InitializeActivation(p, d, cap, answer)
    PROVE  GroundedInv'
  <1>a. /\ row \in [Dispatches -> States \union {None}]
        /\ job \in [Drivers -> Jobs \union {None}]
    BY DEF ActivationInv, ActivationTypeOK
  <1>b. answers' = answers
    BY DEF InitializeActivation
  <1>c. PICK call : /\ call.obs = None
                    /\ job' = job \/ job' = [job EXCEPT ![p] = call]
    <2>1. ASSUME NEW st, Enter(p, d, st, answer)
          PROVE  job' = job \/ job' = [job EXCEPT ![p] = [d |-> d, st |-> st, obs |-> None, answer |-> answer]]
      BY <2>1 DEF Enter
    <2>2. \E st : Enter(p, d, st, answer)
      BY DEF InitializeActivation
    <2>3. \A st : [d |-> d, st |-> st, obs |-> None, answer |-> answer].obs = None
      OBVIOUS
    <2> QED BY <2>1, <2>2, <2>3
  <1>d. row' = row \/ row' = [row EXCEPT ![d] = Prepared(cap)]
    BY DEF InitializeActivation
  <1>1. JobsGrounded'
    <2> SUFFICES ASSUME NEW q \in Drivers, job'[q] # None, job'[q].obs # None
                 PROVE  IF job'[q].st.cap.available
                        THEN [d |-> job'[q].d, cap |-> job'[q].st.cap, obs |-> job'[q].obs] \in answers
                        ELSE job'[q].obs = WaitObservation
      BY <1>b DEF JobsGrounded
    <2>1. job'[q] = job[q]
      BY <1>a, <1>c
    <2> QED
      BY <2>1 DEF GroundedInv, JobsGrounded
  <1>2. RowsGrounded'
    <2> SUFFICES ASSUME NEW e \in Dispatches, row'[e] # None, Final(row'[e])
                 PROVE  IF row'[e].cap.available
                        THEN [d |-> e, cap |-> row'[e].cap, obs |-> row'[e].obs] \in answers
                        ELSE row'[e].status = "condition_wait"
      BY <1>b DEF RowsGrounded
    <2>1. row'[e] = row[e]
      BY <1>a, <1>d, EarlyStates
    <2> QED
      BY <2>1 DEF GroundedInv, RowsGrounded
  <1> QED
    BY <1>1, <1>2, <1>b DEF GroundedInv, CallsAreAvailable

\* Beginning an activation observes nothing.
LEMMA BeginGrounded ==
    ASSUME ActivationInv, GroundedInv, NEW p \in Drivers, BeginActivation(p)
    PROVE  GroundedInv'
  <1>a. /\ row \in [Dispatches -> States \union {None}]
        /\ job \in [Drivers -> Jobs \union {None}] /\ job[p] \in Jobs /\ job[p] # None
    BY DEF ActivationInv, ActivationTypeOK, BeginActivation
  <1>b. job[p].d \in Dispatches /\ job[p].st.cap \in Capabilities
    BY <1>a DEF Jobs, States
  <1>1. CASE row[job[p].d] # job[p].st
    BY <1>1, AbandonGrounded DEF BeginActivation
  <1>2. CASE row[job[p].d] = job[p].st
    <2>1. /\ row' = [row EXCEPT ![job[p].d] = Unknown(job[p].st.cap)]
          /\ job' = [job EXCEPT ![p] = [job[p] EXCEPT !.st = Unknown(job[p].st.cap)]]
          /\ answers' = answers
      BY <1>2 DEF BeginActivation
    <2>2. job[p].obs = None
      BY <1>a DEF BeginActivation, ActivationInv, JobsFollow, Follows
    <2>3. JobsGrounded'
      <3> SUFFICES ASSUME NEW q \in Drivers, job'[q] # None, job'[q].obs # None
                   PROVE  IF job'[q].st.cap.available
                          THEN [d |-> job'[q].d, cap |-> job'[q].st.cap, obs |-> job'[q].obs] \in answers
                          ELSE job'[q].obs = WaitObservation
        BY <2>1 DEF JobsGrounded
      <3>1. job'[q] = job[q]
        BY <1>a, <2>1, <2>2 DEF Jobs
      <3> QED
        BY <3>1 DEF GroundedInv, JobsGrounded
    <2>4. RowsGrounded'
      <3> SUFFICES ASSUME NEW e \in Dispatches, row'[e] # None, Final(row'[e])
                   PROVE  IF row'[e].cap.available
                          THEN [d |-> e, cap |-> row'[e].cap, obs |-> row'[e].obs] \in answers
                          ELSE row'[e].status = "condition_wait"
        BY <2>1 DEF RowsGrounded
      <3>1. row'[e] = row[e]
        BY <1>a, <1>b, <2>1, EarlyStates
      <3> QED
        BY <3>1 DEF GroundedInv, RowsGrounded
    <2> QED
      BY <2>1, <2>3, <2>4 DEF GroundedInv, CallsAreAvailable
  <1> QED BY <1>1, <1>2

\* Calling the adapter: the answer is noted with the call that made it.
LEMMA ActivateGrounded ==
    ASSUME ActivationInv, GroundedInv, NEW p \in Drivers, Activate(p)
    PROVE  GroundedInv'
  <1>a. job \in [Drivers -> Jobs \union {None}] /\ job[p] \in Jobs /\ job[p] # None
    BY DEF ActivationInv, ActivationTypeOK, Activate
  <1>1. CASE job[p].st.cap.available /\ job[p].answer = None
    BY <1>1, AbandonGrounded DEF Activate
  <1>2. CASE ~(job[p].st.cap.available /\ job[p].answer = None)
    <2>1. PICK o : /\ job' = [job EXCEPT ![p] = [job[p] EXCEPT !.obs = o]]
                   /\ row' = row
                   /\ \/ /\ ~job[p].st.cap.available
                         /\ o = WaitObservation /\ answers' = answers
                      \/ /\ job[p].st.cap.available
                         /\ answers' = answers \union
                                {[d |-> job[p].d, cap |-> job[p].st.cap, obs |-> o]}
      BY <1>2 DEF Activate
    <2>2. /\ [job[p] EXCEPT !.obs = o].d = job[p].d
          /\ [job[p] EXCEPT !.obs = o].st = job[p].st
          /\ [job[p] EXCEPT !.obs = o].obs = o
      BY <1>a DEF Jobs
    <2>3. JobsGrounded'
      <3> SUFFICES ASSUME NEW q \in Drivers, job'[q] # None, job'[q].obs # None
                   PROVE  IF job'[q].st.cap.available
                          THEN [d |-> job'[q].d, cap |-> job'[q].st.cap, obs |-> job'[q].obs] \in answers'
                          ELSE job'[q].obs = WaitObservation
        BY DEF JobsGrounded
      <3>1. CASE q = p
        <4>1. job'[q].d = job[p].d /\ job'[q].st = job[p].st /\ job'[q].obs = o
          BY <1>a, <2>1, <2>2, <3>1
        <4> QED
          BY <2>1, <4>1
      <3>2. CASE q # p
        <4>1. job'[q] = job[q]
          BY <1>a, <2>1, <3>2
        <4>2. IF job[q].st.cap.available
              THEN [d |-> job[q].d, cap |-> job[q].st.cap, obs |-> job[q].obs] \in answers
              ELSE job[q].obs = WaitObservation
          BY <4>1 DEF GroundedInv, JobsGrounded
        <4> QED
          BY <2>1, <4>1, <4>2
      <3> QED BY <3>1, <3>2
    <2>4. CallsAreAvailable'
      BY <2>1 DEF GroundedInv, CallsAreAvailable
    <2>5. RowsGrounded'
      BY <2>1 DEF GroundedInv, RowsGrounded
    <2> QED
      BY <2>3, <2>4, <2>5 DEF GroundedInv
  <1> QED BY <1>1, <1>2

\* Storing the observation.
LEMMA CommitGrounded ==
    ASSUME ActivationInv, GroundedInv, NEW p \in Drivers, CommitObservation(p)
    PROVE  GroundedInv'
  <1> DEFINE observed == Observed(job[p].st, job[p].obs)
  <1>a. /\ row \in [Dispatches -> States \union {None}]
        /\ job \in [Drivers -> Jobs \union {None}] /\ job[p] \in Jobs /\ job[p] # None
        /\ job[p].obs # None /\ job[p].d \in Dispatches
    BY DEF ActivationInv, ActivationTypeOK, CommitObservation, Jobs
  <1>1. CASE row[job[p].d] \notin {job[p].st, observed}
    BY <1>1, AbandonGrounded DEF CommitObservation
  <1>2. CASE row[job[p].d] \in {job[p].st, observed}
    <2>1. /\ row' = [row EXCEPT ![job[p].d] = observed]
          /\ job' = [job EXCEPT ![p] = None]
          /\ answers' = answers
      BY <1>2 DEF CommitObservation
    <2>2. /\ observed.cap = job[p].st.cap /\ observed.obs = job[p].obs
          /\ observed.status = ObservedStatus(job[p].obs.outcome)
      BY DEF Observed
    <2>3. JobsGrounded'
      <3> SUFFICES ASSUME NEW q \in Drivers, job'[q] # None, job'[q].obs # None
                   PROVE  IF job'[q].st.cap.available
                          THEN [d |-> job'[q].d, cap |-> job'[q].st.cap, obs |-> job'[q].obs] \in answers
                          ELSE job'[q].obs = WaitObservation
        BY <2>1 DEF JobsGrounded
      <3>1. job'[q] = job[q]
        BY <1>a, <2>1
      <3> QED
        BY <3>1 DEF GroundedInv, JobsGrounded
    <2>4. RowsGrounded'
      <3> SUFFICES ASSUME NEW e \in Dispatches, row'[e] # None, Final(row'[e])
                   PROVE  IF row'[e].cap.available
                          THEN [d |-> e, cap |-> row'[e].cap, obs |-> row'[e].obs] \in answers
                          ELSE row'[e].status = "condition_wait"
        BY <2>1 DEF RowsGrounded
      <3>1. CASE e = job[p].d
        <4>1. row'[e] = observed
          BY <1>a, <2>1, <3>1
        <4>2. IF job[p].st.cap.available
              THEN [d |-> e, cap |-> job[p].st.cap, obs |-> job[p].obs] \in answers
              ELSE job[p].obs = WaitObservation
          BY <1>a, <3>1 DEF GroundedInv, JobsGrounded
        <4>3. ObservedStatus(WaitObservation.outcome) = "condition_wait"
          BY DEF ObservedStatus, WaitObservation
        <4> QED
          BY <2>2, <4>1, <4>2, <4>3
      <3>2. CASE e # job[p].d
        <4>1. row'[e] = row[e]
          BY <1>a, <2>1, <3>2
        <4> QED
          BY <4>1 DEF GroundedInv, RowsGrounded
      <3> QED BY <3>1, <3>2
    <2> QED
      BY <2>1, <2>3, <2>4 DEF GroundedInv, CallsAreAvailable
  <1> QED BY <1>1, <1>2

-----------------------------------------------------------------------------
(* Theorems *)

\* The inductive invariant holds in every reachable state, whoever races, replays
\* and crashes in activate_or_reconcile_executor.
THEOREM ActivationInvariance == Spec => []ActivationInv
  <1>1. ActivationInit => ActivationInv
    BY DEF ActivationInit, ActivationInv, ActivationTypeOK, JobsFollow, CallsAreAnnounced,
           ResultsAreDurable, ResultsAreFinal
  <1>2. ActivationInv /\ [Next]_activationVars => ActivationInv'
    <2> SUFFICES ASSUME ActivationInv, [Next]_activationVars
                 PROVE  ActivationInv'
      OBVIOUS
    <2>1. CASE UNCHANGED activationVars
      BY <2>1 DEF activationVars, ActivationInv, ActivationTypeOK, JobsFollow, CallsAreAnnounced,
                  ResultsAreDurable, ResultsAreFinal
    <2>2. ASSUME NEW p \in Drivers, NEW d \in Dispatches, NEW cap \in Capabilities, Call(p, d, cap)
          PROVE  ActivationInv'
      <3>1. PICK host \in Hosts :
              InitializeActivation(p, d, cap, GitHubAnswer(host, d))
        BY <2>2 DEF Call
      <3> QED
        BY <3>1, AnswersAreObservations, InitializeKeeps
    <2>3. ASSUME NEW p \in Drivers, DriverStep(p) \/ Abandon(p)
          PROVE  ActivationInv'
      BY <2>3, BeginKeeps, ActivateKeeps, CommitKeeps, AbandonKeeps DEF DriverStep
    <2> QED
      BY <2>1, <2>2, <2>3 DEF Next
  <1> QED
    BY <1>1, <1>2, PTL DEF Spec

\* Type correctness of the activation store.
THEOREM ActivationTypeCorrect == Spec => []ActivationTypeOK
  <1>1. ActivationInv => ActivationTypeOK
    BY DEF ActivationInv
  <1> QED BY <1>1, ActivationInvariance, PTL

\* The adapter is only called once the durable row shows that it may have been, for
\* that row's intent.
THEOREM CallsAreAnnouncedHolds == Spec => []CallsAreAnnounced
  <1>1. ActivationInv => CallsAreAnnounced
    BY DEF ActivationInv
  <1> QED BY <1>1, ActivationInvariance, PTL

\* Every result a caller is given is the durable row, and stays so.
THEOREM ResultsAreDurableHolds == Spec => []ResultsAreDurable
  <1>1. ActivationInv => ResultsAreDurable
    BY DEF ActivationInv
  <1> QED BY <1>1, ActivationInvariance, PTL

\* Every final outcome was observed: an adapter gave it, for this dispatch and this
\* intent, or the executor was declared unavailable and no adapter was ever called.
THEOREM OutcomesAreGroundedHolds == Spec => []OutcomesAreGrounded
  <1>1. ActivationInit => GroundedInv
    BY DEF ActivationInit, GroundedInv, JobsGrounded, CallsAreAvailable, RowsGrounded
  <1>2. ActivationInv /\ GroundedInv /\ [Next]_activationVars => GroundedInv'
    <2> SUFFICES ASSUME ActivationInv, GroundedInv, [Next]_activationVars
                 PROVE  GroundedInv'
      OBVIOUS
    <2>1. CASE UNCHANGED activationVars
      BY <2>1 DEF activationVars, GroundedInv, JobsGrounded, CallsAreAvailable, RowsGrounded
    <2>2. ASSUME NEW p \in Drivers, NEW d \in Dispatches, NEW cap \in Capabilities, Call(p, d, cap)
          PROVE  GroundedInv'
      BY <2>2, InitializeGrounded DEF Call
    <2>3. ASSUME NEW p \in Drivers, DriverStep(p) \/ Abandon(p)
          PROVE  GroundedInv'
      BY <2>3, BeginGrounded, ActivateGrounded, CommitGrounded, AbandonGrounded DEF DriverStep
    <2> QED
      BY <2>1, <2>2, <2>3 DEF Next
  <1>3. Spec => []GroundedInv
    BY <1>1, <1>2, ActivationInvariance, PTL DEF Spec
  <1>4. ActivationInv /\ GroundedInv => OutcomesAreGrounded
    BY GroundedOutcomes
  <1> QED BY <1>3, <1>4, ActivationInvariance, PTL
=============================================================================
