----------------------- MODULE PortfolioRuntimeProofs -----------------------
(***************************************************************************)
(* Proofs about PortfolioRuntime, for any hosts, works, identities,        *)
(* evidence, policy the code accepts, and bounds.                          *)
(*                                                                         *)
(* A digest stands for all bodies so far, so two states with one digest    *)
(* are one state (DigestInjective): a commit that compares digests         *)
(* advances exactly the state its transition was computed from.  The rest  *)
(* is a chain: checkpoint i binds the first i + 1 bodies and was made for  *)
(* a tick that expected the first i.                                       *)
(***************************************************************************)
EXTENDS PortfolioRuntime, TLAPS

-----------------------------------------------------------------------------
(* Digests *)

\* The generation of a state is the length of the chain behind it.
Grown(s) == s \in States /\ WellFormed(s) /\ s.generation = Len(s.previous)

LEMMA DigestFacts ==
    ASSUME NEW s \in States
    PROVE  /\ Digest(s) \in Digests
           /\ Len(Digest(s)) = Len(s.previous) + 1
           /\ Body(s) \in Bodies
           /\ Digest(s)[Len(s.previous) + 1] = Body(s)
           /\ SubSeq(Digest(s), 1, Len(s.previous)) = s.previous
           /\ Len(s.previous) \in Nat
PROOF
  <1>1. Body(s) \in Bodies /\ s.previous \in Seq(Bodies)
    BY DEF States, Digests, Bodies, Body
  <1> DEFINE p == s.previous
             b == Body(s)
  <1>2. Digest(s) = Append(p, b)
    BY DEF Digest
  <1> HIDE DEF p, b
  <1>3. p \in Seq(Bodies) /\ b \in Bodies
    BY <1>1 DEF p, b
  <1>4. /\ Append(p, b) \in Seq(Bodies)
        /\ Len(Append(p, b)) = Len(p) + 1
        /\ Append(p, b)[Len(p) + 1] = b
        /\ SubSeq(Append(p, b), 1, Len(p)) = p
        /\ Len(p) \in Nat
    BY <1>3
  <1> QED
    BY <1>1, <1>2, <1>4 DEF p, b, Digests

\* Two states with one digest are one state.
LEMMA DigestInjective ==
    ASSUME NEW s, NEW u, Grown(s), Grown(u), Digest(s) = Digest(u)
    PROVE  s = u
PROOF
  <1>1. s \in States /\ u \in States
    BY DEF Grown
  <1>2. Len(s.previous) = Len(u.previous)
    BY <1>1, DigestFacts
  <1>3. s.previous = u.previous /\ Body(s) = Body(u)
    <2>1. s.previous = SubSeq(Digest(s), 1, Len(s.previous))
      BY <1>1, DigestFacts
    <2>2. u.previous = SubSeq(Digest(u), 1, Len(u.previous))
      BY <1>1, DigestFacts
    <2>3. Body(s) = Digest(s)[Len(s.previous) + 1] /\ Body(u) = Digest(u)[Len(u.previous) + 1]
      BY <1>1, DigestFacts
    <2> QED
      BY <1>2, <2>1, <2>2, <2>3
  <1>4. s.active = u.active /\ s.secondary = u.secondary /\ s.passive = u.passive
    BY <1>3 DEF Body
  <1>5. s.generation = u.generation
    BY <1>2 DEF Grown
  <1> QED
    BY <1>1, <1>3, <1>4, <1>5 DEF States

-----------------------------------------------------------------------------
(* Entries and bodies after a transition *)

LEMMA ReadyFacts ==
    ASSUME NEW e \in Entries
    PROVE  /\ Ready(e) \in Entries
           /\ Ready(e).work = e.work
           /\ ActiveEntry(Ready(e))
           /\ SecondaryEntry(Ready(e))
PROOF
  <1>1. Unblocked(e) \in Entries /\ Unblocked(e).work = e.work
        /\ Unblocked(e).blockers = {} /\ Unblocked(e).wake = None
    BY DEF Unblocked, Entries
  <1>2. \A f \in Entries : /\ Unbound(f) \in Entries /\ Unbound(f).work = f.work
                           /\ Unbound(f).blockers = f.blockers /\ Unbound(f).wake = f.wake
    BY DEF Unbound, Entries
  <1> DEFINE f == Unbound(Unblocked(e))
  <1>3. f \in Entries /\ f.work = e.work /\ f.blockers = {} /\ f.wake = None
    BY <1>1, <1>2
  <1>4. Ready(e) = [f EXCEPT !.state = "ready"]
    BY DEF Ready
  <1> HIDE DEF f
  <1>5. /\ Ready(e) \in Entries /\ Ready(e).work = e.work /\ Ready(e).blockers = {}
        /\ Ready(e).wake = None /\ Ready(e).state = "ready"
    BY <1>3, <1>4 DEF Entries, LifecycleStates
  <1> QED
    BY <1>5 DEF ActiveEntry, SecondaryEntry

LEMMA ParkedFacts ==
    ASSUME NEW e \in Entries, NEW q \in Parked(e)
    PROVE  q \in Entries /\ q.work = e.work /\ PassiveEntry(q)
PROOF
  <1>1. /\ q = [Unbound(e) EXCEPT !.state = "passive"]
        /\ e.state = "waiting_external" /\ e.blockers # {} /\ e.wake # None
    BY DEF Parked
  <1>2. /\ Unbound(e) \in Entries /\ Unbound(e).work = e.work
        /\ Unbound(e).blockers = e.blockers /\ Unbound(e).wake = e.wake
    BY DEF Unbound, Entries
  <1>3. /\ q \in Entries /\ q.work = e.work /\ q.state = "passive"
        /\ q.blockers = e.blockers /\ q.wake = e.wake
    BY <1>1, <1>2 DEF Entries, LifecycleStates
  <1> QED
    BY <1>1, <1>3 DEF PassiveEntry

LEMMA MovedFacts ==
    ASSUME NEW e \in Entries, NEW r \in Rules, NEW grant \in Policy \union {None}
    PROVE  Moved(e, r, grant) \in Entries /\ Moved(e, r, grant).work = e.work
PROOF
  <1>1. r.to \in LifecycleStates /\ r.boundary \in Boundaries \union {None}
    BY DEF Rules
  <1>2. Stopped(e, r) \in Entries /\ Stopped(e, r).work = e.work
    BY <1>1 DEF Stopped, Entries, LifecycleStates, BlockerKinds
  <1>3. Unblocked(e) \in Entries /\ Unblocked(e).work = e.work
    BY DEF Unblocked, Entries
  <1>4. LET m == [Unblocked(e) EXCEPT !.state = r.to, !.boundary = None, !.authority = grant]
        IN m \in Entries /\ m.work = e.work
    BY <1>1, <1>3 DEF Entries
  <1>5. LET m == [Unblocked(e) EXCEPT !.state = r.to]
        IN m \in Entries /\ m.work = e.work
    BY <1>1, <1>3 DEF Entries
  <1>6. LET m == [e EXCEPT !.state = r.to]
        IN m \in Entries /\ m.work = e.work
    BY <1>1 DEF Entries
  <1> QED
    BY <1>2, <1>4, <1>5, <1>6 DEF Moved

\* PortfolioState.__post_init__ as far as it is about the three roles.
BodyOK(b) ==
    /\ ActiveEntry(b.active)
    /\ SecondaryEntry(b.secondary)
    /\ \A p \in b.passive : PassiveEntry(p)
    /\ b.active.work # b.secondary.work
    /\ \A p \in b.passive : p.work \notin {b.active.work, b.secondary.work}
    /\ \A p, q \in b.passive : p.work = q.work => p = q

\* Parking, promoting and moving build a portfolio from a portfolio, and lose no
\* work but the one they complete.
LEMMA NextBodyFacts ==
    ASSUME NEW s \in States, WellFormed(s), NEW t, t.grant \in Policy \union {None},
           NEW r \in Policy, NEW b \in NextBodies(s, r, t)
    PROVE  /\ b \in Bodies
           /\ BodyOK(b)
           /\ WorksOf(s) \subseteq WorksOf(b) \union (IF r.to = "complete" THEN {s.active.work} ELSE {})
PROOF
  <1>1. /\ s.active \in Entries /\ s.secondary \in Entries /\ s.passive \subseteq Entries
        /\ BodyOK(s)
    BY DEF States, WellFormed, BodyOK
  <1>2. r \in Rules /\ ValidRule(r)
    BY PolicyAssumption DEF ValidPolicy
  <1>3. /\ Ready(s.secondary) \in Entries /\ Ready(s.secondary).work = s.secondary.work
        /\ ActiveEntry(Ready(s.secondary))
    BY <1>1, ReadyFacts
  <1>4. \A p \in s.passive : /\ Ready(p) \in Entries /\ Ready(p).work = p.work
                             /\ SecondaryEntry(Ready(p))
    BY <1>1, ReadyFacts
  <1>5. \A p \in Awakened(s, t.wake) : p \in s.passive
    BY DEF Awakened
  <1>6. CASE r.effect = "promote_secondary"
    <2>1. PICK p \in s.passive :
              b = [active |-> Ready(s.secondary), secondary |-> Ready(p), passive |-> s.passive \ {p}]
      BY <1>5, <1>6 DEF NextBodies, PromoteSecondary
    <2>2. r.to = "complete"
      BY <1>2, <1>6 DEF ValidRule
    <2>3. b \in Bodies
      BY <1>1, <1>3, <1>4, <2>1 DEF Bodies
    <2>4. BodyOK(b)
      BY <1>1, <1>3, <1>4, <2>1 DEF BodyOK
    <2>5. WorksOf(s) \subseteq WorksOf(b) \union {s.active.work}
      BY <1>3, <1>4, <2>1 DEF WorksOf
    <2> QED
      BY <2>2, <2>3, <2>4, <2>5
  <1>7. CASE r.effect = "park_active"
    <2>1. PICK p \in s.passive : \E q \in Parked(s.active) :
              b = [active |-> Ready(s.secondary), secondary |-> Ready(p),
                   passive |-> (s.passive \ {p}) \union {q}]
      BY <1>5, <1>7 DEF NextBodies, ParkActive
    <2>2. PICK q \in Parked(s.active) :
              b = [active |-> Ready(s.secondary), secondary |-> Ready(p),
                   passive |-> (s.passive \ {p}) \union {q}]
      BY <2>1
    <2>3. q \in Entries /\ q.work = s.active.work /\ PassiveEntry(q)
      BY <1>1, ParkedFacts
    <2>4. b \in Bodies
      BY <1>1, <1>3, <1>4, <2>2, <2>3 DEF Bodies
    <2>5. BodyOK(b)
      BY <1>1, <1>3, <1>4, <2>2, <2>3 DEF BodyOK
    <2>6. WorksOf(s) \subseteq WorksOf(b)
      BY <1>3, <1>4, <2>2, <2>3 DEF WorksOf
    <2> QED
      BY <2>4, <2>5, <2>6
  <1>8. CASE r.effect # "promote_secondary" /\ r.effect # "park_active"
    <2> DEFINE m == Moved(s.active, r, t.grant)
    <2>1. b = [active |-> m, secondary |-> s.secondary, passive |-> s.passive] /\ ActiveEntry(b.active)
      BY <1>8 DEF NextBodies, MoveActive
    <2>2. m \in Entries /\ m.work = s.active.work
      BY <1>1, <1>2, MovedFacts
    <2> HIDE DEF m
    <2>3. b \in Bodies
      BY <1>1, <2>1, <2>2 DEF Bodies
    <2>4. BodyOK(b)
      BY <1>1, <2>1, <2>2 DEF BodyOK
    <2>5. WorksOf(s) \subseteq WorksOf(b)
      BY <2>1, <2>2 DEF WorksOf
    <2> QED
      BY <2>3, <2>4, <2>5
  <1> QED
    BY <1>6, <1>7, <1>8

-----------------------------------------------------------------------------
(* One transition *)

\* What is known of a transition x that tick or decision t made of state s.
Follows(x, s, t) ==
    /\ x = [state |-> x.state, checkpoint |-> x.checkpoint]
    /\ Grown(x.state)
    /\ x.state.generation = s.generation + 1
    /\ x.state.previous = Digest(s)
    /\ x.checkpoint \in Checkpoints
    /\ x.checkpoint.generation = x.state.generation
    /\ x.checkpoint.state = Digest(x.state)
    /\ x.checkpoint.tick = t
    /\ WorksOf(s) \subseteq WorksOf(x.state) \union
           (IF x.checkpoint.after = "complete" THEN {x.checkpoint.work} ELSE {})

\* A transition from a well-formed state to the roles b.
LEMMA ResultFacts ==
    ASSUME NEW s, Grown(s), NEW b \in Bodies, BodyOK(b), NEW after \in LifecycleStates,
           NEW t \in Ticks \union Decisions, NEW stop \in Boundaries \union {None},
           WorksOf(s) \subseteq WorksOf(b) \union
               (IF after = "complete" THEN {s.active.work} ELSE {})
    PROVE  Follows(TransitionResult(s, b, after, t, stop), s, t)
PROOF
  <1> DEFINE new == Successor(s, b)
             c == Checkpoint(s, new, after, t, stop)
  <1>1. /\ s \in States /\ s.generation = Len(s.previous) /\ s.generation \in Nat
        /\ s.active.work \in Works /\ s.active.state \in LifecycleStates
    BY DEF Grown, States, Entries
  <1>2. Digest(s) \in Digests /\ Len(Digest(s)) = s.generation + 1
    BY <1>1, DigestFacts
  <1>3. /\ new.generation = s.generation + 1 /\ new.active = b.active
        /\ new.secondary = b.secondary /\ new.passive = b.passive /\ new.previous = Digest(s)
    BY DEF Successor
  <1>4. new \in States
    BY <1>1, <1>2 DEF Successor, States, Bodies
  <1>5. Digest(s) # <<>>
    BY <1>1, <1>2 DEF Digests
  <1>6. Grown(new)
    BY <1>1, <1>2, <1>3, <1>4, <1>5 DEF Grown, WellFormed, BodyOK
  <1>7. WorksOf(new) = WorksOf(b)
    BY <1>3 DEF WorksOf
  <1>8. Digest(new) \in Digests
    BY <1>4, DigestFacts
  <1>9. new.generation \in Nat \ {0}
    BY <1>1, <1>3
  <1> HIDE DEF new
  <1>10. /\ c.generation = new.generation /\ c.state = Digest(new) /\ c.tick = t
         /\ c.after = after /\ c.work = s.active.work
    BY DEF Checkpoint
  <1>11. c \in Checkpoints
    BY <1>1, <1>8, <1>9 DEF Checkpoint, Checkpoints
  <1>12. TransitionResult(s, b, after, t, stop) = [state |-> new, checkpoint |-> c]
    BY DEF TransitionResult, new
  <1> HIDE DEF c
  <1> QED
    BY <1>3, <1>6, <1>7, <1>10, <1>11, <1>12 DEF Follows

LEMMA TransitionFacts ==
    ASSUME NEW s, Grown(s), NEW t \in Ticks, NEW x \in Transitions(s, t)
    PROVE  /\ Follows(x, s, t)
           /\ \E r \in Matching(s.active.state, t.event) : AuthorityHolds(r, t.grant)
PROOF
  <1>1. PICK r \in Admissible(s, t) :
            x \in {TransitionResult(s, b, r.to, t, StopOf(r)) : b \in NextBodies(s, r, t)}
    BY DEF Transitions
  <1>2. PICK b \in NextBodies(s, r, t) : x = TransitionResult(s, b, r.to, t, StopOf(r))
    BY <1>1
  <1>3. r \in Policy /\ r \in Matching(s.active.state, t.event) /\ AuthorityHolds(r, t.grant)
    BY DEF Admissible, Matching
  <1>4. r \in Rules
    BY <1>3, PolicyAssumption DEF ValidPolicy
  <1>5. r.to \in LifecycleStates /\ StopOf(r) \in Boundaries \union {None}
    BY <1>4 DEF Rules, StopOf
  <1>6. t.grant \in Policy \union {None}
    BY DEF Ticks
  <1>7. s \in States /\ WellFormed(s)
    BY DEF Grown
  <1>8. /\ b \in Bodies /\ BodyOK(b)
        /\ WorksOf(s) \subseteq WorksOf(b) \union (IF r.to = "complete" THEN {s.active.work} ELSE {})
    BY <1>3, <1>6, <1>7, NextBodyFacts
  <1>9. Follows(x, s, t)
    BY <1>2, <1>5, <1>8, ResultFacts
  <1> QED
    BY <1>3, <1>9

\* What a human decision makes of a gate: the work stays, without any authority.
LEMMA DecidedFacts ==
    ASSUME NEW s, Grown(s), NEW latest, NEW d \in Decisions, NEW x \in Decided(s, latest, d)
    PROVE  /\ Follows(x, s, d)
           /\ d.expected = Digest(s)
           /\ AtStop(s, latest)
           /\ x.state.active.work = s.active.work
           /\ x.state.active.state \in {"rework", "failed"}
           /\ x.state.active.authority = None
PROOF
  <1> DEFINE e == s.active
             f == [Unbound(Unblocked(e)) EXCEPT !.state = d.target]
             b == [Body(s) EXCEPT !.active = f]
  <1>1. /\ d.expected = Digest(s) /\ AtStop(s, latest)
        /\ x = TransitionResult(s, b, d.target, d, None)
    BY DEF Decided, Body
  <1>2. s \in States /\ WellFormed(s) /\ e \in Entries
    BY DEF Grown, States
  <1>3. d.target \in {"rework", "failed"}
    BY DEF Decisions
  <1>4. /\ Unblocked(e) \in Entries /\ Unblocked(e).work = e.work
        /\ Unblocked(e).blockers = {} /\ Unblocked(e).wake = None
    BY <1>2 DEF Unblocked, Entries
  <1>5. \A g \in Entries : /\ Unbound(g) \in Entries /\ Unbound(g).work = g.work
                           /\ Unbound(g).blockers = g.blockers /\ Unbound(g).wake = g.wake
                           /\ Unbound(g).authority = None
    BY DEF Unbound, Entries
  <1> DEFINE u == Unbound(Unblocked(e))
  <1>6. u \in Entries /\ u.work = e.work /\ u.blockers = {} /\ u.wake = None /\ u.authority = None
    BY <1>4, <1>5
  <1>7. f = [u EXCEPT !.state = d.target]
    OBVIOUS
  <1> HIDE DEF u
  <1>8. /\ f \in Entries /\ f.work = e.work /\ f.wake = None /\ f.authority = None
        /\ f.state = d.target
    BY <1>3, <1>6, <1>7 DEF Entries, LifecycleStates
  <1> HIDE DEF f
  <1>9. b = [active |-> f, secondary |-> s.secondary, passive |-> s.passive]
    BY DEF Body
  <1>10. b \in Bodies
    BY <1>2, <1>8, <1>9 DEF Bodies, States
  <1>11. BodyOK(b)
    BY <1>2, <1>3, <1>8, <1>9 DEF BodyOK, WellFormed, ActiveEntry
  <1>12. WorksOf(s) \subseteq WorksOf(b)
    BY <1>8, <1>9 DEF WorksOf
  <1>13. x.state.active = f
    BY <1>1, <1>9 DEF TransitionResult, Successor
  <1> HIDE DEF b
  <1>14. Follows(x, s, d)
    BY <1>1, <1>3, <1>10, <1>11, <1>12, ResultFacts DEF LifecycleStates
  <1> QED
    BY <1>1, <1>3, <1>8, <1>13, <1>14

-----------------------------------------------------------------------------
(* The invariant of the runtime *)

Made == {events[i] : i \in DOMAIN events}

\* One checkpoint per generation, each for a tick that expected the state before
\* it; the last one binds the head.
ChainOK ==
    /\ checkpoints \in Seq(Checkpoints)
    /\ head = None => checkpoints = <<>>
    /\ head # None => /\ Grown(head)
                      /\ Len(checkpoints) = head.generation
                      /\ head.generation # 0 => Latest.state = Digest(head)
    /\ \A i \in DOMAIN checkpoints : /\ checkpoints[i].generation = i
                                     /\ Len(checkpoints[i].tick.expected) = i

\* Whatever a trigger applied, its identity is bound to it.
BindingsOK ==
    /\ bindings \in [Identities -> Ticks \union {None}]
    /\ \A i \in DOMAIN checkpoints :
        checkpoints[i].tick.trigger # None =>
            bindings[checkpoints[i].tick.trigger] = checkpoints[i].tick

\* A trigger carries no grant.
EventsOK ==
    /\ events \in Seq(Ticks \union Decisions)
    /\ \A t \in Made : t.trigger # None => t \in Ticks /\ t.grant = None

HostRecords ==
    [pc: Places, job: Jobs, tick: Ticks \union Decisions \union {None}, rest: Seq(Ticks),
     read: States \union {None}, next: [state: States, checkpoint: Checkpoints] \union {None},
     post: States \union {None}, status: Statuses \union {None}]

Applied(t) == \E i \in DOMAIN checkpoints : checkpoints[i].tick = t

\* The checkpoint a state was recovered with.
LatestOf(s) == IF s.generation = 0 THEN None ELSE checkpoints[s.generation]

\* The call of this host committed its tick, whether it has reported so or not.
Committed(r) == r.pc = "post" \/ r.status = "committed"

\* What a host at work on a tick has to go by: the tick was made, and a trigger is
\* bound to it before it is applied.
TickOK(r) ==
    /\ r.tick \in Made
    /\ IF r.job = "decision" THEN r.tick \in Decisions /\ r.pc \in {"commit", "post", "after"}
       ELSE r.tick \in Ticks
    /\ r.pc = "bind" => r.tick.trigger # None
    /\ r.pc # "bind" /\ r.tick.trigger # None => bindings[r.tick.trigger] = r.tick

\* A transition to commit is one from the state read, which the tick expected.
NextOK(r) ==
    /\ r.tick.expected = Digest(r.read)
    /\ IF r.job = "decision"
       THEN /\ r.read.generation <= Len(checkpoints)
            /\ r.next \in Decided(r.read, LatestOf(r.read), r.tick)
       ELSE r.next \in Transitions(r.read, r.tick)

HostOK(r) ==
    /\ r \in HostRecords
    /\ r.pc # "idle" => TickOK(r)
    /\ \A i \in DOMAIN r.rest : r.rest[i] \in Made /\ r.rest[i].trigger # None
    /\ r.pc \in {"latest", "commit", "failed", "post"} => Grown(r.read)
    /\ r.pc = "commit" => NextOK(r)
    /\ r.pc = "post" => r.next.checkpoint.tick = r.tick
    /\ r.status = None \/ r.pc \in {"after", "fresh"}
    /\ Committed(r) \/ r.status = "already_applied" => Applied(r.tick)
    /\ r.post = None \/ r.pc = "fresh" \/ Continues(r.post)

\* No two calls committed one tick.
HostsOK ==
    /\ DOMAIN host = Hosts
    /\ \A h \in Hosts : HostOK(host[h])
    /\ \A h, g \in Hosts :
        h # g /\ Committed(host[h]) /\ Committed(host[g]) => host[h].tick # host[g].tick

\* The inductive invariant.
RuntimeInv ==
    /\ ChainOK
    /\ BindingsOK
    /\ EventsOK
    /\ HostsOK
    /\ NoWorkIsLost
    /\ requests \subseteq DOMAIN checkpoints
    /\ crashes \in 0 .. MaxCrashes

-----------------------------------------------------------------------------
(* Steps that only add to the store *)

\* Nothing that a host relies on is taken back.
Grows ==
    /\ Made \subseteq Made'
    /\ \A k \in Identities : bindings[k] = None \/ bindings'[k] = bindings[k]
    /\ \A i \in DOMAIN checkpoints : i \in DOMAIN checkpoints' /\ checkpoints'[i] = checkpoints[i]
    /\ Len(checkpoints) <= Len(checkpoints')
    /\ Len(checkpoints) \in Nat /\ Len(checkpoints') \in Nat
    /\ DOMAIN checkpoints = 1 .. Len(checkpoints)

\* A host that is not the one to move keeps what it goes by.
LEMMA HostFrame ==
    ASSUME Grows, NEW r, HostOK(r)
    PROVE  HostOK(r)'
PROOF
  <1>1. ASSUME TickOK(r) PROVE TickOK(r)'
    <2>1. r.job # "decision" /\ r.tick.trigger # None =>
              r.tick \in Ticks /\ r.tick # None /\ r.tick.trigger \in Identities
      BY <1>1, AbsentAssumption DEF TickOK, Ticks
    <2>2. r.job = "decision" => r.tick.trigger = None
      BY <1>1 DEF TickOK, Decisions
    <2> QED
      BY <1>1, <2>1, <2>2 DEF TickOK, Grows
  <1>2. ASSUME NextOK(r), Grown(r.read) PROVE NextOK(r)'
    <2>1. r.job = "decision" => LatestOf(r.read)' = LatestOf(r.read)
      BY <1>2 DEF NextOK, LatestOf, Grows, Grown, States
    <2>2. r.read.generation \in Nat
      BY <1>2 DEF Grown, States
    <2> QED
      BY <1>2, <2>1, <2>2 DEF NextOK, Grows
  <1>3. \A t : Applied(t) => Applied(t)'
    BY DEF Applied, Grows
  <1>4. \A t : t \in Made => t \in Made'
    BY DEF Grows
  <1> QED
    BY <1>1, <1>2, <1>3, <1>4 DEF HostOK

LEMMA IdleFacts ==
    /\ Idle \in HostRecords
    /\ Idle.pc = "idle" /\ Idle.rest = <<>> /\ Idle.status = None /\ Idle.post = None
PROOF
  BY DEF Idle, HostRecords, Places, Jobs

\* A host at rest relies on nothing.
LEMMA IdleOK == HostOK(Idle) /\ ~Committed(Idle)
PROOF
  <1>1. ~Committed(Idle) /\ Idle.status # "already_applied"
    BY IdleFacts, AbsentAssumption DEF Committed
  <1> QED
    BY <1>1, IdleFacts DEF HostOK

\* One host moves while the store grows, and no other has committed its tick.
LEMMA HostMove ==
    ASSUME RuntimeInv, Grows, NEW h \in Hosts, NEW r, HostOK(r)', Becomes(h, r),
           Committed(r) => \/ Committed(host[h]) /\ r.tick = host[h].tick
                           \/ \A g \in Hosts : Committed(host[g]) => host[g].tick # r.tick
    PROVE  HostsOK'
PROOF
  <1>1. DOMAIN host = Hosts /\ host' = [host EXCEPT ![h] = r]
    BY DEF RuntimeInv, HostsOK, Becomes
  <1>2. \A g \in Hosts : host'[g] = IF g = h THEN r ELSE host[g]
    BY <1>1
  <1>3. \A g \in Hosts : HostOK(host[g])'
    <2> TAKE g \in Hosts
    <2>1. PICK x : x = host'[g]
      OBVIOUS
    <2>2. HostOK(x)'
      <3>1. CASE g = h
        <4>1. x = r
          BY <1>2, <2>1, <3>1
        <4> QED
          BY <4>1
      <3>2. CASE g # h
        BY <1>2, <2>1, <3>2, HostFrame DEF RuntimeInv, HostsOK
      <3> QED
        BY <3>1, <3>2
    <2> QED
      BY <2>1, <2>2 DEF HostOK, TickOK, NextOK, Committed
  <1>4. \A f, g \in Hosts :
            f # g /\ Committed(host'[f]) /\ Committed(host'[g]) => host'[f].tick # host'[g].tick
    BY <1>2 DEF RuntimeInv, HostsOK
  <1>5. DOMAIN host' = Hosts
    BY <1>1
  <1> QED
    BY <1>3, <1>4, <1>5 DEF HostsOK, Committed

\* One host moves, and the store stays as it is.
LEMMA HostStep ==
    ASSUME RuntimeInv, NEW h \in Hosts, NEW r, HostOK(r), Becomes(h, r),
           Committed(r) => Committed(host[h]) /\ r.tick = host[h].tick,
           UNCHANGED <<store, made>>, crashes' \in 0 .. MaxCrashes
    PROVE  RuntimeInv'
PROOF
  <1>1. /\ head' = head /\ checkpoints' = checkpoints /\ bindings' = bindings
        /\ events' = events /\ requests' = requests
    BY DEF store, made
  <1>2. Grows
    BY <1>1 DEF Grows, Made, RuntimeInv, ChainOK
  <1>5. HostsOK'
    BY <1>2, HostFrame, HostMove
  <1>6. ChainOK' /\ BindingsOK' /\ EventsOK' /\ NoWorkIsLost'
    BY <1>1 DEF RuntimeInv, ChainOK, BindingsOK, EventsOK, NoWorkIsLost, Made, Latest
  <1> QED
    BY <1>1, <1>5, <1>6 DEF RuntimeInv

\* The same for a step that recovers first: what raises leaves the host idle.
LEMMA ReadStep ==
    ASSUME RuntimeInv, NEW h \in Hosts, NEW r, AtRead(h, r), UNCHANGED <<store, made, crashes>>,
           Recovers => HostOK(r) /\ (Committed(r) => Committed(host[h]) /\ r.tick = host[h].tick)
    PROVE  RuntimeInv'
PROOF
  <1>1. crashes' \in 0 .. MaxCrashes
    BY DEF RuntimeInv
  <1>2. CASE Recovers
    BY <1>1, <1>2, HostStep DEF AtRead
  <1>3. CASE ~Recovers
    BY <1>1, <1>3, HostStep, IdleOK DEF AtRead
  <1> QED
    BY <1>2, <1>3

\* Something new was observed.
LEMMA OfferStep ==
    ASSUME RuntimeInv, NEW t \in Ticks \union Decisions, Offer(t),
           t.trigger # None => t \in Ticks /\ t.grant = None
    PROVE  RuntimeInv'
PROOF
  <1>1. /\ head' = head /\ checkpoints' = checkpoints /\ bindings' = bindings
        /\ events' = Append(events, t) /\ requests' = requests /\ host' = host
        /\ crashes' = crashes
    BY DEF Offer, store
  <1>2. events \in Seq(Ticks \union Decisions)
    BY DEF RuntimeInv, EventsOK
  <1>3. /\ events' \in Seq(Ticks \union Decisions)
        /\ DOMAIN events' = DOMAIN events \union {Len(events) + 1}
        /\ \A i \in DOMAIN events : events'[i] = events[i]
        /\ events'[Len(events) + 1] = t
    BY <1>1, <1>2
  <1>4. Made' = Made \union {t}
    BY <1>3 DEF Made
  <1>5. Grows
    BY <1>1, <1>4 DEF Grows, RuntimeInv, ChainOK
  <1>6. EventsOK'
    BY <1>3, <1>4 DEF RuntimeInv, EventsOK
  <1>7. HostsOK'
    <2>1. \A g \in Hosts : HostOK(host[g])'
      <3> TAKE g \in Hosts
      <3>1. PICK x : x = host[g]
        OBVIOUS
      <3>2. HostOK(x)'
        BY <1>5, <3>1, HostFrame DEF RuntimeInv, HostsOK
      <3> QED
        BY <1>1, <3>1, <3>2 DEF HostOK, TickOK, NextOK, Committed
    <2> QED
      BY <1>1, <2>1 DEF RuntimeInv, HostsOK, Committed
  <1>8. ChainOK' /\ BindingsOK' /\ NoWorkIsLost'
    BY <1>1 DEF RuntimeInv, ChainOK, BindingsOK, NoWorkIsLost, Latest
  <1> QED
    BY <1>1, <1>6, <1>7, <1>8 DEF RuntimeInv

-----------------------------------------------------------------------------
(* The commit *)

LEMMA DecisionFacts ==
    /\ \A t \in Ticks : ~IsDecision(t)
    /\ \A t \in Decisions : IsDecision(t) /\ t.trigger = None
PROOF
  BY DEF IsDecision, Ticks, Decisions

\* A head has been recovered with the checkpoint of its generation, the last one.
LEMMA LatestFacts ==
    ASSUME RuntimeInv, head # None
    PROVE  /\ Recovers
           /\ Grown(head)
           /\ Latest = IF checkpoints = <<>> THEN None ELSE checkpoints[Len(checkpoints)]
           /\ Latest \in Checkpoints \union {None}
           /\ LatestOf(head) = Latest
           /\ Latest = None <=> head.generation = 0
PROOF
  <1>1. /\ checkpoints \in Seq(Checkpoints) /\ Grown(head) /\ Len(checkpoints) = head.generation
        /\ head.generation # 0 => Latest.state = Digest(head)
        /\ \A i \in DOMAIN checkpoints : checkpoints[i].generation = i
    BY DEF RuntimeInv, ChainOK
  <1>2. Len(checkpoints) \in Nat /\ DOMAIN checkpoints = 1 .. Len(checkpoints)
    BY <1>1
  <1>3. head.generation = 0 => checkpoints = <<>> /\ Latest = None
    BY <1>1 DEF Latest
  <1>4. head.generation # 0 => /\ checkpoints # <<>>
                               /\ head.generation \in DOMAIN checkpoints
                               /\ Latest = checkpoints[head.generation]
    BY <1>1, <1>2 DEF Latest
  <1>5. head.generation # 0 => Latest \in Checkpoints /\ Latest # None
    BY <1>1, <1>4, AbsentAssumption
  <1>6. LatestOf(head) = Latest
    BY DEF LatestOf, Latest
  <1> QED
    BY <1>1, <1>3, <1>4, <1>5, <1>6 DEF Recovers

\* What commit compared is enough: the transition is one of the head as it is, for
\* a tick that was not applied before and whose identity applied nothing else.
LEMMA CommitFacts ==
    ASSUME RuntimeInv, NEW h \in Hosts, host[h].pc = "commit",
           CommitHolds(host[h].read, host[h].next)
    PROVE  LET t == host[h].tick  x == host[h].next
           IN /\ head # None /\ head = host[h].read
              /\ t \in Made /\ t.expected = Digest(head)
              /\ x \in Advances(head, Latest, t)
              /\ Follows(x, head, t)
              /\ \A i \in DOMAIN checkpoints : checkpoints[i].tick # t
              /\ t.trigger # None =>
                     /\ t \in Ticks /\ t.grant = None
                     /\ bindings[t.trigger] = t
                     /\ \A i \in DOMAIN checkpoints : checkpoints[i].tick.trigger # t.trigger
              /\ IF t \in Decisions THEN x \in Decided(head, Latest, t)
                 ELSE t \in Ticks /\ x \in Transitions(head, t)
PROOF
  <1> DEFINE r == host[h]
             t == r.tick
             x == r.next
  <1>1. /\ HostOK(r) /\ TickOK(r) /\ NextOK(r) /\ Grown(r.read) /\ r.pc = "commit"
    BY DEF RuntimeInv, HostsOK, HostOK
  <1> HIDE DEF r
  <1>2. head # None /\ Grown(head) /\ LatestOf(head) = Latest
    BY LatestFacts DEF CommitHolds
  <1>3. head = r.read
    BY <1>1, <1>2, DigestInjective DEF CommitHolds, r
  <1>4. t \in Made /\ t.expected = Digest(head)
    BY <1>1, <1>3 DEF TickOK, NextOK
  <1>5. /\ r.job = "decision" => t \in Decisions /\ x \in Decided(head, Latest, t)
        /\ r.job # "decision" => t \in Ticks /\ x \in Transitions(head, t)
    BY <1>1, <1>2, <1>3 DEF TickOK, NextOK
  <1>6. IF t \in Decisions THEN x \in Decided(head, Latest, t)
        ELSE t \in Ticks /\ x \in Transitions(head, t)
    BY <1>5, DecisionFacts
  <1>7. x \in Advances(head, Latest, t)
    BY <1>5, DecisionFacts DEF Advances
  <1>8. Follows(x, head, t)
    BY <1>2, <1>5, TransitionFacts, DecidedFacts
  <1>9. Len(t.expected) = Len(checkpoints) + 1
    <2>1. Len(Digest(head)) = head.generation + 1
      BY <1>2, DigestFacts DEF Grown
    <2> QED
      BY <1>2, <1>4, <2>1 DEF RuntimeInv, ChainOK
  <1>10. ASSUME NEW i \in DOMAIN checkpoints PROVE checkpoints[i].tick # t
    <2>1. Len(checkpoints[i].tick.expected) = i /\ i \in 1 .. Len(checkpoints)
          /\ Len(checkpoints) \in Nat
      BY DEF RuntimeInv, ChainOK
    <2> QED
      BY <1>9, <2>1
  <1>11. ASSUME t.trigger # None
         PROVE  /\ t \in Ticks /\ t.grant = None /\ bindings[t.trigger] = t
                /\ \A i \in DOMAIN checkpoints : checkpoints[i].tick.trigger # t.trigger
    <2>1. t \in Ticks /\ t.grant = None
      BY <1>4, <1>11 DEF RuntimeInv, EventsOK
    <2>2. bindings[t.trigger] = t
      BY <1>1, <1>11 DEF TickOK
    <2>3. \A i \in DOMAIN checkpoints : checkpoints[i].tick.trigger # t.trigger
      BY <1>10, <1>11, <2>2 DEF RuntimeInv, BindingsOK
    <2> QED
      BY <2>1, <2>2, <2>3
  <1> QED
    BY <1>2, <1>3, <1>4, <1>6, <1>7, <1>8, <1>10, <1>11 DEF r

\* A commit that holds advances head and log together.
LEMMA CommitStep ==
    ASSUME RuntimeInv, NEW h \in Hosts, Commit(h), CommitHolds(host[h].read, host[h].next)
    PROVE  RuntimeInv'
PROOF
  <1>0. PICK r : r = host[h]
    OBVIOUS
  <1> DEFINE t == r.tick
             x == r.next
             c == x.checkpoint
             q == [r EXCEPT !.pc = "post"]
             n == Len(checkpoints) + 1
  <1>1. /\ r.pc = "commit" /\ head' = x.state /\ checkpoints' = Append(checkpoints, c)
        /\ host' = [host EXCEPT ![h] = q]
        /\ bindings' = bindings /\ events' = events /\ requests' = requests /\ crashes' = crashes
    BY <1>0 DEF Commit, Becomes, Goto, made
  <1>2. /\ head # None /\ t \in Made /\ t.expected = Digest(head)
        /\ Follows(x, head, t)
        /\ \A i \in DOMAIN checkpoints : checkpoints[i].tick # t
        /\ t.trigger # None => bindings[t.trigger] = t
    BY <1>0, <1>1, CommitFacts
  <1>3. HostOK(r) /\ r \in HostRecords
    BY <1>0 DEF RuntimeInv, HostsOK, HostOK
  <1>4. /\ checkpoints \in Seq(Checkpoints) /\ Len(checkpoints) = head.generation /\ Grown(head)
        /\ c \in Checkpoints /\ DOMAIN host = Hosts
    BY <1>2 DEF RuntimeInv, ChainOK, Follows, HostsOK
  <1>5. /\ checkpoints' \in Seq(Checkpoints)
        /\ Len(checkpoints') = n /\ n \in Nat
        /\ DOMAIN checkpoints = 1 .. Len(checkpoints)
        /\ DOMAIN checkpoints' = DOMAIN checkpoints \union {n}
        /\ \A i \in DOMAIN checkpoints : checkpoints'[i] = checkpoints[i]
        /\ checkpoints'[n] = c
    BY <1>1, <1>4
  <1> HIDE DEF c, q, n
  <1>6. Grows
    BY <1>1, <1>5 DEF Grows, Made, n
  <1>7. head' # None /\ Grown(head') /\ head'.generation = n /\ head'.previous = Digest(head)
        /\ c.generation = n /\ c.state = Digest(head') /\ c.tick = t
    BY <1>1, <1>2, <1>4, AbsentAssumption DEF Follows, Grown, c, n
  <1>8. ChainOK'
    <2>1. Latest' = c /\ n # 0
      BY <1>5, <1>7 DEF Latest, n
    <2>2. Len(t.expected) = n
      BY <1>2, <1>4, DigestFacts DEF Grown, n
    <2>3. \A i \in DOMAIN checkpoints' : /\ checkpoints'[i].generation = i
                                         /\ Len(checkpoints'[i].tick.expected) = i
      BY <1>5, <1>7, <2>2 DEF RuntimeInv, ChainOK
    <2> QED
      BY <1>5, <1>7, <2>1, <2>3 DEF ChainOK
  <1>9. BindingsOK'
    <2>1. \A i \in DOMAIN checkpoints' :
              checkpoints'[i].tick.trigger # None =>
                  bindings[checkpoints'[i].tick.trigger] = checkpoints'[i].tick
      BY <1>2, <1>5, <1>7 DEF RuntimeInv, BindingsOK
    <2> QED
      BY <1>1, <2>1 DEF RuntimeInv, BindingsOK
  <1>10. EventsOK'
    BY <1>1 DEF RuntimeInv, EventsOK, Made
  <1>12. /\ q \in HostRecords /\ q.pc = "post" /\ q.tick = t /\ q.next = x /\ q.job = r.job
         /\ q.rest = r.rest /\ q.read = r.read /\ q.post = r.post /\ q.status = r.status
    BY <1>3 DEF HostRecords, Places, q
  <1>13. HostOK(q)'
    <2>1. Applied(t)'
      BY <1>5, <1>7 DEF Applied
    <2>2. /\ TickOK(r) /\ Grown(r.read) /\ r.status = None
          /\ r.post = None \/ Continues(r.post)
          /\ \A i \in DOMAIN r.rest : r.rest[i] \in Made /\ r.rest[i].trigger # None
      BY <1>1, <1>3 DEF HostOK
    <2>3. TickOK(q)'
      BY <1>1, <1>2, <1>12, <2>2 DEF TickOK, Made
    <2>5. q.status # "already_applied"
      BY <1>12, <2>2, AbsentAssumption
    <2>6. \A i \in DOMAIN q.rest : q.rest[i] \in Made' /\ q.rest[i].trigger # None
      BY <1>12, <2>2, <1>6 DEF Grows
    <2> QED
      BY <1>7, <1>12, <2>1, <2>2, <2>3, <2>5, <2>6 DEF HostOK, Committed, c
  <1>14. HostsOK'
    <2>1. \A g \in Hosts : Committed(host[g]) => host[g].tick # q.tick
      BY <1>2, <1>12 DEF RuntimeInv, HostsOK, HostOK, Applied
    <2> QED
      BY <1>1, <1>6, <1>13, <2>1, HostMove DEF Becomes
  <1>15. NoWorkIsLost'
    <2> DEFINE done == {checkpoints[i].work : i \in {j \in DOMAIN checkpoints : checkpoints[j].after = "complete"}}
               done2 == {checkpoints'[i].work : i \in {j \in DOMAIN checkpoints' : checkpoints'[j].after = "complete"}}
    <2>1. WorksOf(Digest(head)[1]) \subseteq WorksOf(head) \union done
      BY <1>2 DEF RuntimeInv, NoWorkIsLost
    <2>2. done \subseteq done2 /\ (c.after = "complete" => c.work \in done2)
      BY <1>5
    <2>3. WorksOf(head) \subseteq WorksOf(head') \union (IF c.after = "complete" THEN {c.work} ELSE {})
      BY <1>1, <1>2 DEF Follows, c
    <2>4. Digest(head')[1] = Digest(head)[1]
      <3>1. head \in States /\ head' \in States
        BY <1>4, <1>7 DEF Grown
      <3>2. /\ SubSeq(Digest(head'), 1, Len(head'.previous)) = head'.previous
            /\ Digest(head') \in Digests /\ Len(Digest(head')) = Len(head'.previous) + 1
            /\ Len(head'.previous) = Len(head.previous) + 1 /\ Len(head.previous) \in Nat
        BY <1>7, <3>1, DigestFacts
      <3>3. SubSeq(Digest(head'), 1, Len(head'.previous))[1] = Digest(head')[1]
        BY <3>2 DEF Digests
      <3> QED
        BY <1>7, <3>2, <3>3
    <2> HIDE DEF done, done2
    <2>5. WorksOf(Digest(head')[1]) \subseteq WorksOf(head') \union done2
      BY <2>1, <2>2, <2>3, <2>4
    <2> QED
      BY <2>5 DEF NoWorkIsLost, done2
  <1> QED
    BY <1>1, <1>5, <1>8, <1>9, <1>10, <1>14, <1>15 DEF RuntimeInv
-----------------------------------------------------------------------------
(* The other steps *)

\* An identity is bound for good: by the first tick, and again only by that one.
LEMMA BindStep ==
    ASSUME RuntimeInv, NEW h \in Hosts, Bind(h)
    PROVE  RuntimeInv'
PROOF
  <1>0. PICK r : r = host[h]
    OBVIOUS
  <1> DEFINE t == r.tick
             k == t.trigger
             q == [r EXCEPT !.pc = "scan"]
  <1>1. /\ r.pc = "bind" /\ head' = head /\ checkpoints' = checkpoints
        /\ events' = events /\ requests' = requests /\ crashes' = crashes
    BY <1>0 DEF Bind, made
  <1>2. HostOK(r) /\ TickOK(r) /\ r \in HostRecords /\ r.status = None
    BY <1>0, <1>1 DEF RuntimeInv, HostsOK, HostOK
  <1>3. t \in Made /\ t \in Ticks /\ k # None /\ k \in Identities /\ r.job # "decision"
    BY <1>1, <1>2 DEF TickOK, Ticks
  <1>4. CASE bindings[k] \in {None, t}
    <2>1. bindings' = [bindings EXCEPT ![k] = t] /\ Becomes(h, q)
      BY <1>0, <1>4 DEF Bind, Goto
    <2>2. bindings \in [Identities -> Ticks \union {None}]
      BY DEF RuntimeInv, BindingsOK
    <2>3. /\ bindings' \in [Identities -> Ticks \union {None}]
          /\ bindings'[k] = t
          /\ \A i \in Identities : i # k => bindings'[i] = bindings[i]
      BY <1>3, <2>1, <2>2
    <2> HIDE DEF k
    <2>4. Grows
      BY <1>1, <1>4, <2>3 DEF Grows, Made, RuntimeInv, ChainOK
    <2>5. BindingsOK'
      <3> SUFFICES ASSUME NEW i \in DOMAIN checkpoints, checkpoints[i].tick.trigger # None
                   PROVE  bindings'[checkpoints[i].tick.trigger] = checkpoints[i].tick
        BY <1>1, <2>3 DEF BindingsOK
      <3> DEFINE u == checkpoints[i].tick
      <3>1. checkpoints[i] \in Checkpoints
        BY DEF RuntimeInv, ChainOK
      <3>2. u \in Ticks
        BY <3>1, DecisionFacts DEF Checkpoints
      <3>3. u.trigger \in Identities /\ u # None
        BY <3>2, AbsentAssumption DEF Ticks
      <3>4. bindings[u.trigger] = u
        BY DEF RuntimeInv, BindingsOK
      <3> QED
        BY <1>4, <2>3, <3>3, <3>4
    <2>6. /\ q \in HostRecords /\ q.pc = "scan" /\ q.tick = t /\ q.job = r.job
          /\ q.rest = r.rest /\ q.post = r.post /\ q.status = None
      BY <1>2 DEF HostRecords, Places
    <2> HIDE DEF q
    <2>7. TickOK(q)'
      BY <1>1, <1>3, <2>3, <2>6 DEF TickOK, Made, k
    <2>8. HostOK(q)' /\ ~Committed(q)
      <3>1. /\ \A i \in DOMAIN r.rest : r.rest[i] \in Made /\ r.rest[i].trigger # None
            /\ r.post = None \/ Continues(r.post)
        BY <1>1, <1>2 DEF HostOK
      <3>2. \A i \in DOMAIN q.rest : q.rest[i] \in Made' /\ q.rest[i].trigger # None
        BY <2>4, <2>6, <3>1 DEF Grows
      <3>3. ~Committed(q) /\ q.status # "already_applied"
        BY <2>6, AbsentAssumption DEF Committed
      <3> QED
        BY <2>6, <2>7, <3>1, <3>2, <3>3 DEF HostOK, Committed
    <2>9. HostsOK'
      BY <2>1, <2>4, <2>8, HostMove
    <2>10. ChainOK' /\ EventsOK' /\ NoWorkIsLost'
      BY <1>1 DEF RuntimeInv, ChainOK, EventsOK, NoWorkIsLost, Made, Latest
    <2> QED
      BY <1>1, <2>5, <2>9, <2>10 DEF RuntimeInv
  <1>5. CASE bindings[k] \notin {None, t}
    <2>1. bindings' = bindings /\ Becomes(h, Idle)
      BY <1>0, <1>5 DEF Bind
    <2>2. UNCHANGED <<store, made>>
      BY <1>1, <2>1 DEF store, made
    <2>3. crashes' \in 0 .. MaxCrashes
      BY <1>1 DEF RuntimeInv
    <2> QED
      BY <2>1, <2>2, <2>3, IdleOK, HostStep
  <1> QED
    BY <1>4, <1>5

\* The first state begins the chain.
LEMMA BootstrapStep ==
    ASSUME RuntimeInv, Bootstrap
    PROVE  RuntimeInv'
PROOF
  <1>1. /\ head = None /\ head' \in Genesis /\ checkpoints' = checkpoints /\ bindings' = bindings
        /\ events' = events /\ requests' = requests /\ host' = host /\ crashes' = crashes
    BY DEF Bootstrap, made
  <1>2. checkpoints = <<>> /\ checkpoints' = <<>>
    BY <1>1 DEF RuntimeInv, ChainOK
  <1>3. /\ head' \in States /\ WellFormed(head') /\ head'.generation = 0 /\ head'.previous = <<>>
        /\ head' # None
    BY <1>1, GenesisAssumption DEF WellFormed
  <1>4. Grown(head') /\ Len(checkpoints') = 0
    BY <1>2, <1>3 DEF Grown
  <1>5. ChainOK'
    BY <1>1, <1>2, <1>3, <1>4 DEF RuntimeInv, ChainOK
  <1>6. NoWorkIsLost'
    <2>1. Digest(head')[1] = Body(head')
      BY <1>3, DigestFacts
    <2>2. WorksOf(Body(head')) = WorksOf(head')
      BY DEF WorksOf, Body
    <2> QED
      BY <2>1, <2>2 DEF NoWorkIsLost
  <1>7. BindingsOK' /\ EventsOK'
    BY <1>1 DEF RuntimeInv, BindingsOK, EventsOK, Made
  <1>8. HostsOK'
    BY <1>1 DEF RuntimeInv, HostsOK, HostOK, TickOK, NextOK, Committed, Applied, Made, LatestOf
  <1> QED
    BY <1>1, <1>5, <1>6, <1>7, <1>8 DEF RuntimeInv

LEMMA RequestStep ==
    ASSUME RuntimeInv, NEW h \in Hosts, PrepareVerification(h)
    PROVE  RuntimeInv'
PROOF
  <1>1. /\ head' = head /\ checkpoints' = checkpoints /\ bindings' = bindings
        /\ events' = events /\ host' = host /\ crashes' = crashes
        /\ \E i \in DOMAIN checkpoints : requests' = requests \union {i}
    BY DEF PrepareVerification, store
  <1>2. HostsOK'
    BY <1>1 DEF RuntimeInv, HostsOK, HostOK, TickOK, NextOK, Committed, Applied, Made, LatestOf
  <1>3. ChainOK' /\ BindingsOK' /\ EventsOK' /\ NoWorkIsLost'
    BY <1>1 DEF RuntimeInv, ChainOK, BindingsOK, EventsOK, NoWorkIsLost, Made, Latest
  <1> QED
    BY <1>1, <1>2, <1>3 DEF RuntimeInv
-----------------------------------------------------------------------------
(* What may be observed *)

LEMMA RuleFacts ==
    \A r \in Policy : r.event \in TransitionEvents /\ r.evidence \subseteq EvidenceKinds
PROOF
  BY PolicyAssumption DEF ValidPolicy, Rules

LEMMA ForeseenFacts ==
    ASSUME RuntimeInv, head # None, NEW s \in Foreseen
    PROVE  Grown(s)
PROOF
  <1>1. Grown(head)
    BY LatestFacts
  <1>2. ASSUME NEW i \in DOMAIN events, NEW x \in Advances(head, Latest, events[i])
        PROVE  Grown(x.state)
    <2>1. events[i] \in Ticks \union Decisions
      BY DEF RuntimeInv, EventsOK
    <2>2. CASE events[i] \in Ticks
      BY <1>1, <1>2, <2>2, DecisionFacts, TransitionFacts DEF Advances, Follows
    <2>3. CASE events[i] \in Decisions
      BY <1>1, <1>2, <2>3, DecisionFacts, DecidedFacts DEF Advances, Follows
    <2> QED
      BY <2>1, <2>2, <2>3
  <1> QED
    BY <1>1, <1>2 DEF Foreseen

LEMMA WakingFacts ==
    ASSUME NEW s, Grown(s), NEW r, NEW evidence \in SUBSET EvidenceKinds,
           NEW w \in Wakings(s, r, evidence)
    PROVE  w \in WakeAdmissions \union {None}
PROOF
  <1>1. /\ Digest(s) \in Digests
        /\ \A p \in s.passive : p.wake \in Wakes /\ p.work \in Works
    BY DigestFacts DEF Grown, WellFormed, PassiveEntry, States, Entries
  <1>2. ASSUME NEW work \in Works, NEW g \in Grants, w \in AdmitPassiveWake(s, work, evidence, g)
        PROVE  w \in WakeAdmissions
    <2>1. PICK rule \in Matching("passive", "wake_satisfied"), p \in s.passive :
              w = [state |-> Digest(s), work |-> work, wake |-> p.wake, rule |-> rule,
                   evidence |-> evidence, grant |-> g]
      BY <1>2 DEF AdmitPassiveWake
    <2>2. rule \in Policy /\ g \in Policy \union {None}
      BY DEF Matching, Grants
    <2> QED
      BY <1>1, <2>1, <2>2 DEF WakeAdmissions
  <1> QED
    BY <1>2 DEF Wakings

\* A tick made for a state of the portfolio, by the fields it is made of.
LEMMA TickFacts ==
    ASSUME NEW k \in Identities \union {None}, NEW d \in Digests, NEW event \in TransitionEvents,
           NEW evidence \in SUBSET EvidenceKinds, NEW w \in WakeAdmissions \union {None},
           NEW grant \in Policy \union {None}
    PROVE  [trigger |-> k, expected |-> d, event |-> event, evidence |-> evidence,
            wake |-> w, grant |-> grant] \in Ticks
PROOF
  BY DEF Ticks

LEMMA ProviderStep ==
    ASSUME RuntimeInv, head # None, NEW k \in Identities, NEW r \in ProviderRules,
           NEW kind \in r.evidence, ProviderEvent(k, r, kind)
    PROVE  RuntimeInv'
PROOF
  <1> DEFINE t == [trigger |-> k, expected |-> Digest(head), event |-> r.event,
                   evidence |-> {kind}, wake |-> None, grant |-> None]
  <1>1. Digest(head) \in Digests
    BY LatestFacts, DigestFacts DEF Grown
  <1>2. r.event \in TransitionEvents /\ {kind} \in SUBSET EvidenceKinds
    BY RuleFacts DEF ProviderRules
  <1>3. t \in Ticks /\ t.grant = None
    BY <1>1, <1>2, TickFacts
  <1>4. Offer(t)
    BY DEF ProviderEvent
  <1> HIDE DEF t
  <1> QED
    BY <1>3, <1>4, OfferStep

LEMMA ExternalStep ==
    ASSUME RuntimeInv, ObserveExternal
    PROVE  RuntimeInv'
PROOF
  <1>1. PICK k \in Identities, s \in Foreseen, r \in Policy, evidence \in Bundles :
            \E wake \in Wakings(s, r, evidence) :
                Offer([trigger |-> k, expected |-> Digest(s), event |-> r.event,
                       evidence |-> evidence, wake |-> wake, grant |-> None])
    BY DEF ObserveExternal
  <1>2. PICK w \in Wakings(s, r, evidence) :
            Offer([trigger |-> k, expected |-> Digest(s), event |-> r.event,
                   evidence |-> evidence, wake |-> w, grant |-> None])
    BY <1>1
  <1> DEFINE t == [trigger |-> k, expected |-> Digest(s), event |-> r.event,
                   evidence |-> evidence, wake |-> w, grant |-> None]
  <1>3. Grown(s)
    BY ForeseenFacts DEF ObserveExternal, MayObserve
  <1>4. Digest(s) \in Digests
    BY <1>3, DigestFacts DEF Grown
  <1>5. evidence \in SUBSET EvidenceKinds
    BY BoundsAssumption
  <1>6. w \in WakeAdmissions \union {None}
    BY <1>3, <1>5, WakingFacts
  <1>7. t \in Ticks /\ t.grant = None
    BY <1>4, <1>5, <1>6, RuleFacts, TickFacts
  <1>8. Offer(t)
    BY <1>2
  <1> HIDE DEF t
  <1> QED
    BY <1>7, <1>8, OfferStep

LEMMA OperatorStep ==
    ASSUME RuntimeInv, ObserveOperator \/ AdmitHumanAuthority
    PROVE  RuntimeInv'
PROOF
  <1>1. PICK r \in Policy, evidence \in Bundles, grant \in Policy \union {None} :
            \E wake \in Wakings(head, r, evidence) :
                Offer([trigger |-> None, expected |-> Digest(head), event |-> r.event,
                       evidence |-> evidence, wake |-> wake, grant |-> grant])
    BY DEF ObserveOperator, AdmitHumanAuthority, Grants
  <1>2. PICK w \in Wakings(head, r, evidence) :
            Offer([trigger |-> None, expected |-> Digest(head), event |-> r.event,
                   evidence |-> evidence, wake |-> w, grant |-> grant])
    BY <1>1
  <1> DEFINE t == [trigger |-> None, expected |-> Digest(head), event |-> r.event,
                   evidence |-> evidence, wake |-> w, grant |-> grant]
  <1>3. Grown(head)
    BY LatestFacts DEF ObserveOperator, AdmitHumanAuthority, MayObserve
  <1>4. Digest(head) \in Digests
    BY <1>3, DigestFacts DEF Grown
  <1>5. evidence \in SUBSET EvidenceKinds
    BY BoundsAssumption
  <1>6. w \in WakeAdmissions \union {None}
    BY <1>3, <1>5, WakingFacts
  <1>7. t \in Ticks /\ t.trigger = None
    BY <1>4, <1>5, <1>6, RuleFacts, TickFacts
  <1>8. Offer(t)
    BY <1>2
  <1> HIDE DEF t
  <1> QED
    BY <1>7, <1>8, OfferStep

LEMMA VerificationStep ==
    ASSUME RuntimeInv, NEW passed \in BOOLEAN, ObserveVerification(passed)
    PROVE  RuntimeInv'
PROOF
  <1> DEFINE event == IF passed THEN "verification_passed" ELSE "verification_failed"
             kind == IF passed THEN "verifier_pass" ELSE "verifier_reject"
  <1>1. PICK i \in requests :
            Offer([trigger |-> None, expected |-> checkpoints[i].state, event |-> event,
                   evidence |-> {kind}, wake |-> None, grant |-> None])
    BY DEF ObserveVerification
  <1>2. event \in TransitionEvents /\ {kind} \in SUBSET EvidenceKinds
    BY DEF TransitionEvents, EvidenceKinds
  <1> HIDE DEF event, kind
  <1> DEFINE t == [trigger |-> None, expected |-> checkpoints[i].state, event |-> event,
                   evidence |-> {kind}, wake |-> None, grant |-> None]
  <1>3. checkpoints[i].state \in Digests
    <2>1. i \in DOMAIN checkpoints /\ checkpoints \in Seq(Checkpoints)
      BY DEF RuntimeInv, ChainOK
    <2>2. checkpoints[i] \in Checkpoints
      BY <2>1
    <2> QED
      BY <2>2 DEF Checkpoints
  <1>4. t \in Ticks /\ t.trigger = None
    BY <1>2, <1>3, TickFacts
  <1>5. Offer(t)
    BY <1>1
  <1> HIDE DEF t
  <1> QED
    BY <1>4, <1>5, OfferStep

LEMMA HumanStep ==
    ASSUME RuntimeInv, ObserveHuman
    PROVE  RuntimeInv'
PROOF
  <1>1. PICK target \in {"rework", "failed"} :
            Offer([trigger |-> None, expected |-> Digest(head), target |-> target])
    BY DEF ObserveHuman
  <1> DEFINE t == [trigger |-> None, expected |-> Digest(head), target |-> target]
  <1>2. Digest(head) \in Digests
    BY LatestFacts, DigestFacts DEF ObserveHuman, MayDecide, Grown
  <1>3. t \in Decisions /\ t.trigger = None
    BY <1>2 DEF Decisions
  <1>4. Offer(t)
    BY <1>1
  <1> HIDE DEF t
  <1> QED
    BY <1>3, <1>4, OfferStep
-----------------------------------------------------------------------------
(* What one host does by itself *)

\* A host sets out on a tick.
LEMMA SetOut ==
    ASSUME NEW r \in HostRecords, r.pc \in {"bind", "recover"}, r.job # "decision",
           r.tick \in Made, r.tick \in Ticks, r.tick.trigger # None <=> r.pc = "bind",
           \A i \in DOMAIN r.rest : r.rest[i] \in Made /\ r.rest[i].trigger # None,
           r.status = None, r.post = None \/ Continues(r.post)
    PROVE  HostOK(r) /\ ~Committed(r)
PROOF
  <1>1. TickOK(r)
    BY DEF TickOK
  <1>2. ~Committed(r) /\ r.status # "already_applied"
    BY AbsentAssumption DEF Committed
  <1> QED
    BY <1>1, <1>2 DEF HostOK

\* A host goes on with its tick.
LEMMA GoOn ==
    ASSUME NEW r, HostOK(r), r.pc \notin {"idle", "bind", "fresh"}, NEW q \in HostRecords,
           q.pc \notin {"idle", "bind"}, r.job = "decision" => q.pc \in {"commit", "post", "after"},
           q.job = r.job, q.tick = r.tick, q.rest = r.rest
    PROVE  /\ TickOK(r) /\ TickOK(q)
           /\ \A i \in DOMAIN q.rest : q.rest[i] \in Made /\ q.rest[i].trigger # None
           /\ r.post = None \/ Continues(r.post)
PROOF
  BY DEF HostOK, TickOK

LEMMA DeliverStep ==
    ASSUME RuntimeInv, NEW h \in Hosts, NEW i, Deliver(h, i)
    PROVE  RuntimeInv'
PROOF
  <1> DEFINE t == events[i]
             a == [Idle EXCEPT !.pc = "recover", !.job = "direct", !.tick = t]
             b == [Idle EXCEPT !.pc = "bind", !.job = "event", !.tick = t]
  <1>1. /\ i \in DOMAIN events /\ ~IsDecision(t) /\ AtRead(h, IF t.trigger = None THEN a ELSE b)
        /\ UNCHANGED <<store, made, crashes>>
    BY DEF Deliver
  <1>2. t \in Made /\ t \in Ticks
    BY <1>1, DecisionFacts DEF RuntimeInv, EventsOK, Made
  <1> HIDE DEF t
  <1>3. /\ a \in HostRecords /\ a.pc = "recover" /\ a.job = "direct" /\ a.tick = t
        /\ a.rest = <<>> /\ a.status = None /\ a.post = None
    BY <1>2, IdleFacts DEF HostRecords, Places, Jobs
  <1>4. /\ b \in HostRecords /\ b.pc = "bind" /\ b.job = "event" /\ b.tick = t
        /\ b.rest = <<>> /\ b.status = None /\ b.post = None
    BY <1>2, IdleFacts DEF HostRecords, Places, Jobs
  <1> HIDE DEF a, b
  <1>5. t.trigger = None => HostOK(a) /\ ~Committed(a)
    BY <1>2, <1>3, SetOut
  <1>6. t.trigger # None => HostOK(b) /\ ~Committed(b)
    BY <1>2, <1>4, SetOut
  <1> QED
    BY <1>1, <1>5, <1>6, ReadStep

LEMMA JudgeStep ==
    ASSUME RuntimeInv, NEW h \in Hosts, NEW i, Judge(h, i)
    PROVE  RuntimeInv'
PROOF
  <1> DEFINE t == events[i]
  <1>1. /\ i \in DOMAIN events /\ IsDecision(t) /\ head # None /\ UNCHANGED <<store, made>>
        /\ crashes' \in 0 .. MaxCrashes
    BY DEF Judge, Recovers, RuntimeInv
  <1>2. PICK x \in Decided(head, Latest, t) :
            Becomes(h, [Idle EXCEPT !.pc = "commit", !.job = "decision", !.tick = t,
                                    !.read = head, !.next = x])
    BY DEF Judge
  <1>3. t \in Made /\ t \in Decisions
    BY <1>1, DecisionFacts DEF RuntimeInv, EventsOK, Made
  <1>4. Grown(head) /\ LatestOf(head) = Latest /\ head.generation <= Len(checkpoints)
    BY <1>1, LatestFacts DEF RuntimeInv, ChainOK, Grown, States
  <1>5. Follows(x, head, t) /\ t.expected = Digest(head)
    BY <1>3, <1>4, DecidedFacts
  <1> HIDE DEF t
  <1> DEFINE q == [Idle EXCEPT !.pc = "commit", !.job = "decision", !.tick = t,
                               !.read = head, !.next = x]
  <1>6. x \in [state: States, checkpoint: Checkpoints] /\ head \in States
    BY <1>4, <1>5 DEF Follows, Grown
  <1>7. /\ q \in HostRecords /\ q.pc = "commit" /\ q.job = "decision" /\ q.tick = t
        /\ q.rest = <<>> /\ q.status = None /\ q.post = None /\ q.read = head /\ q.next = x
    BY <1>3, <1>6, IdleFacts DEF HostRecords, Places, Jobs
  <1> HIDE DEF q
  <1>8. TickOK(q)
    BY <1>3, <1>7, DecisionFacts DEF TickOK
  <1>9. NextOK(q)
    BY <1>4, <1>5, <1>7 DEF NextOK
  <1>10. ~Committed(q) /\ q.status # "already_applied"
    BY <1>7, AbsentAssumption DEF Committed
  <1>11. HostOK(q)
    BY <1>4, <1>7, <1>8, <1>9, <1>10 DEF HostOK
  <1>12. Becomes(h, q)
    BY <1>2 DEF q
  <1> QED
    BY <1>1, <1>10, <1>11, <1>12, HostStep

LEMMA BurstStep ==
    ASSUME RuntimeInv, NEW h \in Hosts, StartBurst(h)
    PROVE  RuntimeInv'
PROOF
  <1>1. UNCHANGED <<store, made, crashes>>
    BY DEF StartBurst
  <1>2. PICK m \in Manifests :
            AtRead(h, IF Digest(head) = m[1].expected
                      THEN [Idle EXCEPT !.pc = "bind", !.job = "burst", !.tick = m[1],
                                        !.rest = Tail(m)]
                      ELSE Idle)
    BY DEF StartBurst
  <1>3. PICK n \in 1 .. MaxBurst : m \in [1 .. n -> Made] /\ \A i \in DOMAIN m : m[i].trigger # None
    BY DEF Manifests, Made
  <1>4. n \in Nat /\ n >= 1 /\ m \in [1 .. n -> Ticks]
    BY <1>3, BoundsAssumption DEF RuntimeInv, EventsOK
  <1>5. /\ m \in Seq(Ticks) /\ Len(m) = n /\ m # <<>>
    BY <1>4
  <1>6. /\ Tail(m) \in Seq(Ticks) /\ DOMAIN Tail(m) = 1 .. n - 1
        /\ \A i \in 1 .. n - 1 : Tail(m)[i] = m[i + 1]
    BY <1>4, <1>5
  <1>7. m[1] \in Made /\ m[1] \in Ticks /\ m[1].trigger # None
    BY <1>3, <1>4
  <1>8. \A i \in DOMAIN Tail(m) : Tail(m)[i] \in Made /\ Tail(m)[i].trigger # None
    BY <1>3, <1>4, <1>6
  <1> DEFINE rest == Tail(m)
             t == m[1]
             q == [Idle EXCEPT !.pc = "bind", !.job = "burst", !.tick = t, !.rest = rest]
  <1> HIDE DEF rest, t
  <1>9. /\ q \in HostRecords /\ q.pc = "bind" /\ q.job = "burst" /\ q.tick = t
        /\ q.rest = rest /\ q.status = None /\ q.post = None
    BY <1>6, <1>7, IdleFacts DEF HostRecords, Places, Jobs, rest, t
  <1> HIDE DEF q
  <1>10. HostOK(q) /\ ~Committed(q)
    BY <1>7, <1>8, <1>9, SetOut DEF rest, t
  <1>11. AtRead(h, IF Digest(head) = m[1].expected THEN q ELSE Idle)
    BY <1>2 DEF q, rest, t
  <1> QED
    BY <1>1, <1>10, <1>11, IdleOK, ReadStep

\* A tick that ends reports only what is so.
LEMMA ResultOK ==
    ASSUME NEW h \in Hosts, HostOK(host[h]), host[h].pc \notin {"idle", "bind", "fresh"},
           NEW status \in Statuses,
           status \in {"committed", "already_applied"} => Applied(host[h].tick)
    PROVE  LET q == Result(h, status)
           IN /\ HostOK(q)
              /\ q.tick = host[h].tick
              /\ Committed(q) => status = "committed"
PROOF
  <1> DEFINE r == host[h]
             q == [r EXCEPT !.pc = "after", !.status = status, !.read = None, !.next = None]
  <1>1. HostOK(r) /\ r \in HostRecords /\ r.pc \notin {"idle", "bind", "fresh"}
    BY DEF HostOK
  <1>2. status \in {"committed", "already_applied"} => Applied(r.tick)
    OBVIOUS
  <1>3. q = Result(h, status)
    BY DEF Result
  <1> HIDE DEF r
  <1>4. /\ q \in HostRecords /\ q.pc = "after" /\ q.status = status /\ q.job = r.job
        /\ q.tick = r.tick /\ q.rest = r.rest /\ q.post = r.post
    BY <1>1 DEF HostRecords, Places
  <1> HIDE DEF q
  <1>5. /\ TickOK(q)
        /\ \A i \in DOMAIN q.rest : q.rest[i] \in Made /\ q.rest[i].trigger # None
        /\ q.post = None \/ Continues(q.post)
    BY <1>1, <1>4, GoOn
  <1>6. Committed(q) => status = "committed"
    BY <1>4 DEF Committed
  <1>7. HostOK(q)
    BY <1>2, <1>4, <1>5, <1>6 DEF HostOK
  <1> QED
    BY <1>3, <1>4, <1>6, <1>7 DEF r

LEMMA ScanStep ==
    ASSUME RuntimeInv, NEW h \in Hosts, Scan(h)
    PROVE  RuntimeInv'
PROOF
  <1> DEFINE r == host[h]
             q == [r EXCEPT !.pc = "recover"]
  <1>1. HostOK(r) /\ r \in HostRecords /\ r.pc = "scan"
    BY DEF RuntimeInv, HostsOK, HostOK, Scan
  <1>2. UNCHANGED <<store, made>> /\ crashes' \in 0 .. MaxCrashes
    BY DEF Scan, RuntimeInv
  <1>3. CASE Applied(r.tick)
    <2>1. Becomes(h, Result(h, "already_applied"))
      BY <1>3 DEF Scan, Applied
    <2> QED
      BY <1>1, <1>2, <1>3, <2>1, ResultOK, HostStep DEF Statuses
  <1>4. CASE ~Applied(r.tick)
    <2>1. Becomes(h, q)
      BY <1>4 DEF Scan, Applied, Goto
    <2> HIDE DEF r
    <2>2. /\ q \in HostRecords /\ q.pc = "recover" /\ q.status = r.status /\ q.job = r.job
          /\ q.tick = r.tick /\ q.rest = r.rest /\ q.post = r.post
      BY <1>1 DEF HostRecords, Places
    <2> HIDE DEF q
    <2>3. r.job # "decision" /\ r.status = None
      BY <1>1 DEF HostOK, TickOK
    <2>4. /\ TickOK(q)
          /\ \A i \in DOMAIN q.rest : q.rest[i] \in Made /\ q.rest[i].trigger # None
          /\ q.post = None \/ Continues(q.post)
      BY <1>1, <2>2, <2>3, GoOn
    <2>5. ~Committed(q) /\ q.status # "already_applied"
      BY <2>2, <2>3, AbsentAssumption DEF Committed
    <2>6. HostOK(q)
      BY <2>2, <2>3, <2>4, <2>5 DEF HostOK
    <2> QED
      BY <1>2, <2>1, <2>5, <2>6, HostStep
  <1> QED
    BY <1>3, <1>4

LEMMA RecoverStep ==
    ASSUME RuntimeInv, NEW h \in Hosts, Recover(h)
    PROVE  RuntimeInv'
PROOF
  <1> DEFINE r == host[h]
             q == [r EXCEPT !.pc = "latest", !.read = head]
  <1>1. HostOK(r) /\ r \in HostRecords /\ r.pc = "recover"
    BY DEF RuntimeInv, HostsOK, HostOK, Recover
  <1>2. AtRead(h, q) /\ UNCHANGED <<store, made, crashes>>
    BY DEF Recover
  <1> HIDE DEF r
  <1>3. ASSUME Recovers PROVE HostOK(q) /\ ~Committed(q)
    <2>1. Grown(head) /\ head \in States
      BY <1>3, LatestFacts DEF Recovers, Grown
    <2>2. /\ q \in HostRecords /\ q.pc = "latest" /\ q.status = r.status /\ q.job = r.job
          /\ q.tick = r.tick /\ q.rest = r.rest /\ q.post = r.post /\ q.read = head
      BY <1>1, <2>1 DEF HostRecords, Places
    <2> HIDE DEF q
    <2>3. r.job # "decision" /\ r.status = None
      BY <1>1 DEF HostOK, TickOK
    <2>4. /\ TickOK(q)
          /\ \A i \in DOMAIN q.rest : q.rest[i] \in Made /\ q.rest[i].trigger # None
          /\ q.post = None \/ Continues(q.post)
      BY <1>1, <2>2, <2>3, GoOn
    <2>5. ~Committed(q) /\ q.status # "already_applied"
      BY <2>2, <2>3, AbsentAssumption DEF Committed
    <2>6. HostOK(q)
      BY <2>1, <2>2, <2>3, <2>4, <2>5 DEF HostOK
    <2> QED
      BY <2>5, <2>6
  <1> HIDE DEF q
  <1> QED
    BY <1>2, <1>3, ReadStep

\* LatestHas found the tick in the checkpoint of the head.
LEMMA LatestApplied ==
    ASSUME RuntimeInv, Recovers, NEW t, LatestHas(t)
    PROVE  Applied(t)
PROOF
  BY DEF Recovers, LatestHas, Latest, Applied

LEMMA DecideStep ==
    ASSUME RuntimeInv, NEW h \in Hosts, Decide(h)
    PROVE  RuntimeInv'
PROOF
  <1> DEFINE r == host[h]
             t == r.tick
  <1>1. HostOK(r) /\ r \in HostRecords /\ r.pc = "latest" /\ Grown(r.read)
    BY DEF RuntimeInv, HostsOK, HostOK, Decide
  <1>2. UNCHANGED <<store, made>> /\ crashes' \in 0 .. MaxCrashes
    BY DEF Decide, RuntimeInv
  <1>3. CASE Becomes(h, Idle)
    BY <1>2, <1>3, IdleOK, HostStep
  <1>4. CASE Recovers /\ LatestHas(t) /\ Becomes(h, Result(h, "already_applied"))
    <2>1. Applied(t)
      BY <1>4, LatestApplied
    <2> QED
      BY <1>1, <1>2, <1>4, <2>1, ResultOK, HostStep DEF Statuses
  <1>5. CASE Becomes(h, Result(h, "stale_observation"))
    BY <1>1, <1>2, <1>5, ResultOK, HostStep DEF Statuses
  <1>6. ASSUME t.expected = Digest(r.read), NEW x \in Transitions(r.read, t),
               Becomes(h, [r EXCEPT !.pc = "commit", !.next = x])
        PROVE  RuntimeInv'
    <2> DEFINE q == [r EXCEPT !.pc = "commit", !.next = x]
    <2> HIDE DEF r
    <2>1. t \in Ticks /\ r.job # "decision" /\ r.status = None
      BY <1>1 DEF HostOK, TickOK
    <2>2. Follows(x, r.read, t)
      BY <1>1, <1>6, <2>1, TransitionFacts
    <2>3. x \in [state: States, checkpoint: Checkpoints]
      BY <2>2 DEF Follows, Grown
    <2>4. /\ q \in HostRecords /\ q.pc = "commit" /\ q.status = r.status /\ q.job = r.job
          /\ q.tick = t /\ q.rest = r.rest /\ q.post = r.post /\ q.read = r.read /\ q.next = x
      BY <1>1, <2>3 DEF HostRecords, Places
    <2>5. Becomes(h, q)
      BY <1>6
    <2> HIDE DEF q
    <2>6. /\ TickOK(q)
          /\ \A i \in DOMAIN q.rest : q.rest[i] \in Made /\ q.rest[i].trigger # None
          /\ q.post = None \/ Continues(q.post)
      BY <1>1, <2>1, <2>4, GoOn
    <2>7. NextOK(q)
      BY <1>6, <2>1, <2>4 DEF NextOK
    <2>8. ~Committed(q) /\ q.status # "already_applied"
      BY <2>1, <2>4, AbsentAssumption DEF Committed
    <2>9. HostOK(q)
      BY <1>1, <2>1, <2>4, <2>6, <2>7, <2>8 DEF HostOK
    <2> QED
      BY <1>2, <2>5, <2>8, <2>9, HostStep
  <1> QED
    BY <1>3, <1>4, <1>5, <1>6 DEF Decide

LEMMA RefusedStep ==
    ASSUME RuntimeInv, NEW h \in Hosts, Commit(h), ~CommitHolds(host[h].read, host[h].next)
    PROVE  RuntimeInv'
PROOF
  <1> DEFINE r == host[h]
             q == [r EXCEPT !.pc = "failed"]
  <1>1. HostOK(r) /\ r \in HostRecords /\ r.pc = "commit"
    BY DEF RuntimeInv, HostsOK, HostOK, Commit
  <1>2. /\ UNCHANGED <<store, made>> /\ crashes' \in 0 .. MaxCrashes
        /\ Becomes(h, IF r.job = "decision" THEN Idle ELSE q)
    BY DEF Commit, RuntimeInv, store, Goto
  <1> HIDE DEF r
  <1>3. CASE r.job = "decision"
    BY <1>2, <1>3, IdleOK, HostStep
  <1>4. CASE r.job # "decision"
    <2>1. /\ q \in HostRecords /\ q.pc = "failed" /\ q.status = r.status /\ q.job = r.job
          /\ q.tick = r.tick /\ q.rest = r.rest /\ q.post = r.post /\ q.read = r.read
      BY <1>1 DEF HostRecords, Places
    <2> HIDE DEF q
    <2>2. Grown(r.read) /\ r.status = None
      BY <1>1 DEF HostOK
    <2>3. /\ TickOK(q)
          /\ \A i \in DOMAIN q.rest : q.rest[i] \in Made /\ q.rest[i].trigger # None
          /\ q.post = None \/ Continues(q.post)
      BY <1>1, <1>4, <2>1, GoOn
    <2>4. ~Committed(q) /\ q.status # "already_applied"
      BY <2>1, <2>2, AbsentAssumption DEF Committed
    <2>5. HostOK(q)
      BY <2>1, <2>2, <2>3, <2>4 DEF HostOK
    <2> QED
      BY <1>2, <1>4, <2>4, <2>5, HostStep
  <1> QED
    BY <1>3, <1>4

LEMMA FailedStep ==
    ASSUME RuntimeInv, NEW h \in Hosts, Failed(h)
    PROVE  RuntimeInv'
PROOF
  <1>1. HostOK(host[h]) /\ host[h].pc = "failed"
    BY DEF RuntimeInv, HostsOK, Failed
  <1>2. UNCHANGED <<store, made, crashes>>
    BY DEF Failed
  <1>3. CASE AtRead(h, Idle)
    BY <1>2, <1>3, IdleOK, ReadStep
  <1>4. CASE LatestHas(host[h].tick) /\ AtRead(h, Result(h, "already_applied"))
    <2>1. Recovers => Applied(host[h].tick)
      BY <1>4, LatestApplied
    <2> QED
      BY <1>1, <1>2, <1>4, <2>1, ResultOK, ReadStep DEF Statuses
  <1>5. CASE AtRead(h, Result(h, "stale_observation"))
    BY <1>1, <1>2, <1>5, ResultOK, ReadStep DEF Statuses
  <1> QED
    BY <1>3, <1>4, <1>5 DEF Failed

LEMMA PostStep ==
    ASSUME RuntimeInv, NEW h \in Hosts, Post(h)
    PROVE  RuntimeInv'
PROOF
  <1>1. HostOK(host[h]) /\ host[h].pc = "post" /\ Committed(host[h]) /\ Applied(host[h].tick)
    BY DEF RuntimeInv, HostsOK, HostOK, Committed, Post
  <1>2. UNCHANGED <<store, made, crashes>>
    BY DEF Post
  <1>3. CASE AtRead(h, Idle)
    BY <1>2, <1>3, IdleOK, ReadStep
  <1>4. CASE AtRead(h, Result(h, "committed"))
    BY <1>1, <1>2, <1>4, ResultOK, ReadStep DEF Statuses
  <1> QED
    BY <1>3, <1>4 DEF Post

LEMMA AfterStep ==
    ASSUME RuntimeInv, NEW h \in Hosts, After(h)
    PROVE  RuntimeInv'
PROOF
  <1> DEFINE r == host[h]
             q == [r EXCEPT !.pc = "fresh", !.post = head]
  <1>1. HostOK(r) /\ r \in HostRecords /\ r.pc = "after"
    BY DEF RuntimeInv, HostsOK, HostOK, After
  <1>2. AtRead(h, IF r.job = "burst" THEN q ELSE Idle) /\ UNCHANGED <<store, made, crashes>>
    BY DEF After
  <1>3. ASSUME Recovers, r.job = "burst"
        PROVE  HostOK(q) /\ (Committed(q) => Committed(r) /\ q.tick = r.tick)
    <2>1. Grown(head) /\ head \in States
      BY <1>3, LatestFacts DEF Recovers, Grown
    <2> HIDE DEF r
    <2>2. /\ q \in HostRecords /\ q.pc = "fresh" /\ q.status = r.status /\ q.job = r.job
          /\ q.tick = r.tick /\ q.rest = r.rest
      BY <1>1, <2>1 DEF HostRecords, Places
    <2> HIDE DEF q
    <2>3. /\ TickOK(q)
          /\ \A i \in DOMAIN q.rest : q.rest[i] \in Made /\ q.rest[i].trigger # None
      BY <1>1, <1>3, <2>2, GoOn
    <2>4. Committed(q) => Committed(r)
      BY <2>2 DEF Committed
    <2>5. Committed(r) \/ r.status = "already_applied" => Applied(r.tick)
      BY <1>1 DEF HostOK
    <2>6. HostOK(q)
      BY <2>2, <2>3, <2>4, <2>5 DEF HostOK
    <2> QED
      BY <2>2, <2>4, <2>6
  <1> HIDE DEF q
  <1>4. CASE r.job = "burst"
    BY <1>2, <1>3, <1>4, ReadStep
  <1>5. CASE r.job # "burst"
    BY <1>2, <1>5, IdleOK, ReadStep
  <1> QED
    BY <1>4, <1>5

LEMMA FreshStep ==
    ASSUME RuntimeInv, NEW h \in Hosts, Fresh(h)
    PROVE  RuntimeInv'
PROOF
  <1> DEFINE r == host[h]
             t == r.rest[1]
             rest == Tail(r.rest)
             q == [r EXCEPT !.pc = "bind", !.tick = t, !.rest = rest, !.status = None]
  <1>1. HostOK(r) /\ r \in HostRecords /\ r.pc = "fresh"
    BY DEF RuntimeInv, HostsOK, HostOK, Fresh
  <1>2. UNCHANGED <<store, made, crashes>>
    BY DEF Fresh
  <1>3. \/ AtRead(h, Idle)
        \/ Continues(r.post) /\ r.rest # <<>> /\ AtRead(h, q)
    BY DEF Fresh
  <1>4. CASE AtRead(h, Idle)
    BY <1>2, <1>4, IdleOK, ReadStep
  <1>5. CASE Continues(r.post) /\ r.rest # <<>> /\ AtRead(h, q)
    <2> HIDE DEF r
    <2>1. /\ r.rest \in Seq(Ticks) /\ r.job # "decision"
          /\ \A i \in DOMAIN r.rest : r.rest[i] \in Made /\ r.rest[i].trigger # None
      BY <1>1 DEF HostOK, HostRecords, TickOK
    <2>2. /\ t \in Ticks /\ 1 \in DOMAIN r.rest /\ rest \in Seq(Ticks)
          /\ \A i \in DOMAIN rest : i + 1 \in DOMAIN r.rest /\ rest[i] = r.rest[i + 1]
      BY <1>5, <2>1
    <2>3. t \in Made /\ t.trigger # None
      BY <2>1, <2>2
    <2>4. \A i \in DOMAIN rest : rest[i] \in Made /\ rest[i].trigger # None
      BY <2>1, <2>2
    <2> HIDE DEF t, rest
    <2>5. /\ q \in HostRecords /\ q.pc = "bind" /\ q.status = None /\ q.job = r.job
          /\ q.tick = t /\ q.rest = rest /\ q.post = r.post
      BY <1>1, <2>2 DEF HostRecords, Places
    <2> HIDE DEF q
    <2>6. HostOK(q) /\ ~Committed(q)
      BY <1>5, <2>1, <2>2, <2>3, <2>4, <2>5, SetOut
    <2> QED
      BY <1>2, <1>5, <2>6, ReadStep
  <1> QED
    BY <1>3, <1>4, <1>5

LEMMA CrashStep ==
    ASSUME RuntimeInv, NEW h \in Hosts, Crash(h)
    PROVE  RuntimeInv'
PROOF
  <1>1. Becomes(h, Idle) /\ UNCHANGED <<store, made>> /\ crashes' \in 0 .. MaxCrashes
    BY BoundsAssumption DEF Crash, RuntimeInv
  <1> QED
    BY <1>1, IdleOK, HostStep

-----------------------------------------------------------------------------
(* The theorems *)

LEMMA RuntimeInitial == Init => RuntimeInv
PROOF
  <1> SUFFICES ASSUME Init PROVE RuntimeInv
    OBVIOUS
  <1>1. ChainOK /\ BindingsOK /\ NoWorkIsLost
    BY DEF Init, ChainOK, BindingsOK, NoWorkIsLost
  <1>2. EventsOK
    BY DEF Init, EventsOK, Made
  <1>3. HostsOK
    BY IdleOK DEF Init, HostsOK
  <1> QED
    BY <1>1, <1>2, <1>3, BoundsAssumption DEF Init, RuntimeInv

LEMMA RuntimeInductive == RuntimeInv /\ [Next]_vars => RuntimeInv'
PROOF
  <1> SUFFICES ASSUME RuntimeInv, [Next]_vars PROVE RuntimeInv'
    OBVIOUS
  <1>1. CASE Bootstrap
    BY <1>1, BootstrapStep
  <1>2. CASE ObserveProvider
    BY <1>2, ProviderStep DEF ObserveProvider, MayObserve
  <1>3. CASE ObserveExternal
    BY <1>3, ExternalStep
  <1>4. CASE ObserveOperator \/ AdmitHumanAuthority
    BY <1>4, OperatorStep
  <1>5. CASE ObserveHuman
    BY <1>5, HumanStep
  <1>6. ASSUME NEW class \in TransitionClasses, NEW needed \in {"none", "existing"},
               ObserveResult(class, needed)
        PROVE  RuntimeInv'
    BY <1>6, ProviderStep DEF ObserveResult, MayObserve
  <1>7. ASSUME NEW passed \in BOOLEAN, ObserveVerification(passed)
        PROVE  RuntimeInv'
    BY <1>7, VerificationStep
  <1>8. ASSUME NEW h \in Hosts, StartBurst(h) PROVE RuntimeInv'
    BY <1>8, BurstStep
  <1>9. ASSUME NEW h \in Hosts, PrepareVerification(h) PROVE RuntimeInv'
    BY <1>9, RequestStep
  <1>10. ASSUME NEW h \in Hosts, NEW i \in 1 .. MaxMade, Deliver(h, i) \/ Judge(h, i)
         PROVE  RuntimeInv'
    BY <1>10, DeliverStep, JudgeStep
  <1>11. ASSUME NEW h \in Hosts, Step(h) PROVE RuntimeInv'
    BY <1>11, BindStep, ScanStep, RecoverStep, DecideStep, CommitStep, RefusedStep, FailedStep,
       PostStep, AfterStep, FreshStep
       DEF Step
  <1>12. ASSUME NEW h \in Hosts, Crash(h) PROVE RuntimeInv'
    BY <1>12, CrashStep
  <1>13. CASE UNCHANGED vars
    <2>1. UNCHANGED <<head, checkpoints, bindings, events, requests, host, crashes>>
      BY <1>13 DEF vars, store, made
    <2>2. HostsOK'
      BY <2>1 DEF RuntimeInv, HostsOK, HostOK, TickOK, NextOK, Committed, Applied, Made, LatestOf
    <2>3. ChainOK' /\ BindingsOK' /\ EventsOK' /\ NoWorkIsLost'
      BY <2>1 DEF RuntimeInv, ChainOK, BindingsOK, EventsOK, NoWorkIsLost, Made, Latest
    <2> QED
      BY <2>1, <2>2, <2>3 DEF RuntimeInv
  <1> QED
    BY <1>1, <1>2, <1>3, <1>4, <1>5, <1>6, <1>7, <1>8, <1>9, <1>10, <1>11, <1>12, <1>13 DEF Next

\* The chain of checkpoints, the bindings and what the hosts hold stay consistent
\* under every interleaving of hosts, deliveries and crashes.
THEOREM RuntimeInvariance == Spec => []RuntimeInv
PROOF
  BY RuntimeInitial, RuntimeInductive, PTL DEF Spec

\* The store holds a well-formed portfolio and records of their kind
\* (PortfolioState.__post_init__, ExecutionCheckpoint).
THEOREM RuntimeTypeHolds == Spec => []RuntimeTypeOK
PROOF
  <1>1. RuntimeInv => RuntimeTypeOK
    <2> SUFFICES ASSUME RuntimeInv PROVE RuntimeTypeOK
      OBVIOUS
    <2>1. head = None \/ (head \in States /\ WellFormed(head))
      BY DEF RuntimeInv, ChainOK, Grown
    <2>2. \A i \in DOMAIN checkpoints : checkpoints[i] \in Checkpoints
      BY DEF RuntimeInv, ChainOK
    <2>3. \A k \in Identities : bindings[k] = None \/ bindings[k] \in Ticks
      BY DEF RuntimeInv, BindingsOK
    <2>4. \A i \in DOMAIN events : events[i] \in Ticks \union Decisions
      BY DEF RuntimeInv, EventsOK
    <2>5. \A h \in Hosts : /\ host[h].pc \in Places /\ host[h].job \in Jobs
                           /\ host[h].status \in Statuses \union {None}
      BY DEF RuntimeInv, HostsOK, HostOK, HostRecords
    <2> QED
      BY <2>1, <2>2, <2>3, <2>4, <2>5 DEF RuntimeInv, RuntimeTypeOK
  <1> QED
    BY <1>1, RuntimeInvariance, PTL

\* Every recovery finds the head and the checkpoint that binds it, after any
\* commits and crashes (load_recovery_snapshot, commit).
THEOREM AlwaysRecoversHolds == Spec => []AlwaysRecovers
PROOF
  <1>1. RuntimeInv => AlwaysRecovers
    BY LatestFacts DEF AlwaysRecovers
  <1> QED
    BY <1>1, RuntimeInvariance, PTL

\* No observation and no trigger identity advances the portfolio twice, however
\* often it is delivered (external_trigger_bindings, resume_tick, commit).
THEOREM AppliedOnceHolds == Spec => []AppliedOnce
PROOF
  <1>1. RuntimeInv => AppliedOnce
    <2> SUFFICES ASSUME RuntimeInv, NEW i \in DOMAIN checkpoints, NEW j \in DOMAIN checkpoints, i # j
                 PROVE  /\ checkpoints[i].tick # checkpoints[j].tick
                        /\ checkpoints[i].tick.trigger # None =>
                             checkpoints[i].tick.trigger # checkpoints[j].tick.trigger
      BY DEF AppliedOnce
    <2>1. checkpoints[i].tick # checkpoints[j].tick
      BY DEF RuntimeInv, ChainOK
    <2>2. /\ checkpoints[i].tick.trigger # None =>
                bindings[checkpoints[i].tick.trigger] = checkpoints[i].tick
          /\ checkpoints[j].tick.trigger # None =>
                bindings[checkpoints[j].tick.trigger] = checkpoints[j].tick
      BY DEF RuntimeInv, BindingsOK
    <2> QED
      BY <2>1, <2>2
  <1> QED
    BY <1>1, RuntimeInvariance, PTL

\* What a tick reports is so, and one caller at most is told it committed
\* (ResumeTickResult).
THEOREM ResultsAreTrueHolds == Spec => []ResultsAreTrue
PROOF
  <1>1. RuntimeInv => ResultsAreTrue
    BY DEF RuntimeInv, HostsOK, HostOK, Committed, Applied, ResultsAreTrue
  <1> QED
    BY <1>1, RuntimeInvariance, PTL

\* No work of the first portfolio disappears without a checkpoint that records
\* its completion (apply_active_transition).
THEOREM NoWorkIsLostHolds == Spec => []NoWorkIsLost
PROOF
  BY RuntimeInvariance, PTL DEF RuntimeInv

\* Only a commit that holds moves a head that is there.
LEMMA OnlyCommits ==
    ASSUME RuntimeInv, [Next]_vars, head # None, head' # head
    PROVE  \E h \in Hosts : Commit(h) /\ CommitHolds(host[h].read, host[h].next)
PROOF
  <1>1. ~Bootstrap /\ ~UNCHANGED vars
    BY DEF Bootstrap, vars, store
  <1>2. \A t : ~Offer(t)
    BY DEF Offer, store
  <1>3. /\ ~ObserveProvider /\ ~ObserveExternal /\ ~ObserveOperator
        /\ ~AdmitHumanAuthority /\ ~ObserveHuman
        /\ \A class, needed : ~ObserveResult(class, needed)
        /\ \A passed : ~ObserveVerification(passed)
    BY <1>2 DEF ObserveProvider, ObserveExternal, ObserveOperator, AdmitHumanAuthority,
                ObserveHuman, ObserveResult, ObserveVerification, ProviderEvent
  <1>4. ASSUME NEW h \in Hosts
        PROVE  /\ ~StartBurst(h) /\ ~PrepareVerification(h) /\ ~Crash(h)
               /\ \A i : ~Deliver(h, i) /\ ~Judge(h, i)
    BY DEF StartBurst, PrepareVerification, Crash, Deliver, Judge, store
  <1>5. ASSUME NEW h \in Hosts, Step(h)
        PROVE  Commit(h) /\ CommitHolds(host[h].read, host[h].next)
    <2>1. /\ ~Bind(h) /\ ~Scan(h) /\ ~Recover(h) /\ ~Decide(h) /\ ~Failed(h) /\ ~Post(h)
          /\ ~After(h) /\ ~Fresh(h)
      BY DEF Bind, Scan, Recover, Decide, Failed, Post, After, Fresh, store
    <2>2. Commit(h)
      BY <1>5, <2>1 DEF Step
    <2> QED
      BY <2>2 DEF Commit
  <1> QED
    BY <1>1, <1>3, <1>4, <1>5 DEF Next

\* Work leaves a human gate by a grant for the very rule applied, or by a human
\* decision about this gate (_verify_authority, consume_human_gate_decision).
THEOREM GateNeedsAuthorityHolds == Spec => GateNeedsAuthority
PROOF
  <1> DEFINE Allowed(u) ==
          /\ u.trigger = None
          /\ IF IsDecision(u)
             THEN /\ Latest # None /\ Latest.stop = head.active.boundary
                  /\ head'.active.work = head.active.work
                  /\ head'.active.state \in {"rework", "failed"}
                  /\ head'.active.authority = None
             ELSE u.grant \in Matching("human_gate", u.event)
  <1>1. ASSUME RuntimeInv, [Next]_vars, head # None, head # head', head.active.state = "human_gate"
        PROVE  Allowed(checkpoints'[Len(checkpoints')].tick)
    <2>1. PICK h \in Hosts : Commit(h) /\ CommitHolds(host[h].read, host[h].next)
      BY <1>1, OnlyCommits
    <2> DEFINE t == host[h].tick
               x == host[h].next
    <2>2. head' = x.state /\ checkpoints' = Append(checkpoints, x.checkpoint) /\ host[h].pc = "commit"
      BY <2>1 DEF Commit
    <2>3. /\ t \in Made /\ Follows(x, head, t)
          /\ t.trigger # None => t \in Ticks /\ t.grant = None
          /\ IF t \in Decisions THEN x \in Decided(head, Latest, t)
             ELSE t \in Ticks /\ x \in Transitions(head, t)
      BY <1>1, <2>1, <2>2, CommitFacts
    <2> HIDE DEF t, x
    <2>4. checkpoints'[Len(checkpoints')].tick = t
      <3>1. checkpoints \in Seq(Checkpoints) /\ x.checkpoint \in Checkpoints /\ x.checkpoint.tick = t
        BY <1>1, <2>3 DEF RuntimeInv, ChainOK, Follows
      <3>2. checkpoints'[Len(checkpoints')] = x.checkpoint
        BY <2>2, <3>1
      <3> QED
        BY <3>1, <3>2
    <2>5. Grown(head)
      BY <1>1, LatestFacts
    <2>6. CASE t \in Decisions
      <3>1. IsDecision(t) /\ t.trigger = None /\ x \in Decided(head, Latest, t)
        BY <2>3, <2>6, DecisionFacts
      <3>2. /\ AtStop(head, Latest)
            /\ x.state.active.work = head.active.work
            /\ x.state.active.state \in {"rework", "failed"}
            /\ x.state.active.authority = None
        BY <2>5, <2>6, <3>1, DecidedFacts
      <3> QED
        BY <2>2, <2>4, <3>1, <3>2 DEF AtStop
    <2>7. CASE t \notin Decisions
      <3>1. t \in Ticks /\ x \in Transitions(head, t) /\ ~IsDecision(t)
        BY <2>3, <2>7, DecisionFacts
      <3>2. PICK r \in Matching(head.active.state, t.event) : AuthorityHolds(r, t.grant)
        BY <2>5, <3>1, TransitionFacts
      <3>3. r \in Policy /\ r.from = "human_gate"
        BY <1>1, <3>2 DEF Matching
      <3>4. r.mode = "preauthorized_required"
        BY <3>3, PolicyAssumption DEF ValidPolicy, ValidRule
      <3>5. t.grant = r /\ r # None
        BY <3>2, <3>3, <3>4, NoneAssumption DEF AuthorityHolds
      <3> QED
        BY <1>1, <2>3, <2>4, <3>1, <3>2, <3>5
    <2> QED
      BY <2>6, <2>7
  <1>2. RuntimeInv /\ [Next]_vars =>
            [head # None /\ head # head' /\ head.active.state = "human_gate" =>
                LET t == checkpoints'[Len(checkpoints')].tick IN
                /\ t.trigger = None
                /\ IF IsDecision(t)
                   THEN /\ Latest # None /\ Latest.stop = head.active.boundary
                        /\ head'.active.work = head.active.work
                        /\ head'.active.state \in {"rework", "failed"}
                        /\ head'.active.authority = None
                   ELSE t.grant \in Matching("human_gate", t.event)]_vars
    BY <1>1
  <1> QED
    BY <1>2, RuntimeInvariance, PTL DEF Spec, GateNeedsAuthority

\* A burst commits nothing after its own last event left a state in which it has
\* to stop (execute_persistent_burst).
THEOREM BurstStopsHolds == Spec => BurstStops
PROOF
  <1>1. RuntimeInv /\ [Next]_vars =>
            [\A h \in Hosts :
                host[h].pc = "commit" /\ host[h].post # None /\ head' # head /\ host'[h].pc = "post" =>
                    host[h].post.active.state \notin
                        {"human_gate", "waiting_external", "passive", "complete", "failed",
                         "di_required"}]_vars
    BY DEF RuntimeInv, HostsOK, HostOK, Continues, Continuable
  <1> QED
    BY <1>1, RuntimeInvariance, PTL DEF Spec, BurstStops

-----------------------------------------------------------------------------
(* The hosts implement the abstract portfolio *)

\* The abstract portfolio is made of the same values.
LEMMA SameValues ==
    /\ Abstract!States = States
    /\ Abstract!Ticks = Ticks
    /\ Abstract!Decisions = Decisions
    /\ \A s : Abstract!WellFormed(s) <=> WellFormed(s)
    /\ \A s : Abstract!Digest(s) = Digest(s)
PROOF
  <1>1. Abstract!Digests = Digests /\ Abstract!Entries = Entries
    BY DEF Abstract!Digests, Abstract!Bodies, Abstract!Entries, Abstract!LifecycleStates,
           Abstract!BlockerKinds, Digests, Bodies, Entries, LifecycleStates, BlockerKinds
  <1>2. Abstract!States = States
    BY <1>1 DEF Abstract!States, States
  <1>3. Abstract!EvidenceKinds = EvidenceKinds /\ Abstract!TransitionEvents = TransitionEvents
    BY DEF Abstract!EvidenceKinds, EvidenceKinds, Abstract!TransitionEvents, TransitionEvents
  <1>4. Abstract!WakeAdmissions = WakeAdmissions
    BY <1>1, <1>3 DEF Abstract!WakeAdmissions, WakeAdmissions
  <1>5. Abstract!Ticks = Ticks /\ Abstract!Decisions = Decisions
    BY <1>1, <1>3, <1>4 DEF Abstract!Ticks, Ticks, Abstract!Decisions, Decisions
  <1>6. \A s : Abstract!WellFormed(s) <=> WellFormed(s)
    BY DEF Abstract!WellFormed, Abstract!ActiveEntry, Abstract!SecondaryEntry,
           Abstract!PassiveEntry, WellFormed, ActiveEntry, SecondaryEntry, PassiveEntry
  <1>7. \A s : Abstract!Digest(s) = Digest(s)
    BY DEF Abstract!Digest, Abstract!Body, Digest, Body
  <1> QED
    BY <1>2, <1>5, <1>6, <1>7

\* And it makes the same transitions.
LEMMA SameTransitions ==
    ASSUME NEW s, NEW latest, NEW t
    PROVE  Abstract!Advances(s, latest, t) = Advances(s, latest, t)
PROOF
  <1>1. \A e : /\ Abstract!Ready(e) = Ready(e) /\ Abstract!Unbound(e) = Unbound(e)
               /\ Abstract!Unblocked(e) = Unblocked(e) /\ Abstract!Parked(e) = Parked(e)
               /\ Abstract!ActiveEntry(e) = ActiveEntry(e)
    BY DEF Abstract!Ready, Ready, Abstract!Unbound, Unbound, Abstract!Unblocked, Unblocked,
           Abstract!Parked, Parked, Abstract!ActiveEntry, ActiveEntry
  <1>2. \A a : Abstract!Digest(a) = Digest(a) /\ Abstract!Body(a) = Body(a)
    BY DEF Abstract!Digest, Abstract!Body, Digest, Body
  <1>3. \A e, r, grant : Abstract!Moved(e, r, grant) = Moved(e, r, grant)
    BY DEF Abstract!Moved, Moved, Abstract!Stopped, Stopped, Abstract!Unblocked, Unblocked
  <1>4. \A r, evidence, grant :
            /\ Abstract!EvidenceSuffices(r, evidence) = EvidenceSuffices(r, evidence)
            /\ Abstract!AuthorityHolds(r, grant) = AuthorityHolds(r, grant)
            /\ Abstract!WakeHolds(r, evidence, grant) = WakeHolds(r, evidence, grant)
    BY DEF Abstract!EvidenceSuffices, Abstract!MandatoryEvidence, Abstract!AuthorityHolds,
           Abstract!WakeHolds, EvidenceSuffices, MandatoryEvidence, AuthorityHolds, WakeHolds
  <1>5. \A state, event : Abstract!Matching(state, event) = Matching(state, event)
    BY DEF Abstract!Matching, Matching
  <1>6. \A w : Abstract!Awakened(s, w) = Awakened(s, w)
    BY <1>2, <1>4, <1>5 DEF Abstract!Awakened, Awakened
  <1>7. \A r : Abstract!NextBodies(s, r, t) = NextBodies(s, r, t)
    <2>1. Abstract!PromoteSecondary(s, t) = PromoteSecondary(s, t)
      BY <1>1, <1>6 DEF Abstract!PromoteSecondary, PromoteSecondary
    <2>2. Abstract!ParkActive(s, t) = ParkActive(s, t)
      BY <1>1, <1>6 DEF Abstract!ParkActive, ParkActive
    <2>3. \A r : Abstract!MoveActive(s, r, t) = MoveActive(s, r, t)
      BY <1>1, <1>3 DEF Abstract!MoveActive, MoveActive
    <2> QED
      BY <2>1, <2>2, <2>3 DEF Abstract!NextBodies, NextBodies
  <1>8. Abstract!Admissible(s, t) = Admissible(s, t)
    BY <1>4, <1>5 DEF Abstract!Admissible, Admissible
  <1>9. \A b, after, stop :
            Abstract!TransitionResult(s, b, after, t, stop) = TransitionResult(s, b, after, t, stop)
    BY <1>2 DEF Abstract!TransitionResult, TransitionResult, Abstract!Successor, Successor,
                Abstract!Checkpoint, Checkpoint
  <1>10. Abstract!Transitions(s, t) = Transitions(s, t)
    BY <1>7, <1>8, <1>9 DEF Abstract!Transitions, Transitions, Abstract!StopOf, StopOf
  <1>11. Abstract!Decided(s, latest, t) = Decided(s, latest, t)
    BY <1>1, <1>2, <1>9 DEF Abstract!Decided, Decided, Abstract!AtStop, AtStop
  <1> QED
    BY <1>10, <1>11 DEF Abstract!Advances, Advances, Abstract!IsDecision, IsDecision

LEMMA OfferRefines ==
    ASSUME RuntimeInv, RuntimeInv', NEW t, Offer(t)
    PROVE  Abstract!Observe
PROOF
  <1>1. /\ head' = head /\ checkpoints' = checkpoints /\ events' = Append(events, t)
        /\ events \in Seq(Ticks \union Decisions) /\ events' \in Seq(Ticks \union Decisions)
    BY DEF Offer, store, RuntimeInv, EventsOK
  <1>2. Made' \subseteq Ticks \union Decisions
    BY <1>1 DEF Made
  <1>3. Made \subseteq Made'
    <2> SUFFICES ASSUME NEW i \in DOMAIN events PROVE events[i] \in Made'
      BY DEF Made
    <2>1. i \in DOMAIN events' /\ events'[i] = events[i]
      <3>1. t = events'[Len(events')] /\ Len(events') \in DOMAIN events'
        BY <1>1
      <3>2. t \in Ticks \union Decisions
        BY <1>1, <3>1
      <3> QED
        BY <1>1, <3>2
    <2> QED
      BY <2>1 DEF Made
  <1> QED
    BY <1>1, <1>2, <1>3, SameValues DEF Abstract!Observe, Made

LEMMA CommitRefines ==
    ASSUME RuntimeInv, NEW h \in Hosts, Commit(h), CommitHolds(host[h].read, host[h].next)
    PROVE  Abstract!Advance
PROOF
  <1> DEFINE t == host[h].tick
             x == host[h].next
  <1>1. /\ host[h].pc = "commit" /\ head' = x.state
        /\ checkpoints' = Append(checkpoints, x.checkpoint) /\ events' = events
    BY DEF Commit, made
  <1>2. /\ head # None /\ t \in Made /\ t.expected = Digest(head)
        /\ x \in Advances(head, Latest, t)
        /\ t.trigger # None => /\ t.grant = None
                               /\ \A i \in DOMAIN checkpoints : checkpoints[i].tick.trigger # t.trigger
    BY <1>1, CommitFacts
  <1>3. Latest = IF checkpoints = <<>> THEN None ELSE checkpoints[Len(checkpoints)]
    BY <1>2, LatestFacts
  <1> HIDE DEF t, x
  <1>4. x \in Abstract!Advances(head, IF checkpoints = <<>> THEN None ELSE checkpoints[Len(checkpoints)], t)
    BY <1>2, <1>3, SameTransitions
  <1> QED
    BY <1>1, <1>2, <1>4, SameValues DEF Abstract!Advance, Made

\* Every step of the hosts is a step of the abstract portfolio or none.
LEMMA StepRefines ==
    ASSUME RuntimeInv, RuntimeInv', [Next]_vars
    PROVE  [Abstract!Next]_(Abstract!vars)
PROOF
  <1>1. CASE Bootstrap
    <2>1. Abstract!Open
      BY <1>1, GenesisAssumption, SameValues DEF Bootstrap, Abstract!Open, made
    <2> QED
      BY <2>1 DEF Abstract!Next
  <1>2. ASSUME NEW t, Offer(t) PROVE Abstract!Next
    BY <1>2, OfferRefines DEF Abstract!Next
  <1>3. CASE ObserveProvider
    BY <1>2, <1>3 DEF ObserveProvider, ProviderEvent
  <1>4. CASE ObserveExternal
    BY <1>2, <1>4 DEF ObserveExternal
  <1>5. CASE ObserveOperator \/ AdmitHumanAuthority
    BY <1>2, <1>5 DEF ObserveOperator, AdmitHumanAuthority
  <1>6. CASE ObserveHuman
    BY <1>2, <1>6 DEF ObserveHuman
  <1>7. ASSUME NEW class, NEW needed, ObserveResult(class, needed) PROVE Abstract!Next
    BY <1>2, <1>7 DEF ObserveResult, ProviderEvent
  <1>8. ASSUME NEW passed, ObserveVerification(passed) PROVE Abstract!Next
    BY <1>2, <1>8 DEF ObserveVerification
  <1>9. ASSUME UNCHANGED <<head, checkpoints, events>> PROVE UNCHANGED Abstract!vars
    BY <1>9 DEF Abstract!vars
  <1>10. ASSUME NEW h \in Hosts,
                \/ StartBurst(h) \/ PrepareVerification(h) \/ Crash(h)
                \/ \E i : Deliver(h, i) \/ Judge(h, i)
         PROVE  UNCHANGED <<head, checkpoints, events>>
    BY <1>10 DEF StartBurst, PrepareVerification, Crash, Deliver, Judge, store, made
  <1>11. ASSUME NEW h \in Hosts, Step(h), ~Commit(h)
         PROVE  UNCHANGED <<head, checkpoints, events>>
    BY <1>11 DEF Step, Bind, Scan, Recover, Decide, Failed, Post, After, Fresh, store, made
  <1>12. ASSUME NEW h \in Hosts, Commit(h), CommitHolds(host[h].read, host[h].next)
         PROVE  Abstract!Next
    BY <1>12, CommitRefines DEF Abstract!Next
  <1>13. ASSUME NEW h \in Hosts, Commit(h), ~CommitHolds(host[h].read, host[h].next)
         PROVE  UNCHANGED <<head, checkpoints, events>>
    BY <1>13 DEF Commit, made
  <1>14. CASE UNCHANGED vars
    BY <1>9, <1>14 DEF vars, store, made
  <1>15. CASE \E h \in Hosts : \/ StartBurst(h) \/ PrepareVerification(h)
                               \/ \E i \in 1 .. MaxMade : Deliver(h, i) \/ Judge(h, i)
                               \/ Step(h) \/ Crash(h)
    BY <1>9, <1>10, <1>11, <1>12, <1>13, <1>15
  <1> QED
    BY <1>1, <1>3, <1>4, <1>5, <1>6, <1>7, <1>8, <1>14, <1>15 DEF Next

\* The hosts together implement the abstract portfolio: each observation or
\* decision advances exactly the state it expects, in one step (commit).
THEOREM RuntimeRefinement == Spec => HeadSpec
PROOF
  <1>1. Init => Abstract!Init
    BY DEF Init, Abstract!Init
  <1>2. RuntimeInv /\ RuntimeInv' /\ [Next]_vars => [Abstract!Next]_(Abstract!vars)
    BY StepRefines
  <1> QED
    BY <1>1, <1>2, RuntimeInvariance, PTL DEF Spec, HeadSpec, Abstract!Spec
=============================================================================
