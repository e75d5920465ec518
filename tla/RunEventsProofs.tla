--------------------------- MODULE RunEventsProofs ---------------------------
(***************************************************************************)
(* TLAPS proofs about the events of a run (RunEvents) and their delivery   *)
(* (RunProgress), for every set of plans, number of items and of attempts, *)
(* whichever of the workers and the orchestrator report an attempt first.  *)
(***************************************************************************)
EXTENDS RunEvents, TLAPS, SequenceTheorems, FiniteSetTheorems

Clocks == {"absent", "running", "zero"}
Places == {"starting", "node", "batch", "observing", "ending", "terminating", "hook",
           "hookBatch", "finishing", "finished"}
WorkItems == {Unscoped} \cup Items
Events ==
    {RunEvent(t) : t \in {"run.started", "run.finished"}}
        \cup {AttemptEvent("step.attempt.started", id) : id \in Identities}
        \cup {AttemptEvent("step.attempt.finished", id) : id \in Identities}
        \cup {StepEvent(n) : n \in AllNodes \cup {Hook}}

\* Where the run loop is.
LoopTypes ==
    /\ kinds \in Plans
    /\ attemptStarts \in [Identities -> Clocks]
    /\ place \in Places
    /\ node \in Nat
    /\ round \in 1..MaxAttempts
    /\ pending \subseteq WorkItems
    /\ callbacks \in BOOLEAN
    /\ work \in [WorkItems -> {"idle", "running"} \cup Ends]
    /\ observed \in WorkItems
    /\ status \in [Nodes -> {"pending", "running", "terminal"}]
    /\ ctxErr \in BOOLEAN
    /\ failures \in Nat

\* The observer.
ProgressTypes ==
    /\ recording \in BOOLEAN /\ rendering \in BOOLEAN /\ closing \in BOOLEAN
    /\ wake \in BOOLEAN /\ last \in BOOLEAN /\ eventErr \in BOOLEAN
    /\ writer \in {"waiting", "woken", "written", "ending", "done"}
    /\ renderer \in {"rendering", "done"}
    /\ closer \in {"open", "closing", "waiting", "closed"}
    /\ emitted \in Seq(Events) /\ queue \in Seq(Events) /\ file \in Seq(Events)
    /\ summary \in Seq(Events)

TypeOK == LoopTypes /\ ProgressTypes

-----------------------------------------------------------------------------
\* Delivery.

\* The run is over, as its last event says.
EndsFinished == emitted # <<>> /\ emitted[Len(emitted)].type = "run.finished"

(***************************************************************************)
(* What was reported is in the file and the queue, or in the summary and   *)
(* the queue. Nothing is reported once close was called, so the pass that  *)
(* reads the closing flag takes the last of the queue.                     *)
(***************************************************************************)
DeliveryInv ==
    /\ IsPrefix(file, emitted)
    /\ recording /\ ~eventErr => emitted = file \o queue
    /\ rendering => emitted = summary \o queue
    /\ place = "finished" => EndsFinished
    /\ closer # "open" => place = "finished"
    /\ closing => closer \in {"waiting", "closed"}
    /\ last => closing /\ queue = <<>>
    /\ writer \in {"ending", "done"} => last
    /\ renderer = "done" /\ rendering => writer = "done" /\ printed = emitted
    /\ closer = "closed" => writer = "done" /\ renderer = "done"

-----------------------------------------------------------------------------
\* The stream and the clocks.

Heard(stream, type, id) ==
    \E p \in 1..Len(stream) : stream[p].type = type /\ IdentityOf(stream[p]) = id

StepHeard(stream, n) ==
    \E p \in 1..Len(stream) : stream[p].type = "step.finished" /\ stream[p].node = n

\* A stream in order, not yet over, of which the clocks say which attempts started and
\* which finished.
Told(stream, clocks) ==
    /\ stream \in Seq(Events)
    /\ clocks \in [Identities -> Clocks]
    /\ \A q \in 1..Len(stream) : InOrder(stream, q) /\ stream[q].type # "run.finished"
    /\ \A id \in Identities :
        /\ Heard(stream, "step.attempt.started", id) <=> clocks[id] # "absent"
        /\ Heard(stream, "step.attempt.finished", id) <=> clocks[id] = "zero"

\* Every attempt of item i of node n before the one of this round is closed, and none
\* after it has started.
RoundsOf(n, i, r) ==
    \A a \in 1..MaxAttempts :
        /\ a < r => attemptStarts[Attempt(n, i, a)] = "zero"
        /\ a > r => attemptStarts[Attempt(n, i, a)] = "absent"

\* What the statuses say about the stream.
StatusesTell ==
    /\ \A n \in Nodes : StepHeard(emitted, n) <=> status[n] = "terminal"
    /\ \A id \in Identities :
        /\ id.node \notin Nodes \cup {Hook} => attemptStarts[id] = "absent"
        /\ id.node \in Nodes /\ status[id.node] = "terminal" => attemptStarts[id] # "running"
        /\ id.node \in Nodes /\ status[id.node] = "pending" => attemptStarts[id] = "absent"

\* The nodes before the active one are over, those after it have not begun.
NodesInOrder ==
    /\ place \in {"starting", "node", "batch", "observing"} =>
        /\ node \in 1..(Len(kinds) + 1)
        /\ \A n \in Nodes : /\ n < node => status[n] = "terminal"
                            /\ n > node => status[n] = "pending"
    /\ place \in {"starting", "node"} /\ node \in Nodes => status[node] = "pending"
    /\ place \in {"batch", "observing"} => node \in Nodes /\ status[node] = "running"
    /\ place = "terminating" => \A id \in Identities : attemptStarts[id] # "running"
    /\ place \in {"hook", "hookBatch", "finishing"} => \A n \in Nodes : status[n] = "terminal"

\* The batch of the active node.
BatchTells ==
    /\ place \notin {"batch", "observing"} => round = 1
    /\ place \in {"batch", "observing"} => \A i \in pending : RoundsOf(node, i, round)
    /\ place = "batch" => observed = 0
    /\ place = "batch" /\ kinds[node] = "step" => pending = {Unscoped}
    /\ place \in {"batch", "observing"} /\ kinds[node] = "map" =>
        /\ pending \subseteq Items
        /\ attemptStarts[MapAttempt] = "running"
    /\ place = "observing" =>
        /\ kinds[node] = "map"
        /\ \A i \in pending : work[i] # "idle" /\ i <= observed =>
            attemptStarts[Attempt(node, i, round)] = "zero"

HookTells ==
    /\ place \notin {"hookBatch", "finishing", "finished"} => attemptStarts[HookAttempt] = "absent"
    /\ place \notin {"finishing", "finished"} => ~StepHeard(emitted, Hook)
    /\ place = "finishing" => attemptStarts[HookAttempt] # "running"
    /\ place = "hookBatch" =>
        attemptStarts[HookAttempt] # "absent" /\ node = Hook /\ pending = {Unscoped}

StreamInv ==
    /\ place # "finished" =>
        Told(emitted, attemptStarts) /\ StatusesTell /\ NodesInOrder /\ BatchTells /\ HookTells
    /\ place = "starting" => emitted = <<>>
    /\ AttemptsBracketed



-----------------------------------------------------------------------------
\* Identities and events.

LEMMA PlanNodes ==
    /\ AllNodes \subseteq Nat \ {0}
    /\ \A p \in Plans : DOMAIN p = 1..Len(p) /\ Len(p) \in Nat /\ DOMAIN p \subseteq AllNodes
                        /\ \A n \in DOMAIN p : p[n] \in {"step", "map"}
<1>1. \A p \in Plans : p \in Seq({"step", "map"})
  BY EventsAssumption
<1>2. \A p \in Plans : DOMAIN p = 1..Len(p) /\ Len(p) \in Nat
  BY <1>1, LenProperties
<1>3. \A p \in Plans : DOMAIN p \subseteq AllNodes
  BY DEF AllNodes
<1>4. AllNodes \subseteq Nat \ {0}
  BY <1>2 DEF AllNodes
<1>5. \A p \in Plans : \A n \in DOMAIN p : p[n] \in {"step", "map"}
  BY <1>1, <1>2, ElementOfSeq
<1>6. QED
  BY <1>2, <1>3, <1>4, <1>5

LEMMA IdentityFacts ==
    /\ \A id \in Identities :
        /\ id = Attempt(id.node, id.item, id.attempt)
        /\ id.node \in AllNodes \cup {Hook} /\ id.item \in WorkItems
        /\ id.attempt \in 1..MaxAttempts /\ id.attempt \in Nat
        /\ id.node = Hook => id = HookAttempt
    /\ HookAttempt \in Identities
    /\ \A n \in AllNodes, i \in WorkItems, a \in 1..MaxAttempts : Attempt(n, i, a) \in Identities
<1>1. 1 \in 1..MaxAttempts /\ MaxAttempts \in Nat
  BY EventsAssumption
<1>2. Hook \notin AllNodes
  BY PlanNodes DEF Hook
<1>3. QED
  BY <1>1, <1>2 DEF Identities, Attempt, HookAttempt, WorkItems, Unscoped

LEMMA AttemptsDiffer ==
    ASSUME NEW n, NEW i, NEW a, NEW m, NEW j, NEW b, Attempt(n, i, a) = Attempt(m, j, b)
    PROVE  n = m /\ i = j /\ a = b
<1>1. Attempt(n, i, a).node = n /\ Attempt(n, i, a).item = i /\ Attempt(n, i, a).attempt = a
  BY DEF Attempt
<1>2. Attempt(m, j, b).node = m /\ Attempt(m, j, b).item = j /\ Attempt(m, j, b).attempt = b
  BY DEF Attempt
<1>3. QED
  BY <1>1, <1>2

LEMMA AttemptFields ==
    \A n, i, a : /\ Attempt(n, i, a).node = n
                 /\ Attempt(n, i, a).item = i
                 /\ Attempt(n, i, a).attempt = a
BY DEF Attempt

LEMMA EventFacts ==
    /\ \A t : \A id \in Identities :
        /\ AttemptEvent(t, id).type = t
        /\ AttemptEvent(t, id).node = id.node
        /\ AttemptEvent(t, id).item = id.item
        /\ AttemptEvent(t, id).attempt = id.attempt
        /\ IdentityOf(AttemptEvent(t, id)) = id
    /\ \A n : StepEvent(n).type = "step.finished" /\ StepEvent(n).node = n
    /\ \A t : RunEvent(t).type = t
    /\ \A e \in Events :
        e.type \in {"step.attempt.started", "step.attempt.finished"} => IdentityOf(e) \in Identities
<1>1. \A t : \A id \in Identities : /\ AttemptEvent(t, id).type = t
                                /\ AttemptEvent(t, id).node = id.node
                                /\ AttemptEvent(t, id).item = id.item
                                /\ AttemptEvent(t, id).attempt = id.attempt
  BY DEF AttemptEvent
<1>2. \A t : \A id \in Identities : IdentityOf(AttemptEvent(t, id)) = id
  BY <1>1, IdentityFacts DEF IdentityOf
<1>3. \A n : StepEvent(n).type = "step.finished" /\ StepEvent(n).node = n
  BY DEF StepEvent
<1>4. \A t : RunEvent(t).type = t
  BY DEF RunEvent
<1>5. ASSUME NEW e \in Events, e.type \in {"step.attempt.started", "step.attempt.finished"}
      PROVE  IdentityOf(e) \in Identities
  <2>1. CASE e \in {AttemptEvent("step.attempt.started", id) : id \in Identities}
                     \cup {AttemptEvent("step.attempt.finished", id) : id \in Identities}
    BY <2>1, <1>2
  <2>2. CASE e \in {RunEvent(t) : t \in {"run.started", "run.finished"}}
    BY <2>2, <1>4, <1>5
  <2>3. CASE e \in {StepEvent(n) : n \in AllNodes \cup {Hook}}
    BY <2>3, <1>3, <1>5
  <2>4. QED
    BY <2>1, <2>2, <2>3 DEF Events
<1>6. QED
  BY <1>1, <1>2, <1>3, <1>4, <1>5

LEMMA FiniteIdentities == IsFiniteSet(Identities)
<1>1. IsFiniteSet(AllNodes)
  <2> DEFINE D == [p \in Plans |-> DOMAIN p]
             Ds == {DOMAIN p : p \in Plans}
  <2>1. D \in Surjection(Plans, Ds)
    BY DEF Surjection
  <2>2. IsFiniteSet(Ds)
    BY <2>1, FS_Surjection, EventsAssumption
  <2>3. \A T \in Ds : IsFiniteSet(T)
    BY PlanNodes, FS_Interval
  <2> HIDE DEF Ds
  <2>4. IsFiniteSet(UNION Ds)
    BY <2>2, <2>3, FS_UNION
  <2>5. QED
    BY <2>4 DEF AllNodes, Ds
<1>2. IsFiniteSet(WorkItems) /\ IsFiniteSet(1..MaxAttempts)
  <2>1. IsFiniteSet(Items) /\ IsFiniteSet(1..MaxAttempts)
    BY EventsAssumption, FS_Interval DEF Items
  <2>2. IsFiniteSet({Unscoped})
    BY FS_Singleton
  <2>3. QED
    BY <2>1, <2>2, FS_Union DEF WorkItems
<1> DEFINE B == AllNodes \X WorkItems
           C == B \X (1..MaxAttempts)
           R == {Attempt(t[1][1], t[1][2], t[2]) : t \in C}
           f == [t \in C |-> Attempt(t[1][1], t[1][2], t[2])]
<1>3. IsFiniteSet(B)
  BY <1>1, <1>2, FS_Product
<1> HIDE DEF B
<1>4. IsFiniteSet(C)
  BY <1>2, <1>3, FS_Product
<1>5. f \in Surjection(C, R)
  BY DEF Surjection
<1> HIDE DEF C, R, f
<1>6. IsFiniteSet(R)
  BY <1>4, <1>5, FS_Surjection
<1>7. IsFiniteSet(R \cup {HookAttempt})
  <2>1. IsFiniteSet({HookAttempt})
    BY FS_Singleton
  <2>2. QED
    BY <2>1, <1>6, FS_Union
<1>8. ASSUME NEW id \in Identities PROVE id \in R \cup {HookAttempt}
  <2>1. CASE id.node \in AllNodes
    <3> DEFINE t == <<<<id.node, id.item>>, id.attempt>>
    <3>1. t \in C
      BY <2>1, IdentityFacts DEF C, B
    <3>2. Attempt(t[1][1], t[1][2], t[2]) = id
      BY IdentityFacts
    <3>3. QED
      BY <3>1, <3>2 DEF R
  <2>2. CASE id.node = Hook
    BY <2>2, IdentityFacts
  <2>3. QED
    BY <2>1, <2>2, IdentityFacts
<1>9. Identities \in SUBSET (R \cup {HookAttempt})
  BY <1>8
<1>10. QED
  BY <1>7, <1>9, FS_Subset




-----------------------------------------------------------------------------
\* Streams: what is said before a position does not depend on what follows it.

LEMMA JoinFacts ==
    ASSUME NEW S, NEW s \in Seq(S), NEW t \in Seq(S)
    PROVE  /\ s \o t \in Seq(S)
           /\ Len(s) \in Nat /\ Len(t) \in Nat
           /\ Len(s \o t) = Len(s) + Len(t)
           /\ \A p \in 1..Len(s) : (s \o t)[p] = s[p]
           /\ \A p \in 1..Len(t) : (s \o t)[Len(s) + p] = t[p]
<1>1. Len(s) \in Nat /\ Len(t) \in Nat
  BY LenProperties
<1>2. QED
  BY <1>1, ConcatProperties

LEMMA BeforeJoined ==
    ASSUME NEW S, NEW s \in Seq(S), NEW t \in Seq(S), NEW q \in Nat, q <= Len(s) + 1
    PROVE  /\ \A type, id : SaidBefore(s \o t, q, type, id) <=> SaidBefore(s, q, type, id)
           /\ \A n : FinishedBefore(s \o t, q, n) <=> FinishedBefore(s, q, n)
           /\ \A ns : AttemptsClosedBefore(s \o t, q, ns) <=> AttemptsClosedBefore(s, q, ns)
<1>1. Len(s) \in Nat /\ \A p \in 1..(q - 1) : (s \o t)[p] = s[p]
  BY JoinFacts
<1>2. \A type, id : SaidBefore(s \o t, q, type, id) <=> SaidBefore(s, q, type, id)
  BY <1>1 DEF SaidBefore
<1>3. \A n : FinishedBefore(s \o t, q, n) <=> FinishedBefore(s, q, n)
  BY <1>1 DEF FinishedBefore
<1>4. \A ns : AttemptsClosedBefore(s \o t, q, ns) <=> AttemptsClosedBefore(s, q, ns)
  BY <1>1, <1>2 DEF AttemptsClosedBefore
<1>5. QED
  BY <1>2, <1>3, <1>4

LEMMA OrderKept ==
    ASSUME NEW S, NEW s \in Seq(S), NEW t \in Seq(S), NEW q \in 1..Len(s), InOrder(s, q)
    PROVE  InOrder(s \o t, q)
<1>1. (s \o t)[q] = s[q] /\ q \in Nat /\ q <= Len(s) + 1
  BY JoinFacts
<1> DEFINE u == s \o t
<1>2. /\ \A type, id : SaidBefore(u, q, type, id) <=> SaidBefore(s, q, type, id)
      /\ \A n : FinishedBefore(u, q, n) <=> FinishedBefore(s, q, n)
      /\ \A ns : AttemptsClosedBefore(u, q, ns) <=> AttemptsClosedBefore(s, q, ns)
  BY <1>1, BeforeJoined
<1>3. u[q] = s[q]
  BY <1>1
<1> HIDE DEF u
<1>4. InOrder(u, q)
  BY <1>2, <1>3 DEF InOrder
<1>5. QED
  BY <1>4 DEF u

\* What is heard in a stream is what was said before its end.
LEMMA HeardIsSaid ==
    ASSUME NEW S, NEW s \in Seq(S)
    PROVE  /\ \A type, id : SaidBefore(s, Len(s) + 1, type, id) <=> Heard(s, type, id)
           /\ \A n : FinishedBefore(s, Len(s) + 1, n) <=> StepHeard(s, n)
<1>1. (Len(s) + 1) - 1 = Len(s)
  BY LenProperties
<1>2. QED
  BY <1>1 DEF SaidBefore, FinishedBefore, Heard, StepHeard

LEMMA HeardJoined ==
    ASSUME NEW S, NEW s \in Seq(S), NEW t \in Seq(S)
    PROVE  /\ \A type, id : Heard(s \o t, type, id) <=> Heard(s, type, id) \/ Heard(t, type, id)
           /\ \A n : StepHeard(s \o t, n) <=> StepHeard(s, n) \/ StepHeard(t, n)
<1> DEFINE u == s \o t
<1>1. /\ Len(s) \in Nat /\ Len(t) \in Nat /\ Len(u) = Len(s) + Len(t)
      /\ \A p \in 1..Len(s) : u[p] = s[p]
      /\ \A p \in 1..Len(t) : u[Len(s) + p] = t[p]
  BY JoinFacts
<1> HIDE DEF u
<1>2. \A p \in 1..Len(u) : p \in 1..Len(s) \/ (p - Len(s) \in 1..Len(t) /\ u[p] = t[p - Len(s)])
  <2>1. TAKE p \in 1..Len(u)
  <2>2. CASE p <= Len(s)
    BY <1>1, <2>2
  <2>3. CASE p > Len(s)
    <3>1. p - Len(s) \in 1..Len(t) /\ Len(s) + (p - Len(s)) = p
      BY <1>1, <2>3
    <3>2. QED
      BY <1>1, <3>1
  <2>4. QED
    BY <1>1, <2>2, <2>3
<1>3. (\A p \in 1..Len(s) : p \in 1..Len(u)) /\ (\A p \in 1..Len(t) : Len(s) + p \in 1..Len(u))
  BY <1>1
<1>4. \A type, id : Heard(u, type, id) <=> Heard(s, type, id) \/ Heard(t, type, id)
  BY <1>1, <1>2, <1>3 DEF Heard
<1>5. \A n : StepHeard(u, n) <=> StepHeard(s, n) \/ StepHeard(t, n)
  <2>1. TAKE n
  <2>2. ASSUME StepHeard(u, n) PROVE StepHeard(s, n) \/ StepHeard(t, n)
    <3>1. PICK p \in 1..Len(u) : u[p].type = "step.finished" /\ u[p].node = n
      BY <2>2 DEF StepHeard
    <3>2. QED
      BY <1>1, <1>2, <3>1 DEF StepHeard
  <2>3. ASSUME StepHeard(s, n) PROVE StepHeard(u, n)
    BY <1>1, <1>3, <2>3 DEF StepHeard
  <2>4. ASSUME StepHeard(t, n) PROVE StepHeard(u, n)
    BY <1>1, <1>3, <2>4 DEF StepHeard
  <2>5. QED
    BY <2>2, <2>3, <2>4
<1>6. QED
  BY <1>4, <1>5 DEF u

LEMMA OneEvent ==
    ASSUME NEW e \in Events
    PROVE  /\ <<e>> \in Seq(Events) /\ Len(<<e>>) = 1 /\ <<e>>[1] = e
           /\ \A type, id : Heard(<<e>>, type, id) <=> e.type = type /\ IdentityOf(e) = id
           /\ \A n : StepHeard(<<e>>, n) <=> e.type = "step.finished" /\ e.node = n
<1>1. <<e>> \in Seq(Events) /\ Len(<<e>>) = 1 /\ <<e>>[1] = e
  OBVIOUS
<1>2. QED
  BY <1>1 DEF Heard, StepHeard

\* An event that fits behind a stream.
Fits(s, e) ==
    /\ e.type = "run.started" => s = <<>>
    /\ e.type = "step.attempt.started" =>
        /\ ~Heard(s, e.type, IdentityOf(e))
        /\ ~StepHeard(s, e.node)
        /\ e.attempt > 1 =>
            Heard(s, "step.attempt.finished", Attempt(e.node, e.item, e.attempt - 1))
    /\ e.type = "step.attempt.finished" =>
        /\ Heard(s, "step.attempt.started", IdentityOf(e))
        /\ ~Heard(s, e.type, IdentityOf(e))
        /\ ~StepHeard(s, e.node)
    /\ e.type = "step.finished" =>
        /\ ~StepHeard(s, e.node)
        /\ \A id \in Identities :
            id.node = e.node /\ Heard(s, "step.attempt.started", id) =>
                Heard(s, "step.attempt.finished", id)

\* Every attempt of the nodes that started has finished.
LEMMA ClosedIsHeard ==
    ASSUME NEW s \in Seq(Events), NEW ns,
           \A id \in Identities :
               id.node \in ns /\ Heard(s, "step.attempt.started", id) =>
                   Heard(s, "step.attempt.finished", id)
    PROVE  AttemptsClosedBefore(s, Len(s) + 1, ns)
<1>1. (Len(s) + 1) - 1 = Len(s)
  BY LenProperties
<1>2. ASSUME NEW p \in 1..Len(s), s[p].type = "step.attempt.started", s[p].node \in ns
      PROVE  SaidBefore(s, Len(s) + 1, "step.attempt.finished", IdentityOf(s[p]))
  <2> DEFINE id == IdentityOf(s[p])
  <2>1. s[p] \in Events
    BY ElementOfSeq
  <2>2. id \in Identities /\ id.node = s[p].node
    BY <1>2, <2>1, EventFacts, AttemptFields DEF IdentityOf
  <2>3. Heard(s, "step.attempt.started", id)
    BY <1>2 DEF Heard
  <2>4. Heard(s, "step.attempt.finished", id)
    BY <1>2, <2>2, <2>3
  <2>5. QED
    BY <2>4, HeardIsSaid
<1>3. QED
  BY <1>1, <1>2 DEF AttemptsClosedBefore

LEMMA OrderExtended ==
    ASSUME NEW s \in Seq(Events), NEW e \in Events, Fits(s, e),
           \A q \in 1..Len(s) : InOrder(s, q)
    PROVE  /\ s \o <<e>> \in Seq(Events)
           /\ \A q \in 1..Len(s \o <<e>>) : InOrder(s \o <<e>>, q)
<1> DEFINE t == <<e>>
           u == s \o t
           q == Len(s) + 1
<1>1. t \in Seq(Events) /\ Len(t) = 1 /\ t[1] = e
  BY OneEvent
<1> HIDE DEF t
<1>2. u \in Seq(Events) /\ Len(s) \in Nat /\ Len(u) = q /\ u[q] = e
  BY <1>1, JoinFacts
<1>3. \A p \in 1..Len(s) : InOrder(u, p)
  BY <1>1, OrderKept
<1>4. /\ \A type, id : SaidBefore(u, q, type, id) <=> Heard(s, type, id)
      /\ \A n : FinishedBefore(u, q, n) <=> StepHeard(s, n)
      /\ \A ns : AttemptsClosedBefore(u, q, ns) <=> AttemptsClosedBefore(s, q, ns)
  <2>1. q \in Nat /\ q <= Len(s) + 1
    BY <1>2
  <2>2. /\ \A type, id : SaidBefore(u, q, type, id) <=> SaidBefore(s, q, type, id)
        /\ \A n : FinishedBefore(u, q, n) <=> FinishedBefore(s, q, n)
        /\ \A ns : AttemptsClosedBefore(u, q, ns) <=> AttemptsClosedBefore(s, q, ns)
    BY <1>1, <2>1, BeforeJoined
  <2>3. QED
    BY <2>2, HeardIsSaid
<1>5. e.type = "step.finished" => AttemptsClosedBefore(u, q, {e.node})
  <2>1. ASSUME e.type = "step.finished" PROVE AttemptsClosedBefore(s, q, {e.node})
    BY <2>1, ClosedIsHeard DEF Fits
  <2>2. QED
    BY <2>1, <1>4
<1>6. e.type = "run.started" => q = 1
  BY EmptySeq DEF Fits
<1> HIDE DEF u, q
<1>7. InOrder(u, q)
  BY <1>2, <1>4, <1>5, <1>6 DEF InOrder, Fits
<1>8. \A p \in 1..Len(u) : InOrder(u, p)
  BY <1>2, <1>3, <1>7 DEF q
<1>9. QED
  BY <1>2, <1>8 DEF u, t








-----------------------------------------------------------------------------
\* The operators of runEvents keep the clocks and the stream together. base is what was
\* reported before the critical section.

Whole(base, said) == base \o said.events

Heeds(base, said) ==
    /\ said.events \in Seq(Events)
    /\ Told(Whole(base, said), said.clocks)

SameSteps(base, r, said) ==
    \A n : StepHeard(Whole(base, r), n) <=> StepHeard(Whole(base, said), n)

LEMMA SaidFields ==
    \A clocks, events : Said(clocks, events).clocks = clocks /\ Said(clocks, events).events = events
BY DEF Said

LEMMA Regroup ==
    ASSUME NEW s \in Seq(Events), NEW t \in Seq(Events), NEW u \in Seq(Events)
    PROVE  s \o (t \o u) = (s \o t) \o u
BY ConcatAssociative

\* One more event.
LEMMA ExtendTold ==
    ASSUME NEW base \in Seq(Events), NEW said, Heeds(base, said),
           NEW e \in Events, e.type # "run.finished", Fits(Whole(base, said), e),
           NEW clocks \in [Identities -> Clocks],
           \A id \in Identities :
               /\ clocks[id] # "absent" <=>
                    \/ said.clocks[id] # "absent"
                    \/ e.type = "step.attempt.started" /\ IdentityOf(e) = id
               /\ clocks[id] = "zero" <=>
                    \/ said.clocks[id] = "zero"
                    \/ e.type = "step.attempt.finished" /\ IdentityOf(e) = id,
           NEW r, r.clocks = clocks, r.events = Append(said.events, e)
    PROVE  /\ Heeds(base, r)
           /\ \A n : StepHeard(Whole(base, r), n) <=>
                    StepHeard(Whole(base, said), n) \/ (e.type = "step.finished" /\ e.node = n)
<1> DEFINE s == Whole(base, said)
           t == <<e>>
           u == s \o t
<1>1. /\ said.events \in Seq(Events)
      /\ s \in Seq(Events)
      /\ \A q \in 1..Len(s) : InOrder(s, q) /\ s[q].type # "run.finished"
      /\ \A id \in Identities :
            /\ Heard(s, "step.attempt.started", id) <=> said.clocks[id] # "absent"
            /\ Heard(s, "step.attempt.finished", id) <=> said.clocks[id] = "zero"
  BY DEF Heeds, Told
<1>2. /\ t \in Seq(Events) /\ Len(t) = 1 /\ t[1] = e
      /\ \A type, id : Heard(t, type, id) <=> e.type = type /\ IdentityOf(e) = id
      /\ \A n : StepHeard(t, n) <=> e.type = "step.finished" /\ e.node = n
  BY OneEvent
<1>0. said.events \in Seq(Events) /\ s \in Seq(Events) /\ t \in Seq(Events)
  BY <1>1, <1>2
<1> HIDE DEF t
<1>3. r.events \in Seq(Events) /\ Whole(base, r) = u
  <2>1. r.events = said.events \o t /\ r.events \in Seq(Events)
    BY <1>1, <1>2, AppendIsConcat, AppendProperties DEF t
  <2>2. base \o (said.events \o t) = (base \o said.events) \o t
    BY <1>0, Regroup
  <2>3. QED
    BY <2>1, <2>2 DEF Whole
<1>4. u \in Seq(Events) /\ \A q \in 1..Len(u) : InOrder(u, q)
  BY <1>1, OrderExtended DEF t
<1> HIDE DEF s
<1>5. \A q \in 1..Len(u) : u[q].type # "run.finished"
  <2>1. /\ Len(s) \in Nat /\ Len(u) = Len(s) + 1
        /\ \A p \in 1..Len(s) : u[p] = s[p]
        /\ u[Len(s) + 1] = e
    <3>1. 1 \in 1..Len(t)
      BY <1>2
    <3>2. /\ Len(s) \in Nat /\ Len(u) = Len(s) + Len(t)
          /\ \A p \in 1..Len(s) : u[p] = s[p]
          /\ \A p \in 1..Len(t) : u[Len(s) + p] = t[p]
      BY <1>0, JoinFacts
    <3>3. QED
      BY <1>2, <3>1, <3>2
  <2>2. QED
    BY <1>1, <2>1
<1>6. /\ \A type, id : Heard(u, type, id) <=> Heard(s, type, id) \/ Heard(t, type, id)
      /\ \A n : StepHeard(u, n) <=> StepHeard(s, n) \/ StepHeard(t, n)
  BY <1>1, <1>2, HeardJoined
<1> HIDE DEF u
<1>7. \A id \in Identities :
        /\ Heard(u, "step.attempt.started", id) <=> clocks[id] # "absent"
        /\ Heard(u, "step.attempt.finished", id) <=> clocks[id] = "zero"
  BY <1>1, <1>2, <1>6
<1>8. Heeds(base, r)
  BY <1>3, <1>4, <1>5, <1>7 DEF Heeds, Told
<1>9. QED
  BY <1>2, <1>3, <1>6, <1>8 DEF s

\* The first attempt needs nothing; a later one needs the one before it closed.
MayStart(base, said, id) ==
    said.clocks[id] = "absent" =>
        /\ ~StepHeard(Whole(base, said), id.node)
        /\ id.attempt > 1 => said.clocks[Attempt(id.node, id.item, id.attempt - 1)] = "zero"

Started(clocks, id) == [clocks EXCEPT ![id] = IF clocks[id] = "absent" THEN "running" ELSE clocks[id]]

LEMMA StartTold ==
    ASSUME NEW base \in Seq(Events), NEW said, Heeds(base, said), NEW id \in Identities,
           MayStart(base, said, id), NEW r, r = StartAttempt(said, id)
    PROVE  Heeds(base, r) /\ SameSteps(base, r, said) /\ r.clocks = Started(said.clocks, id)
<1>1. /\ said.clocks \in [Identities -> Clocks]
      /\ \A j \in Identities :
            /\ Heard(Whole(base, said), "step.attempt.started", j) <=> said.clocks[j] # "absent"
            /\ Heard(Whole(base, said), "step.attempt.finished", j) <=> said.clocks[j] = "zero"
  BY DEF Heeds, Told
<1>2. CASE said.clocks[id] # "absent"
  <2>1. r = said
    BY <1>2 DEF StartAttempt
  <2>2. Started(said.clocks, id) = said.clocks
    BY <1>1, <1>2 DEF Started
  <2>3. QED
    BY <2>1, <2>2 DEF SameSteps
<1>3. CASE said.clocks[id] = "absent"
  <2> DEFINE e == AttemptEvent("step.attempt.started", id)
             clocks == [said.clocks EXCEPT ![id] = "running"]
  <2>1. r.clocks = clocks /\ r.events = Append(said.events, e)
    BY <1>3, SaidFields DEF StartAttempt
  <2>2. /\ e \in Events /\ e.type = "step.attempt.started" /\ IdentityOf(e) = id
        /\ e.node = id.node /\ e.item = id.item /\ e.attempt = id.attempt
    BY EventFacts DEF Events
  <2>3. clocks \in [Identities -> Clocks] /\ clocks = Started(said.clocks, id)
    BY <1>1, <1>3 DEF Clocks, Started
  <2>4. \A j \in Identities : clocks[j] = IF j = id THEN "running" ELSE said.clocks[j]
    BY <1>1
  <2>5. id.attempt > 1 => Attempt(id.node, id.item, id.attempt - 1) \in Identities
    <3>1. ASSUME id.attempt > 1 PROVE id.node \in AllNodes /\ id.attempt - 1 \in 1..MaxAttempts
      <4>1. id # HookAttempt
        BY <3>1, AttemptFields DEF HookAttempt
      <4>2. id.node \in AllNodes /\ id.attempt \in 1..MaxAttempts /\ MaxAttempts \in Nat
        BY <4>1, IdentityFacts, EventsAssumption
      <4>3. QED
        BY <3>1, <4>2
    <3>2. QED
      BY <3>1, IdentityFacts
  <2> HIDE DEF e, clocks
  <2>6. Fits(Whole(base, said), e)
    BY <1>1, <1>3, <2>2, <2>5 DEF Fits, MayStart
  <2>7. /\ Heeds(base, r)
        /\ \A n : StepHeard(Whole(base, r), n) <=>
                StepHeard(Whole(base, said), n) \/ (e.type = "step.finished" /\ e.node = n)
    <3>1. \A j \in Identities :
            /\ clocks[j] # "absent" <=>
                    \/ said.clocks[j] # "absent"
                    \/ e.type = "step.attempt.started" /\ IdentityOf(e) = j
            /\ clocks[j] = "zero" <=>
                    \/ said.clocks[j] = "zero"
                    \/ e.type = "step.attempt.finished" /\ IdentityOf(e) = j
      BY <1>3, <2>2, <2>4
    <3>2. e.type # "run.finished"
      BY <2>2
    <3>3. QED
      BY <2>1, <2>2, <2>3, <2>6, <3>1, <3>2, ExtendTold
  <2>8. QED
    BY <2>1, <2>2, <2>3, <2>7 DEF SameSteps
<1>4. QED
  BY <1>2, <1>3

LEMMA FinishOpenTold ==
    ASSUME NEW base \in Seq(Events), NEW said, Heeds(base, said), NEW id \in Identities,
           said.clocks[id] = "running" => ~StepHeard(Whole(base, said), id.node),
           NEW r, r = FinishOpenAttempt(said, id)
    PROVE  /\ Heeds(base, r) /\ SameSteps(base, r, said)
           /\ r.clocks = [said.clocks EXCEPT ![id] = IF said.clocks[id] = "running" THEN "zero"
                                                     ELSE said.clocks[id]]
<1>1. /\ said.clocks \in [Identities -> Clocks]
      /\ \A j \in Identities :
            /\ Heard(Whole(base, said), "step.attempt.started", j) <=> said.clocks[j] # "absent"
            /\ Heard(Whole(base, said), "step.attempt.finished", j) <=> said.clocks[j] = "zero"
  BY DEF Heeds, Told
<1>2. CASE said.clocks[id] # "running"
  BY <1>1, <1>2 DEF FinishOpenAttempt, SameSteps
<1>3. CASE said.clocks[id] = "running"
  <2> DEFINE e == AttemptEvent("step.attempt.finished", id)
             clocks == [said.clocks EXCEPT ![id] = "zero"]
  <2>1. r.clocks = clocks /\ r.events = Append(said.events, e)
    BY <1>3, SaidFields DEF FinishOpenAttempt
  <2>2. /\ e \in Events /\ e.type = "step.attempt.finished" /\ IdentityOf(e) = id
        /\ e.node = id.node
    BY EventFacts DEF Events
  <2>3. clocks \in [Identities -> Clocks]
    BY <1>1 DEF Clocks
  <2>4. \A j \in Identities : clocks[j] = IF j = id THEN "zero" ELSE said.clocks[j]
    BY <1>1
  <2> HIDE DEF e, clocks
  <2>5. Fits(Whole(base, said), e)
    BY <1>1, <1>3, <2>2 DEF Fits
  <2>6. \A j \in Identities :
            /\ clocks[j] # "absent" <=>
                    \/ said.clocks[j] # "absent"
                    \/ e.type = "step.attempt.started" /\ IdentityOf(e) = j
            /\ clocks[j] = "zero" <=>
                    \/ said.clocks[j] = "zero"
                    \/ e.type = "step.attempt.finished" /\ IdentityOf(e) = j
    BY <1>3, <2>2, <2>4
  <2>7. e.type # "run.finished"
    BY <2>2
  <2>8. /\ Heeds(base, r)
        /\ \A n : StepHeard(Whole(base, r), n) <=>
                StepHeard(Whole(base, said), n) \/ (e.type = "step.finished" /\ e.node = n)
    BY <2>1, <2>2, <2>3, <2>5, <2>6, <2>7, ExtendTold
  <2>9. QED
    BY <1>3, <2>1, <2>2, <2>8 DEF SameSteps, clocks
<1>4. QED
  BY <1>2, <1>3

\* finishAttempt starts the attempt if no one did; it is closed afterwards.
LEMMA FinishTold ==
    ASSUME NEW base \in Seq(Events), NEW said, Heeds(base, said), NEW id \in Identities,
           MayStart(base, said, id),
           said.clocks[id] = "running" => ~StepHeard(Whole(base, said), id.node),
           NEW r, r = FinishAttempt(said, id)
    PROVE  /\ Heeds(base, r) /\ SameSteps(base, r, said)
           /\ r.clocks = [said.clocks EXCEPT ![id] = "zero"]
<1> DEFINE started == StartAttempt(said, id)
<1>1. said.clocks \in [Identities -> Clocks]
  BY DEF Heeds, Told
<1>2. Heeds(base, started) /\ SameSteps(base, started, said)
      /\ started.clocks = Started(said.clocks, id)
  BY StartTold
<1>3. r = FinishOpenAttempt(started, id)
  BY DEF FinishAttempt
<1> HIDE DEF started
<1>4. started.clocks[id] = "running" => ~StepHeard(Whole(base, started), id.node)
  BY <1>1, <1>2 DEF MayStart, SameSteps, Started
<1>5. /\ Heeds(base, r) /\ SameSteps(base, r, started)
      /\ r.clocks = [started.clocks EXCEPT ![id] = IF started.clocks[id] = "running" THEN "zero"
                                                   ELSE started.clocks[id]]
  BY <1>2, <1>3, <1>4, FinishOpenTold
<1>6. r.clocks = [said.clocks EXCEPT ![id] = "zero"]
  BY <1>1, <1>2, <1>5 DEF Started, Clocks
<1>7. QED
  BY <1>2, <1>5, <1>6 DEF SameSteps




Closed(clocks, ns) ==
    [id \in Identities |-> IF id.node \in ns /\ clocks[id] = "running" THEN "zero" ELSE clocks[id]]

\* closeOpenAttempts closes each of the open attempts once, in whatever order it meets them.
LEMMA CloseTold ==
    ASSUME NEW base \in Seq(Events), NEW said, Heeds(base, said), NEW ns,
           \A id \in Identities :
               id.node \in ns /\ said.clocks[id] = "running" => ~StepHeard(Whole(base, said), id.node),
           NEW r \in CloseOpenAttempts(said, ns)
    PROVE  /\ Heeds(base, r) /\ SameSteps(base, r, said)
           /\ r.clocks = Closed(said.clocks, ns)
<1> DEFINE open == OpenAttempts(said, ns)
           n == Cardinality(open)
           s == Whole(base, said)
<1>1. /\ said.events \in Seq(Events) /\ s \in Seq(Events) /\ Len(s) \in Nat
      /\ said.clocks \in [Identities -> Clocks]
      /\ \A q \in 1..Len(s) : InOrder(s, q) /\ s[q].type # "run.finished"
      /\ \A id \in Identities :
            /\ Heard(s, "step.attempt.started", id) <=> said.clocks[id] # "absent"
            /\ Heard(s, "step.attempt.finished", id) <=> said.clocks[id] = "zero"
  BY LenProperties DEF Heeds, Told
<1>2. n \in Nat
  <2>1. open \in SUBSET Identities
    BY DEF OpenAttempts
  <2> HIDE DEF open
  <2>2. QED
    BY <2>1, FiniteIdentities, FS_Subset, FS_CardinalityType
<1>3. PICK order \in Bijection(1..n, open) : r = CloseInOrder(said, order)
  BY DEF CloseOpenAttempts
<1>4. /\ order \in [1..n -> open]
      /\ \A k, m \in 1..n : order[k] = order[m] => k = m
      /\ \A id \in open : \E k \in 1..n : order[k] = id
  <2> HIDE DEF open, n
  <2>1. QED
    BY <1>3 DEF Bijection, Injection, Surjection, IsInjective
<1>5. \A id \in open : /\ id \in Identities /\ said.clocks[id] = "running"
                       /\ ~StepHeard(s, id.node)
  BY DEF OpenAttempts
<1>6. \A id \in Identities : id \in open <=> id.node \in ns /\ said.clocks[id] = "running"
  BY DEF OpenAttempts
<1> DEFINE f == [k \in 1..n |-> AttemptEvent("step.attempt.finished", order[k])]
           u == s \o f
<1>7. r.events = said.events \o f
  <2> HIDE DEF open, n
  <2>1. DOMAIN order = 1..n
    BY <1>4
  <2>2. r.events = said.events \o [k \in DOMAIN order |-> AttemptEvent("step.attempt.finished", order[k])]
    BY <1>3, SaidFields DEF CloseInOrder
  <2>3. QED
    BY <2>1, <2>2
<1>8. r.clocks = Closed(said.clocks, ns)
  <2>1. r.clocks = [id \in Identities |-> IF \E k \in 1..n : order[k] = id THEN "zero"
                                          ELSE said.clocks[id]]
    BY <1>3, <1>4, SaidFields DEF CloseInOrder
  <2>2. \A id \in Identities : (\E k \in 1..n : order[k] = id) <=> id.node \in ns /\ said.clocks[id] = "running"
    BY <1>4, <1>6
  <2> HIDE DEF open, n
  <2>3. QED
    BY <2>1, <2>2 DEF Closed
<1> HIDE DEF open, n, s
<1>9. \A k \in 1..n : /\ f[k] \in Events /\ f[k].type = "step.attempt.finished"
                      /\ IdentityOf(f[k]) = order[k] /\ f[k].node = order[k].node
  BY <1>4, <1>5, EventFacts DEF Events
<1>10. f \in Seq(Events) /\ Len(f) = n
  <2>1. f \in [1..n -> Events]
    BY <1>9
  <2> HIDE DEF f
  <2>2. f \in Seq(Events)
    BY <1>2, <2>1, SeqDef
  <2>3. QED
    BY <1>2, <2>1, <2>2, LenProperties
<1> HIDE DEF f
<1>11. Whole(base, r) = u /\ r.events \in Seq(Events)
  <2>1. said.events \o f \in Seq(Events)
    BY <1>1, <1>10, JoinFacts
  <2>2. base \o (said.events \o f) = (base \o said.events) \o f
    BY <1>1, <1>10, Regroup
  <2>3. QED
    BY <1>7, <2>1, <2>2 DEF Whole, s
<1>12. /\ u \in Seq(Events) /\ Len(u) = Len(s) + n
       /\ \A p \in 1..Len(s) : u[p] = s[p]
       /\ \A p \in 1..n : u[Len(s) + p] = f[p]
  <2>1. s \in Seq(Events) /\ f \in Seq(Events)
    BY <1>1, <1>10
  <2>2. /\ u \in Seq(Events) /\ Len(u) = Len(s) + Len(f)
        /\ \A p \in 1..Len(s) : u[p] = s[p]
        /\ \A p \in 1..Len(f) : u[Len(s) + p] = f[p]
    BY <2>1, JoinFacts
  <2>3. QED
    BY <2>2, <1>10
<1>13. /\ \A type, id : Heard(u, type, id) <=> Heard(s, type, id) \/ Heard(f, type, id)
       /\ \A m : StepHeard(u, m) <=> StepHeard(s, m) \/ StepHeard(f, m)
  <2>1. s \in Seq(Events) /\ f \in Seq(Events)
    BY <1>1, <1>10
  <2>2. QED
    BY <2>1, HeardJoined
<1>14. /\ \A id : ~Heard(f, "step.attempt.started", id)
       /\ \A id : Heard(f, "step.attempt.finished", id) <=> id \in open
       /\ \A m : ~StepHeard(f, m)
  BY <1>4, <1>9, <1>10 DEF Heard, StepHeard
<1>15. ASSUME NEW q \in 1..Len(u) PROVE InOrder(u, q) /\ u[q].type # "run.finished"
  <2>1. CASE q <= Len(s)
    <3>1. q \in 1..Len(s)
      BY <1>1, <2>1
    <3>2. InOrder(s, q) /\ s[q].type # "run.finished"
      BY <3>1, <1>1
    <3>3. InOrder(u, q)
      BY <3>1, <3>2, <1>1, <1>10, OrderKept
    <3>4. QED
      BY <3>1, <3>2, <3>3, <1>12
  <2>2. CASE q > Len(s)
    <3> DEFINE k == q - Len(s)
               id == order[k]
    <3>1. k \in 1..n /\ Len(s) + k = q
      BY <2>2, <1>1, <1>2, <1>12
    <3>2. u[q] = f[k] /\ u[q].type = "step.attempt.finished" /\ IdentityOf(u[q]) = id
          /\ u[q].node = id.node
      BY <3>1, <1>9, <1>12
    <3>3. id \in open /\ id \in Identities /\ said.clocks[id] = "running" /\ ~StepHeard(s, id.node)
      BY <3>1, <1>4, <1>5
    <3>4. \A p \in 1..(q - 1) : \/ p \in 1..Len(s) /\ u[p] = s[p]
                                \/ p - Len(s) \in 1..n /\ p - Len(s) # k /\ u[p] = f[p - Len(s)]
      <4>1. TAKE p \in 1..(q - 1)
      <4>2. CASE p <= Len(s)
        BY <4>2, <1>1, <1>12
      <4>3. CASE p > Len(s)
        <5>1. p - Len(s) \in 1..n /\ p - Len(s) # k /\ Len(s) + (p - Len(s)) = p
          BY <4>3, <3>1, <1>1, <1>2, <1>12
        <5>2. QED
          BY <5>1, <1>12
      <4>4. QED
        BY <4>2, <4>3, <1>1
    <3>5. SaidBefore(u, q, "step.attempt.started", id)
      <4>1. PICK p \in 1..Len(s) : s[p].type = "step.attempt.started" /\ IdentityOf(s[p]) = id
        BY <3>3, <1>1 DEF Heard
      <4>2. p \in 1..(q - 1) /\ u[p] = s[p]
        BY <2>2, <1>1, <1>12
      <4>3. QED
        BY <4>1, <4>2 DEF SaidBefore
    <3>6. ~SaidBefore(u, q, "step.attempt.finished", id)
      <4>1. \A p \in 1..Len(s) : ~(s[p].type = "step.attempt.finished" /\ IdentityOf(s[p]) = id)
        BY <3>3, <1>1 DEF Heard
      <4>2. \A m \in 1..n : m # k => IdentityOf(f[m]) # id
        BY <3>1, <1>4, <1>9
      <4>3. QED
        BY <3>4, <4>1, <4>2 DEF SaidBefore
    <3>7. ~FinishedBefore(u, q, id.node)
      <4>1. \A p \in 1..Len(s) : ~(s[p].type = "step.finished" /\ s[p].node = id.node)
        BY <3>3 DEF StepHeard
      <4>2. \A m \in 1..n : f[m].type # "step.finished"
        BY <1>9
      <4>3. QED
        BY <3>4, <4>1, <4>2 DEF FinishedBefore
    <3> HIDE DEF k, id, u
    <3>8. InOrder(u, q)
      BY <3>2, <3>5, <3>6, <3>7 DEF InOrder
    <3>9. QED
      BY <3>2, <3>8
  <2>3. QED
    BY <2>1, <2>2, <1>1
<1> HIDE DEF u
<1>16. \A id \in Identities :
        /\ Heard(u, "step.attempt.started", id) <=> r.clocks[id] # "absent"
        /\ Heard(u, "step.attempt.finished", id) <=> r.clocks[id] = "zero"
  BY <1>1, <1>6, <1>8, <1>13, <1>14 DEF Closed
<1>17. r.clocks \in [Identities -> Clocks]
  BY <1>1, <1>8 DEF Closed, Clocks
<1>18. Heeds(base, r)
  BY <1>11, <1>12, <1>15, <1>16, <1>17 DEF Heeds, Told
<1>19. SameSteps(base, r, said)
  BY <1>11, <1>13, <1>14 DEF SameSteps, s
<1>20. QED
  BY <1>8, <1>18, <1>19

\* stepFinished closes what is open of the step before it reports the step.
LEMMA StepFinishedTold ==
    ASSUME NEW base \in Seq(Events), NEW said, Heeds(base, said),
           NEW n \in AllNodes \cup {Hook}, ~StepHeard(Whole(base, said), n),
           NEW r \in StepFinished(said, n)
    PROVE  /\ Heeds(base, r)
           /\ \A m : StepHeard(Whole(base, r), m) <=> StepHeard(Whole(base, said), m) \/ m = n
           /\ r.clocks = Closed(said.clocks, {n})
<1>1. PICK closed \in CloseOpenAttempts(said, {n}) : r = SayStep(closed, n)
  BY DEF StepFinished
<1>2. /\ Heeds(base, closed) /\ SameSteps(base, closed, said)
      /\ closed.clocks = Closed(said.clocks, {n})
  BY CloseTold
<1> DEFINE e == StepEvent(n)
<1>3. e \in Events /\ e.type = "step.finished" /\ e.node = n
  BY EventFacts DEF Events
<1>4. r.clocks = closed.clocks /\ r.events = Append(closed.events, e)
  BY <1>1, SaidFields DEF SayStep
<1> HIDE DEF e
<1>5. /\ closed.clocks \in [Identities -> Clocks]
      /\ \A j \in Identities :
            /\ Heard(Whole(base, closed), "step.attempt.started", j) <=> closed.clocks[j] # "absent"
            /\ Heard(Whole(base, closed), "step.attempt.finished", j) <=> closed.clocks[j] = "zero"
  BY <1>2 DEF Heeds, Told
<1>6. \A id \in Identities : id.node = n => closed.clocks[id] # "running"
  BY <1>2 DEF Closed
<1>7. Fits(Whole(base, closed), e)
  BY <1>2, <1>3, <1>5, <1>6 DEF Fits, SameSteps, Clocks
<1>8. e.type # "run.finished"
  BY <1>3
<1>9. /\ Heeds(base, r)
      /\ \A m : StepHeard(Whole(base, r), m) <=>
                StepHeard(Whole(base, closed), m) \/ (e.type = "step.finished" /\ e.node = m)
  <2> DEFINE clocks == closed.clocks
  <2>1. clocks \in [Identities -> Clocks] /\ r.clocks = clocks
    BY <1>4, <1>5
  <2>2. \A id \in Identities :
           /\ clocks[id] # "absent" <=>
                \/ closed.clocks[id] # "absent"
                \/ e.type = "step.attempt.started" /\ IdentityOf(e) = id
           /\ clocks[id] = "zero" <=>
                \/ closed.clocks[id] = "zero"
                \/ e.type = "step.attempt.finished" /\ IdentityOf(e) = id
    BY <1>3
  <2> HIDE DEF clocks
  <2>3. Heeds(base, closed) /\ e \in Events /\ r.events = Append(closed.events, e)
    BY <1>2, <1>3, <1>4
  <2>4. QED
    BY <2>1, <2>2, <2>3, <1>7, <1>8, ExtendTold
<1>10. QED
  BY <1>2, <1>3, <1>4, <1>9 DEF SameSteps





-----------------------------------------------------------------------------
\* Reports of the run.

Telling == Told(emitted, attemptStarts)

\* What the observer sees of a step of the run.
Reports == \E events \in Seq(Events) : emitted' = emitted \o events /\ Enqueue(events)
Observed == Reports \/ Silent

NoNewStep == \A n : StepHeard(emitted', n) <=> StepHeard(emitted, n)
OneNewStep(m) == \A n : StepHeard(emitted', n) <=> StepHeard(emitted, n) \/ n = m

LEMMA NothingTold ==
    ASSUME Telling
    PROVE  /\ emitted \in Seq(Events) /\ attemptStarts \in [Identities -> Clocks]
           /\ Heeds(emitted, Nothing) /\ Whole(emitted, Nothing) = emitted
           /\ Nothing.clocks = attemptStarts
<1>1. emitted \in Seq(Events) /\ attemptStarts \in [Identities -> Clocks]
  BY DEF Telling, Told
<1>2. Nothing.clocks = attemptStarts /\ Nothing.events = <<>>
  BY SaidFields DEF Nothing
<1>3. <<>> \in Seq(Events) /\ emitted \o <<>> = emitted
  BY <1>1, ConcatEmptySeq, EmptySeq
<1>4. QED
  BY <1>1, <1>2, <1>3 DEF Heeds, Whole, Telling

LEMMA ReportTold ==
    ASSUME NEW said, Heeds(emitted, said), Report(said)
    PROVE  /\ Telling' /\ attemptStarts' = said.clocks /\ emitted' = Whole(emitted, said)
           /\ Observed
BY DEF Heeds, Report, Telling, Whole, Observed, Reports

LEMMA SilentTold ==
    ASSUME Telling, Silent
    PROVE  Telling' /\ NoNewStep /\ Observed /\ attemptStarts' = attemptStarts
BY DEF Silent, Telling, NoNewStep, Observed

MayStartNow(id) ==
    attemptStarts[id] = "absent" =>
        /\ ~StepHeard(emitted, id.node)
        /\ id.attempt > 1 => attemptStarts[Attempt(id.node, id.item, id.attempt - 1)] = "zero"

MayFinishNow(id) == attemptStarts[id] = "running" => ~StepHeard(emitted, id.node)

LEMMA ReportStart ==
    ASSUME Telling, NEW id \in Identities, MayStartNow(id), Report(StartAttempt(Nothing, id))
    PROVE  Telling' /\ NoNewStep /\ Observed /\ attemptStarts' = Started(attemptStarts, id)
<1>1. MayStart(emitted, Nothing, id)
  BY NothingTold DEF MayStart, MayStartNow
<1> DEFINE r == StartAttempt(Nothing, id)
<1>2. Heeds(emitted, r) /\ SameSteps(emitted, r, Nothing) /\ r.clocks = Started(attemptStarts, id)
  BY <1>1, NothingTold, StartTold
<1> HIDE DEF r
<1>3. QED
  BY <1>2, NothingTold, ReportTold DEF NoNewStep, SameSteps, r

LEMMA ReportFinish ==
    ASSUME Telling, NEW id \in Identities, MayStartNow(id), MayFinishNow(id),
           Report(FinishAttempt(Nothing, id))
    PROVE  /\ Telling' /\ NoNewStep /\ Observed
           /\ attemptStarts' = [attemptStarts EXCEPT ![id] = "zero"]
<1>1. /\ MayStart(emitted, Nothing, id)
      /\ Nothing.clocks[id] = "running" => ~StepHeard(Whole(emitted, Nothing), id.node)
  BY NothingTold DEF MayStart, MayStartNow, MayFinishNow
<1> DEFINE r == FinishAttempt(Nothing, id)
<1>2. /\ Heeds(emitted, r) /\ SameSteps(emitted, r, Nothing)
      /\ r.clocks = [attemptStarts EXCEPT ![id] = "zero"]
  BY <1>1, NothingTold, FinishTold
<1> HIDE DEF r
<1>3. QED
  BY <1>2, NothingTold, ReportTold DEF NoNewStep, SameSteps, r

LEMMA ReportClose ==
    ASSUME Telling, NEW ns,
           \A id \in Identities : id.node \in ns => MayFinishNow(id),
           NEW r \in CloseOpenAttempts(Nothing, ns), Report(r)
    PROVE  Telling' /\ NoNewStep /\ Observed /\ attemptStarts' = Closed(attemptStarts, ns)
<1>1. \A id \in Identities :
        id.node \in ns /\ Nothing.clocks[id] = "running" =>
            ~StepHeard(Whole(emitted, Nothing), id.node)
  BY NothingTold DEF MayFinishNow
<1>2. /\ Heeds(emitted, r) /\ SameSteps(emitted, r, Nothing)
      /\ r.clocks = Closed(attemptStarts, ns)
  BY <1>1, NothingTold, CloseTold
<1>3. QED
  BY <1>2, NothingTold, ReportTold DEF NoNewStep, SameSteps

\* The clocks of a node's attempts do not run; the others are as they were.
NodeClosed(n) ==
    \A id \in Identities :
        IF id.node = n THEN attemptStarts'[id] # "running" ELSE attemptStarts'[id] = attemptStarts[id]

LEMMA ReportStep ==
    ASSUME Telling, NEW n \in AllNodes \cup {Hook}, ~StepHeard(emitted, n),
           NEW r \in StepFinished(Nothing, n), Report(r)
    PROVE  Telling' /\ OneNewStep(n) /\ Observed /\ NodeClosed(n)
<1>1. /\ Heeds(emitted, r)
      /\ \A m : StepHeard(Whole(emitted, r), m) <=> StepHeard(emitted, m) \/ m = n
      /\ r.clocks = Closed(attemptStarts, {n})
  <2>1. /\ emitted \in Seq(Events) /\ Heeds(emitted, Nothing)
        /\ ~StepHeard(Whole(emitted, Nothing), n)
    BY NothingTold
  <2>2. /\ Heeds(emitted, r)
        /\ \A m : StepHeard(Whole(emitted, r), m) <=> StepHeard(Whole(emitted, Nothing), m) \/ m = n
        /\ r.clocks = Closed(Nothing.clocks, {n})
    BY <2>1, StepFinishedTold
  <2>3. QED
    BY <2>2, NothingTold
<1>2. Telling' /\ Observed /\ attemptStarts' = r.clocks /\ emitted' = Whole(emitted, r)
  BY <1>1, ReportTold
<1>3. QED
  BY <1>1, <1>2 DEF OneNewStep, NodeClosed, Closed

\* The attempt is finished, and the step after it.
LEMMA ReportAttemptAndStep ==
    ASSUME Telling, NEW id \in Identities, id.node \in AllNodes \cup {Hook},
           ~StepHeard(emitted, id.node), MayStartNow(id),
           NEW said, said \in {Nothing, StartAttempt(Nothing, id), FinishAttempt(Nothing, id)},
           NEW r \in StepFinished(FinishAttempt(said, id), id.node), Report(r)
    PROVE  /\ Telling' /\ OneNewStep(id.node) /\ Observed /\ NodeClosed(id.node)
           /\ attemptStarts'[id] = "zero"
<1> DEFINE n == id.node
           f == FinishAttempt(said, id)
<1>0. /\ MayStart(emitted, Nothing, id) /\ ~StepHeard(Whole(emitted, Nothing), n)
      /\ attemptStarts \in [Identities -> Clocks] /\ emitted \in Seq(Events)
  BY NothingTold DEF MayStart, MayStartNow
<1>1. /\ Heeds(emitted, said) /\ SameSteps(emitted, said, Nothing)
      /\ \A j \in Identities : j # id => said.clocks[j] = attemptStarts[j]
      /\ said.clocks[id] \in {attemptStarts[id], "running", "zero"}
      /\ said.clocks \in [Identities -> Clocks]
  <2>1. CASE said = Nothing
    BY <2>1, NothingTold DEF SameSteps
  <2>2. CASE said = StartAttempt(Nothing, id)
    <3>1. /\ Heeds(emitted, said) /\ SameSteps(emitted, said, Nothing)
          /\ said.clocks = Started(attemptStarts, id)
      BY <2>2, <1>0, NothingTold, StartTold
    <3>2. QED
      BY <3>1, <1>0 DEF Started, Clocks
  <2>3. CASE said = FinishAttempt(Nothing, id)
    <3>1. /\ Heeds(emitted, said) /\ SameSteps(emitted, said, Nothing)
          /\ said.clocks = [attemptStarts EXCEPT ![id] = "zero"]
      <4>1. /\ emitted \in Seq(Events) /\ Heeds(emitted, Nothing)
            /\ MayStart(emitted, Nothing, id)
            /\ Nothing.clocks[id] = "running" => ~StepHeard(Whole(emitted, Nothing), id.node)
        BY <1>0, NothingTold
      <4>2. /\ Heeds(emitted, said) /\ SameSteps(emitted, said, Nothing)
            /\ said.clocks = [Nothing.clocks EXCEPT ![id] = "zero"]
        BY <2>3, <4>1, FinishTold
      <4>3. QED
        BY <4>2, NothingTold
    <3>2. QED
      BY <3>1, <1>0 DEF Clocks
  <2>4. QED
    BY <2>1, <2>2, <2>3
<1>2. ~StepHeard(Whole(emitted, said), n)
  BY <1>0, <1>1 DEF SameSteps
<1>3. MayStart(emitted, said, id)
  <2>1. ASSUME said.clocks[id] = "absent", id.attempt > 1
        PROVE  said.clocks[Attempt(id.node, id.item, id.attempt - 1)] = "zero"
    <3> DEFINE j == Attempt(id.node, id.item, id.attempt - 1)
    <3>1. attemptStarts[id] = "absent"
      BY <2>1, <1>1
    <3>2. attemptStarts[j] = "zero"
      BY <2>1, <3>1 DEF MayStartNow
    <3>3. j.attempt = id.attempt - 1 /\ id.attempt \in Nat
      BY AttemptFields, IdentityFacts
    <3>4. j # id
      BY <3>3
    <3>5. j \in Identities
      <4>1. id # HookAttempt
        BY <2>1, AttemptFields DEF HookAttempt
      <4>2. id.node \in AllNodes /\ id.attempt \in 1..MaxAttempts /\ MaxAttempts \in Nat
            /\ id.item \in WorkItems
        BY <4>1, IdentityFacts, EventsAssumption
      <4>3. id.attempt - 1 \in 1..MaxAttempts
        BY <2>1, <4>2
      <4>4. QED
        BY <4>2, <4>3, IdentityFacts
    <3>6. QED
      BY <3>2, <3>4, <3>5, <1>1
  <2>2. QED
    BY <2>1, <1>2 DEF MayStart
<1>4. /\ Heeds(emitted, f) /\ SameSteps(emitted, f, said)
      /\ f.clocks = [said.clocks EXCEPT ![id] = "zero"]
  BY <1>0, <1>1, <1>2, <1>3, FinishTold
<1> HIDE DEF f
<1>5. ~StepHeard(Whole(emitted, f), n)
  BY <1>2, <1>4 DEF SameSteps
<1>6. /\ Heeds(emitted, r)
      /\ \A m : StepHeard(Whole(emitted, r), m) <=> StepHeard(Whole(emitted, f), m) \/ m = n
      /\ r.clocks = Closed(f.clocks, {n})
  <2>1. n \in AllNodes \cup {Hook} /\ r \in StepFinished(f, n)
    BY DEF f
  <2>2. emitted \in Seq(Events) /\ Heeds(emitted, f)
    BY <1>0, <1>4
  <2> HIDE DEF n
  <2>3. QED
    BY <1>5, <2>1, <2>2, StepFinishedTold
<1>7. Telling' /\ Observed /\ attemptStarts' = r.clocks /\ emitted' = Whole(emitted, r)
  BY <1>6, ReportTold
<1>8. OneNewStep(n)
  BY <1>1, <1>4, <1>6, <1>7, NothingTold DEF OneNewStep, SameSteps
<1>9. \A j \in Identities : f.clocks[j] = IF j = id THEN "zero" ELSE said.clocks[j]
  BY <1>1, <1>4
<1>10. NodeClosed(n) /\ attemptStarts'[id] = "zero"
  BY <1>1, <1>6, <1>7, <1>9 DEF NodeClosed, Closed
<1>11. QED
  BY <1>7, <1>8, <1>10



-----------------------------------------------------------------------------
\* The three ways the loop leaves a node: settled, stopped, or with a batch.

Core == LoopTypes /\ Telling /\ StatusesTell /\ NodesInOrder /\ BatchTells /\ HookTells

LEMMA NodeFacts ==
    ASSUME LoopTypes
    PROVE  /\ Nodes = 1..Len(kinds) /\ Len(kinds) \in Nat
           /\ Nodes \subseteq AllNodes /\ Nodes \subseteq Nat /\ Hook \notin Nodes
           /\ \A n \in Nodes : kinds[n] \in {"step", "map"}
BY PlanNodes DEF LoopTypes, Nodes, Hook

\* The identities a place may speak of.
LEMMA PlaceIdentities ==
    ASSUME LoopTypes
    PROVE  /\ \A n \in Nodes, i \in WorkItems, a \in 1..MaxAttempts : Attempt(n, i, a) \in Identities
           /\ 1 \in 1..MaxAttempts /\ MaxAttempts \in Nat /\ Unscoped \in WorkItems
           /\ Items \subseteq WorkItems /\ HookAttempt \in Identities
           /\ HookAttempt.node = Hook /\ HookAttempt.attempt = 1
           /\ WorkItems \subseteq Nat /\ Unscoped \notin Items
<1>1. MaxAttempts \in Nat \ {0} /\ MaxItems \in Nat
  BY EventsAssumption
<1>2. QED
  BY <1>1, NodeFacts, IdentityFacts, AttemptFields DEF WorkItems, HookAttempt, Items, Unscoped

LEMMA SettleKeeps ==
    ASSUME Core, place \in {"node", "batch", "observing"}, node \in Nodes,
           NEW ok, Settle(ok), failures' \in Nat,
           Telling', OneNewStep(node), NodeClosed(node)
    PROVE  Core'
<1>1. /\ kinds' = kinds /\ callbacks' = callbacks /\ ctxErr' = ctxErr
      /\ status' = [status EXCEPT ![node] = "terminal"]
      /\ \/ ok /\ node' = node + 1 /\ place' = "node"
         \/ ~ok /\ node' = node /\ place' = "ending"
      /\ round' = 1 /\ pending' = {} /\ observed' = 0
      /\ work' = [i \in DOMAIN work |-> "idle"]
  BY DEF Settle, NoBatch, settings
<1>2. Nodes' = Nodes
  BY <1>1 DEF Nodes
<1>3. /\ status \in [Nodes -> {"pending", "running", "terminal"}]
      /\ \A n \in Nodes : status'[n] = IF n = node THEN "terminal" ELSE status[n]
  BY <1>1 DEF Core, LoopTypes
<1>4. LoopTypes'
  <2>1. /\ kinds' \in Plans /\ place' \in Places /\ node' \in Nat /\ round' \in 1..MaxAttempts
        /\ pending' \subseteq WorkItems /\ callbacks' \in BOOLEAN /\ ctxErr' \in BOOLEAN
        /\ observed' \in WorkItems
    BY <1>1, PlaceIdentities DEF Core, LoopTypes, Places, WorkItems, Unscoped
  <2>2. work' \in [WorkItems -> {"idle", "running"} \cup Ends]
    BY <1>1 DEF Core, LoopTypes
  <2>3. status' \in [Nodes' -> {"pending", "running", "terminal"}]
    BY <1>1, <1>2, <1>3
  <2>4. attemptStarts' \in [Identities -> Clocks]
    BY NothingTold DEF Telling, Told
  <2>5. QED
    BY <2>1, <2>2, <2>3, <2>4 DEF LoopTypes
<1>5. StatusesTell'
  <2>1. \A n \in Nodes : StepHeard(emitted, n)' <=> status'[n] = "terminal"
    BY <1>3 DEF Core, StatusesTell, OneNewStep
  <2>2. ASSUME NEW id \in Identities
        PROVE  /\ id.node \notin Nodes \cup {Hook} => attemptStarts'[id] = "absent"
               /\ id.node \in Nodes /\ status'[id.node] = "terminal" => attemptStarts'[id] # "running"
               /\ id.node \in Nodes /\ status'[id.node] = "pending" => attemptStarts'[id] = "absent"
    BY <1>3 DEF Core, StatusesTell, NodeClosed
  <2>3. QED
    BY <1>2, <2>1, <2>2 DEF StatusesTell
<1>6. NodesInOrder'
  BY <1>1, <1>2, <1>3, NodeFacts DEF Core, NodesInOrder
<1>7. BatchTells'
  BY <1>1 DEF BatchTells
<1>8. HookTells'
  <2>1. Hook # node /\ HookAttempt.node # node /\ HookAttempt \in Identities
    BY NodeFacts, PlaceIdentities DEF Core
  <2>2. attemptStarts'[HookAttempt] = attemptStarts[HookAttempt]
    BY <2>1 DEF NodeClosed
  <2>3. StepHeard(emitted', Hook) <=> StepHeard(emitted, Hook)
    BY <2>1 DEF OneNewStep
  <2>4. place' \in {"node", "ending"}
    BY <1>1
  <2>5. attemptStarts[HookAttempt] = "absent" /\ ~StepHeard(emitted, Hook)
    BY DEF Core, HookTells
  <2>6. QED
    BY <2>2, <2>3, <2>4, <2>5 DEF HookTells, HookAttempt
<1>9. QED
  BY <1>4, <1>5, <1>6, <1>7, <1>8 DEF Core

\* Only clocks of the active node may have changed, and only while it runs.
OnlyActive ==
    \A id \in Identities :
        attemptStarts'[id] # attemptStarts[id] => id.node = node /\ node \in Nodes /\ status[node] = "running"

LEMMA StopKeeps ==
    ASSUME Core, place \in {"node", "batch", "observing"}, Stop, failures' \in Nat,
           Telling', NoNewStep, OnlyActive
    PROVE  Core'
<1>1. /\ kinds' = kinds /\ callbacks' = callbacks /\ ctxErr' = ctxErr
      /\ status' = status /\ node' = node /\ place' = "ending"
      /\ round' = 1 /\ pending' = {} /\ observed' = 0
      /\ work' = [i \in DOMAIN work |-> "idle"]
  BY DEF Stop, NoBatch, settings
<1>2. Nodes' = Nodes
  BY <1>1 DEF Nodes
<1>4. LoopTypes'
  <2>1. /\ kinds' \in Plans /\ place' \in Places /\ node' \in Nat /\ round' \in 1..MaxAttempts
        /\ pending' \subseteq WorkItems /\ callbacks' \in BOOLEAN /\ ctxErr' \in BOOLEAN
        /\ observed' \in WorkItems
    BY <1>1, PlaceIdentities DEF Core, LoopTypes, Places, WorkItems, Unscoped
  <2>2. work' \in [WorkItems -> {"idle", "running"} \cup Ends]
    BY <1>1 DEF Core, LoopTypes
  <2>3. status' \in [Nodes' -> {"pending", "running", "terminal"}]
    BY <1>1, <1>2 DEF Core, LoopTypes
  <2>4. attemptStarts' \in [Identities -> Clocks]
    BY DEF Telling, Told
  <2>5. QED
    BY <2>1, <2>2, <2>3, <2>4 DEF LoopTypes
<1>5. StatusesTell'
  <2>1. \A n \in Nodes : StepHeard(emitted, n)' <=> status'[n] = "terminal"
    BY <1>1 DEF Core, StatusesTell, NoNewStep
  <2>2. ASSUME NEW id \in Identities
        PROVE  /\ id.node \notin Nodes \cup {Hook} => attemptStarts'[id] = "absent"
               /\ id.node \in Nodes /\ status'[id.node] = "terminal" => attemptStarts'[id] # "running"
               /\ id.node \in Nodes /\ status'[id.node] = "pending" => attemptStarts'[id] = "absent"
    BY <1>1 DEF Core, StatusesTell, OnlyActive
  <2>3. QED
    BY <1>2, <2>1, <2>2 DEF StatusesTell
<1>6. NodesInOrder'
  BY <1>1 DEF NodesInOrder
<1>7. BatchTells'
  BY <1>1 DEF BatchTells
<1>8. HookTells'
  <2>1. HookAttempt.node \notin Nodes /\ HookAttempt \in Identities
    BY NodeFacts, PlaceIdentities DEF Core
  <2>2. attemptStarts'[HookAttempt] = attemptStarts[HookAttempt]
    BY <2>1 DEF OnlyActive
  <2>3. StepHeard(emitted', Hook) <=> StepHeard(emitted, Hook)
    BY DEF NoNewStep
  <2>4. attemptStarts[HookAttempt] = "absent" /\ ~StepHeard(emitted, Hook)
    BY DEF Core, HookTells
  <2>5. QED
    BY <1>1, <2>2, <2>3, <2>4 DEF HookTells, HookAttempt
<1>9. QED
  BY <1>4, <1>5, <1>6, <1>7, <1>8 DEF Core

LEMMA DispatchKeeps ==
    ASSUME Core, place \in {"node", "batch", "observing"}, node \in Nodes,
           NEW items \in SUBSET WorkItems, NEW n \in 1..MaxAttempts, Dispatch(items, n),
           failures' \in Nat, status' = [status EXCEPT ![node] = "running"],
           Telling', NoNewStep,
           \A id \in Identities : id.node # node => attemptStarts'[id] = attemptStarts[id],
           \A i \in items, a \in 1..MaxAttempts :
               /\ a < n => attemptStarts'[Attempt(node, i, a)] = "zero"
               /\ a > n => attemptStarts'[Attempt(node, i, a)] = "absent",
           kinds[node] = "step" => items = {Unscoped},
           kinds[node] = "map" => items \subseteq Items /\ attemptStarts'[MapAttempt] = "running",
           status[node] # "terminal"
    PROVE  Core'
<1>1. /\ kinds' = kinds /\ callbacks' = callbacks /\ ctxErr' = ctxErr
      /\ node' = node /\ place' = "batch"
      /\ round' = n /\ pending' = items /\ observed' = 0
      /\ work' = [i \in DOMAIN work |-> "idle"]
  BY DEF Dispatch, settings
<1>2. Nodes' = Nodes
  BY <1>1 DEF Nodes
<1>3. /\ status \in [Nodes -> {"pending", "running", "terminal"}]
      /\ \A m \in Nodes : status'[m] = IF m = node THEN "running" ELSE status[m]
  BY DEF Core, LoopTypes
<1>4. LoopTypes'
  <2>1. /\ kinds' \in Plans /\ place' \in Places /\ node' \in Nat /\ round' \in 1..MaxAttempts
        /\ pending' \subseteq WorkItems /\ callbacks' \in BOOLEAN /\ ctxErr' \in BOOLEAN
        /\ observed' \in WorkItems
    BY <1>1, PlaceIdentities DEF Core, LoopTypes, Places, WorkItems, Unscoped
  <2>2. work' \in [WorkItems -> {"idle", "running"} \cup Ends]
    BY <1>1 DEF Core, LoopTypes
  <2>3. status' \in [Nodes' -> {"pending", "running", "terminal"}]
    BY <1>1, <1>2, <1>3
  <2>4. attemptStarts' \in [Identities -> Clocks]
    BY DEF Telling, Told
  <2>5. QED
    BY <2>1, <2>2, <2>3, <2>4 DEF LoopTypes
<1>5. StatusesTell'
  <2>1. \A m \in Nodes : StepHeard(emitted, m)' <=> status'[m] = "terminal"
    BY <1>3 DEF Core, StatusesTell, NoNewStep
  <2>2. ASSUME NEW id \in Identities
        PROVE  /\ id.node \notin Nodes \cup {Hook} => attemptStarts'[id] = "absent"
               /\ id.node \in Nodes /\ status'[id.node] = "terminal" => attemptStarts'[id] # "running"
               /\ id.node \in Nodes /\ status'[id.node] = "pending" => attemptStarts'[id] = "absent"
    BY <1>3 DEF Core, StatusesTell
  <2>3. QED
    BY <1>2, <2>1, <2>2 DEF StatusesTell
<1>6. NodesInOrder'
  BY <1>1, <1>2, <1>3, NodeFacts DEF Core, NodesInOrder
<1>7. BatchTells'
  <2>1. \A i \in pending' : RoundsOf(node, i, round)'
    BY <1>1 DEF RoundsOf
  <2>2. MapAttempt' = MapAttempt
    BY <1>1 DEF MapAttempt
  <2>3. QED
    BY <1>1, <2>1, <2>2 DEF BatchTells
<1>8. HookTells'
  <2>1. HookAttempt.node # node /\ HookAttempt \in Identities
    BY NodeFacts, PlaceIdentities DEF Core
  <2>2. attemptStarts'[HookAttempt] = attemptStarts[HookAttempt]
    BY <2>1
  <2>3. StepHeard(emitted', Hook) <=> StepHeard(emitted, Hook)
    BY DEF NoNewStep
  <2>4. attemptStarts[HookAttempt] = "absent" /\ ~StepHeard(emitted, Hook)
    BY DEF Core, HookTells
  <2>5. QED
    BY <1>1, <2>2, <2>3, <2>4 DEF HookTells, HookAttempt
<1>9. QED
  BY <1>4, <1>5, <1>6, <1>7, <1>8 DEF Core




-----------------------------------------------------------------------------
\* The actions of the loop.

LEMMA FailuresCount ==
    ASSUME Core, Works \/ Fails
    PROVE  failures' \in Nat
BY DEF Core, LoopTypes, Works, Fails

LEMMA ActiveOpen ==
    ASSUME Core, place \in {"node", "batch", "observing"}, node \in Nodes
    PROVE  /\ ~StepHeard(emitted, node) /\ status[node] \in {"pending", "running"}
           /\ node \in AllNodes /\ LoopTypes /\ Telling
           /\ place = "node" => status[node] = "pending"
           /\ place # "node" => status[node] = "running"
BY NodeFacts DEF Core, StatusesTell, NodesInOrder

LEMMA BatchNode ==
    ASSUME Core, place \in {"batch", "observing"}
    PROVE  /\ node \in Nodes /\ status[node] = "running"
           /\ \A i \in pending : i \in WorkItems /\ Attempt(node, i, round) \in Identities
           /\ round \in 1..MaxAttempts
           /\ status = [status EXCEPT ![node] = "running"]
<1>1. /\ node \in Nodes /\ status[node] = "running"
      /\ pending \subseteq WorkItems /\ round \in 1..MaxAttempts /\ LoopTypes
  BY DEF Core, NodesInOrder, LoopTypes
<1>2. QED
  BY <1>1, PlaceIdentities DEF LoopTypes

\* Nothing has been said of a node that has not begun.
LEMMA PendingAbsent ==
    ASSUME Core, place = "node", node \in Nodes
    PROVE  /\ \A i \in WorkItems, a \in 1..MaxAttempts : attemptStarts[Attempt(node, i, a)] = "absent"
           /\ MapAttempt \in Identities /\ MapAttempt.node = node /\ MapAttempt.attempt = 1
           /\ attemptStarts[MapAttempt] = "absent"
           /\ MayStartNow(MapAttempt)
<1>1. status[node] = "pending" /\ ~StepHeard(emitted, node) /\ LoopTypes
  BY ActiveOpen
<1>2. \A i \in WorkItems, a \in 1..MaxAttempts :
        Attempt(node, i, a) \in Identities /\ Attempt(node, i, a).node = node
  BY <1>1, PlaceIdentities, AttemptFields
<1>3. \A i \in WorkItems, a \in 1..MaxAttempts : attemptStarts[Attempt(node, i, a)] = "absent"
  BY <1>1, <1>2 DEF Core, StatusesTell
<1>4. MapAttempt \in Identities /\ MapAttempt.node = node /\ MapAttempt.attempt = 1
      /\ attemptStarts[MapAttempt] = "absent"
  BY <1>1, <1>2, <1>3, PlaceIdentities, AttemptFields DEF MapAttempt
<1>5. MayStartNow(MapAttempt)
  BY <1>1, <1>4 DEF MayStartNow
<1>6. QED
  BY <1>3, <1>4, <1>5

\* Only the place changes.
LEMMA PlaceTypes ==
    ASSUME LoopTypes, UNCHANGED <<orderVars, status>>, place' \in Places, ctxErr' \in BOOLEAN,
           failures' \in Nat, Telling'
    PROVE  LoopTypes' /\ Nodes' = Nodes /\ MapAttempt' = MapAttempt
<1>1. kinds' = kinds /\ node' = node /\ round' = round /\ pending' = pending /\ work' = work
      /\ observed' = observed /\ callbacks' = callbacks /\ status' = status
  BY DEF orderVars, batchVars, settings
<1>2. attemptStarts' \in [Identities -> Clocks]
  BY DEF Telling, Told
<1>3. QED
  BY <1>1, <1>2 DEF LoopTypes, Nodes, MapAttempt

LEMMA BeginRunKeeps ==
    ASSUME Core, BeginRun, emitted = <<>>
    PROVE  Core' /\ Observed /\ place' = "node"
<1> DEFINE e == RunEvent("run.started")
           r == Said(attemptStarts, RunStarted)
<1>1. e \in Events /\ e.type = "run.started"
  BY EventFacts DEF Events
<1>2. Heeds(emitted, Nothing) /\ Whole(emitted, Nothing) = <<>> /\ Nothing.clocks = attemptStarts
      /\ Nothing.events = <<>> /\ emitted \in Seq(Events) /\ attemptStarts \in [Identities -> Clocks]
  BY NothingTold, SaidFields DEF Core, Nothing
<1>3. r.clocks = attemptStarts /\ r.events = Append(Nothing.events, e)
  BY <1>2, SaidFields DEF RunStarted
<1> HIDE DEF e, r
<1>4. Fits(Whole(emitted, Nothing), e)
  BY <1>1, <1>2 DEF Fits
<1>5. /\ Heeds(emitted, r)
      /\ \A n : StepHeard(Whole(emitted, r), n) <=>
                StepHeard(Whole(emitted, Nothing), n) \/ (e.type = "step.finished" /\ e.node = n)
  <2>1. \A id \in Identities :
            /\ attemptStarts[id] # "absent" <=>
                 \/ Nothing.clocks[id] # "absent"
                 \/ e.type = "step.attempt.started" /\ IdentityOf(e) = id
            /\ attemptStarts[id] = "zero" <=>
                 \/ Nothing.clocks[id] = "zero"
                 \/ e.type = "step.attempt.finished" /\ IdentityOf(e) = id
    BY <1>1, <1>2
  <2>2. /\ e \in Events /\ e.type # "run.finished" /\ Heeds(emitted, Nothing)
        /\ emitted \in Seq(Events) /\ attemptStarts \in [Identities -> Clocks]
    BY <1>1, <1>2
  <2>3. QED
    BY <1>3, <1>4, <2>1, <2>2, ExtendTold
<1>6. Telling' /\ Observed /\ attemptStarts' = attemptStarts /\ emitted' = Whole(emitted, r)
  BY <1>3, <1>5, ReportTold DEF BeginRun, r
<1>7. NoNewStep
  BY <1>1, <1>2, <1>5, <1>6 DEF NoNewStep
<1>8. place = "starting" /\ place' = "node" /\ UNCHANGED <<orderVars, status, ctxErr, failures>>
  BY DEF BeginRun
<1>9. LoopTypes' /\ Nodes' = Nodes
  BY <1>6, <1>8, PlaceTypes DEF Core, LoopTypes, Places
<1>10. kinds' = kinds /\ node' = node /\ status' = status /\ round' = round
  BY <1>8 DEF orderVars, batchVars, settings
<1>11. StatusesTell'
  BY <1>6, <1>7, <1>9, <1>10 DEF Core, StatusesTell, NoNewStep
<1>12. NodesInOrder'
  BY <1>8, <1>9, <1>10 DEF Core, NodesInOrder
<1>13. BatchTells' /\ HookTells'
  BY <1>6, <1>7, <1>8, <1>10 DEF Core, BatchTells, HookTells, NoNewStep, HookAttempt
<1>14. QED
  BY <1>6, <1>8, <1>9, <1>11, <1>12, <1>13 DEF Core

\* Cancel, MapObserves and Succeed report nothing and only move on.
LEMMA MoveKeeps ==
    ASSUME Core, Silent, UNCHANGED <<orderVars, status>>, ctxErr' \in BOOLEAN, failures' \in Nat,
           \/ place' = place
           \/ place = "batch" /\ kinds[node] = "map" /\ place' = "observing"
           \/ place = "node" /\ node = Len(kinds) + 1 /\ place' = "hook"
    PROVE  Core' /\ Observed
<1>1. Telling' /\ NoNewStep /\ Observed /\ attemptStarts' = attemptStarts /\ emitted' = emitted
  BY SilentTold DEF Core, Silent
<1>2. place' \in Places
  BY DEF Core, LoopTypes, Places
<1>3. LoopTypes' /\ Nodes' = Nodes /\ MapAttempt' = MapAttempt
  BY <1>1, <1>2, PlaceTypes DEF Core
<1>4. kinds' = kinds /\ node' = node /\ status' = status /\ round' = round /\ pending' = pending
      /\ observed' = observed /\ work' = work
  BY DEF orderVars, batchVars, settings
<1>5. StatusesTell'
  BY <1>1, <1>3, <1>4 DEF Core, StatusesTell
<1>6. NodesInOrder'
  BY <1>1, <1>3, <1>4, NodeFacts DEF Core, NodesInOrder
<1>7. BatchTells'
  <2>1. \A n, i, r : RoundsOf(n, i, r)' <=> RoundsOf(n, i, r)
    BY <1>1 DEF RoundsOf
  <2>2. CASE place' = place
    BY <1>1, <1>3, <1>4, <2>1, <2>2 DEF Core, BatchTells
  <2>3. CASE place = "batch" /\ kinds[node] = "map" /\ place' = "observing"
    <3>1. pending \subseteq Items
      BY <2>3 DEF Core, BatchTells
    <3>2. \A i \in pending : ~(i <= observed)
      BY <2>3, <3>1, EventsAssumption DEF Items, Core, BatchTells
    <3>3. QED
      BY <1>1, <1>3, <1>4, <2>1, <2>3, <3>2 DEF Core, BatchTells
  <2>4. CASE place = "node" /\ place' = "hook"
    BY <1>1, <1>3, <1>4, <2>4 DEF Core, BatchTells
  <2>5. QED
    BY <2>2, <2>3, <2>4
<1>8. HookTells'
  BY <1>1, <1>4 DEF Core, HookTells, HookAttempt
<1>9. QED
  BY <1>1, <1>3, <1>5, <1>6, <1>7, <1>8 DEF Core



LEMMA StopAtNodeKeeps ==
    ASSUME Core, StopAtNode
    PROVE  Core' /\ Observed
<1>1. place = "node" /\ (Works \/ Fails) /\ Silent /\ Stop
  BY DEF StopAtNode
<1>2. Telling' /\ NoNewStep /\ Observed /\ attemptStarts' = attemptStarts
  BY <1>1, SilentTold DEF Core
<1>3. OnlyActive
  BY <1>2 DEF OnlyActive
<1>4. QED
  BY <1>1, <1>2, <1>3, FailuresCount, StopKeeps

LEMMA SkipNodeKeeps ==
    ASSUME Core, SkipNode
    PROVE  Core' /\ Observed
<1>1. PICK said \in StepFinished(Nothing, node) : Report(said)
  BY DEF SkipNode
<1>2. place = "node" /\ node \in Nodes /\ (Works \/ Fails) /\ (Settle(TRUE) \/ Settle(FALSE))
  BY DEF SkipNode
<1>3. ~StepHeard(emitted, node) /\ node \in AllNodes \cup {Hook} /\ Telling
  BY <1>2, ActiveOpen
<1>4. Telling' /\ OneNewStep(node) /\ Observed /\ NodeClosed(node)
  BY <1>1, <1>3, ReportStep
<1>5. failures' \in Nat
  BY <1>2, FailuresCount
<1>6. QED
  BY <1>2, <1>4, <1>5, SettleKeeps

\* The loop ends while the node is marked as running.
LEMMA EndRunningKeeps ==
    ASSUME Core, place = "node", node \in Nodes, place' = "ending", failures' \in Nat,
           status' = [status EXCEPT ![node] = "running"], UNCHANGED <<orderVars, ctxErr>>,
           Telling', NoNewStep,
           \A id \in Identities : id.node # node => attemptStarts'[id] = attemptStarts[id]
    PROVE  Core'
<1>1. kinds' = kinds /\ node' = node /\ round' = round /\ pending' = pending /\ work' = work
      /\ observed' = observed /\ callbacks' = callbacks
  BY DEF orderVars, batchVars, settings
<1>2. Nodes' = Nodes
  BY <1>1 DEF Nodes
<1>3. /\ status \in [Nodes -> {"pending", "running", "terminal"}]
      /\ \A m \in Nodes : status'[m] = IF m = node THEN "running" ELSE status[m]
  BY DEF Core, LoopTypes
<1>4. LoopTypes'
  <2>1. attemptStarts' \in [Identities -> Clocks]
    BY DEF Telling, Told
  <2>2. status' \in [Nodes' -> {"pending", "running", "terminal"}]
    BY <1>2, <1>3
  <2>3. QED
    BY <1>1, <2>1, <2>2 DEF Core, LoopTypes, Places
<1>5. StatusesTell'
  <2>1. status[node] = "pending"
    BY ActiveOpen
  <2>2. \A m \in Nodes : StepHeard(emitted, m)' <=> status'[m] = "terminal"
    BY <1>3, <2>1 DEF Core, StatusesTell, NoNewStep
  <2>3. ASSUME NEW id \in Identities
        PROVE  /\ id.node \notin Nodes \cup {Hook} => attemptStarts'[id] = "absent"
               /\ id.node \in Nodes /\ status'[id.node] = "terminal" => attemptStarts'[id] # "running"
               /\ id.node \in Nodes /\ status'[id.node] = "pending" => attemptStarts'[id] = "absent"
    BY <1>3 DEF Core, StatusesTell
  <2>4. QED
    BY <1>2, <2>2, <2>3 DEF StatusesTell
<1>6. NodesInOrder'
  BY DEF NodesInOrder
<1>7. BatchTells'
  BY <1>1 DEF Core, BatchTells
<1>8. HookTells'
  <2>1. HookAttempt.node # node /\ HookAttempt \in Identities
    BY NodeFacts, PlaceIdentities DEF Core
  <2>2. attemptStarts'[HookAttempt] = attemptStarts[HookAttempt]
    BY <2>1
  <2>3. StepHeard(emitted', Hook) <=> StepHeard(emitted, Hook)
    BY DEF NoNewStep
  <2>4. attemptStarts[HookAttempt] = "absent" /\ ~StepHeard(emitted, Hook)
    BY DEF Core, HookTells
  <2>5. QED
    BY <2>2, <2>3, <2>4 DEF HookTells, HookAttempt
<1>9. QED
  BY <1>4, <1>5, <1>6, <1>7, <1>8 DEF Core

LEMMA BeginStepKeeps ==
    ASSUME Core, BeginStep
    PROVE  Core' /\ Observed
<1>1. place = "node" /\ node \in Nodes /\ kinds[node] = "step" /\ Silent
      /\ status' = [status EXCEPT ![node] = "running"]
  BY DEF BeginStep, AtNode
<1>2. Telling' /\ NoNewStep /\ Observed /\ attemptStarts' = attemptStarts
  BY <1>1, SilentTold DEF Core
<1>3. CASE Works /\ Dispatch({Unscoped}, 1)
  <2>1. {Unscoped} \in SUBSET WorkItems /\ 1 \in 1..MaxAttempts /\ MaxAttempts \in Nat
    BY PlaceIdentities DEF Core
  <2>2. \A i \in {Unscoped}, a \in 1..MaxAttempts :
            /\ a < 1 => attemptStarts'[Attempt(node, i, a)] = "zero"
            /\ a > 1 => attemptStarts'[Attempt(node, i, a)] = "absent"
    BY <1>1, <1>2, <2>1, PendingAbsent
  <2>3. status[node] # "terminal" /\ failures' \in Nat
    BY <1>1, <1>3, ActiveOpen, FailuresCount
  <2>4. Core'
    BY <1>1, <1>2, <1>3, <2>1, <2>2, <2>3, DispatchKeeps
  <2>5. QED
    BY <1>2, <2>4
<1>4. CASE Fails /\ place' = "ending" /\ UNCHANGED <<orderVars, ctxErr>>
  BY <1>1, <1>2, <1>4, FailuresCount, EndRunningKeeps
<1>5. QED
  BY <1>3, <1>4 DEF BeginStep

\* A map that ends at once, or after its batch.
LEMMA MapEndKeeps ==
    ASSUME Core, place \in {"node", "batch", "observing"}, node \in Nodes, kinds[node] = "map",
           NEW said \in {Nothing, StartAttempt(Nothing, MapAttempt)},
           NEW r \in MapFinished(said), Report(r), NEW ok, Settle(ok), failures' \in Nat
    PROVE  Core' /\ Observed
<1>1. /\ ~StepHeard(emitted, node) /\ node \in AllNodes /\ LoopTypes /\ Telling
  BY ActiveOpen
<1>2. MapAttempt \in Identities /\ MapAttempt.node = node /\ MapAttempt.attempt = 1
  BY <1>1, PlaceIdentities, AttemptFields DEF MapAttempt
<1>3. MayStartNow(MapAttempt)
  BY <1>1, <1>2 DEF MayStartNow
<1>4. r \in StepFinished(FinishAttempt(said, MapAttempt), MapAttempt.node)
  BY <1>2 DEF MapFinished
<1>5. Telling' /\ OneNewStep(node) /\ Observed /\ NodeClosed(node)
  BY <1>1, <1>2, <1>3, <1>4, ReportAttemptAndStep
<1>6. QED
  BY <1>5, SettleKeeps

LEMMA BeginMapKeeps ==
    ASSUME Core, BeginMap
    PROVE  Core' /\ Observed
<1>1. place = "node" /\ node \in Nodes /\ kinds[node] = "map" /\ LoopTypes
  BY DEF BeginMap, AtNode, Core
<1>2. /\ MapAttempt \in Identities /\ MapAttempt.node = node
      /\ MayStartNow(MapAttempt) /\ attemptStarts[MapAttempt] = "absent"
      /\ \A i \in WorkItems, a \in 1..MaxAttempts : attemptStarts[Attempt(node, i, a)] = "absent"
  BY <1>1, PendingAbsent
<1>3. CASE /\ Report(StartAttempt(Nothing, MapAttempt))
           /\ status' = [status EXCEPT ![node] = "running"]
           /\ \/ Works /\ \E n \in Items : Dispatch(1..n, 1)
              \/ Fails /\ place' = "ending" /\ UNCHANGED <<orderVars, ctxErr>>
  <2>1. Telling' /\ NoNewStep /\ Observed /\ attemptStarts' = Started(attemptStarts, MapAttempt)
    BY <1>2, <1>3, ReportStart DEF Core
  <2>2. /\ \A id \in Identities : id # MapAttempt => attemptStarts'[id] = attemptStarts[id]
        /\ attemptStarts'[MapAttempt] = "running"
    BY <1>2, <2>1 DEF Started, Core, LoopTypes
  <2>3. \A id \in Identities : id.node # node => attemptStarts'[id] = attemptStarts[id]
    BY <1>2, <2>2
  <2>4. failures' \in Nat /\ status[node] # "terminal"
    BY <1>1, <1>3, FailuresCount, ActiveOpen
  <2>5. CASE Works /\ \E n \in Items : Dispatch(1..n, 1)
    <3>1. PICK n \in Items : Dispatch(1..n, 1)
      BY <2>5
    <3>2. 1..n \in SUBSET WorkItems /\ 1..n \subseteq Items /\ 1 \in 1..MaxAttempts /\ MaxAttempts \in Nat
      BY <1>1, PlaceIdentities, EventsAssumption DEF Items, WorkItems
    <3>3. \A i \in 1..n, a \in 1..MaxAttempts :
            /\ a < 1 => attemptStarts'[Attempt(node, i, a)] = "zero"
            /\ a > 1 => attemptStarts'[Attempt(node, i, a)] = "absent"
      <4>1. TAKE i \in 1..n, a \in 1..MaxAttempts
      <4>2. i \in WorkItems /\ Attempt(node, i, a) \in Identities /\ Attempt(node, i, a).attempt = a
        BY <1>1, <3>2, PlaceIdentities, AttemptFields
      <4>3. a > 1 => Attempt(node, i, a) # MapAttempt
        BY <4>2, AttemptFields DEF MapAttempt
      <4>4. QED
        BY <1>2, <2>2, <3>2, <4>2, <4>3
    <3>4. kinds[node] # "step"
      BY <1>1
    <3>5. Core'
      BY <1>1, <1>3, <2>1, <2>2, <2>3, <2>4, <3>1, <3>2, <3>3, <3>4, DispatchKeeps
    <3>6. QED
      BY <2>1, <3>5
  <2>6. CASE Fails /\ place' = "ending" /\ UNCHANGED <<orderVars, ctxErr>>
    BY <1>1, <1>3, <2>1, <2>3, <2>4, <2>6, EndRunningKeeps
  <2>7. QED
    BY <1>3, <2>5, <2>6
<1>4. CASE /\ Works \/ Fails
           /\ \E said \in MapFinished(StartAttempt(Nothing, MapAttempt)) : Report(said)
           /\ Settle(FALSE) \/ Settle(TRUE)
  <2>1. PICK r \in MapFinished(StartAttempt(Nothing, MapAttempt)) : Report(r)
    BY <1>4
  <2>2. failures' \in Nat
    BY <1>4, FailuresCount
  <2>3. StartAttempt(Nothing, MapAttempt) \in {Nothing, StartAttempt(Nothing, MapAttempt)}
    OBVIOUS
  <2>4. QED
    BY <1>1, <1>4, <2>1, <2>2, <2>3, MapEndKeeps
<1>5. QED
  BY <1>3, <1>4 DEF BeginMap




\* A worker's callback, or the orchestrator's look at an item: one attempt of the batch.
LEMMA ItemKeeps ==
    ASSUME Core, place \in {"batch", "observing", "hookBatch"}, NEW i \in pending,
           NEW id, id = Attempt(node, i, round), id \in Identities,
           Telling', NoNewStep,
           \A j \in Identities : j # id => attemptStarts'[j] = attemptStarts[j],
           attemptStarts'[id] \in {attemptStarts[id], "running", "zero"},
           UNCHANGED <<place, node, round, pending, settings, status, ctxErr, failures>>,
           work' \in [WorkItems -> {"idle", "running"} \cup Ends], observed' \in WorkItems,
           place = "batch" => observed' = observed,
           place = "observing" =>
               \A k \in pending : work'[k] # "idle" /\ k <= observed' =>
                   attemptStarts'[Attempt(node, k, round)] = "zero"
    PROVE  Core'
<1>1. kinds' = kinds /\ callbacks' = callbacks
  BY DEF settings
<1>2. Nodes' = Nodes /\ MapAttempt' = MapAttempt
  BY <1>1 DEF Nodes, MapAttempt
<1>3. LoopTypes'
  <2>1. attemptStarts' \in [Identities -> Clocks]
    BY DEF Telling, Told
  <2>2. QED
    BY <1>1, <1>2, <2>1 DEF Core, LoopTypes
<1>4. id.node = node /\ id.item = i /\ id.attempt = round
  BY AttemptFields
<1>5. \/ node \in Nodes /\ status[node] = "running"
      \/ place = "hookBatch" /\ node = Hook /\ i = Unscoped /\ round = 1
  BY DEF Core, NodesInOrder, HookTells, BatchTells
<1>6. StatusesTell'
  <2>1. \A m \in Nodes : StepHeard(emitted, m)' <=> status'[m] = "terminal"
    BY DEF Core, StatusesTell, NoNewStep
  <2>2. ASSUME NEW j \in Identities
        PROVE  /\ j.node \notin Nodes \cup {Hook} => attemptStarts'[j] = "absent"
               /\ j.node \in Nodes /\ status'[j.node] = "terminal" => attemptStarts'[j] # "running"
               /\ j.node \in Nodes /\ status'[j.node] = "pending" => attemptStarts'[j] = "absent"
    <3>1. CASE j # id
      BY <3>1 DEF Core, StatusesTell
    <3>2. CASE j = id
      BY <3>2, <1>4, <1>5, NodeFacts DEF Core
    <3>3. QED
      BY <3>1, <3>2
  <2>3. QED
    BY <1>2, <2>1, <2>2 DEF StatusesTell
<1>7. NodesInOrder'
  BY <1>1, <1>2 DEF Core, NodesInOrder
<1>8. BatchTells'
  <2>1. CASE place \in {"batch", "observing"}
    <3>1. /\ node \in Nodes /\ round \in 1..MaxAttempts
          /\ \A k \in pending : k \in WorkItems
      BY <2>1, BatchNode
    <3>2. \A k \in pending : RoundsOf(node, k, round)'
      <4>1. TAKE k \in pending
      <4>2. \A a \in 1..MaxAttempts : /\ Attempt(node, k, a) \in Identities
                                      /\ a # round => Attempt(node, k, a) # id
        BY <3>1, <1>4, PlaceIdentities, AttemptFields DEF Core
      <4>3. RoundsOf(node, k, round)
        BY <2>1 DEF Core, BatchTells
      <4>4. MaxAttempts \in Nat /\ round \in Nat
        BY <3>1, EventsAssumption
      <4>5. QED
        BY <3>1, <4>2, <4>3, <4>4 DEF RoundsOf
    <3>3. kinds[node] = "map" => pending \subseteq Items /\ attemptStarts'[MapAttempt] = "running"
      <4>1. ASSUME kinds[node] = "map"
            PROVE  pending \subseteq Items /\ attemptStarts[MapAttempt] = "running"
        BY <2>1, <4>1 DEF Core, BatchTells
      <4>2. ASSUME kinds[node] = "map" PROVE MapAttempt # id
        BY <4>1, <4>2, <1>4, AttemptFields, PlaceIdentities DEF MapAttempt, Core
      <4>3. MapAttempt \in Identities
        BY <3>1, PlaceIdentities DEF MapAttempt, Core
      <4>4. QED
        BY <4>1, <4>2, <4>3
    <3>4. QED
      BY <1>1, <1>2, <2>1, <3>2, <3>3 DEF Core, BatchTells
  <2>2. CASE place = "hookBatch"
    BY <2>2 DEF Core, BatchTells
  <2>3. QED
    BY <2>1, <2>2
<1>9. HookTells'
  <2>1. HookAttempt \in Identities /\ HookAttempt.node = Hook
    BY PlaceIdentities DEF Core
  <2>2. CASE place = "hookBatch"
    <3>1. attemptStarts[HookAttempt] # "absent" /\ node = Hook /\ pending = {Unscoped}
          /\ ~StepHeard(emitted, Hook)
      BY <2>2 DEF Core, HookTells
    <3>2. attemptStarts'[HookAttempt] # "absent"
      BY <2>1, <3>1
    <3>3. QED
      BY <2>2, <3>1, <3>2 DEF HookTells, NoNewStep, HookAttempt
  <2>3. CASE place # "hookBatch"
    <3>1. attemptStarts[HookAttempt] = "absent" /\ ~StepHeard(emitted, Hook)
      BY <2>3 DEF Core, HookTells
    <3>2. attemptStarts'[HookAttempt] = "absent"
      BY <1>4, <1>5, <2>1, <2>3, <3>1, NodeFacts DEF Core
    <3>3. QED
      BY <2>3, <3>1, <3>2 DEF HookTells, NoNewStep, HookAttempt
  <2>4. QED
    BY <2>2, <2>3
<1>10. QED
  BY <1>3, <1>6, <1>7, <1>8, <1>9 DEF Core

\* Any attempt of the batch may be reported, whoever was first.
LEMMA ItemReportable ==
    ASSUME Core, place \in {"batch", "observing", "hookBatch"}, NEW i \in pending,
           NEW id, id = Attempt(node, i, round)
    PROVE  id \in Identities /\ MayStartNow(id) /\ MayFinishNow(id) /\ ~StepHeard(emitted, id.node)
<1>1. id.node = node /\ id.item = i /\ id.attempt = round
  BY AttemptFields
<1>2. CASE place \in {"batch", "observing"}
  <2>1. node \in Nodes /\ round \in 1..MaxAttempts /\ id \in Identities /\ i \in WorkItems
    BY <1>2, BatchNode
  <2>2. ~StepHeard(emitted, node)
    BY <1>2, <2>1, ActiveOpen
  <2>3. round > 1 => attemptStarts[Attempt(node, i, round - 1)] = "zero"
    <3>1. RoundsOf(node, i, round)
      BY <1>2 DEF Core, BatchTells
    <3>2. MaxAttempts \in Nat
      BY EventsAssumption
    <3>3. round > 1 => round - 1 \in 1..MaxAttempts /\ round - 1 < round
      BY <2>1, <3>2
    <3>4. QED
      BY <3>1, <3>3 DEF RoundsOf
  <2>4. QED
    BY <1>1, <2>1, <2>2, <2>3 DEF MayStartNow, MayFinishNow
<1>3. CASE place = "hookBatch"
  <2>1. /\ attemptStarts[HookAttempt] # "absent" /\ node = Hook /\ pending = {Unscoped}
        /\ ~StepHeard(emitted, Hook) /\ round = 1
    BY <1>3 DEF Core, HookTells, BatchTells
  <2>2. id = HookAttempt /\ HookAttempt \in Identities
    BY <2>1, PlaceIdentities DEF HookAttempt, Core
  <2>3. QED
    BY <1>1, <2>1, <2>2 DEF MayStartNow, MayFinishNow
<1>4. QED
  BY <1>2, <1>3

LEMMA StartWorkKeeps ==
    ASSUME Core, NEW i \in WorkItems, StartWork(i)
    PROVE  Core' /\ Observed
<1> DEFINE id == Attempt(node, i, round)
<1>1. /\ place \in {"batch", "hookBatch"} /\ i \in pending
      /\ UNCHANGED <<place, node, round, pending, observed, settings, status, ctxErr, failures>>
      /\ work' = [work EXCEPT ![i] = "running"]
  BY DEF StartWork, InBatch
<1>2. id \in Identities /\ MayStartNow(id)
  BY <1>1, ItemReportable
<1>3. /\ Telling' /\ NoNewStep /\ Observed
      /\ attemptStarts' \in {attemptStarts, Started(attemptStarts, id)}
  <2>1. CASE Silent
    BY <2>1, SilentTold DEF Core
  <2>2. CASE Report(StartAttempt(Nothing, id))
    BY <2>2, <1>2, ReportStart DEF Core
  <2>3. QED
    BY <2>1, <2>2 DEF StartWork
<1>4. /\ \A j \in Identities : j # id => attemptStarts'[j] = attemptStarts[j]
      /\ attemptStarts'[id] \in {attemptStarts[id], "running", "zero"}
  BY <1>2, <1>3 DEF Started, Core, LoopTypes
<1>5. /\ work' \in [WorkItems -> {"idle", "running"} \cup Ends]
      /\ observed' \in WorkItems /\ observed' = observed
  BY <1>1 DEF Core, LoopTypes
<1> HIDE DEF id
<1>6. Core'
  BY <1>1, <1>2, <1>3, <1>4, <1>5, ItemKeeps DEF id
<1>7. QED
  BY <1>3, <1>6

LEMMA EndWorkKeeps ==
    ASSUME Core, NEW i \in WorkItems, EndWork(i)
    PROVE  Core' /\ Observed
<1> DEFINE id == Attempt(node, i, round)
<1>1. /\ place \in {"batch", "hookBatch"} /\ i \in pending
      /\ UNCHANGED <<place, node, round, pending, observed, settings, status, ctxErr, failures>>
      /\ \E o \in Ends : work' = [work EXCEPT ![i] = o]
  BY DEF EndWork, InBatch
<1>2. id \in Identities /\ MayStartNow(id) /\ MayFinishNow(id)
  BY <1>1, ItemReportable
<1>3. /\ Telling' /\ NoNewStep /\ Observed
      /\ attemptStarts' \in {attemptStarts, [attemptStarts EXCEPT ![id] = "zero"]}
  <2>1. CASE Silent
    BY <2>1, SilentTold DEF Core
  <2>2. CASE Report(FinishAttempt(Nothing, id))
    BY <2>2, <1>2, ReportFinish DEF Core
  <2>3. QED
    BY <2>1, <2>2 DEF EndWork
<1>4. /\ \A j \in Identities : j # id => attemptStarts'[j] = attemptStarts[j]
      /\ attemptStarts'[id] \in {attemptStarts[id], "running", "zero"}
  BY <1>2, <1>3 DEF Core, LoopTypes
<1>5. /\ work' \in [WorkItems -> {"idle", "running"} \cup Ends]
      /\ observed' \in WorkItems /\ observed' = observed
  BY <1>1 DEF Core, LoopTypes
<1> HIDE DEF id
<1>6. Core'
  BY <1>1, <1>2, <1>3, <1>4, <1>5, ItemKeeps DEF id
<1>7. QED
  BY <1>3, <1>6

LEMMA ObserveItemKeeps ==
    ASSUME Core, ObserveItem
    PROVE  Core' /\ Observed
<1>1. PICK i \in Unobserved :
        /\ \A j \in Unobserved : i <= j
        /\ Report(FinishAttempt(Nothing, Attempt(node, i, round)))
        /\ observed' = i
  BY DEF ObserveItem
<1>2. /\ place = "observing" /\ work' = work
      /\ UNCHANGED <<place, node, round, pending, settings, status, ctxErr, failures>>
  BY DEF ObserveItem
<1>3. Unobserved = {j \in pending : work[j] # "idle" /\ j > observed}
  BY DEF Unobserved, Outs
<1> DEFINE id == Attempt(node, i, round)
<1>4. i \in pending /\ id \in Identities /\ MayStartNow(id) /\ MayFinishNow(id)
  BY <1>1, <1>2, <1>3, ItemReportable
<1>5. /\ Telling' /\ NoNewStep /\ Observed
      /\ attemptStarts' = [attemptStarts EXCEPT ![id] = "zero"]
  BY <1>1, <1>4, ReportFinish DEF Core
<1>6. /\ \A j \in Identities : j # id => attemptStarts'[j] = attemptStarts[j]
      /\ attemptStarts'[id] = "zero"
  BY <1>4, <1>5 DEF Core, LoopTypes
<1>7. \A k \in pending : work'[k] # "idle" /\ k <= observed' =>
        attemptStarts'[Attempt(node, k, round)] = "zero"
  <2>1. SUFFICES ASSUME NEW k \in pending, work[k] # "idle", k <= i
                 PROVE  attemptStarts'[Attempt(node, k, round)] = "zero"
    BY <1>1, <1>2
  <2>2. k \in Nat /\ i \in Nat /\ observed \in Nat /\ Attempt(node, k, round) \in Identities
    BY <1>2, <1>4, BatchNode, PlaceIdentities DEF Core, LoopTypes
  <2>3. CASE k = i
    BY <2>3, <1>6
  <2>4. CASE k # i
    <3>1. k \notin Unobserved
      BY <1>1, <2>1, <2>2, <2>4
    <3>2. k <= observed
      BY <1>3, <2>1, <2>2, <3>1
    <3>3. attemptStarts[Attempt(node, k, round)] = "zero"
      BY <1>2, <2>1, <3>2 DEF Core, BatchTells
    <3>4. QED
      BY <1>6, <2>2, <3>3
  <2>5. QED
    BY <2>3, <2>4
<1>8. /\ work' \in [WorkItems -> {"idle", "running"} \cup Ends] /\ observed' \in WorkItems
  BY <1>1, <1>2, <1>4 DEF Core, LoopTypes
<1> HIDE DEF id
<1>9. Core'
  BY <1>2, <1>4, <1>5, <1>6, <1>7, <1>8, ItemKeeps DEF id
<1>10. QED
  BY <1>5, <1>9




\* A step of which the attempt of the batch is finished and the step after it.
LEMMA StepEndKeeps ==
    ASSUME Core, place = "batch", kinds[node] = "step",
           NEW r \in StepFinished(FinishAttempt(Nothing, Attempt(node, Unscoped, round)), node),
           Report(r), NEW ok, Settle(ok), failures' \in Nat
    PROVE  Core' /\ Observed
<1> DEFINE id == Attempt(node, Unscoped, round)
<1>1. Unscoped \in pending /\ node \in Nodes /\ node \in AllNodes /\ Telling
  BY BatchNode, ActiveOpen DEF Core, BatchTells
<1>2. id \in Identities /\ MayStartNow(id) /\ ~StepHeard(emitted, id.node)
  BY <1>1, ItemReportable
<1>3. id.node = node
  BY AttemptFields
<1> HIDE DEF id
<1>4. Nothing \in {Nothing, StartAttempt(Nothing, id), FinishAttempt(Nothing, id)}
      /\ r \in StepFinished(FinishAttempt(Nothing, id), id.node)
  BY <1>3 DEF id
<1>5. Telling' /\ OneNewStep(node) /\ Observed /\ NodeClosed(node)
  BY <1>1, <1>2, <1>3, <1>4, ReportAttemptAndStep
<1>6. QED
  BY <1>1, <1>5, SettleKeeps

LEMMA StepUndispatchedKeeps ==
    ASSUME Core, StepUndispatched
    PROVE  Core' /\ Observed
<1>1. place = "batch" /\ kinds[node] = "step" /\ Works /\ failures' \in Nat
  BY FailuresCount DEF StepUndispatched
<1>2. node \in Nodes /\ ~StepHeard(emitted, node) /\ node \in AllNodes \cup {Hook} /\ Telling
  BY <1>1, BatchNode, ActiveOpen
<1>3. CASE (\E said \in StepFinished(Nothing, node) : Report(said)) /\ Settle(FALSE)
  <2>1. PICK r \in StepFinished(Nothing, node) : Report(r)
    BY <1>3
  <2>2. Telling' /\ OneNewStep(node) /\ Observed /\ NodeClosed(node)
    BY <1>2, <2>1, ReportStep
  <2>3. QED
    BY <1>1, <1>2, <1>3, <2>2, SettleKeeps
<1>4. CASE Silent /\ Stop
  <2>1. Telling' /\ NoNewStep /\ Observed /\ attemptStarts' = attemptStarts
    BY <1>2, <1>4, SilentTold
  <2>2. OnlyActive
    BY <2>1 DEF OnlyActive
  <2>3. QED
    BY <1>1, <1>4, <2>1, <2>2, StopKeeps
<1>5. QED
  BY <1>3, <1>4 DEF StepUndispatched

LEMMA RejectOutcomesKeeps ==
    ASSUME Core, RejectOutcomes
    PROVE  Core' /\ Observed
<1>1. place = "batch" /\ Fails /\ failures' \in Nat
  BY FailuresCount DEF RejectOutcomes
<1>2. node \in Nodes /\ Telling /\ kinds[node] \in {"step", "map"}
  BY <1>1, BatchNode, ActiveOpen, NodeFacts
<1>3. CASE Silent /\ Stop
  <2>1. Telling' /\ NoNewStep /\ Observed /\ attemptStarts' = attemptStarts
    BY <1>2, <1>3, SilentTold
  <2>2. OnlyActive
    BY <2>1 DEF OnlyActive
  <2>3. QED
    BY <1>1, <1>3, <2>1, <2>2, StopKeeps
<1>4. CASE kinds[node] = "map" /\ (\E said \in MapFinished(Nothing) : Report(said)) /\ Settle(FALSE)
  <2>1. PICK r \in MapFinished(Nothing) : Report(r)
    BY <1>4
  <2>2. Nothing \in {Nothing, StartAttempt(Nothing, MapAttempt)}
    OBVIOUS
  <2>3. QED
    BY <1>1, <1>2, <1>4, <2>1, <2>2, MapEndKeeps
<1>5. QED
  BY <1>2, <1>3, <1>4 DEF RejectOutcomes

LEMMA StepReturnedKeeps ==
    ASSUME Core, StepReturned
    PROVE  Core' /\ Observed
<1> DEFINE id == Attempt(node, Unscoped, round)
           said == FinishAttempt(Nothing, id)
<1>1. /\ place = "batch" /\ kinds[node] = "step"
      /\ \/ /\ Works \/ Fails
            /\ \E r \in StepFinished(said, node) : Report(r)
            /\ \E ok \in BOOLEAN : Settle(ok)
         \/ /\ Report(said) /\ round < MaxAttempts
            /\ \/ Works /\ Dispatch({Unscoped}, round + 1) /\ UNCHANGED status
               \/ (Works \/ Fails) /\ Stop
  BY DEF StepReturned
<1>2. failures' \in Nat
  BY <1>1, FailuresCount
<1>3. CASE /\ \E r \in StepFinished(said, node) : Report(r)
           /\ \E ok \in BOOLEAN : Settle(ok)
  <2>1. PICK r \in StepFinished(said, node) : Report(r)
    BY <1>3
  <2>2. PICK ok \in BOOLEAN : Settle(ok)
    BY <1>3
  <2>3. QED
    BY <1>1, <1>2, <2>1, <2>2, StepEndKeeps
<1>4. CASE /\ Report(said) /\ round < MaxAttempts
           /\ (Dispatch({Unscoped}, round + 1) /\ UNCHANGED status) \/ Stop
  <2>1. /\ pending = {Unscoped} /\ node \in Nodes /\ round \in 1..MaxAttempts
        /\ status[node] = "running" /\ status = [status EXCEPT ![node] = "running"]
    BY <1>1, BatchNode DEF Core, BatchTells
  <2>2. id \in Identities /\ MayStartNow(id) /\ MayFinishNow(id)
    BY <1>1, <2>1, ItemReportable
  <2>3. id.node = node
    BY AttemptFields
  <2>4. Telling' /\ NoNewStep /\ Observed /\ attemptStarts' = [attemptStarts EXCEPT ![id] = "zero"]
    BY <1>4, <2>2, ReportFinish DEF Core
  <2>5. /\ \A j \in Identities : j # id => attemptStarts'[j] = attemptStarts[j]
        /\ attemptStarts'[id] = "zero"
    BY <2>2, <2>4 DEF Core, LoopTypes
  <2>6. CASE Stop
    <3>1. OnlyActive
      BY <2>1, <2>3, <2>5 DEF OnlyActive
    <3>2. QED
      BY <1>1, <1>2, <2>4, <2>6, <3>1, StopKeeps
  <2>7. CASE Dispatch({Unscoped}, round + 1) /\ UNCHANGED status
    <3>1. /\ {Unscoped} \in SUBSET WorkItems /\ round + 1 \in 1..MaxAttempts
          /\ MaxAttempts \in Nat /\ round \in Nat
      BY <1>4, <2>1, PlaceIdentities DEF Core
    <3>2. RoundsOf(node, Unscoped, round)
      BY <1>1, <2>1 DEF Core, BatchTells
    <3>3. \A i \in {Unscoped}, a \in 1..MaxAttempts :
            /\ a < round + 1 => attemptStarts'[Attempt(node, i, a)] = "zero"
            /\ a > round + 1 => attemptStarts'[Attempt(node, i, a)] = "absent"
      <4>1. TAKE i \in {Unscoped}, a \in 1..MaxAttempts
      <4>2. Attempt(node, i, a) \in Identities /\ (a # round => Attempt(node, i, a) # id)
        BY <2>1, PlaceIdentities, AttemptFields DEF Core
      <4>3. CASE a = round
        BY <4>3, <2>5
      <4>4. CASE a # round
        BY <4>2, <4>4, <2>5, <3>1, <3>2 DEF RoundsOf
      <4>5. QED
        BY <4>3, <4>4
    <3>4. \A j \in Identities : j.node # node => attemptStarts'[j] = attemptStarts[j]
      BY <2>3, <2>5
    <3>5. kinds[node] # "map" /\ status[node] # "terminal" /\ status' = [status EXCEPT ![node] = "running"]
      BY <1>1, <2>1, <2>7
    <3>6. Core'
      <4>1. /\ place \in {"node", "batch", "observing"} /\ node \in Nodes
            /\ Dispatch({Unscoped}, round + 1) /\ Telling' /\ NoNewStep
        BY <1>1, <2>1, <2>4, <2>7
      <4>2. /\ kinds[node] = "step" => {Unscoped} = {Unscoped}
            /\ kinds[node] = "map" => {Unscoped} \subseteq Items /\ attemptStarts'[MapAttempt] = "running"
        BY <3>5
      <4> HIDE DEF id, said
      <4>3. QED
        BY <1>2, <3>1, <3>3, <3>4, <3>5, <4>1, <4>2, DispatchKeeps
    <3>7. QED
      BY <2>4, <3>6
  <2>8. QED
    BY <1>4, <2>6, <2>7
<1>5. QED
  BY <1>1, <1>3, <1>4

LEMMA MapReturnedKeeps ==
    ASSUME Core, MapReturned
    PROVE  Core' /\ Observed
<1>1. /\ place = "observing" /\ Unobserved = {}
      /\ \/ /\ Works \/ Fails
            /\ \E r \in MapFinished(Nothing) : Report(r)
            /\ \E ok \in BOOLEAN : Settle(ok)
         \/ /\ Silent
            /\ \/ /\ Works
                  /\ \E retry \in SUBSET DOMAIN Outs :
                        Dispatch(retry, round + 1) /\ retry # {} /\ round < MaxAttempts
                  /\ UNCHANGED status
               \/ Fails /\ Stop
  <2>1. place = "observing" /\ Unobserved = {}
    BY DEF MapReturned
  <2>2. PICK err \in Errors, collecting \in BOOLEAN :
          LET retry == {i \in DOMAIN Outs : RetryableOutcome(Outs[i]) /\ round < MaxAttempts}
          IN  \/ /\ Works \/ Fails
                 /\ \E r \in MapFinished(Nothing) : Report(r)
                 /\ \E ok \in BOOLEAN : Settle(ok)
              \/ /\ retry # {}
                 /\ Silent
                 /\ \/ Works /\ Dispatch(retry, round + 1) /\ UNCHANGED status
                    \/ Fails /\ Stop
    BY DEF MapReturned
  <2>3. QED
    BY <2>1, <2>2
<1>2. failures' \in Nat
  BY <1>1, FailuresCount
<1>3. /\ node \in Nodes /\ round \in 1..MaxAttempts /\ kinds[node] = "map"
      /\ status[node] = "running" /\ status = [status EXCEPT ![node] = "running"]
      /\ pending \subseteq Items /\ attemptStarts[MapAttempt] = "running"
  BY <1>1, BatchNode DEF Core, BatchTells
<1>4. CASE /\ \E r \in MapFinished(Nothing) : Report(r)
           /\ \E ok \in BOOLEAN : Settle(ok)
  <2>1. PICK r \in MapFinished(Nothing) : Report(r)
    BY <1>4
  <2>2. PICK ok \in BOOLEAN : Settle(ok)
    BY <1>4
  <2>3. Nothing \in {Nothing, StartAttempt(Nothing, MapAttempt)}
    OBVIOUS
  <2>4. QED
    BY <1>1, <1>2, <1>3, <2>1, <2>2, <2>3, MapEndKeeps
<1>5. CASE Silent /\ Stop
  <2>1. Telling' /\ NoNewStep /\ Observed /\ attemptStarts' = attemptStarts
    BY <1>5, SilentTold DEF Core
  <2>2. OnlyActive
    BY <2>1 DEF OnlyActive
  <2>3. QED
    BY <1>1, <1>2, <1>5, <2>1, <2>2, StopKeeps
<1>6. CASE /\ Silent
           /\ \E retry \in SUBSET DOMAIN Outs :
                    Dispatch(retry, round + 1) /\ retry # {} /\ round < MaxAttempts
           /\ UNCHANGED status
  <2>1. PICK retry \in SUBSET DOMAIN Outs :
            Dispatch(retry, round + 1) /\ retry # {} /\ round < MaxAttempts
    BY <1>6
  <2>2. Telling' /\ NoNewStep /\ Observed /\ attemptStarts' = attemptStarts
    BY <1>6, SilentTold DEF Core
  <2>3. /\ DOMAIN Outs = {i \in pending : work[i] # "idle"}
        /\ \A i \in DOMAIN Outs : ~(i > observed)
    BY <1>1 DEF Unobserved, Outs
  <2>4. /\ retry \in SUBSET WorkItems /\ retry \subseteq Items /\ round + 1 \in 1..MaxAttempts
        /\ MaxAttempts \in Nat /\ round \in Nat
    BY <1>3, <2>1, <2>3, PlaceIdentities DEF Core
  <2>5. \A i \in retry, a \in 1..MaxAttempts :
            /\ a < round + 1 => attemptStarts'[Attempt(node, i, a)] = "zero"
            /\ a > round + 1 => attemptStarts'[Attempt(node, i, a)] = "absent"
    <3>1. TAKE i \in retry, a \in 1..MaxAttempts
    <3>2. i \in pending /\ work[i] # "idle" /\ ~(i > observed) /\ i \in Nat /\ observed \in Nat
      BY <2>3, <2>4, PlaceIdentities DEF Core, LoopTypes
    <3>3. attemptStarts[Attempt(node, i, round)] = "zero"
      BY <1>1, <3>2 DEF Core, BatchTells
    <3>4. RoundsOf(node, i, round)
      BY <1>1, <3>2 DEF Core, BatchTells
    <3>5. CASE a = round
      BY <3>5, <2>2, <2>4, <3>3
    <3>6. CASE a # round
      BY <3>4, <3>6, <2>2, <2>4 DEF RoundsOf
    <3>7. QED
      BY <3>5, <3>6
  <2>6. /\ kinds[node] # "step" /\ status[node] # "terminal"
        /\ status' = [status EXCEPT ![node] = "running"] /\ attemptStarts'[MapAttempt] = "running"
    BY <1>3, <1>6, <2>2
  <2>7. Core'
    BY <1>1, <1>2, <1>3, <2>1, <2>2, <2>4, <2>5, <2>6, DispatchKeeps
  <2>8. QED
    BY <2>2, <2>7
<1>7. QED
  BY <1>1, <1>4, <1>5, <1>6




-----------------------------------------------------------------------------
\* The end of the run.

\* An open attempt belongs to a step that has not been reported.
LEMMA OpenUnheard ==
    ASSUME Core, NEW id \in Identities, id.node \in Nodes
    PROVE  MayFinishNow(id)
BY DEF Core, StatusesTell, MayFinishNow

LEMMA TerminateKeeps ==
    ASSUME Core, Terminate
    PROVE  Core' /\ Observed
<1>1. PICK r \in CloseOpenAttempts(Nothing, Nodes \cup {Hook}) : Report(r)
  BY DEF Terminate
<1>2. /\ place = "ending" /\ UNCHANGED <<orderVars, status, ctxErr, failures>>
      /\ place' = IF Unfinished = {} THEN "hook" ELSE "terminating"
  BY DEF Terminate
<1>3. attemptStarts[HookAttempt] = "absent" /\ ~StepHeard(emitted, Hook)
  BY <1>2 DEF Core, HookTells
<1>4. \A id \in Identities : id.node \in Nodes \cup {Hook} => MayFinishNow(id)
  BY <1>3, OpenUnheard DEF MayFinishNow
<1>5. Telling' /\ NoNewStep /\ Observed /\ attemptStarts' = Closed(attemptStarts, Nodes \cup {Hook})
  BY <1>1, <1>4, ReportClose DEF Core
<1>6. \A id \in Identities : attemptStarts'[id] =
        IF id.node \in Nodes \cup {Hook} /\ attemptStarts[id] = "running" THEN "zero" ELSE attemptStarts[id]
  BY <1>5 DEF Closed
<1>7. LoopTypes' /\ Nodes' = Nodes
  BY <1>2, <1>5, PlaceTypes DEF Core, LoopTypes, Places
<1>8. kinds' = kinds /\ node' = node /\ status' = status /\ round' = round
  BY <1>2 DEF orderVars, batchVars, settings
<1>9. StatusesTell'
  <2>1. \A n \in Nodes : StepHeard(emitted, n)' <=> status'[n] = "terminal"
    BY <1>5, <1>8 DEF Core, StatusesTell, NoNewStep
  <2>2. ASSUME NEW id \in Identities
        PROVE  /\ id.node \notin Nodes \cup {Hook} => attemptStarts'[id] = "absent"
               /\ id.node \in Nodes /\ status'[id.node] = "terminal" => attemptStarts'[id] # "running"
               /\ id.node \in Nodes /\ status'[id.node] = "pending" => attemptStarts'[id] = "absent"
    BY <1>6, <1>8 DEF Core, StatusesTell
  <2>3. QED
    BY <1>7, <2>1, <2>2 DEF StatusesTell
<1>10. NodesInOrder'
  <2>1. \A id \in Identities : attemptStarts'[id] # "running"
    BY <1>6 DEF Core, StatusesTell
  <2>2. Unfinished = {} => \A n \in Nodes : status[n] = "terminal"
    BY DEF Unfinished, Core, LoopTypes
  <2>3. QED
    BY <1>2, <1>7, <1>8, <2>1, <2>2 DEF NodesInOrder
<1>11. BatchTells'
  BY <1>2, <1>8 DEF Core, BatchTells
<1>12. HookTells'
  <2>1. attemptStarts'[HookAttempt] = "absent"
    BY <1>3, <1>6, PlaceIdentities DEF Core
  <2>2. QED
    BY <1>2, <1>3, <1>5, <2>1 DEF HookTells, HookAttempt, NoNewStep
<1>13. QED
  BY <1>5, <1>7, <1>9, <1>10, <1>11, <1>12 DEF Core

LEMMA TerminateStepKeeps ==
    ASSUME Core, TerminateStep
    PROVE  Core' /\ Observed
<1>1. /\ place = "terminating"
      /\ UNCHANGED <<orderVars, ctxErr, failures>>
  BY DEF TerminateStep
<1>2. PICK n \in Unfinished :
        /\ \E said \in StepFinished(Nothing, n) : Report(said)
        /\ status' = [status EXCEPT ![n] = "terminal"]
        /\ place' = IF Unfinished = {n} THEN "hook" ELSE "terminating"
  BY DEF TerminateStep
<1>3. PICK r \in StepFinished(Nothing, n) : Report(r)
  BY <1>2
<1>4. n \in Nodes /\ status[n] # "terminal" /\ n \in AllNodes \cup {Hook} /\ n # Hook
  BY <1>2, NodeFacts DEF Unfinished, Core
<1>5. Telling' /\ OneNewStep(n) /\ Observed /\ NodeClosed(n)
  BY <1>3, <1>4, ReportStep DEF Core, StatusesTell
<1>6. kinds' = kinds /\ node' = node /\ round' = round /\ pending' = pending /\ work' = work
      /\ observed' = observed /\ callbacks' = callbacks
  BY <1>1 DEF orderVars, batchVars, settings
<1>7. Nodes' = Nodes
  BY <1>6 DEF Nodes
<1>8. /\ status \in [Nodes -> {"pending", "running", "terminal"}]
      /\ \A m \in Nodes : status'[m] = IF m = n THEN "terminal" ELSE status[m]
  BY <1>2 DEF Core, LoopTypes
<1>9. LoopTypes'
  <2>1. attemptStarts' \in [Identities -> Clocks]
    BY <1>5 DEF Telling, Told
  <2>2. status' \in [Nodes' -> {"pending", "running", "terminal"}]
    BY <1>2, <1>7, <1>8
  <2>3. QED
    BY <1>1, <1>2, <1>6, <2>1, <2>2 DEF Core, LoopTypes, Places
<1>10. StatusesTell'
  <2>1. \A m \in Nodes : StepHeard(emitted, m)' <=> status'[m] = "terminal"
    BY <1>5, <1>8 DEF Core, StatusesTell, OneNewStep
  <2>2. ASSUME NEW id \in Identities
        PROVE  /\ id.node \notin Nodes \cup {Hook} => attemptStarts'[id] = "absent"
               /\ id.node \in Nodes /\ status'[id.node] = "terminal" => attemptStarts'[id] # "running"
               /\ id.node \in Nodes /\ status'[id.node] = "pending" => attemptStarts'[id] = "absent"
    BY <1>4, <1>5, <1>8 DEF Core, StatusesTell, NodeClosed
  <2>3. QED
    BY <1>7, <2>1, <2>2 DEF StatusesTell
<1>11. NodesInOrder'
  <2>1. \A id \in Identities : attemptStarts'[id] # "running"
    BY <1>1, <1>5 DEF Core, NodesInOrder, NodeClosed
  <2>2. Unfinished = {n} => \A m \in Nodes : status'[m] = "terminal"
    BY <1>8 DEF Unfinished
  <2>3. QED
    BY <1>2, <1>7, <2>1, <2>2 DEF NodesInOrder
<1>12. BatchTells'
  BY <1>1, <1>2, <1>6 DEF Core, BatchTells
<1>13. HookTells'
  <2>1. attemptStarts[HookAttempt] = "absent" /\ ~StepHeard(emitted, Hook)
    BY <1>1 DEF Core, HookTells
  <2>2. attemptStarts'[HookAttempt] = "absent" /\ ~StepHeard(emitted', Hook)
    BY <1>4, <1>5, <2>1, PlaceIdentities DEF Core, NodeClosed, OneNewStep
  <2>3. QED
    BY <1>2, <2>2 DEF HookTells, HookAttempt
<1>14. QED
  BY <1>5, <1>9, <1>10, <1>11, <1>12, <1>13 DEF Core

\* The hook's place changes; the nodes are over.
LEMMA HookMoves ==
    ASSUME Core, place \in {"hook", "hookBatch"}, place' \in {"hookBatch", "finishing"},
           node' = Hook, pending' \in {{}, {Unscoped}}, round' = 1, observed' \in WorkItems,
           work' \in [WorkItems -> {"idle", "running"} \cup Ends],
           UNCHANGED <<settings, status, ctxErr>>, failures' \in Nat,
           Telling', \A n \in Nodes : StepHeard(emitted', n) <=> StepHeard(emitted, n),
           \A id \in Identities : id.node # Hook => attemptStarts'[id] = attemptStarts[id],
           place' = "hookBatch" =>
               /\ attemptStarts'[HookAttempt] # "absent" /\ ~StepHeard(emitted', Hook)
               /\ pending' = {Unscoped},
           place' = "finishing" => attemptStarts'[HookAttempt] # "running"
    PROVE  Core'
<1>1. kinds' = kinds /\ callbacks' = callbacks /\ status' = status
  BY DEF settings
<1>2. Nodes' = Nodes /\ Hook \notin Nodes
  BY <1>1, NodeFacts DEF Nodes, Core
<1>3. LoopTypes'
  <2>1. attemptStarts' \in [Identities -> Clocks] /\ pending' \subseteq WorkItems /\ node' \in Nat
        /\ round' \in 1..MaxAttempts
    BY PlaceIdentities DEF Telling, Told, Core, Hook
  <2>2. QED
    BY <1>1, <1>2, <2>1 DEF Core, LoopTypes, Places
<1>4. StatusesTell'
  <2>1. \A n \in Nodes : StepHeard(emitted, n)' <=> status'[n] = "terminal"
    BY <1>1 DEF Core, StatusesTell
  <2>2. ASSUME NEW id \in Identities
        PROVE  /\ id.node \notin Nodes \cup {Hook} => attemptStarts'[id] = "absent"
               /\ id.node \in Nodes /\ status'[id.node] = "terminal" => attemptStarts'[id] # "running"
               /\ id.node \in Nodes /\ status'[id.node] = "pending" => attemptStarts'[id] = "absent"
    BY <1>1, <1>2 DEF Core, StatusesTell
  <2>3. QED
    BY <1>2, <2>1, <2>2 DEF StatusesTell
<1>5. NodesInOrder'
  BY <1>1, <1>2 DEF Core, NodesInOrder
<1>6. BatchTells' /\ HookTells'
  BY DEF BatchTells, HookTells, HookAttempt
<1>7. QED
  BY <1>3, <1>4, <1>5, <1>6 DEF Core

LEMMA HookEndTold ==
    ASSUME Core, place \in {"hook", "hookBatch"},
           NEW said \in {Nothing, StartAttempt(Nothing, HookAttempt), FinishAttempt(Nothing, HookAttempt)},
           NEW r \in HookFinished(said), Report(r)
    PROVE  /\ Telling' /\ Observed
           /\ \A n \in Nodes : StepHeard(emitted', n) <=> StepHeard(emitted, n)
           /\ \A id \in Identities : id.node # Hook => attemptStarts'[id] = attemptStarts[id]
           /\ attemptStarts'[HookAttempt] # "running"
<1>1. HookAttempt \in Identities /\ HookAttempt.node = Hook /\ HookAttempt.attempt = 1
  BY PlaceIdentities DEF Core
<1>2. ~StepHeard(emitted, Hook)
  BY DEF Core, HookTells
<1>3. MayStartNow(HookAttempt)
  BY <1>1, <1>2 DEF MayStartNow
<1>4. r \in StepFinished(FinishAttempt(said, HookAttempt), HookAttempt.node)
  BY <1>1 DEF HookFinished
<1>5. Telling' /\ OneNewStep(Hook) /\ Observed /\ NodeClosed(Hook)
  BY <1>1, <1>2, <1>3, <1>4, ReportAttemptAndStep DEF Core
<1>6. Hook \notin Nodes
  BY NodeFacts DEF Core
<1>7. QED
  BY <1>1, <1>5, <1>6 DEF OneNewStep, NodeClosed

LEMMA BeginHookKeeps ==
    ASSUME Core, BeginHook
    PROVE  Core' /\ Observed
<1>1. /\ place = "hook" /\ node' = Hook /\ pending' = {Unscoped}
      /\ UNCHANGED <<round, work, observed, settings, status, ctxErr>> /\ (Works \/ Fails)
  BY DEF BeginHook
<1>2. /\ round' = 1 /\ observed' \in WorkItems /\ failures' \in Nat
      /\ work' \in [WorkItems -> {"idle", "running"} \cup Ends]
  BY <1>1, FailuresCount DEF Core, BatchTells, LoopTypes
<1>3. HookAttempt \in Identities /\ HookAttempt.node = Hook /\ HookAttempt.attempt = 1
      /\ attemptStarts[HookAttempt] = "absent" /\ ~StepHeard(emitted, Hook)
  BY <1>1, PlaceIdentities DEF Core, HookTells
<1>4. CASE Report(StartAttempt(Nothing, HookAttempt)) /\ place' = "hookBatch"
  <2>1. MayStartNow(HookAttempt)
    BY <1>3 DEF MayStartNow
  <2>2. Telling' /\ NoNewStep /\ Observed /\ attemptStarts' = Started(attemptStarts, HookAttempt)
    BY <1>3, <1>4, <2>1, ReportStart DEF Core
  <2>3. /\ \A id \in Identities : id.node # Hook => attemptStarts'[id] = attemptStarts[id]
        /\ attemptStarts'[HookAttempt] # "absent"
    BY <1>3, <2>2 DEF Started, Core, LoopTypes
  <2>4. /\ \A n \in Nodes : StepHeard(emitted', n) <=> StepHeard(emitted, n)
        /\ ~StepHeard(emitted', Hook)
    BY <1>3, <2>2 DEF NoNewStep
  <2>5. Core'
    BY <1>1, <1>2, <1>4, <2>2, <2>3, <2>4, HookMoves
  <2>6. QED
    BY <2>2, <2>5
<1>5. CASE /\ \E said \in HookFinished(StartAttempt(Nothing, HookAttempt)) : Report(said)
           /\ place' = "finishing"
  <2>1. PICK r \in HookFinished(StartAttempt(Nothing, HookAttempt)) : Report(r)
    BY <1>5
  <2>2. /\ Telling' /\ Observed
        /\ \A n \in Nodes : StepHeard(emitted', n) <=> StepHeard(emitted, n)
        /\ \A id \in Identities : id.node # Hook => attemptStarts'[id] = attemptStarts[id]
        /\ attemptStarts'[HookAttempt] # "running"
    BY <1>1, <2>1, HookEndTold
  <2>3. QED
    BY <1>1, <1>2, <1>5, <2>2, HookMoves
<1>6. CASE Silent /\ place' = "finishing"
  <2>1. Telling' /\ NoNewStep /\ Observed /\ attemptStarts' = attemptStarts
    BY <1>6, SilentTold DEF Core
  <2>2. \A n \in Nodes : StepHeard(emitted', n) <=> StepHeard(emitted, n)
    BY <2>1 DEF NoNewStep
  <2>3. QED
    BY <1>1, <1>2, <1>3, <1>6, <2>1, <2>2, HookMoves
<1>7. QED
  BY <1>4, <1>5, <1>6 DEF BeginHook

LEMMA HookReturnedKeeps ==
    ASSUME Core, HookReturned
    PROVE  Core' /\ Observed
<1>1. /\ place = "hookBatch" /\ place' = "finishing" /\ Works /\ NoBatch
      /\ UNCHANGED <<node, settings, status, ctxErr>>
      /\ \E said \in {Nothing, FinishAttempt(Nothing, HookAttempt)} :
            \E ended \in HookFinished(said) : Report(ended)
  BY DEF HookReturned
<1>2. PICK said \in {Nothing, FinishAttempt(Nothing, HookAttempt)} :
        \E ended \in HookFinished(said) : Report(ended)
  BY <1>1
<1>3. PICK r \in HookFinished(said) : Report(r)
  BY <1>2
<1>4. /\ Telling' /\ Observed
      /\ \A n \in Nodes : StepHeard(emitted', n) <=> StepHeard(emitted, n)
      /\ \A id \in Identities : id.node # Hook => attemptStarts'[id] = attemptStarts[id]
      /\ attemptStarts'[HookAttempt] # "running"
  BY <1>1, <1>3, HookEndTold
<1>5. /\ node' = Hook /\ pending' = {} /\ round' = 1 /\ observed' \in WorkItems /\ failures' \in Nat
      /\ work' \in [WorkItems -> {"idle", "running"} \cup Ends]
  BY <1>1, FailuresCount, PlaceIdentities DEF NoBatch, Core, HookTells, LoopTypes, Unscoped
<1>6. QED
  BY <1>1, <1>4, <1>5, HookMoves

\* The last event, which nothing precedes that is still open and nothing follows.
LEMMA RunFinishedEnds ==
    ASSUME Core, RunFinished
    PROVE  LoopTypes' /\ AttemptsBracketed' /\ EndsFinished' /\ Reports /\ place' = "finished"
<1> DEFINE e == RunEvent("run.finished")
           t == <<e>>
           ns == Nodes \cup {Hook}
<1>1. PICK closed \in CloseOpenAttempts(Nothing, ns) : Report(Said(closed.clocks, Append(closed.events, e)))
  BY DEF RunFinished
<1>2. place = "finishing" /\ place' = "finished" /\ UNCHANGED <<orderVars, status, ctxErr, failures>>
  BY DEF RunFinished
<1>3. \A id \in Identities : id.node \in ns => MayFinishNow(id)
  BY <1>2, OpenUnheard, IdentityFacts DEF Core, HookTells, MayFinishNow
<1> DEFINE s == Whole(emitted, closed)
           u == s \o t
<1>4. Heeds(emitted, closed) /\ SameSteps(emitted, closed, Nothing) /\ closed.clocks = Closed(attemptStarts, ns)
  <2>1. \A id \in Identities : id.node \in ns /\ Nothing.clocks[id] = "running" =>
            ~StepHeard(Whole(emitted, Nothing), id.node)
    BY <1>3, NothingTold DEF MayFinishNow, Core
  <2>2. emitted \in Seq(Events) /\ Heeds(emitted, Nothing) /\ Nothing.clocks = attemptStarts
    BY NothingTold DEF Core
  <2>3. QED
    BY <1>1, <2>1, <2>2, CloseTold
<1>5. e \in Events /\ e.type = "run.finished"
  BY EventFacts DEF Events
<1> HIDE DEF e
<1>6. /\ closed.events \in Seq(Events) /\ s \in Seq(Events)
      /\ closed.clocks \in [Identities -> Clocks]
      /\ \A q \in 1..Len(s) : InOrder(s, q) /\ s[q].type # "run.finished"
      /\ \A id \in Identities :
            /\ Heard(s, "step.attempt.started", id) <=> closed.clocks[id] # "absent"
            /\ Heard(s, "step.attempt.finished", id) <=> closed.clocks[id] = "zero"
  BY <1>4 DEF Heeds, Told
<1>7. t \in Seq(Events) /\ Len(t) = 1 /\ t[1] = e /\ emitted \in Seq(Events)
  BY <1>5, OneEvent, NothingTold DEF Core
<1>8. /\ emitted' = u /\ attemptStarts' = closed.clocks
      /\ closed.events \o t \in Seq(Events)
      /\ emitted' = emitted \o (closed.events \o t) /\ Enqueue(closed.events \o t)
  <2>1. Append(closed.events, e) = closed.events \o t /\ closed.events \o t \in Seq(Events)
    BY <1>5, <1>6, <1>7, AppendIsConcat, AppendProperties
  <2>2. /\ emitted' = emitted \o Append(closed.events, e) /\ attemptStarts' = closed.clocks
        /\ Enqueue(Append(closed.events, e))
    BY <1>1, SaidFields DEF Report
  <2> HIDE DEF t
  <2>3. emitted \o (closed.events \o t) = (emitted \o closed.events) \o t
    BY <1>6, <1>7, Regroup
  <2>4. QED
    BY <2>1, <2>2, <2>3 DEF Whole
<1>9. Reports
  BY <1>8 DEF Reports
<1>10. u \in Seq(Events) /\ \A q \in 1..Len(u) : InOrder(u, q)
  <2>1. Fits(s, e)
    BY <1>5 DEF Fits
  <2>2. QED
    BY <1>5, <1>6, <2>1, OrderExtended
<1> HIDE DEF t, s
<1>11. /\ Len(s) \in Nat /\ Len(u) = Len(s) + 1 /\ u[Len(s) + 1] = e
       /\ \A p \in 1..Len(s) : u[p] = s[p]
  <2>1. s \in Seq(Events) /\ t \in Seq(Events) /\ 1 \in 1..Len(t)
    BY <1>6, <1>7
  <2>2. /\ Len(s) \in Nat /\ Len(u) = Len(s) + Len(t)
        /\ \A p \in 1..Len(s) : u[p] = s[p]
        /\ \A p \in 1..Len(t) : u[Len(s) + p] = t[p]
    BY <2>1, JoinFacts
  <2>3. QED
    BY <1>7, <2>1, <2>2
<1>12. EndsRun(u, Len(u))
  <2>1. Len(u) \in Nat /\ Len(u) <= Len(s) + 1 /\ s \in Seq(Events) /\ t \in Seq(Events)
    BY <1>6, <1>7, <1>11
  <2>2. /\ \A n : FinishedBefore(u, Len(u), n) <=> FinishedBefore(s, Len(u), n)
        /\ \A m : AttemptsClosedBefore(u, Len(u), m) <=> AttemptsClosedBefore(s, Len(u), m)
    BY <2>1, BeforeJoined
  <2>3. AttemptsClosedBefore(s, Len(s) + 1, ns)
    <3>1. \A id \in Identities :
            id.node \in ns /\ Heard(s, "step.attempt.started", id) => Heard(s, "step.attempt.finished", id)
      BY <1>4, <1>6 DEF Closed, Clocks
    <3>2. QED
      BY <1>6, <3>1, ClosedIsHeard
  <2>4. \A n \in Nodes : FinishedBefore(s, Len(s) + 1, n)
    <3>1. \A n \in Nodes : StepHeard(emitted, n)
      BY <1>2 DEF Core, StatusesTell, NodesInOrder
    <3>2. \A n \in Nodes : StepHeard(s, n)
      BY <1>4, <3>1, NothingTold DEF SameSteps, s, Core
    <3>3. QED
      BY <1>6, <3>2, HeardIsSaid
  <2>5. QED
    BY <1>11, <2>2, <2>3, <2>4 DEF EndsRun
<1>14. LoopTypes' /\ Nodes' = Nodes
  <2>1. kinds' = kinds /\ node' = node /\ round' = round /\ pending' = pending /\ work' = work
        /\ observed' = observed /\ callbacks' = callbacks /\ status' = status /\ ctxErr' = ctxErr
        /\ failures' = failures
    BY <1>2 DEF orderVars, batchVars, settings
  <2>2. QED
    BY <1>2, <1>6, <1>8, <2>1 DEF Core, LoopTypes, Places, Nodes
<1> HIDE DEF u
<1>15. AttemptsBracketed'
  <2>1. DOMAIN u = 1..Len(u)
    BY <1>10, LenProperties
  <2>2. ASSUME NEW q \in 1..Len(u), u[q].type = "run.finished" PROVE EndsRun(u, q)
    <3>1. ~(q \in 1..Len(s))
      BY <1>6, <1>11, <2>2
    <3>2. q = Len(u)
      BY <1>11, <3>1
    <3>3. QED
      BY <1>12, <3>2
  <2>3. \A q \in 1..Len(u) : EndsRun(u, q) => EndsRun(emitted, q)'
    BY <1>8, <1>14 DEF EndsRun
  <2>4. QED
    BY <1>8, <1>10, <2>1, <2>2, <2>3 DEF AttemptsBracketed
<1>16. EndsFinished'
  <2>1. u # <<>> /\ u[Len(u)].type = "run.finished"
    BY <1>5, <1>10, <1>11, EmptySeq
  <2>2. QED
    BY <1>8, <2>1 DEF EndsFinished
<1>17. QED
  BY <1>2, <1>9, <1>14, <1>15, <1>16




-----------------------------------------------------------------------------
\* Delivery, step by step.

LEMMA PrefixFacts ==
    ASSUME NEW S, NEW s \in Seq(S), NEW t \in Seq(S)
    PROVE  /\ IsPrefix(s, s \o t)
           /\ IsPrefix(s, t) <=> Len(s) <= Len(t) /\ \A i \in 1..Len(s) : s[i] = t[i]
<1>1. Len(s) \in Nat /\ Len(t) \in Nat
  BY LenProperties
<1>2. SubSeq(s, 1, Len(s)) = s
  BY SubSeqFull
<1>3. ASSUME NEW r \in Seq(S), Len(s) <= Len(r)
      PROVE  SubSeq(r, 1, Len(s)) = s <=> \A i \in 1..Len(s) : s[i] = r[i]
  <2> DEFINE c == SubSeq(r, 1, Len(s))
  <2>1. Len(r) \in Nat
    BY LenProperties
  <2>2. c \in Seq(S) /\ Len(c) = Len(s) /\ \A i \in 1..Len(s) : c[i] = r[i]
    BY <1>1, <1>3, <2>1, SubSeqProperties
  <2> HIDE DEF c
  <2>3. (\A i \in 1..Len(s) : s[i] = r[i]) => c = s
    BY <2>2, SeqEqual
  <2>4. QED
    BY <2>2, <2>3 DEF c
<1>4. IsPrefix(s, t) <=> Len(s) <= Len(t) /\ \A i \in 1..Len(s) : s[i] = t[i]
  BY <1>2, <1>3 DEF IsPrefix
<1> DEFINE u == s \o t
<1>5. u \in Seq(S) /\ Len(s) <= Len(u) /\ \A i \in 1..Len(s) : s[i] = u[i]
  BY <1>1, JoinFacts
<1> HIDE DEF u
<1>6. IsPrefix(s, u)
  BY <1>2, <1>3, <1>5 DEF IsPrefix
<1>7. QED
  BY <1>4, <1>6 DEF u

LEMMA PrefixExtends ==
    ASSUME NEW S, NEW s \in Seq(S), NEW t \in Seq(S), NEW u \in Seq(S), IsPrefix(s, t)
    PROVE  IsPrefix(s, t \o u)
<1> DEFINE v == t \o u
<1>1. Len(s) <= Len(t) /\ \A i \in 1..Len(s) : s[i] = t[i]
  BY PrefixFacts
<1>2. /\ v \in Seq(S) /\ Len(t) \in Nat /\ Len(u) \in Nat /\ Len(v) = Len(t) + Len(u)
      /\ \A i \in 1..Len(t) : v[i] = t[i]
  BY JoinFacts
<1>3. Len(s) \in Nat
  BY LenProperties
<1> HIDE DEF v
<1>4. Len(s) <= Len(v) /\ \A i \in 1..Len(s) : s[i] = v[i]
  BY <1>1, <1>2, <1>3
<1>5. IsPrefix(s, v)
  BY <1>2, <1>4, PrefixFacts
<1>6. QED
  BY <1>5 DEF v

\* A part of the queue that a failing write leaves behind.
LEMMA PartWritten ==
    ASSUME NEW f \in Seq(Events), NEW q \in Seq(Events), NEW n \in 0..Len(q)
    PROVE  f \o SubSeq(q, 1, n) \in Seq(Events) /\ IsPrefix(f \o SubSeq(q, 1, n), f \o q)
<1> DEFINE c == SubSeq(q, 1, n)
           d == f \o c
           u == f \o q
<1>1. Len(q) \in Nat /\ Len(f) \in Nat
  BY LenProperties
<1>2. c \in Seq(Events) /\ Len(c) = n /\ \A i \in 1..n : c[i] = q[i]
  BY <1>1, SubSeqProperties
<1> HIDE DEF c
<1>3. /\ d \in Seq(Events) /\ Len(d) = Len(f) + n
      /\ \A p \in 1..Len(f) : d[p] = f[p]
      /\ \A p \in 1..n : d[Len(f) + p] = c[p]
  <2>1. c \in Seq(Events)
    BY <1>2
  <2>2. /\ d \in Seq(Events) /\ Len(d) = Len(f) + Len(c)
        /\ \A p \in 1..Len(f) : d[p] = f[p]
        /\ \A p \in 1..Len(c) : d[Len(f) + p] = c[p]
    BY <2>1, JoinFacts
  <2>3. QED
    BY <1>2, <2>2
<1>4. /\ u \in Seq(Events) /\ Len(u) = Len(f) + Len(q)
      /\ \A p \in 1..Len(f) : u[p] = f[p]
      /\ \A p \in 1..Len(q) : u[Len(f) + p] = q[p]
  BY JoinFacts
<1> HIDE DEF d, u
<1>5. ASSUME NEW i \in 1..Len(d) PROVE d[i] = u[i]
  <2>1. CASE i <= Len(f)
    BY <2>1, <1>1, <1>3, <1>4
  <2>2. CASE i > Len(f)
    <3> DEFINE p == i - Len(f)
    <3>1. p \in 1..n /\ p \in 1..Len(q) /\ Len(f) + p = i
      BY <2>2, <1>1, <1>3
    <3>2. QED
      BY <3>1, <1>2, <1>3, <1>4
  <2>3. QED
    BY <2>1, <2>2, <1>1
<1>6. Len(d) <= Len(u)
  BY <1>1, <1>3, <1>4
<1>7. IsPrefix(d, u)
  BY <1>3, <1>4, <1>5, <1>6, PrefixFacts
<1>8. QED
  BY <1>3, <1>7 DEF d, u, c

LEMMA ReportsDelivered ==
    ASSUME ProgressTypes, DeliveryInv, Reports, place # "finished",
           place' = "finished" => EndsFinished'
    PROVE  ProgressTypes' /\ DeliveryInv'
<1>1. PICK events \in Seq(Events) : emitted' = emitted \o events /\ Enqueue(events)
  BY DEF Reports
<1>2. /\ queue' = queue \o events
      /\ recording' = recording /\ rendering' = rendering /\ closing' = closing
      /\ writer' = writer /\ last' = last /\ file' = file /\ eventErr' = eventErr
      /\ summary' = summary /\ renderer' = renderer /\ printed' = printed /\ closer' = closer
      /\ wake' = (IF events = <<>> THEN wake ELSE TRUE)
  BY <1>1 DEF Enqueue, outlets, writerVars, renderVars, Wake
<1>3. /\ emitted \in Seq(Events) /\ queue \in Seq(Events) /\ file \in Seq(Events)
      /\ summary \in Seq(Events)
  BY DEF ProgressTypes
<1>4. emitted' \in Seq(Events) /\ queue' \in Seq(Events)
  BY <1>1, <1>2, <1>3, JoinFacts
<1>5. ProgressTypes'
  BY <1>2, <1>3, <1>4 DEF ProgressTypes
<1>6. closer = "open" /\ ~closing /\ ~last /\ writer \notin {"ending", "done"}
      /\ ~(renderer = "done" /\ rendering)
  BY DEF DeliveryInv
<1>7. IsPrefix(file, emitted)'
  BY <1>1, <1>2, <1>3, PrefixExtends DEF DeliveryInv
<1>8. recording /\ ~eventErr => emitted' = file \o queue'
  <2>1. recording /\ ~eventErr => emitted = file \o queue
    BY DEF DeliveryInv
  <2>2. file \o (queue \o events) = (file \o queue) \o events
    BY <1>3, Regroup
  <2>3. QED
    BY <1>1, <1>2, <2>1, <2>2
<1>9. rendering => emitted' = summary \o queue'
  <2>1. rendering => emitted = summary \o queue
    BY DEF DeliveryInv
  <2>2. summary \o (queue \o events) = (summary \o queue) \o events
    BY <1>3, Regroup
  <2>3. QED
    BY <1>1, <1>2, <2>1, <2>2
<1>10. DeliveryInv'
  BY <1>2, <1>6, <1>7, <1>8, <1>9 DEF DeliveryInv
<1>11. QED
  BY <1>5, <1>10

\* A step that leaves the observer alone.
LEMMA SilentDelivered ==
    ASSUME ProgressTypes, DeliveryInv, UNCHANGED <<progressVars, emitted>>,
           place' = "finished" <=> place = "finished"
    PROVE  ProgressTypes' /\ DeliveryInv'
<1>1. /\ recording' = recording /\ rendering' = rendering /\ closing' = closing /\ queue' = queue
      /\ writer' = writer /\ last' = last /\ file' = file /\ eventErr' = eventErr
      /\ summary' = summary /\ renderer' = renderer /\ printed' = printed /\ closer' = closer
      /\ wake' = wake /\ emitted' = emitted
  BY DEF progressVars, outlets, writerVars, renderVars
<1>2. ProgressTypes'
  BY <1>1 DEF ProgressTypes
<1>3. DeliveryInv'
  BY <1>1 DEF DeliveryInv, EndsFinished
<1>4. QED
  BY <1>2, <1>3

LEMMA WritingDelivered ==
    ASSUME ProgressTypes, DeliveryInv, Writing, UNCHANGED <<emitted, place>>
    PROVE  ProgressTypes' /\ DeliveryInv'
<1>1. CASE WriterWakes
  <2>1. /\ recording' = recording /\ rendering' = rendering /\ closing' = closing /\ queue' = queue
        /\ last' = last /\ file' = file /\ eventErr' = eventErr
        /\ summary' = summary /\ renderer' = renderer /\ printed' = printed /\ closer' = closer
        /\ wake' = FALSE /\ writer = "waiting" /\ writer' = "woken"
    BY <1>1 DEF WriterWakes, outlets, renderVars
  <2>2. ProgressTypes'
    BY <2>1 DEF ProgressTypes
  <2>3. DeliveryInv'
    BY <2>1 DEF DeliveryInv, EndsFinished
  <2>4. QED
    BY <2>2, <2>3
<1>2. CASE WriterTakes
  <2>1. /\ recording' = recording /\ rendering' = rendering /\ closing' = closing
        /\ wake' = wake /\ renderer' = renderer /\ printed' = printed /\ closer' = closer
        /\ queue' = <<>> /\ last' = closing /\ writer = "woken" /\ writer' = "written"
        /\ summary' = IF rendering THEN summary \o queue ELSE summary
    BY <1>2 DEF WriterTakes, outlets, renderVars
  <2>2. /\ emitted \in Seq(Events) /\ queue \in Seq(Events) /\ file \in Seq(Events)
        /\ summary \in Seq(Events)
    BY DEF ProgressTypes
  <2>3. /\ file' \in Seq(Events) /\ eventErr' \in BOOLEAN
        /\ IsPrefix(file', emitted)
        /\ recording /\ ~eventErr' => emitted = file'
    <3>1. CASE recording /\ ~eventErr /\ file' = file \o queue /\ eventErr' = eventErr
      <4>1. emitted = file'
        BY <3>1 DEF DeliveryInv
      <4>2. IsPrefix(emitted, emitted)
        BY <2>2, PrefixFacts
      <4>3. QED
        BY <2>2, <3>1, <4>1, <4>2 DEF ProgressTypes
    <3>2. CASE /\ recording /\ ~eventErr /\ eventErr' = TRUE
               /\ \E n \in 0..Len(queue) : file' = file \o SubSeq(queue, 1, n)
      <4>1. emitted = file \o queue
        BY <3>2 DEF DeliveryInv
      <4>2. PICK n \in 0..Len(queue) : file' = file \o SubSeq(queue, 1, n)
        BY <3>2
      <4>3. file' \in Seq(Events) /\ IsPrefix(file', emitted)
        BY <2>2, <4>1, <4>2, PartWritten
      <4>4. QED
        BY <3>2, <4>3
    <3>3. CASE (~recording \/ eventErr) /\ file' = file /\ eventErr' = eventErr
      BY <2>2, <3>3 DEF DeliveryInv, ProgressTypes
    <3>4. QED
      BY <1>2, <3>1, <3>2, <3>3 DEF WriterTakes
  <2>4. <<>> \in Seq(Events) /\ summary' \in Seq(Events) /\ file' \o <<>> = file'
        /\ summary' \o <<>> = summary'
    BY <2>1, <2>2, <2>3, EmptySeq, ConcatEmptySeq, JoinFacts
  <2>5. ProgressTypes'
    BY <2>1, <2>2, <2>3, <2>4 DEF ProgressTypes
  <2>6. rendering => emitted = summary'
    BY <2>1 DEF DeliveryInv
  <2>7. DeliveryInv'
    <3>1. /\ IsPrefix(file, emitted)'
          /\ (recording /\ ~eventErr => emitted = file \o queue)'
          /\ (rendering => emitted = summary \o queue)'
      BY <2>1, <2>3, <2>4, <2>6
    <3>2. (place = "finished" => EndsFinished)' /\ (closer # "open" => place = "finished")'
      BY <2>1 DEF DeliveryInv, EndsFinished
    <3>3. /\ (closing => closer \in {"waiting", "closed"})'
          /\ (last => closing /\ queue = <<>>)'
          /\ (writer \in {"ending", "done"} => last)'
      BY <2>1 DEF DeliveryInv
    <3>4. ~(renderer = "done" /\ rendering) /\ closer # "closed"
      BY <2>1 DEF DeliveryInv
    <3>5. QED
      BY <2>1, <3>1, <3>2, <3>3, <3>4 DEF DeliveryInv
  <2>8. QED
    BY <2>5, <2>7
<1>3. CASE WriterLoops
  <2>1. /\ recording' = recording /\ rendering' = rendering /\ closing' = closing /\ queue' = queue
        /\ last' = last /\ file' = file /\ eventErr' = eventErr /\ wake' = wake
        /\ summary' = summary /\ renderer' = renderer /\ printed' = printed /\ closer' = closer
        /\ writer = "written" /\ writer' = IF last THEN "ending" ELSE "waiting"
    BY <1>3 DEF WriterLoops, outlets, renderVars, LastPass
  <2>2. ProgressTypes'
    BY <2>1 DEF ProgressTypes
  <2>3. DeliveryInv'
    BY <2>1 DEF DeliveryInv, EndsFinished
  <2>4. QED
    BY <2>2, <2>3
<1>4. CASE WriterEnds
  <2>1. /\ recording' = recording /\ rendering' = rendering /\ closing' = closing /\ queue' = queue
        /\ last' = last /\ file' = file /\ wake' = wake
        /\ summary' = summary /\ renderer' = renderer /\ printed' = printed /\ closer' = closer
        /\ writer = "ending" /\ writer' = "done" /\ eventErr' \in {eventErr, TRUE}
    BY <1>4 DEF WriterEnds, outlets, renderVars
  <2>2. ProgressTypes'
    BY <2>1 DEF ProgressTypes
  <2>3. ~eventErr' => ~eventErr
    BY <2>1 DEF ProgressTypes
  <2>4. DeliveryInv'
    BY <2>1, <2>3 DEF DeliveryInv, EndsFinished
  <2>5. QED
    BY <2>2, <2>4
<1>5. QED
  BY <1>1, <1>2, <1>3, <1>4 DEF Writing

LEMMA RenderDelivered ==
    ASSUME ProgressTypes, DeliveryInv, RenderSummary, UNCHANGED <<emitted, place>>
    PROVE  ProgressTypes' /\ DeliveryInv'
<1>1. /\ recording' = recording /\ rendering' = rendering /\ closing' = closing /\ queue' = queue
      /\ last' = last /\ file' = file /\ eventErr' = eventErr /\ wake' = wake
      /\ summary' = summary /\ closer' = closer /\ writer' = writer
      /\ writer = "done" /\ renderer' = "done"
      /\ printed' = IF summary # <<>> /\ summary[Len(summary)].type = "run.finished" THEN summary ELSE <<>>
  BY DEF RenderSummary, outlets, writerVars
<1>2. ProgressTypes'
  BY <1>1 DEF ProgressTypes
<1>3. ASSUME rendering PROVE printed' = emitted
  <2>1. last /\ closing /\ queue = <<>> /\ place = "finished" /\ EndsFinished
    BY <1>1 DEF DeliveryInv
  <2>2. emitted = summary
    <3>1. summary \o <<>> = summary
      BY ConcatEmptySeq DEF ProgressTypes
    <3>2. QED
      BY <1>3, <2>1, <3>1 DEF DeliveryInv
  <2>3. QED
    BY <1>1, <2>1, <2>2 DEF EndsFinished
<1>4. DeliveryInv'
  BY <1>1, <1>3 DEF DeliveryInv, EndsFinished
<1>5. QED
  BY <1>2, <1>4

LEMMA ClosingDelivered ==
    ASSUME ProgressTypes, DeliveryInv, UNCHANGED <<emitted, place>>,
           Closing \/ (place = "finished" /\ closer = "open" /\ closer' = "closing"
                       /\ UNCHANGED <<outlets, queue, closing, wake, writerVars, renderVars>>)
    PROVE  ProgressTypes' /\ DeliveryInv'
<1>1. /\ recording' = recording /\ rendering' = rendering /\ queue' = queue
      /\ last' = last /\ file' = file /\ eventErr' = eventErr
      /\ summary' = summary /\ renderer' = renderer /\ printed' = printed /\ writer' = writer
      /\ \/ closing' = TRUE /\ wake' = TRUE /\ closer = "closing" /\ closer' = "waiting"
         \/ closing' = closing /\ wake' = wake /\ closer = "waiting" /\ closer' = "closed"
            /\ writer = "done" /\ renderer = "done"
         \/ closing' = closing /\ wake' = wake /\ closer = "open" /\ closer' = "closing"
            /\ place = "finished"
  BY DEF Closing, CloseAsks, CloseReturns, outlets, writerVars, renderVars, Wake
<1>2. ProgressTypes'
  BY <1>1 DEF ProgressTypes
<1>3. DeliveryInv'
  BY <1>1 DEF DeliveryInv, EndsFinished
<1>4. QED
  BY <1>2, <1>3



-----------------------------------------------------------------------------
\* The invariant, and what follows from it.

RunInv == TypeOK /\ DeliveryInv /\ StreamInv

LEMMA OpenIsCore ==
    ASSUME RunInv, place # "finished"
    PROVE  Core
BY DEF RunInv, TypeOK, StreamInv, Core, Telling

LEMMA ToldIsBracketed ==
    ASSUME Telling
    PROVE  AttemptsBracketed
<1>1. emitted \in Seq(Events) /\ \A q \in 1..Len(emitted) : InOrder(emitted, q) /\ emitted[q].type # "run.finished"
  BY DEF Telling, Told
<1>2. DOMAIN emitted = 1..Len(emitted)
  BY <1>1, LenProperties
<1>3. QED
  BY <1>1, <1>2 DEF AttemptsBracketed

\* A step of the run that does not end it.
LEMMA OpenStepKeeps ==
    ASSUME RunInv, place # "finished", place' \notin {"finished", "starting"}, Core', Observed
    PROVE  RunInv'
<1>1. AttemptsBracketed'
  <2>1. Telling'
    BY DEF Core
  <2>2. QED
    BY <2>1, ToldIsBracketed, PTL
<1>2. StreamInv' /\ LoopTypes'
  BY <1>1 DEF StreamInv, Core, Telling
<1>3. ProgressTypes' /\ DeliveryInv'
  <2>1. CASE Reports
    BY <2>1, ReportsDelivered DEF RunInv, TypeOK
  <2>2. CASE Silent
    BY <2>2, SilentDelivered DEF RunInv, TypeOK, Silent
  <2>3. QED
    BY <2>1, <2>2 DEF Observed
<1>4. QED
  BY <1>2, <1>3 DEF RunInv, TypeOK

\* A step that leaves the run alone.
LEMMA SameRun ==
    ASSUME LoopTypes, StreamInv, UNCHANGED runVars
    PROVE  LoopTypes' /\ StreamInv'
<1>1. /\ kinds' = kinds /\ attemptStarts' = attemptStarts /\ emitted' = emitted /\ place' = place
      /\ node' = node /\ round' = round /\ pending' = pending /\ callbacks' = callbacks
      /\ work' = work /\ observed' = observed /\ status' = status /\ ctxErr' = ctxErr
      /\ failures' = failures
  BY DEF runVars
<1>2. Nodes' = Nodes /\ MapAttempt' = MapAttempt
  BY <1>1 DEF Nodes, MapAttempt
<1>3. LoopTypes'
  BY <1>1, <1>2 DEF LoopTypes
<1>4. AttemptsBracketed'
  <2>1. \A q : EndsRun(emitted, q)' <=> EndsRun(emitted, q)
    BY <1>1, <1>2 DEF EndsRun
  <2>2. QED
    BY <1>1, <2>1 DEF StreamInv, AttemptsBracketed
<1>5. Told(emitted, attemptStarts)' <=> Told(emitted, attemptStarts)
  BY <1>1
<1>6. StatusesTell' <=> StatusesTell
  BY <1>1, <1>2 DEF StatusesTell
<1>7. NodesInOrder' <=> NodesInOrder
  BY <1>1, <1>2 DEF NodesInOrder
<1>8. BatchTells' <=> BatchTells
  <2>1. \A n, i, r : RoundsOf(n, i, r)' <=> RoundsOf(n, i, r)
    BY <1>1 DEF RoundsOf
  <2>2. QED
    BY <1>1, <1>2, <2>1 DEF BatchTells
<1>9. HookTells' <=> HookTells
  BY <1>1 DEF HookTells
<1>10. StreamInv'
  BY <1>1, <1>4, <1>5, <1>6, <1>7, <1>8, <1>9 DEF StreamInv
<1>11. QED
  BY <1>3, <1>10

LEMMA InitInv == Init => RunInv
<1> SUFFICES ASSUME Init PROVE RunInv
  OBVIOUS
<1>1. /\ kinds \in Plans /\ attemptStarts = [id \in Identities |-> "absent"] /\ emitted = <<>>
      /\ place = "starting" /\ node = 1 /\ round = 1 /\ pending = {} /\ callbacks \in BOOLEAN
      /\ work = [i \in WorkItems |-> "idle"] /\ observed = 0
      /\ status = [n \in Nodes |-> "pending"] /\ ctxErr = FALSE /\ failures = 0
  BY DEF Init, WorkItems
<1>2. /\ queue = <<>> /\ closing = FALSE /\ wake = FALSE /\ writer = "waiting" /\ last = FALSE
      /\ file = <<>> /\ eventErr = FALSE /\ summary = <<>>
      /\ renderer = (IF rendering THEN "rendering" ELSE "done") /\ closer = "open"
      /\ recording \in BOOLEAN /\ rendering \in BOOLEAN
  BY DEF Init, ProgressInit
<1>3. <<>> \in Seq(Events) /\ Len(<<>>) = 0 /\ <<>> \o <<>> = <<>>
  BY EmptySeq, ConcatEmptySeq
<1>4. LoopTypes
  <2>1. MaxAttempts \in Nat \ {0}
    BY EventsAssumption
  <2>2. 1 \in 1..MaxAttempts /\ 0 \in WorkItems
    BY <2>1 DEF WorkItems, Unscoped
  <2>3. QED
    BY <1>1, <2>2 DEF LoopTypes, Clocks, Places
<1>5. ProgressTypes
  BY <1>1, <1>2, <1>3 DEF ProgressTypes
<1>6. Telling
  <2>1. \A type, id : ~Heard(<<>>, type, id)
    BY <1>3 DEF Heard
  <2>2. QED
    BY <1>1, <1>3, <2>1 DEF Telling, Told, Clocks
<1>7. \A n : ~StepHeard(emitted, n)
  BY <1>1, <1>3 DEF StepHeard
<1>8. StatusesTell /\ BatchTells
  BY <1>1, <1>7 DEF StatusesTell, BatchTells
<1>9. HookTells
  BY <1>1, <1>4, <1>7, PlaceIdentities DEF HookTells
<1>10. NodesInOrder
  BY <1>1, <1>4, NodeFacts DEF NodesInOrder
<1>11. StreamInv
  BY <1>1, <1>6, <1>8, <1>9, <1>10, ToldIsBracketed DEF StreamInv, Telling
<1>12. DeliveryInv
  <2>1. IsPrefix(file, emitted)
    BY <1>1, <1>2, <1>3, PrefixFacts
  <2>2. QED
    BY <1>1, <1>2, <1>3, <2>1 DEF DeliveryInv
<1>13. QED
  BY <1>4, <1>5, <1>11, <1>12 DEF RunInv, TypeOK

LEMMA LoopKeeps ==
    ASSUME RunInv, Loop
    PROVE  RunInv'
<1>1. CASE BeginRun
  <2>1. place = "starting" /\ place' = "node" /\ emitted = <<>> /\ Core
    BY <1>1, OpenIsCore DEF BeginRun, RunInv, StreamInv
  <2>2. QED
    BY <1>1, <2>1, BeginRunKeeps, OpenStepKeeps
<1>2. CASE Cancel
  <2>1. /\ place \in {"node", "batch"} /\ place' = place /\ Core /\ Silent /\ ctxErr' = TRUE
        /\ UNCHANGED <<orderVars, status>> /\ failures' \in Nat
    BY <1>2, OpenIsCore DEF Cancel, Core, LoopTypes
  <2>2. QED
    BY <2>1, MoveKeeps, OpenStepKeeps
<1>3. CASE StopAtNode
  <2>1. place = "node" /\ place' = "ending" /\ Core
    BY <1>3, OpenIsCore DEF StopAtNode, Stop
  <2>2. QED
    BY <1>3, <2>1, StopAtNodeKeeps, OpenStepKeeps
<1>4. CASE SkipNode
  <2>1. place = "node" /\ place' \in {"node", "ending"} /\ Core
    BY <1>4, OpenIsCore DEF SkipNode, Settle
  <2>2. QED
    BY <1>4, <2>1, SkipNodeKeeps, OpenStepKeeps
<1>5. CASE BeginStep
  <2>1. place = "node" /\ place' \in {"batch", "ending"} /\ Core
    BY <1>5, OpenIsCore DEF BeginStep, AtNode, Dispatch
  <2>2. QED
    BY <1>5, <2>1, BeginStepKeeps, OpenStepKeeps
<1>6. CASE BeginMap
  <2>1. place = "node" /\ place' \in {"batch", "node", "ending"} /\ Core
    BY <1>6, OpenIsCore DEF BeginMap, AtNode, Dispatch, Settle
  <2>2. QED
    BY <1>6, <2>1, BeginMapKeeps, OpenStepKeeps
<1>7. CASE StepUndispatched
  <2>1. place = "batch" /\ place' \in {"node", "ending"} /\ Core
    BY <1>7, OpenIsCore DEF StepUndispatched, Settle, Stop
  <2>2. QED
    BY <1>7, <2>1, StepUndispatchedKeeps, OpenStepKeeps
<1>8. CASE RejectOutcomes
  <2>1. place = "batch" /\ place' \in {"node", "ending"} /\ Core
    BY <1>8, OpenIsCore DEF RejectOutcomes, Settle, Stop
  <2>2. QED
    BY <1>8, <2>1, RejectOutcomesKeeps, OpenStepKeeps
<1>9. CASE StepReturned
  <2>1. place = "batch" /\ place' \in {"node", "ending", "batch"} /\ Core
    BY <1>9, OpenIsCore DEF StepReturned, Settle, Stop, Dispatch
  <2>2. QED
    BY <1>9, <2>1, StepReturnedKeeps, OpenStepKeeps
<1>10. CASE MapObserves
  <2>1. /\ place = "batch" /\ kinds[node] = "map" /\ place' = "observing" /\ Core /\ Silent
        /\ UNCHANGED <<orderVars, status>> /\ failures' \in Nat /\ ctxErr' \in BOOLEAN
    BY <1>10, OpenIsCore DEF MapObserves, Core, LoopTypes
  <2>2. QED
    BY <2>1, MoveKeeps, OpenStepKeeps
<1>11. CASE ObserveItem
  <2>1. place = "observing" /\ place' = "observing" /\ Core
    BY <1>11, OpenIsCore DEF ObserveItem
  <2>2. QED
    BY <1>11, <2>1, ObserveItemKeeps, OpenStepKeeps
<1>12. CASE MapReturned
  <2>1. place = "observing" /\ place' \in {"node", "ending", "batch"} /\ Core
    BY <1>12, OpenIsCore DEF MapReturned, Settle, Stop, Dispatch
  <2>2. QED
    BY <1>12, <2>1, MapReturnedKeeps, OpenStepKeeps
<1>13. CASE Succeed
  <2>1. /\ place = "node" /\ node = Len(kinds) + 1 /\ place' = "hook" /\ Core /\ Silent
        /\ UNCHANGED <<orderVars, status>> /\ failures' \in Nat /\ ctxErr' \in BOOLEAN
    BY <1>13, OpenIsCore DEF Succeed, Core, LoopTypes, Works
  <2>2. QED
    BY <2>1, MoveKeeps, OpenStepKeeps
<1>14. CASE Terminate
  <2>1. place = "ending" /\ place' \in {"hook", "terminating"} /\ Core
    BY <1>14, OpenIsCore DEF Terminate
  <2>2. QED
    BY <1>14, <2>1, TerminateKeeps, OpenStepKeeps
<1>15. CASE TerminateStep
  <2>1. place = "terminating" /\ place' \in {"hook", "terminating"} /\ Core
    BY <1>15, OpenIsCore DEF TerminateStep
  <2>2. QED
    BY <1>15, <2>1, TerminateStepKeeps, OpenStepKeeps
<1>16. CASE BeginHook
  <2>1. place = "hook" /\ place' \in {"hookBatch", "finishing"} /\ Core
    BY <1>16, OpenIsCore DEF BeginHook
  <2>2. QED
    BY <1>16, <2>1, BeginHookKeeps, OpenStepKeeps
<1>17. CASE HookReturned
  <2>1. place = "hookBatch" /\ place' = "finishing" /\ Core
    BY <1>17, OpenIsCore DEF HookReturned
  <2>2. QED
    BY <1>17, <2>1, HookReturnedKeeps, OpenStepKeeps
<1>18. CASE RunFinished
  <2>1. place = "finishing" /\ Core
    BY <1>18, OpenIsCore DEF RunFinished
  <2>2. LoopTypes' /\ AttemptsBracketed' /\ EndsFinished' /\ Reports /\ place' = "finished"
    BY <1>18, <2>1, RunFinishedEnds
  <2>3. ProgressTypes' /\ DeliveryInv'
    BY <2>1, <2>2, ReportsDelivered DEF RunInv, TypeOK
  <2>4. StreamInv'
    BY <2>2 DEF StreamInv
  <2>5. QED
    BY <2>2, <2>3, <2>4 DEF RunInv, TypeOK
<1>19. CASE CommandEnds
  <2>1. LoopTypes' /\ StreamInv'
    BY <1>19, SameRun DEF CommandEnds, RunInv, TypeOK
  <2>2. /\ UNCHANGED <<emitted, place>> /\ place = "finished" /\ closer = "open" /\ closer' = "closing"
        /\ UNCHANGED <<outlets, queue, closing, wake, writerVars, renderVars>>
    BY <1>19 DEF CommandEnds, runVars
  <2>3. ProgressTypes' /\ DeliveryInv'
    BY <2>2, ClosingDelivered DEF RunInv, TypeOK
  <2>4. QED
    BY <2>1, <2>3 DEF RunInv, TypeOK
<1>20. QED
  BY <1>1, <1>2, <1>3, <1>4, <1>5, <1>6, <1>7, <1>8, <1>9, <1>10, <1>11, <1>12, <1>13, <1>14,
     <1>15, <1>16, <1>17, <1>18, <1>19 DEF Loop

LEMMA NextInv == RunInv /\ [Next]_vars => RunInv'
<1> SUFFICES ASSUME RunInv, [Next]_vars PROVE RunInv'
  OBVIOUS
<1>1. CASE Loop
  BY <1>1, LoopKeeps
<1>2. CASE \E i \in {Unscoped} \cup Items : StartWork(i) \/ EndWork(i)
  <2>1. PICK i \in WorkItems : StartWork(i) \/ EndWork(i)
    BY <1>2 DEF WorkItems
  <2>2. place \in {"batch", "hookBatch"} /\ place' = place /\ Core
    BY <2>1, OpenIsCore DEF StartWork, EndWork, InBatch
  <2>3. Core' /\ Observed
    BY <2>1, <2>2, StartWorkKeeps, EndWorkKeeps
  <2>4. QED
    BY <2>2, <2>3, OpenStepKeeps
<1>3. ASSUME Observer \/ UNCHANGED vars PROVE RunInv'
  <2>1. UNCHANGED runVars
    BY <1>3 DEF Observer, WriterStep, RendererStep, CloseStep, vars
  <2>2. LoopTypes' /\ StreamInv'
    BY <2>1, SameRun DEF RunInv, TypeOK
  <2>3. UNCHANGED <<emitted, place>>
    BY <2>1 DEF runVars
  <2>4. ProgressTypes' /\ DeliveryInv'
    <3>1. CASE Writing
      BY <2>3, <3>1, WritingDelivered DEF RunInv, TypeOK
    <3>2. CASE RenderSummary
      BY <2>3, <3>2, RenderDelivered DEF RunInv, TypeOK
    <3>3. CASE Closing
      BY <2>3, <3>3, ClosingDelivered DEF RunInv, TypeOK
    <3>4. CASE UNCHANGED progressVars
      BY <2>3, <3>4, SilentDelivered DEF RunInv, TypeOK
    <3>5. QED
      BY <1>3, <3>1, <3>2, <3>3, <3>4 DEF Observer, WriterStep, RendererStep, CloseStep, Redraw, vars
  <2>5. QED
    BY <2>2, <2>4 DEF RunInv, TypeOK
<1>4. QED
  BY <1>1, <1>2, <1>3 DEF Next, Over

(***************************************************************************)
(* The clocks of runEvents, the statuses of the steps and the place in Run *)
(* account for the stream in every state, and the queue, the file and the  *)
(* summary for its delivery.                                               *)
(***************************************************************************)
THEOREM EventsInvariant == Spec => []RunInv
<1>1. QED
  BY InitInv, NextInv, PTL DEF Spec

(***************************************************************************)
(* For every plan and any number of items and attempts, whoever reports an *)
(* attempt first: attempts and steps start and finish once and in order,   *)
(* and run.finished comes last, with every step of the plan reported.      *)
(***************************************************************************)
THEOREM BracketedCorrect == Spec => []AttemptsBracketed
<1>1. RunInv => AttemptsBracketed
  BY DEF RunInv, StreamInv
<1>2. QED
  BY <1>1, EventsInvariant, PTL

(***************************************************************************)
(* For every backlog and whatever fails: the whole events in the file are  *)
(* always a prefix of what was reported, and when close returns the file,  *)
(* unless writing it failed, and the printed summary have all of it.       *)
(***************************************************************************)
THEOREM DeliveryCorrect == Spec => []DeliveredInOrder
<1>1. RunInv => DeliveredInOrder
  <2> SUFFICES ASSUME RunInv PROVE DeliveredInOrder
    OBVIOUS
  <2>1. IsPrefix(file, emitted)
    BY DEF RunInv, DeliveryInv
  <2>2. ASSUME closer = "closed", recording, ~eventErr PROVE file = emitted
    <3>1. emitted = file \o queue /\ queue = <<>>
      BY <2>2 DEF RunInv, DeliveryInv
    <3>2. file \o <<>> = file
      BY ConcatEmptySeq DEF RunInv, TypeOK, ProgressTypes
    <3>3. QED
      BY <3>1, <3>2
  <2>3. ASSUME closer = "closed", rendering PROVE printed = emitted
    BY <2>3 DEF RunInv, DeliveryInv
  <2>4. QED
    BY <2>1, <2>2, <2>3 DEF DeliveredInOrder
<1>2. QED
  BY <1>1, EventsInvariant, PTL
==============================================================================
