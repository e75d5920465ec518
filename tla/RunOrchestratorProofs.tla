------------------------ MODULE RunOrchestratorProofs ------------------------
(***************************************************************************)
(* TLAPS proofs about one local run (RunOrchestrator): what its places say *)
(* about the journal in memory and the one in the datastore, which nodes   *)
(* have been dispatched, which attempts were spent and what became the     *)
(* run's cause. It begins with what the operations of the journal do to an *)
(* entry, for every number of attempts: the list of attempts of an entry   *)
(* always has one shape, Trail(k, last): k attempts, numbered from 1, all  *)
(* but the last failed, the last one with status last. The shape of the    *)
(* entries of a run is in RunJournalProofs.                                *)
(***************************************************************************)
EXTENDS RunOrchestrator, TLAPS, SequenceTheorems, WellFoundedInduction

Statuses == Terminal \cup {"pending", "running"}

AttemptRecs == [attempt : Nat, status : Statuses, output : {"none", "published"}]
ItemRecs == [status : Statuses, attempts : Seq(AttemptRecs)]
StepRecs == [status : Statuses, attempts : Seq(AttemptRecs), isMap : BOOLEAN,
             items : Seq(ItemRecs), collect : BOOLEAN]

TrailAt(i, k, last) ==
    IF i < k THEN NewAttempt(i, "failed")
    ELSE IF last = "succeeded" THEN PublishedAttempt(i) ELSE NewAttempt(i, last)

Trail(k, last) == [i \in 1..k |-> TrailAt(i, k, last)]

-----------------------------------------------------------------------------
\* Lists of attempts.

\* A function on 1..n with values in S is a sequence over S of length n.
LEMMA FunIsSeq ==
    ASSUME NEW S, NEW n \in Nat, NEW f \in [1..n -> S]
    PROVE  f \in Seq(S) /\ Len(f) = n
<1>1. f \in Seq(S)
  BY SeqDef
<1>2. QED
  BY <1>1, LenProperties

LEMMA TrailSeq ==
    ASSUME NEW k \in Nat, NEW last \in Statuses
    PROVE  /\ Trail(k, last) \in Seq(AttemptRecs)
           /\ Len(Trail(k, last)) = k
           /\ DOMAIN Trail(k, last) = 1..k
           /\ \A i \in 1..k : Trail(k, last)[i] = TrailAt(i, k, last)
           /\ Trail(k, last) = <<>> <=> k = 0
<1>1. \A i \in 1..k : TrailAt(i, k, last) \in AttemptRecs
  BY DEF TrailAt, AttemptRecs, NewAttempt, PublishedAttempt, Statuses, Terminal
<1>2. Trail(k, last) \in [1..k -> AttemptRecs]
  BY <1>1 DEF Trail
<1>3. Trail(k, last) \in Seq(AttemptRecs) /\ Len(Trail(k, last)) = k
  BY <1>2, FunIsSeq
<1>4. QED
  BY <1>2, <1>3, EmptySeq DEF Trail

\* Two lists with the same length and the same attempts are the same list.
LEMMA IsTrail ==
    ASSUME NEW k \in Nat, NEW last \in Statuses, NEW a, a \in Seq(AttemptRecs), Len(a) = k,
           \A i \in 1..k : a[i] = TrailAt(i, k, last)
    PROVE  a = Trail(k, last)
<1>1. a \in [1..k -> AttemptRecs]
  BY LenProperties
<1>2. QED
  BY <1>1 DEF Trail

LEMMA AppendTrail ==
    ASSUME NEW k \in Nat
    PROVE  Append(Trail(k, "failed"), NewAttempt(k + 1, "running")) = Trail(k + 1, "running")
<1> DEFINE t == Trail(k, "failed")
           e == NewAttempt(k + 1, "running")
           a == Append(t, e)
<1>1. t \in Seq(AttemptRecs) /\ Len(t) = k /\ \A i \in 1..k : t[i] = TrailAt(i, k, "failed")
  BY TrailSeq DEF Statuses, Terminal
<1>2. e \in AttemptRecs /\ e = TrailAt(k + 1, k + 1, "running")
  BY DEF NewAttempt, AttemptRecs, TrailAt, Statuses, Terminal
<1>3. \A i \in 1..k : t[i] = TrailAt(i, k + 1, "running")
  BY <1>1 DEF TrailAt
<1> HIDE DEF t, e
<1>4. a \in Seq(AttemptRecs) /\ Len(a) = k + 1 /\ a[k + 1] = e /\ \A i \in 1..k : a[i] = t[i]
  BY <1>1, <1>2, AppendProperties
<1> HIDE DEF a
<1>5. \A i \in 1..(k + 1) : a[i] = TrailAt(i, k + 1, "running")
  BY <1>2, <1>3, <1>4
<1>6. a = Trail(k + 1, "running")
  BY <1>4, <1>5, IsTrail DEF Statuses, Terminal
<1> QED
  BY <1>6 DEF a, t, e

LEMMA CloseTrail ==
    ASSUME NEW k \in Nat \ {0}, NEW last \in Statuses, NEW status \in Statuses,
           last # "succeeded", status # "succeeded"
    PROVE  CloseLast(Trail(k, last), status) = Trail(k, status)
<1> DEFINE t == Trail(k, last)
<1>1. /\ Len(t) = k
      /\ DOMAIN t = 1..k
      /\ \A i \in 1..k : t[i] = TrailAt(i, k, last)
  BY TrailSeq DEF Statuses, Terminal
<1>2. \A i \in 1..k : CloseLast(t, status)[i] = TrailAt(i, k, status)
  <2>1. ASSUME NEW i \in 1..k, i # k PROVE CloseLast(t, status)[i] = TrailAt(i, k, status)
    BY <1>1, <2>1 DEF CloseLast, TrailAt, NewAttempt
  <2>2. CloseLast(t, status)[k] = TrailAt(k, k, status)
    <3>1. CloseLast(t, status)[k] = [t[k] EXCEPT !.status = status]
      BY <1>1 DEF CloseLast
    <3>2. t[k] = NewAttempt(k, last) /\ TrailAt(k, k, status) = NewAttempt(k, status)
      BY <1>1 DEF TrailAt
    <3>3. [NewAttempt(k, last) EXCEPT !.status = status] = NewAttempt(k, status)
      BY DEF NewAttempt
    <3>4. QED
      BY <3>1, <3>2, <3>3
  <2>3. QED
    BY <2>1, <2>2
<1>3. CloseLast(t, status) = [i \in 1..k |-> CloseLast(t, status)[i]]
  BY <1>1 DEF CloseLast
<1> QED
  BY <1>2, <1>3 DEF Trail

LEMMA PublishTrail ==
    ASSUME NEW k \in Nat \ {0}
    PROVE  PublishLast(Trail(k, "running")) = Trail(k, "succeeded")
<1> DEFINE t == Trail(k, "running")
<1>1. /\ Len(t) = k
      /\ DOMAIN t = 1..k
      /\ \A i \in 1..k : t[i] = TrailAt(i, k, "running")
  BY TrailSeq DEF Statuses, Terminal
<1>2. \A i \in 1..k : PublishLast(t)[i] = TrailAt(i, k, "succeeded")
  <2>1. ASSUME NEW i \in 1..k, i # k PROVE PublishLast(t)[i] = TrailAt(i, k, "succeeded")
    BY <1>1, <2>1 DEF PublishLast, TrailAt
  <2>2. PublishLast(t)[k] = TrailAt(k, k, "succeeded")
    <3>1. PublishLast(t)[k] = PublishedAttempt(t[k].attempt)
      BY <1>1 DEF PublishLast
    <3>2. t[k] = NewAttempt(k, "running") /\ TrailAt(k, k, "succeeded") = PublishedAttempt(k)
      BY <1>1 DEF TrailAt
    <3>3. NewAttempt(k, "running").attempt = k
      BY DEF NewAttempt
    <3>4. QED
      BY <3>1, <3>2, <3>3
  <2>3. QED
    BY <2>1, <2>2
<1>3. PublishLast(t) = [i \in 1..k |-> PublishLast(t)[i]]
  BY <1>1 DEF PublishLast
<1> QED
  BY <1>2, <1>3 DEF Trail

LEMMA DropTrail ==
    ASSUME NEW k \in Nat \ {0}
    PROVE  SubSeq(Trail(k, "running"), 1, k - 1) = Trail(k - 1, "failed")
<1> DEFINE t == Trail(k, "running")
           a == SubSeq(t, 1, k - 1)
<1>1. t \in Seq(AttemptRecs) /\ Len(t) = k /\ \A i \in 1..k : t[i] = TrailAt(i, k, "running")
  BY TrailSeq DEF Statuses, Terminal
<1> HIDE DEF t
<1>2. a \in Seq(AttemptRecs) /\ Len(a) = k - 1 /\ \A i \in 1..(k - 1) : a[i] = t[i]
  BY <1>1, SubSeqProperties
<1> HIDE DEF a
<1>3. \A i \in 1..(k - 1) : a[i] = TrailAt(i, k - 1, "failed")
  BY <1>1, <1>2 DEF TrailAt
<1>4. a = Trail(k - 1, "failed")
  BY <1>2, <1>3, IsTrail DEF Statuses, Terminal
<1> QED
  BY <1>4 DEF a, t

\* Terminalization of a trail: only a running last attempt is touched.
LEMMA TerminateTrail ==
    ASSUME NEW k \in Nat \ {0}, NEW last \in {"running", "failed"},
           NEW status \in {"failed", "cancelled"}, NEW a, a = Trail(k, last)
    PROVE  [i \in DOMAIN a |-> CloseRunning(a[i], status)] =
               Trail(k, IF last = "running" THEN status ELSE "failed")
<1> DEFINE new == IF last = "running" THEN status ELSE "failed"
<1>1. DOMAIN a = 1..k /\ \A i \in 1..k : a[i] = TrailAt(i, k, last)
  BY TrailSeq DEF Statuses, Terminal
<1>2. \A i \in 1..k : CloseRunning(TrailAt(i, k, last), status) = TrailAt(i, k, new)
  <2>1. ASSUME NEW i \in 1..k, NEW s \in Statuses
        PROVE  CloseRunning(NewAttempt(i, s), status) =
                   NewAttempt(i, IF s = "running" THEN status ELSE s)
    BY DEF CloseRunning, NewAttempt
  <2>2. QED
    BY <2>1 DEF TrailAt, Statuses, Terminal
<1>3. QED
  BY <1>1, <1>2 DEF Trail

-----------------------------------------------------------------------------
\* Entries: a step and a map item alike.

Entries == ItemRecs \cup StepRecs

\* f is of e's kind, and what is no status and no attempt is as in e.
SameRest(e, f) ==
    /\ e \in ItemRecs => f \in ItemRecs
    /\ e \in StepRecs => /\ f \in StepRecs
                          /\ f.items = e.items
                          /\ f.isMap = e.isMap
                          /\ f.collect = e.collect

With(e, status, a) == [e EXCEPT !.status = status, !.attempts = a]

LEMMA SetEntry ==
    ASSUME NEW e \in Entries, NEW status \in Statuses, NEW a \in Seq(AttemptRecs),
           NEW f, f = With(e, status, a)
    PROVE  SameRest(e, f) /\ f.status = status /\ f.attempts = a
<1>1. CASE e \in ItemRecs /\ e \notin StepRecs
  BY <1>1 DEF With, SameRest, ItemRecs
<1>2. CASE e \in StepRecs /\ e \notin ItemRecs
  BY <1>2 DEF With, SameRest, StepRecs
<1>3. ~(e \in ItemRecs /\ e \in StepRecs)
  <2>1. e \in ItemRecs => DOMAIN e = {"status", "attempts"}
    BY DEF ItemRecs
  <2>2. e \in StepRecs => "items" \in DOMAIN e
    BY DEF StepRecs
  <2>3. QED
    BY <2>1, <2>2
<1>4. QED
  BY <1>1, <1>2, <1>3 DEF Entries

LEMMA SetStatus ==
    ASSUME NEW e \in Entries, NEW status \in Statuses,
           NEW f, f = [e EXCEPT !.status = status]
    PROVE  SameRest(e, f) /\ f.status = status /\ f.attempts = e.attempts
<1>1. CASE e \in ItemRecs /\ e \notin StepRecs
  BY <1>1 DEF SameRest, ItemRecs
<1>2. CASE e \in StepRecs
  <2>1. DOMAIN e = {"status", "attempts", "isMap", "items", "collect"}
    BY <1>2 DEF StepRecs
  <2>2. e \notin ItemRecs
    BY <2>1 DEF ItemRecs
  <2>3. QED
    BY <1>2, <2>2 DEF SameRest, StepRecs
<1>3. QED
  BY <1>1, <1>2 DEF Entries

LEMMA SetAttempts ==
    ASSUME NEW e \in Entries, NEW a \in Seq(AttemptRecs), NEW f, f = [e EXCEPT !.attempts = a]
    PROVE  SameRest(e, f) /\ f.status = e.status /\ f.attempts = a
<1>1. CASE e \in ItemRecs /\ e \notin StepRecs
  BY <1>1 DEF SameRest, ItemRecs
<1>2. CASE e \in StepRecs
  <2>1. DOMAIN e = {"status", "attempts", "isMap", "items", "collect"}
    BY <1>2 DEF StepRecs
  <2>2. e \notin ItemRecs
    BY <2>1 DEF ItemRecs
  <2>3. QED
    BY <1>2, <2>2 DEF SameRest, StepRecs
<1>3. QED
  BY <1>1, <1>2 DEF Entries

LEMMA EntryFields ==
    ASSUME NEW e \in Entries
    PROVE  e.status \in Statuses /\ e.attempts \in Seq(AttemptRecs)
BY DEF Entries, ItemRecs, StepRecs

LEMMA CloseLastType ==
    ASSUME NEW a \in Seq(AttemptRecs), NEW status \in Statuses
    PROVE  CloseLast(a, status) \in Seq(AttemptRecs)
<1>1. a \in [1..Len(a) -> AttemptRecs] /\ Len(a) \in Nat
  BY LenProperties
<1>2. ASSUME NEW i \in 1..Len(a) PROVE CloseLast(a, status)[i] \in AttemptRecs
  BY <1>1, <1>2 DEF CloseLast, AttemptRecs
<1>3. CloseLast(a, status) \in [1..Len(a) -> AttemptRecs]
  BY <1>1, <1>2 DEF CloseLast
<1>4. QED
  BY <1>1, <1>3, FunIsSeq

LEMMA PublishLastType ==
    ASSUME NEW a \in Seq(AttemptRecs)
    PROVE  PublishLast(a) \in Seq(AttemptRecs)
<1>1. a \in [1..Len(a) -> AttemptRecs] /\ Len(a) \in Nat
  BY LenProperties
<1>2. ASSUME NEW n \in Nat PROVE PublishedAttempt(n) \in AttemptRecs
  BY DEF PublishedAttempt, AttemptRecs, Statuses, Terminal
<1>3. \A i \in 1..Len(a) : a[i].attempt \in Nat
  BY <1>1 DEF AttemptRecs
<1>4. PublishLast(a) \in [1..Len(a) -> AttemptRecs]
  BY <1>1, <1>2, <1>3 DEF PublishLast
<1>5. QED
  BY <1>1, <1>4, FunIsSeq

LEMMA CloseRunningType ==
    ASSUME NEW a \in Seq(AttemptRecs), NEW status \in Statuses
    PROVE  [i \in DOMAIN a |-> CloseRunning(a[i], status)] \in Seq(AttemptRecs)
<1>1. a \in [1..Len(a) -> AttemptRecs] /\ Len(a) \in Nat
  BY LenProperties
<1>2. ASSUME NEW r \in AttemptRecs PROVE CloseRunning(r, status) \in AttemptRecs
  BY DEF CloseRunning, AttemptRecs
<1>3. [i \in DOMAIN a |-> CloseRunning(a[i], status)] \in [1..Len(a) -> AttemptRecs]
  BY <1>1, <1>2
<1>4. QED
  BY <1>1, <1>3, FunIsSeq

\* markAttemptRunning, markMapItemRunning.
LEMMA EntryRunningIs ==
    ASSUME NEW e \in Entries, NEW n \in Nat, NEW f, f = EntryRunning(e, n)
    PROVE  /\ SameRest(e, f)
           /\ f.status = "running"
           /\ \A k \in Nat : n = k + 1 /\ e.attempts = Trail(k, "failed") =>
                    f.attempts = Trail(n, "running")
<1> DEFINE a == Append(e.attempts, NewAttempt(n, "running"))
<1>1. NewAttempt(n, "running") \in AttemptRecs
  BY DEF NewAttempt, AttemptRecs, Statuses, Terminal
<1>2. a \in Seq(AttemptRecs)
  BY <1>1, EntryFields, AppendProperties
<1>3. f = With(e, "running", a)
  BY DEF EntryRunning, With
<1> HIDE DEF a
<1>4. SameRest(e, f) /\ f.status = "running" /\ f.attempts = a
  BY <1>2, <1>3, SetEntry DEF Statuses, Terminal
<1>5. QED
  BY <1>4, AppendTrail DEF a

\* markAttemptRetrying, markMapItemRetrying.
LEMMA EntryRetryingIs ==
    ASSUME NEW e \in Entries, NEW f, f = EntryRetrying(e)
    PROVE  /\ SameRest(e, f)
           /\ f.status = e.status
           /\ \A k \in Nat \ {0} : e.attempts = Trail(k, "running") =>
                    f.attempts = Trail(k, "failed")
<1> DEFINE a == CloseLast(e.attempts, "failed")
<1>1. "failed" \in Statuses /\ "running" \in Statuses
  BY DEF Statuses, Terminal
<1>2. a \in Seq(AttemptRecs)
  BY <1>1, EntryFields, CloseLastType
<1>3. SameRest(e, f) /\ f.status = e.status /\ f.attempts = a
  BY <1>2, SetAttempts DEF EntryRetrying
<1>4. QED
  BY <1>1, <1>3, CloseTrail

\* markAttemptSucceeded, markMapItemSucceeded.
LEMMA EntrySucceededIs ==
    ASSUME NEW e \in Entries, NEW f, f = EntrySucceeded(e)
    PROVE  /\ SameRest(e, f)
           /\ f.status = "succeeded"
           /\ \A k \in Nat \ {0} : e.attempts = Trail(k, "running") =>
                    f.attempts = Trail(k, "succeeded")
<1> DEFINE a == PublishLast(e.attempts)
<1>1. a \in Seq(AttemptRecs)
  BY EntryFields, PublishLastType
<1>2. f = With(e, "succeeded", a)
  BY DEF EntrySucceeded, With
<1>3. SameRest(e, f) /\ f.status = "succeeded" /\ f.attempts = a
  BY <1>1, <1>2, SetEntry DEF Statuses, Terminal
<1>4. QED
  BY <1>3, PublishTrail

\* markAttemptTerminal, markMapItemTerminal.
LEMMA EntryTerminalIs ==
    ASSUME NEW e \in Entries, NEW status \in {"failed", "cancelled"},
           NEW f, f = EntryTerminal(e, status)
    PROVE  /\ SameRest(e, f)
           /\ f.status = status
           /\ \A k \in Nat \ {0} : \A last \in {"running", "failed"} :
                    e.attempts = Trail(k, last) => f.attempts = Trail(k, status)
<1>1. {"running", "failed", "cancelled"} \subseteq Statuses
  BY DEF Statuses, Terminal
<1>2. CASE e.attempts = <<>>
  <2> DEFINE a == <<NewAttempt(1, status)>>
  <2>1. a \in Seq(AttemptRecs)
    BY <1>1 DEF NewAttempt, AttemptRecs
  <2>2. f = With(e, status, a)
    BY <1>2 DEF EntryTerminal, With
  <2> HIDE DEF a
  <2>3. SameRest(e, f) /\ f.status = status /\ f.attempts = a
    BY <1>1, <2>1, <2>2, SetEntry
  <2>4. \A k \in Nat \ {0} : \A last \in {"running", "failed"} : e.attempts # Trail(k, last)
    BY <1>1, <1>2, TrailSeq
  <2>5. QED
    BY <2>3, <2>4
<1>3. CASE e.attempts # <<>>
  <2> DEFINE a == CloseLast(e.attempts, status)
  <2>1. a \in Seq(AttemptRecs)
    BY <1>1, EntryFields, CloseLastType
  <2>2. f = With(e, status, a)
    BY <1>3 DEF EntryTerminal, With
  <2>3. SameRest(e, f) /\ f.status = status /\ f.attempts = a
    BY <1>1, <2>1, <2>2, SetEntry
  <2>4. QED
    BY <1>1, <2>3, CloseTrail
<1>4. QED
  BY <1>2, <1>3

\* The list without its last attempt, if it has one.
LEMMA DropLastType ==
    ASSUME NEW a \in Seq(AttemptRecs)
    PROVE  SubSeq(a, 1, Len(a) - 1) \in Seq(AttemptRecs)
<1>1. CASE a = <<>>
  <2>1. Len(a) = 0
    BY <1>1, EmptySeq
  <2>2. SubSeq(a, 1, 0 - 1) = <<>>
    OBVIOUS
  <2>3. QED
    BY <2>1, <2>2, EmptySeq
<1>2. CASE a # <<>>
  BY <1>2
<1>3. QED
  BY <1>1, <1>2

\* The attempt of a step that was never dispatched is dropped.
LEMMA DropUndispatchedIs ==
    ASSUME NEW e \in Entries, NEW f, f = DropUndispatched(e)
    PROVE  /\ SameRest(e, f)
           /\ f.status \in {e.status, "not-started"}
           /\ \A k \in Nat \ {0} : e.attempts = Trail(k, "running") =>
                    /\ f.attempts = Trail(k - 1, "failed")
                    /\ f.status = IF k = 1 THEN "not-started" ELSE e.status
<1> DEFINE kept == SubSeq(e.attempts, 1, Len(e.attempts) - 1)
           status == IF kept = <<>> THEN "not-started" ELSE e.status
<1>1. e.attempts \in Seq(AttemptRecs) /\ e.status \in Statuses
  BY EntryFields
<1>3. kept \in Seq(AttemptRecs)
  BY <1>1, DropLastType
<1>4. status \in Statuses
  BY <1>1 DEF Statuses, Terminal
<1>5. f = With(e, status, kept)
  BY <1>1 DEF DropUndispatched, With, Entries, ItemRecs, StepRecs
<1> HIDE DEF kept, status
<1>6. SameRest(e, f) /\ f.status = status /\ f.attempts = kept
  BY <1>3, <1>4, <1>5, SetEntry
<1>7. ASSUME NEW k \in Nat \ {0}, e.attempts = Trail(k, "running")
      PROVE  kept = Trail(k - 1, "failed") /\ (kept = <<>> <=> k = 1)
  <2>1. Len(e.attempts) = k
    BY <1>7, TrailSeq DEF Statuses, Terminal
  <2>2. kept = Trail(k - 1, "failed")
    BY <1>7, <2>1, DropTrail DEF kept
  <2>3. PICK j \in Nat : j = k - 1
    OBVIOUS
  <2>4. "failed" \in Statuses
    BY DEF Statuses, Terminal
  <2>5. Trail(j, "failed") = <<>> <=> j = 0
    BY <2>4, TrailSeq
  <2>6. QED
    BY <2>2, <2>3, <2>5
<1>8. QED
  BY <1>6, <1>7 DEF status

\* The unfinished items of a map that fails, as failMapNode leaves them.
LEMMA UnfinishedItemTerminalIs ==
    ASSUME NEW e \in ItemRecs, NEW status \in {"failed", "cancelled"},
           NEW f, f = UnfinishedItemTerminal(e, status)
    PROVE  /\ f \in ItemRecs
           /\ e.status = "pending" => f.status = "not-started" /\ f.attempts = e.attempts
           /\ e.status = "running" => f.status = status
           /\ e.status \notin {"pending", "running"} => f = e
           /\ \A k \in Nat \ {0} : \A last \in {"running", "failed"} :
                e.status = "running" /\ e.attempts = Trail(k, last) =>
                    f.attempts = Trail(k, IF last = "running" THEN status ELSE "failed")
<1>1. {"not-started", "running", "failed", "cancelled"} \subseteq Statuses
  BY DEF Statuses, Terminal
<1>2. e \in Entries /\ e.attempts \in Seq(AttemptRecs)
  BY EntryFields DEF Entries
<1>3. CASE e.status = "pending"
  <2>1. f = [e EXCEPT !.status = "not-started"]
    BY <1>3 DEF UnfinishedItemTerminal
  <2>2. SameRest(e, f) /\ f.status = "not-started" /\ f.attempts = e.attempts
    BY <1>1, <1>2, <2>1, SetStatus
  <2>3. QED
    BY <1>3, <2>2 DEF SameRest
<1>4. CASE e.status = "running"
  <2> DEFINE n == Len(e.attempts)
             a == IF e.attempts[n].status = "running" THEN CloseLast(e.attempts, status)
                  ELSE e.attempts
  <2>1. f = With(e, status, a)
    BY <1>4 DEF UnfinishedItemTerminal, With
  <2>2. a \in Seq(AttemptRecs)
    BY <1>1, <1>2, CloseLastType
  <2>3. ASSUME NEW k \in Nat \ {0}, NEW last \in {"running", "failed"}, e.attempts = Trail(k, last)
        PROVE  a = Trail(k, IF last = "running" THEN status ELSE "failed")
    <3>0. k \in Nat /\ k \in 1..k /\ last \in Statuses /\ status \in Statuses
      BY <1>1
    <3>1. n = k /\ e.attempts[k] = TrailAt(k, k, last)
      BY <3>0, <2>3, TrailSeq
    <3>2. e.attempts[k] = NewAttempt(k, last)
      BY <3>1 DEF TrailAt
    <3>3. e.attempts[n].status = last
      BY <3>1, <3>2 DEF NewAttempt
    <3>4. CASE last = "running"
      <4>1. a = CloseLast(Trail(k, "running"), status)
        BY <2>3, <3>3, <3>4
      <4>2. QED
        BY <3>0, <3>4, <4>1, CloseTrail
    <3>5. CASE last = "failed"
      BY <2>3, <3>3, <3>5
    <3>6. QED
      BY <3>4, <3>5
  <2> HIDE DEF a
  <2>4. SameRest(e, f) /\ f.status = status /\ f.attempts = a
    BY <1>1, <1>2, <2>1, <2>2, SetEntry
  <2>5. QED
    BY <1>4, <2>3, <2>4 DEF SameRest
<1>5. CASE e.status \notin {"pending", "running"}
  BY <1>5 DEF UnfinishedItemTerminal
<1>6. QED
  BY <1>3, <1>4, <1>5

\* terminateRunningAttempts and the status of an entry when the run ends.
LEMMA TerminateEntryIs ==
    ASSUME NEW e \in Entries, NEW status \in {"failed", "cancelled"},
           NEW f, f = TerminateEntry(e, status)
    PROVE  /\ SameRest(e, f)
           /\ e.status = "pending" => f.status = "not-started" /\ f.attempts = e.attempts
           /\ e.status = "running" => f.status = status
           /\ e.status \notin {"pending", "running"} => f = e
           /\ \A k \in Nat \ {0} : \A last \in {"running", "failed"} :
                e.status = "running" /\ e.attempts = Trail(k, last) =>
                    f.attempts = Trail(k, IF last = "running" THEN status ELSE "failed")
<1>1. {"not-started", "running", "failed", "cancelled"} \subseteq Statuses
  BY DEF Statuses, Terminal
<1>2. e.attempts \in Seq(AttemptRecs)
  BY EntryFields
<1>3. CASE e.status = "pending"
  <2>1. f = [e EXCEPT !.status = "not-started"]
    BY <1>3 DEF TerminateEntry
  <2>2. QED
    BY <1>1, <1>3, <2>1, SetStatus
<1>4. CASE e.status = "running"
  <2> DEFINE a == [i \in DOMAIN e.attempts |-> CloseRunning(e.attempts[i], status)]
  <2>1. f = With(e, status, a)
    BY <1>4 DEF TerminateEntry, With
  <2>2. a \in Seq(AttemptRecs)
    BY <1>1, <1>2, CloseRunningType
  <2>3. \A k \in Nat \ {0} : \A last \in {"running", "failed"} : e.attempts = Trail(k, last) =>
            a = Trail(k, IF last = "running" THEN status ELSE "failed")
    BY TerminateTrail
  <2> HIDE DEF a
  <2>4. SameRest(e, f) /\ f.status = status /\ f.attempts = a
    BY <1>1, <2>1, <2>2, SetEntry
  <2>5. QED
    BY <1>4, <2>3, <2>4
<1>5. CASE e.status \notin {"pending", "running"}
  <2>1. f = e
    BY <1>5 DEF TerminateEntry
  <2>2. SameRest(e, e)
    BY DEF SameRest
  <2>3. QED
    BY <1>5, <2>1, <2>2
<1>6. QED
  BY <1>3, <1>4, <1>5

-----------------------------------------------------------------------------
\* The run.

CaseNames == {"none"} \cup (UNION {Node[n].cases : n \in NodeIds})
DecisionRecs ==
    [node : NodeIds, status : {"selected", "skipped", "failed"}, case : CaseNames]
HookRecords == {NoExitHook} \cup {HookRecord(settled, expired) : settled, expired \in BOOLEAN}
Manifests ==
    [status : {"running"} \cup RunTerminal, steps : [StepIds -> StepRecs],
     decisions : Seq(DecisionRecs), failure : NodeIds \cup {"none"},
     result : {"none", "stored"}, exitHook : HookRecords]

StepPlaces == {"stepInput", "attemptWrite", "invoke", "retryWrite", "retryWait", "settle",
               "successWrite"}
MapPlaces == {"mapInput", "mapWrite", "expand", "itemInputs", "itemsWrite", "mapInvoke",
              "mapSettle", "roundWrite", "roundWait", "mapDone", "collect", "collectWrite"}
OpenPlaces == {"claim", "prerequisites", "node", "nodeWrite"} \cup StepPlaces \cup MapPlaces
SettledPlaces == {"terminalWrite", "hook", "hookWrite", "done"}
Places == OpenPlaces \cup {"resultWrite", "terminal", "rejected"} \cup SettledPlaces

\* Where Run is; the active node of a step or a map place is a step or a map of the plan.
PlaceOK ==
    /\ pc \in Places
    /\ pos \in 1..(Len(NodeOrder) + 1)
    /\ pc \in StepPlaces => ActiveNode \in StepIds /\ Node[ActiveNode].kind = "step"
    /\ pc \in MapPlaces => ActiveNode \in StepIds /\ Node[ActiveNode].kind = "map"
    /\ pc \in {"nodeWrite"} \cup StepPlaces \cup MapPlaces => pos <= Len(NodeOrder)
    /\ runErr # "none" => pc \in {"terminal"} \cup SettledPlaces
    /\ runErr = "fatal" => pos <= Len(NodeOrder)

RoundOK ==
    /\ attempt \in Nat
    /\ pending \subseteq Nat
    /\ DOMAIN round.outs \subseteq Nat
    /\ \A i \in DOMAIN round.outs : round.outs[i] \in OutcomeKinds
    /\ round.err \in Errors
    /\ collected \subseteq Nat
    /\ invokeErr \in {"none", "ctx", "infra"}

ResolverOK ==
    /\ res \in [outputs : {res.outputs}, selected : {res.selected}, inactive : {res.inactive}]
    /\ res.outputs = [n \in NodeIds \cup {StartNode} |-> res.outputs[n]]
    /\ \A n \in NodeIds \cup {StartNode} : res.outputs[n].items \in Int

JournalsOK ==
    /\ manifest \in Manifests
    /\ durable \in Manifests \cup {NoJournal}

RestOK ==
    /\ ctx \in {"live", "cancelled", "deadline"}
    /\ runErr \in {"none", "ctx", "fatal", "other"}
    /\ dispatchedNodes \subseteq NodeIds
    /\ hookFailed \in NodeIds \cup {"none"}
    /\ unpublished \in BOOLEAN
    /\ faults \in Nat
    /\ history \subseteq (StepIds \X Nat \X Nat \X OutcomeKinds)

\* Type correctness of the run's variables.
TypeOK == PlaceOK /\ RoundOK /\ ResolverOK /\ JournalsOK /\ RestOK

-----------------------------------------------------------------------------
\* What each place of Run says about the two journals and the error Run returns.

OpenRun == pc \in OpenPlaces \cup {"rejected"} =>
    /\ manifest.status = "running"
    /\ runErr = "none"
    /\ durable.status \in {"none", "running"}
    /\ durable.status = "none" => pc \in {"claim", "rejected"}

ResultPending == pc = "resultWrite" =>
    /\ manifest.status = "succeeded"
    /\ runErr = "none"
    /\ pos = Len(NodeOrder) + 1
    /\ durable.status = "running"

Stopping == pc = "terminal" =>
    /\ runErr # "none"
    /\ manifest.status \in {"running", "succeeded"}
    /\ durable.status \in {"running", "succeeded"}

TerminalPending == pc = "terminalWrite" =>
    /\ runErr # "none"
    /\ manifest.status \in {"failed", "cancelled"}
    /\ durable.status \in {"running", "succeeded"}

Reporting == pc \in {"hook", "hookWrite", "done"} =>
    /\ manifest.status \in RunTerminal
    /\ manifest.status = "succeeded" <=> runErr = "none"
    /\ durable.status \in {"running", "succeeded", manifest.status}
    /\ runErr = "none" => durable.status = "succeeded"
    /\ ~unpublished /\ pc # "hookWrite" => durable = manifest

Unstarted == durable = NoJournal <=> durable.status = "none"

Control ==
    /\ OpenRun
    /\ ResultPending
    /\ Stopping
    /\ TerminalPending
    /\ Reporting
    /\ Unstarted

-----------------------------------------------------------------------------
\* Which nodes were dispatched, and what a fatal failure leaves behind.

Before(i) == {NodeOrder[j] : j \in {k \in DOMAIN NodeOrder : k < i}}

\* Places of the active node before anything of it is dispatched.
IdlePlaces == {"claim", "prerequisites", "node", "nodeWrite", "stepInput", "mapInput", "mapWrite",
               "expand", "itemInputs", "itemsWrite", "rejected", "resultWrite"}

Dispatched ==
    /\ dispatchedNodes = {h[1] : h \in history}
    /\ \A h \in history :
        \/ h[1] \in Before(pos)
        \/ pos <= Len(NodeOrder) /\ h[1] = ActiveNode /\ pc \notin IdlePlaces

FatalOutcome == \E i \in DOMAIN round.outs : round.outs[i] = "fatal"

\* A reported fatal failure is the active node's, and is, or is about to become, Run's error.
FatalIsCause ==
    \A h \in history : h[4] = "fatal" =>
        /\ pos <= Len(NodeOrder) /\ h[1] = ActiveNode
        /\ runErr = "fatal" \/ (pc = "mapSettle" /\ FatalOutcome)

RoundReported == pc = "mapSettle" =>
    /\ round.err = "fatal" => FatalOutcome
    /\ \A i \in DOMAIN round.outs : <<ActiveNode, i, attempt, round.outs[i]>> \in history

\* Run returns a fatal error only for one that was reported.
CauseIsFatal ==
    runErr = "fatal" => \E h \in history : h[1] = ActiveNode /\ h[4] = "fatal"

FailureIsCause ==
    IF runErr = "fatal" /\ Settled
    THEN manifest.status = "failed" /\ manifest.failure = ActiveNode
    ELSE manifest.failure = "none"

CancelIsCause ==
    Settled /\ manifest.status = "cancelled" => ctx = "cancelled" /\ runErr = "ctx"

Cause == FatalIsCause /\ RoundReported /\ CauseIsFatal /\ FailureIsCause /\ CancelIsCause

-----------------------------------------------------------------------------
\* The attempts spent so far.

\* Attempt a of an item may be spent now: none is reported from a on, and the one before
\* it failed retryably.
MaySpend(n, i, a) ==
    /\ \A h \in history : h[1] = n /\ h[2] = i => h[3] < a
    /\ a \in 1..Node[n].maxAttempts
    /\ a > 1 => \E o \in OutcomeKinds : RetryableOutcome(o) /\ <<n, i, a - 1, o>> \in history

StepMaySpend ==
    /\ pc \in {"attemptWrite", "invoke"} => MaySpend(ActiveNode, 0, attempt)
    /\ pc \in {"retryWrite", "retryWait"} => MaySpend(ActiveNode, 0, attempt + 1)

MapMaySpend == pc \in {"mapInvoke", "roundWrite", "roundWait"} =>
    \A i \in pending : MaySpend(ActiveNode, i, attempt)

\* The round being settled spent the latest attempt of each of its items.
RoundSpent == pc = "mapSettle" =>
    \A i \in DOMAIN round.outs :
        /\ attempt \in 1..Node[ActiveNode].maxAttempts
        /\ <<ActiveNode, i, attempt, round.outs[i]>> \in history
        /\ \A h \in history : h[1] = ActiveNode /\ h[2] = i => h[3] <= attempt

SpendInv == RetryDiscipline /\ StepMaySpend /\ MapMaySpend /\ RoundSpent

-----------------------------------------------------------------------------
\* The plan.

LEMMA PlanFacts ==
    /\ Len(NodeOrder) \in Nat
    /\ DOMAIN NodeOrder = 1..Len(NodeOrder)
    /\ \A i \in 1..Len(NodeOrder) : NodeOrder[i] \in NodeIds
    /\ \A i, j \in 1..Len(NodeOrder) : NodeOrder[i] = NodeOrder[j] => i = j
    /\ "none" \notin NodeIds
    /\ StepIds \subseteq NodeIds
<1>1. NodeOrder \in Seq(NodeIds)
  BY PlanAssumption
<1>2. Len(NodeOrder) \in Nat /\ DOMAIN NodeOrder = 1..Len(NodeOrder)
  BY <1>1, LenProperties
<1>3. QED
  BY <1>2, PlanAssumption DEF NodeIds, StepIds

LEMMA ActiveFacts ==
    ASSUME pos \in 1..(Len(NodeOrder) + 1), pos <= Len(NodeOrder)
    PROVE  ActiveNode \in NodeIds
BY PlanFacts DEF ActiveNode

-----------------------------------------------------------------------------
\* Updates of the manifest.

WithStep(m, s, e) == [m EXCEPT !.steps[s] = e]
WithItems(step, items) == [step EXCEPT !.items = items]
WithStepItems(m, s, items) == [m EXCEPT !.steps[s].items = items]

\* m2 is m in everything but the entry of step s.
Touches(m, m2, s) ==
    /\ m2 \in Manifests
    /\ m2.status = m.status /\ m2.decisions = m.decisions /\ m2.failure = m.failure
    /\ m2.result = m.result /\ m2.exitHook = m.exitHook
    /\ \A t \in StepIds \ {s} : m2.steps[t] = m.steps[t]

LEMMA SetStep ==
    ASSUME NEW m \in Manifests, NEW s \in StepIds, NEW e \in StepRecs,
           NEW m2, m2 = WithStep(m, s, e)
    PROVE  Touches(m, m2, s) /\ m2.steps[s] = e
<1>1. m2.steps = [m.steps EXCEPT ![s] = e]
  BY DEF WithStep, Manifests
<1>2. m2.steps \in [StepIds -> StepRecs]
  BY <1>1 DEF Manifests
<1>3. QED
  BY <1>1, <1>2 DEF WithStep, Touches, Manifests

LEMMA SetItems ==
    ASSUME NEW e \in StepRecs, NEW items \in Seq(ItemRecs), NEW f, f = WithItems(e, items)
    PROVE  /\ f \in StepRecs
           /\ f.items = items
           /\ f.status = e.status /\ f.attempts = e.attempts
           /\ f.isMap = e.isMap /\ f.collect = e.collect
BY DEF WithItems, StepRecs

\* A function on the indices of a list of items is such a list.
LEMMA ItemsFun ==
    ASSUME NEW items \in Seq(ItemRecs), NEW f \in [DOMAIN items -> ItemRecs]
    PROVE  f \in Seq(ItemRecs) /\ DOMAIN f = DOMAIN items /\ Len(f) = Len(items)
<1>1. Len(items) \in Nat /\ DOMAIN items = 1..Len(items)
  BY LenProperties
<1>2. QED
  BY <1>1, FunIsSeq

LEMMA StepEntry ==
    ASSUME NEW m \in Manifests, NEW s \in StepIds
    PROVE  /\ m.steps[s] \in StepRecs /\ m.steps[s] \in Entries
           /\ m.steps[s].items \in Seq(ItemRecs)
           /\ \A i \in DOMAIN m.steps[s].items :
                m.steps[s].items[i] \in ItemRecs /\ m.steps[s].items[i] \in Entries
<1>1. m.steps[s] \in StepRecs
  BY DEF Manifests
<1>2. m.steps[s].items \in Seq(ItemRecs)
  BY <1>1 DEF StepRecs
<1>3. QED
  BY <1>1, <1>2, LenProperties DEF Entries

LEMMA MarkRunningIs ==
    ASSUME NEW m \in Manifests, NEW s \in StepIds, NEW n \in Nat,
           NEW m2, m2 = MarkAttemptRunning(m, s, n)
    PROVE  Touches(m, m2, s) /\ m2.steps[s] = EntryRunning(m.steps[s], n)
<1>1. EntryRunning(m.steps[s], n) \in StepRecs
  BY StepEntry, EntryRunningIs DEF SameRest
<1>2. m2 = WithStep(m, s, EntryRunning(m.steps[s], n))
  BY DEF MarkAttemptRunning, WithStep
<1>3. QED
  BY <1>1, <1>2, SetStep

LEMMA MarkRetryingIs ==
    ASSUME NEW m \in Manifests, NEW s \in StepIds, NEW m2, m2 = MarkAttemptRetrying(m, s)
    PROVE  Touches(m, m2, s) /\ m2.steps[s] = EntryRetrying(m.steps[s])
<1>1. EntryRetrying(m.steps[s]) \in StepRecs
  BY StepEntry, EntryRetryingIs DEF SameRest
<1>2. m2 = WithStep(m, s, EntryRetrying(m.steps[s]))
  BY DEF MarkAttemptRetrying, WithStep
<1>3. QED
  BY <1>1, <1>2, SetStep

LEMMA MarkSucceededIs ==
    ASSUME NEW m \in Manifests, NEW s \in StepIds, NEW m2, m2 = MarkAttemptSucceeded(m, s)
    PROVE  Touches(m, m2, s) /\ m2.steps[s] = EntrySucceeded(m.steps[s])
<1>1. EntrySucceeded(m.steps[s]) \in StepRecs
  BY StepEntry, EntrySucceededIs DEF SameRest
<1>2. m2 = WithStep(m, s, EntrySucceeded(m.steps[s]))
  BY DEF MarkAttemptSucceeded, WithStep
<1>3. QED
  BY <1>1, <1>2, SetStep

LEMMA MarkTerminalIs ==
    ASSUME NEW m \in Manifests, NEW s \in StepIds, NEW status \in {"failed", "cancelled"},
           NEW m2, m2 = MarkAttemptTerminal(m, s, status)
    PROVE  Touches(m, m2, s) /\ m2.steps[s] = EntryTerminal(m.steps[s], status)
<1>1. EntryTerminal(m.steps[s], status) \in StepRecs
  BY StepEntry, EntryTerminalIs DEF SameRest
<1>2. m2 = WithStep(m, s, EntryTerminal(m.steps[s], status))
  BY DEF MarkAttemptTerminal, WithStep
<1>3. QED
  BY <1>1, <1>2, SetStep

LEMMA MarkSkippedIs ==
    ASSUME NEW m \in Manifests, NEW s \in StepIds, NEW m2, m2 = MarkStepSkipped(m, s)
    PROVE  /\ Touches(m, m2, s)
           /\ SameRest(m.steps[s], m2.steps[s])
           /\ m2.steps[s].status = "skipped" /\ m2.steps[s].attempts = m.steps[s].attempts
<1> DEFINE e == [m.steps[s] EXCEPT !.status = "skipped"]
<1>1. /\ SameRest(m.steps[s], e) /\ e \in StepRecs
      /\ e.status = "skipped" /\ e.attempts = m.steps[s].attempts
  BY StepEntry, SetStatus DEF SameRest, Statuses, Terminal
<1>2. m2 = WithStep(m, s, e)
  BY DEF MarkStepSkipped, WithStep
<1> HIDE DEF e
<1>3. QED
  BY <1>1, <1>2, SetStep

LEMMA ReplaceItemsIs ==
    ASSUME NEW m \in Manifests, NEW s \in StepIds, NEW items \in Seq(ItemRecs),
           NEW m2, m2 = WithStepItems(m, s, items)
    PROVE  Touches(m, m2, s) /\ m2.steps[s] = WithItems(m.steps[s], items)
<1>1. WithItems(m.steps[s], items) \in StepRecs
  BY StepEntry, SetItems
<1>2. m2 = WithStep(m, s, WithItems(m.steps[s], items))
  BY DEF WithStepItems, WithItems, WithStep
<1>3. QED
  BY <1>1, <1>2, SetStep

LEMMA MarkDecisionIs ==
    ASSUME NEW m \in Manifests, NEW d \in NodeIds,
           NEW status \in {"selected", "skipped", "failed"}, NEW case \in CaseNames,
           NEW m2, m2 = MarkDecision(m, d, status, case)
    PROVE  /\ m2 \in Manifests
           /\ m2.status = m.status /\ m2.failure = m.failure /\ m2.result = m.result
           /\ m2.exitHook = m.exitHook /\ m2.steps = m.steps
<1> DEFINE r == [node |-> d, status |-> status, case |-> case]
<1>1. r \in DecisionRecs
  BY DEF DecisionRecs
<1>2. m.decisions \in Seq(DecisionRecs)
  BY DEF Manifests
<1>3. Append(m.decisions, r) \in Seq(DecisionRecs)
  BY <1>1, <1>2, AppendProperties
<1> HIDE DEF r
<1>4. m2 = [m EXCEPT !.decisions = Append(m.decisions, r)]
  BY DEF MarkDecision, r
<1>5. QED
  BY <1>3, <1>4 DEF Manifests

\* failMapNode.
LEMMA FailMapNodeIs ==
    ASSUME NEW m \in Manifests, NEW s \in StepIds, NEW status \in {"failed", "cancelled"},
           NEW m2, m2 = FailMapNode(m, s, status)
    PROVE  LET e == m2.steps[s] IN
           /\ Touches(m, m2, s)
           /\ e \in StepRecs
           /\ e.isMap = m.steps[s].isMap /\ e.collect = m.steps[s].collect
           /\ e.status = status
           /\ \A k \in Nat \ {0} : \A last \in {"running", "failed"} :
                    m.steps[s].attempts = Trail(k, last) => e.attempts = Trail(k, status)
           /\ DOMAIN e.items = DOMAIN m.steps[s].items
           /\ \A i \in DOMAIN m.steps[s].items :
                    e.items[i] = UnfinishedItemTerminal(m.steps[s].items[i], status)
<1> DEFINE old == m.steps[s].items
           items == [i \in DOMAIN old |-> UnfinishedItemTerminal(old[i], status)]
           m1 == WithStepItems(m, s, items)
<1>1. items \in [DOMAIN old -> ItemRecs]
  BY StepEntry, UnfinishedItemTerminalIs
<1>2. items \in Seq(ItemRecs) /\ DOMAIN items = DOMAIN old
  BY <1>1, StepEntry, ItemsFun
<1>3. m2 = MarkAttemptTerminal(m1, s, status)
  BY DEF FailMapNode, WithStepItems
<1>4. \A i \in DOMAIN old : items[i] = UnfinishedItemTerminal(old[i], status)
  OBVIOUS
<1> HIDE DEF items
<1>5. Touches(m, m1, s) /\ m1.steps[s] = WithItems(m.steps[s], items)
  BY <1>2, ReplaceItemsIs
<1>6. /\ m1.steps[s].items = items /\ m1.steps[s].attempts = m.steps[s].attempts
      /\ m1.steps[s].isMap = m.steps[s].isMap /\ m1.steps[s].collect = m.steps[s].collect
  BY <1>2, <1>5, StepEntry, SetItems
<1> HIDE DEF m1
<1>7. m1 \in Manifests
  BY <1>5 DEF Touches
<1>8. Touches(m1, m2, s) /\ m2.steps[s] = EntryTerminal(m1.steps[s], status)
  BY <1>3, <1>7, MarkTerminalIs
<1>9. /\ SameRest(m1.steps[s], m2.steps[s])
      /\ m2.steps[s].status = status
      /\ \A k \in Nat \ {0} : \A last \in {"running", "failed"} :
              m1.steps[s].attempts = Trail(k, last) => m2.steps[s].attempts = Trail(k, status)
  BY <1>7, <1>8, StepEntry, EntryTerminalIs
<1>10. /\ m2.steps[s] \in StepRecs /\ m2.steps[s].items = items
       /\ m2.steps[s].isMap = m.steps[s].isMap /\ m2.steps[s].collect = m.steps[s].collect
  BY <1>6, <1>7, <1>9, StepEntry DEF SameRest
<1>11. Touches(m, m2, s)
  BY <1>5, <1>8 DEF Touches
<1>12. QED
  BY <1>2, <1>4, <1>6, <1>9, <1>10, <1>11

\* Manifest.Terminate.
LEMMA TerminateIs ==
    ASSUME NEW m \in Manifests, NEW status \in {"failed", "cancelled"},
           NEW m2, m2 = Terminate(m, status)
    PROVE  /\ m2 \in Manifests
           /\ m2.status = status /\ m2.result = "none"
           /\ m2.failure = m.failure /\ m2.exitHook = m.exitHook
           /\ \A s \in StepIds :
                LET e == m2.steps[s] IN
                /\ e.status = TerminateEntry(m.steps[s], status).status
                /\ e.attempts = TerminateEntry(m.steps[s], status).attempts
                /\ e.isMap = m.steps[s].isMap /\ e.collect = m.steps[s].collect
                /\ DOMAIN e.items = DOMAIN m.steps[s].items
                /\ \A i \in DOMAIN m.steps[s].items :
                        e.items[i] = TerminateEntry(m.steps[s].items[i], status)
<1> DEFINE Items(s) == [i \in DOMAIN m.steps[s].items |->
                            TerminateEntry(m.steps[s].items[i], status)]
           New(s) == WithItems(TerminateEntry(m.steps[s], status), Items(s))
           steps == [s \in StepIds |-> New(s)]
<1>1. ASSUME NEW s \in StepIds
      PROVE  /\ SameRest(m.steps[s], TerminateEntry(m.steps[s], status))
             /\ TerminateEntry(m.steps[s], status) \in StepRecs
             /\ TerminateEntry(m.steps[s], status).items = m.steps[s].items
  BY StepEntry, TerminateEntryIs DEF SameRest
<1>2. ASSUME NEW s \in StepIds
      PROVE  Items(s) \in Seq(ItemRecs) /\ DOMAIN Items(s) = DOMAIN m.steps[s].items
  <2>1. \A i \in DOMAIN m.steps[s].items : TerminateEntry(m.steps[s].items[i], status) \in ItemRecs
    BY StepEntry, TerminateEntryIs DEF SameRest
  <2>2. Items(s) \in [DOMAIN m.steps[s].items -> ItemRecs]
    BY <2>1
  <2>3. QED
    BY <2>2, StepEntry, ItemsFun
<1>3. DOMAIN m.steps = StepIds
  BY DEF Manifests
<1>4. m2 = [m EXCEPT !.status = status, !.result = "none", !.steps = steps]
  <2>1. \A s \in StepIds :
          [TerminateEntry(m.steps[s], status) EXCEPT
             !.items = [i \in DOMAIN @ |-> TerminateEntry(@[i], status)]] = New(s)
    BY <1>1 DEF WithItems
  <2>2. QED
    BY <1>3, <2>1 DEF Terminate
<1>5. ASSUME NEW s \in StepIds
      PROVE  /\ New(s) \in StepRecs
             /\ New(s).status = TerminateEntry(m.steps[s], status).status
             /\ New(s).attempts = TerminateEntry(m.steps[s], status).attempts
             /\ New(s).isMap = m.steps[s].isMap /\ New(s).collect = m.steps[s].collect
             /\ New(s).items = Items(s)
  <2> HIDE DEF Items
  <2>1. PICK e : e = TerminateEntry(m.steps[s], status)
    OBVIOUS
  <2>2. PICK items \in Seq(ItemRecs) : items = Items(s)
    BY <1>2
  <2>3. e \in StepRecs /\ e.isMap = m.steps[s].isMap /\ e.collect = m.steps[s].collect
    BY <1>1, <2>1, StepEntry DEF SameRest
  <2>4. QED
    BY <2>1, <2>2, <2>3, SetItems
<1> HIDE DEF New
<1>6. /\ steps \in [StepIds -> StepRecs]
      /\ \A s \in StepIds : steps[s] = New(s)
  BY <1>5
<1> HIDE DEF steps
<1>7. /\ m2 \in Manifests /\ m2.steps = steps
      /\ m2.status = status /\ m2.result = "none"
      /\ m2.failure = m.failure /\ m2.exitHook = m.exitHook
  BY <1>4, <1>6 DEF Manifests, RunTerminal
<1>8. \A s \in StepIds : \A i \in DOMAIN m.steps[s].items :
        Items(s)[i] = TerminateEntry(m.steps[s].items[i], status)
  OBVIOUS
<1> HIDE DEF Items
<1>9. QED
  BY <1>2, <1>5, <1>6, <1>7, <1>8

-----------------------------------------------------------------------------
\* Type correctness.

LEMMA InputItems ==
    ASSUME TypeOK, NEW n \in NodeIds
    PROVE  InputForNode(res, n).items \in Int
<1> DEFINE inbound == Node[n].inbound
           sources == [i \in DOMAIN inbound |-> res.outputs[inbound[i].from]]
<1>1. Len(inbound) \in Nat \ {0} /\ DOMAIN inbound = 1..Len(inbound)
  BY PlanAssumption
<1>2. \A i \in DOMAIN inbound : inbound[i].from \in NodeIds \cup {StartNode}
  <2>1. PICK j \in 1..Len(NodeOrder) : n = NodeOrder[j]
    BY PlanFacts DEF NodeIds
  <2>2. ASSUME NEW i \in DOMAIN inbound PROVE inbound[i].from \in Predecessors(n)
    BY DEF Predecessors
  <2>3. \A p \in Predecessors(n) : p = StartNode \/ \E k \in 1..(j - 1) : NodeOrder[k] = p
    BY <2>1, PlanFacts, GraphAssumption
  <2>4. QED
    BY <2>2, <2>3, PlanFacts
<1>3. \A i \in DOMAIN inbound : sources[i].items \in Int
  BY <1>2 DEF TypeOK, ResolverOK
<1>4. Len(sources) \in Int
  <2> DEFINE S == {sources[i] : i \in DOMAIN inbound}
  <2>1. sources \in [1..Len(inbound) -> S]
    BY <1>1
  <2> HIDE DEF sources, inbound, S
  <2>2. QED
    BY <1>1, <2>1, FunIsSeq
<1> HIDE DEF sources
<1>5. MergeOf(sources).items \in Int
  BY <1>4 DEF MergeOf
<1>6. NoValue.items \in Int
  BY DEF NoValue
<1>7. InputForNode(res, n) \in {NoValue, MergeOf(sources), sources[1]}
  BY DEF InputForNode, sources
<1>8. QED
  BY <1>1, <1>3, <1>5, <1>6, <1>7

\* Giving node n the value v keeps the resolver well formed.
LEMMA OutputType ==
    ASSUME TypeOK, NEW n \in NodeIds, NEW v, v.items \in Int,
           NEW r, r.outputs = [res.outputs EXCEPT ![n] = v],
           r \in [outputs : {r.outputs}, selected : {r.selected}, inactive : {r.inactive}]
    PROVE  /\ r.outputs = [m \in NodeIds \cup {StartNode} |-> r.outputs[m]]
           /\ \A m \in NodeIds \cup {StartNode} : r.outputs[m].items \in Int
BY DEF TypeOK, ResolverOK

LEMMA SetOutputType ==
    ASSUME TypeOK, NEW n \in NodeIds, NEW v, v.items \in Int, res' = SetOutput(res, n, v)
    PROVE  ResolverOK'
<1>1. SetOutput(res, n, v).outputs = [res.outputs EXCEPT ![n] = v]
  BY DEF SetOutput, TypeOK, ResolverOK
<1>2. LET r == SetOutput(res, n, v)
      IN  r \in [outputs : {r.outputs}, selected : {r.selected}, inactive : {r.inactive}]
  BY DEF SetOutput, TypeOK, ResolverOK
<1>3. PICK r : r = SetOutput(res, n, v)
  OBVIOUS
<1>4. /\ r.outputs = [m \in NodeIds \cup {StartNode} |-> r.outputs[m]]
      /\ \A m \in NodeIds \cup {StartNode} : r.outputs[m].items \in Int
      /\ r \in [outputs : {r.outputs}, selected : {r.selected}, inactive : {r.inactive}]
  <2>1. r.outputs = [res.outputs EXCEPT ![n] = v]
    BY <1>1, <1>3
  <2>2. r \in [outputs : {r.outputs}, selected : {r.selected}, inactive : {r.inactive}]
    BY <1>2, <1>3
  <2>3. QED
    BY <2>1, <2>2 DEF TypeOK, ResolverOK
<1>5. QED
  BY <1>3, <1>4 DEF ResolverOK

LEMMA InitType == ASSUME Init PROVE TypeOK
<1>1. NewResolver.outputs = [n \in NodeIds \cup {StartNode} |->
                                IF n = StartNode THEN StartValue ELSE NoValue]
  BY DEF NewResolver
<1>2. /\ res \in [outputs : {res.outputs}, selected : {res.selected}, inactive : {res.inactive}]
      /\ res.outputs = [n \in NodeIds \cup {StartNode} |-> res.outputs[n]]
      /\ \A n \in NodeIds \cup {StartNode} : res.outputs[n].items \in Int
  BY <1>1, PlanAssumption DEF Init, NewResolver, NoValue
<1>3. \A s \in StepIds : NewStep(Node[s].kind = "map", Node[s].collect) \in StepRecs
  <2>1. \A isMap, collect \in BOOLEAN : NewStep(isMap, collect) \in StepRecs
    BY DEF NewStep, StepRecs, Statuses, Terminal
  <2>2. QED
    BY <2>1, PlanAssumption, PlanFacts
<1>4. manifest \in Manifests
  BY <1>3 DEF Init, NewManifest, Manifests, HookRecords
<1>5. DOMAIN NoRound.outs = {} /\ NoRound.err = "none"
  BY DEF NoRound
<1>6. pos \in 1..(Len(NodeOrder) + 1) /\ pc \in Places
  BY PlanFacts DEF Init, Places, OpenPlaces
<1>7. pc \notin {"nodeWrite"} \cup StepPlaces \cup MapPlaces
  BY DEF Init, StepPlaces, MapPlaces
<1>8. QED
  BY <1>2, <1>4, <1>5, <1>6, <1>7 DEF Init, TypeOK, PlaceOK, RoundOK, ResolverOK,
     JournalsOK, RestOK, Errors

LEMMA PlaceKept == ASSUME TypeOK, pc \in StepPlaces \cup MapPlaces
                   PROVE  /\ ActiveNode \in StepIds /\ ActiveNode \in NodeIds
                          /\ pos \in 1..Len(NodeOrder)
                          /\ manifest \in Manifests
BY ActiveFacts, PlanFacts DEF TypeOK, PlaceOK, JournalsOK

LEMMA ActiveItemsType ==
    ASSUME TypeOK, pc \in StepPlaces \cup MapPlaces
    PROVE  /\ ActiveItems \in Seq(ItemRecs) /\ DOMAIN ActiveItems \subseteq Nat
           /\ Len(ActiveItems) \in Nat
<1>1. ActiveItems \in Seq(ItemRecs)
  BY PlaceKept, StepEntry DEF ActiveItems
<1>2. QED
  BY <1>1, LenProperties

LEMMA RoundOKStep ==
    ASSUME TypeOK, [Next]_vars
    PROVE  RoundOK'
<1>1. ASSUME Cancel \/ DeadlinePasses \/ RefuseRun \/ Claim \/ Prerequisites \/ StopAtNode \/
        SkipNode \/ DecideNode \/ NodeWrite \/ SelectNode \/ EnterNode \/ AttemptWrite \/
        RetryWrite \/ Settle \/ MapInput \/ MapWrite \/ Expand \/ ItemInputs \/ RoundWrite \/
        RoundWait \/ MapDone \/ Collect \/ CollectWrite \/ Result \/ ResultWrite \/ TerminateRun \/
        TerminalWrite \/ ExitHook \/ HookWrite
      PROVE  RoundOK'
  BY <1>1 DEF Cancel, DeadlinePasses, RefuseRun, Claim, Prerequisites, StopAtNode, SkipNode,
     DecideNode, NodeWrite, SelectNode, EnterNode, AttemptWrite, RetryWrite, Settle, MapInput,
     MapWrite, Expand, ItemInputs, RoundWrite, RoundWait, MapDone, Collect, CollectWrite,
     Result, ResultWrite, TerminateRun, TerminalWrite, ExitHook, HookWrite, Goto, Persist,
     Charge, Fail, ErrorFor, NextNode, FailMap, TypeOK, RoundOK
<1>2. ASSUME StepInput PROVE RoundOK'
  BY <1>2 DEF StepInput, TypeOK, RoundOK
<1>3. ASSUME RetryWait PROVE RoundOK'
  BY <1>3 DEF RetryWait, TypeOK, RoundOK
<1>4. ASSUME SuccessWrite PROVE RoundOK'
  BY <1>4 DEF SuccessWrite, TypeOK, RoundOK
<1>5. ASSUME ItemsWrite PROVE RoundOK'
  <2>1. DOMAIN ActiveItems \subseteq Nat
    BY <1>5, ActiveItemsType DEF ItemsWrite, MapPlaces
  <2>2. /\ attempt' \in {1, attempt}
        /\ collected' \subseteq collected
        /\ pending' = DOMAIN ActiveItems \/ UNCHANGED pending
        /\ UNCHANGED <<round, invokeErr>>
    BY <1>5 DEF ItemsWrite, StartRound
  <2>3. attempt' \in Nat /\ collected' \subseteq Nat
    BY <2>2 DEF TypeOK, RoundOK
  <2>4. pending' \subseteq Nat
    <3>1. CASE pending' = DOMAIN ActiveItems
      BY <2>1, <3>1
    <3>2. CASE UNCHANGED pending
      BY <3>2 DEF TypeOK, RoundOK
    <3>3. QED
      BY <2>2, <3>1, <3>2
  <2>5. QED
    BY <2>2, <2>3, <2>4 DEF TypeOK, RoundOK
<1>6. ASSUME InvokeStep PROVE RoundOK'
  <2>1. \A err \in Errors : InvokeStepsReturns({0}, ctx # "live", [i \in {0} |-> "succeeded"], err) =>
            err \in {"none", "ctx", "infra"}
    BY DEF InvokeStepsReturns, Errors
  <2>2. invokeErr' \in {"none", "ctx", "infra"}
    BY <1>6, <2>1 DEF InvokeStep, StepOutcome, StepUndispatched, TypeOK, RoundOK
  <2>3. UNCHANGED <<attempt, pending, round, collected>>
    BY <1>6 DEF InvokeStep
  <2>4. QED
    BY <2>2, <2>3 DEF TypeOK, RoundOK
<1>7. ASSUME MapInvoke PROVE RoundOK'
  <2>1. PICK outs \in PartialOutcomes(pending), err \in Errors : round' = [outs |-> outs, err |-> err]
    BY <1>7 DEF MapInvoke
  <2>2. DOMAIN outs \subseteq pending /\ \A i \in DOMAIN outs : outs[i] \in OutcomeKinds
    BY <2>1 DEF PartialOutcomes
  <2>3. round'.outs = outs /\ round'.err = err
    BY <2>1
  <2>4. UNCHANGED <<attempt, pending, collected, invokeErr>>
    BY <1>7 DEF MapInvoke
  <2>5. QED
    BY <2>2, <2>3, <2>4 DEF TypeOK, RoundOK
<1>8. ASSUME MapSettle PROVE RoundOK'
  <2>1. round' = NoRound /\ UNCHANGED invokeErr
    BY <1>8 DEF MapSettle
  <2>2. DOMAIN round'.outs = {} /\ round'.err = "none"
    BY <2>1 DEF NoRound
  <2>3. /\ attempt' \in {attempt, attempt + 1}
        /\ pending' \in {pending, {}, RetryItems}
        /\ collected' = collected \cup CollectedNow
    BY <1>8 DEF MapSettle, SettleRound, StartRound
  <2>4. RetryItems \subseteq Nat /\ CollectedNow \subseteq Nat
    BY DEF RetryItems, CollectedNow, TypeOK, RoundOK
  <2>5. QED
    BY <2>1, <2>2, <2>3, <2>4 DEF TypeOK, RoundOK, Errors
<1>9. CASE UNCHANGED vars
  BY <1>9 DEF vars, TypeOK, RoundOK
<1>10. QED
  BY <1>1, <1>2, <1>3, <1>4, <1>5, <1>6, <1>7, <1>8, <1>9 DEF Next, RunStep, StepNode,
     MapNode, Finished

LEMMA ResolverOKStep ==
    ASSUME TypeOK, [Next]_vars
    PROVE  ResolverOK'
<1>1. ASSUME Cancel \/ DeadlinePasses \/ RefuseRun \/ Claim \/ Prerequisites \/ StopAtNode \/
        NodeWrite \/ EnterNode \/ StepInput \/ AttemptWrite \/ InvokeStep \/ RetryWrite \/
        RetryWait \/ SuccessWrite \/ MapInput \/ MapWrite \/ Expand \/ ItemInputs \/ ItemsWrite \/
        MapInvoke \/ MapSettle \/ RoundWrite \/ RoundWait \/ MapDone \/ CollectWrite \/ Result \/
        ResultWrite \/ TerminateRun \/ TerminalWrite \/ ExitHook \/ HookWrite
      PROVE  ResolverOK'
  BY <1>1 DEF Cancel, DeadlinePasses, RefuseRun, Claim, Prerequisites, StopAtNode, NodeWrite,
     EnterNode, StepInput, AttemptWrite, InvokeStep, RetryWrite, RetryWait, SuccessWrite,
     MapInput, MapWrite, Expand, ItemInputs, ItemsWrite, MapInvoke, MapSettle, RoundWrite,
     RoundWait, MapDone, CollectWrite, Result, ResultWrite, TerminateRun, TerminalWrite,
     ExitHook, HookWrite, Goto, Persist, Charge, Fail, ErrorFor, NextNode, StepOutcome,
     StepUndispatched, InvokeError, FailMap, StartRound, SettleRound, TypeOK, ResolverOK
<1>2. ASSUME SkipNode PROVE ResolverOK'
  <2>1. res' = Deactivate(res, ActiveNode)
    BY <1>2 DEF SkipNode
  <2>2. QED
    BY <2>1 DEF Deactivate, TypeOK, ResolverOK
<1>3. ASSUME DecideNode PROVE ResolverOK'
  <2>1. ActiveNode \in NodeIds
    BY <1>3, ActiveFacts DEF DecideNode, Active, AtNode, TypeOK, PlaceOK
  <2> DEFINE v == InputForNode(res, ActiveNode)
             case == DecisionCase(ActiveNode, v)
  <2>2. v.items \in Int
    BY <2>1, InputItems
  <2>3. UNCHANGED res \/ res' = RouteDecision(res, ActiveNode, case)
    BY <1>3 DEF DecideNode
  <2>4. RouteDecision(res, ActiveNode, case).outputs = [res.outputs EXCEPT ![ActiveNode] = v]
    BY DEF RouteDecision, TypeOK, ResolverOK
  <2>5. LET r == RouteDecision(res, ActiveNode, case)
        IN  r \in [outputs : {r.outputs}, selected : {r.selected}, inactive : {r.inactive}]
    BY DEF RouteDecision, TypeOK, ResolverOK
  <2> HIDE DEF v, case
  <2>6. QED
    BY <2>1, <2>2, <2>3, <2>4, <2>5, OutputType DEF TypeOK, ResolverOK
<1>4. ASSUME SelectNode PROVE ResolverOK'
  <2>1. ActiveNode \in NodeIds
    BY <1>4, ActiveFacts DEF SelectNode, Active, AtNode, TypeOK, PlaceOK
  <2>2. /\ Node[ActiveNode].kind = "select"
        /\ ~Unresolvable(res, ActiveNode)
        /\ ~Skipped(res, ActiveNode)
    BY <1>4 DEF SelectNode, Active, CannotResolve
  <2>3. res.selected[Node[ActiveNode].decisionRef] \in DOMAIN Node[ActiveNode].selectInputs
    BY <2>2 DEF Unresolvable, Skipped
  <2>4. SelectSource(res, ActiveNode) \in NodeIds \cup {StartNode}
    BY <2>1, <2>3, PlanAssumption DEF SelectSource
  <2> DEFINE v == res.outputs[SelectSource(res, ActiveNode)]
  <2>5. v.items \in Int
    BY <2>4 DEF TypeOK, ResolverOK
  <2>6. res' = SetOutput(res, ActiveNode, v)
    BY <1>4 DEF SelectNode, SelectOutput, SetOutput
  <2> HIDE DEF v
  <2>7. QED
    BY <2>1, <2>5, <2>6, SetOutputType
<1>5. ASSUME Settle PROVE ResolverOK'
  <2>1. ActiveNode \in NodeIds
    BY <1>5, PlaceKept DEF Settle, StepPlaces
  <2>2. UNCHANGED res \/ \E v \in Node[ActiveNode].values : res' = SetOutput(res, ActiveNode, v)
    BY <1>5 DEF Settle
  <2>3. \A v \in Node[ActiveNode].values : v.items \in Int
    BY <2>1, PlanAssumption
  <2>4. CASE UNCHANGED res
    BY <2>4 DEF TypeOK, ResolverOK
  <2>5. CASE \E v \in Node[ActiveNode].values : res' = SetOutput(res, ActiveNode, v)
    BY <2>1, <2>3, <2>5, SetOutputType
  <2>6. QED
    BY <2>2, <2>4, <2>5
<1>6. ASSUME Collect PROVE ResolverOK'
  <2>1. ActiveNode \in NodeIds /\ Len(ActiveItems) \in Nat
    BY <1>6, PlaceKept, ActiveItemsType DEF Collect, MapPlaces
  <2> DEFINE v == ListOf(Len(ActiveItems))
  <2>2. UNCHANGED res \/ res' = SetOutput(res, ActiveNode, v)
    BY <1>6 DEF Collect
  <2>3. v.items \in Int
    BY <2>1 DEF ListOf
  <2> HIDE DEF v
  <2>4. CASE UNCHANGED res
    BY <2>4 DEF TypeOK, ResolverOK
  <2>5. CASE res' = SetOutput(res, ActiveNode, v)
    BY <2>1, <2>3, <2>5, SetOutputType
  <2>6. QED
    BY <2>2, <2>4, <2>5
<1>7. CASE UNCHANGED vars
  BY <1>7 DEF vars, TypeOK, ResolverOK
<1>8. QED
  BY <1>1, <1>2, <1>3, <1>4, <1>5, <1>6, <1>7 DEF Next, RunStep, StepNode, MapNode, Finished

LEMMA CaseFacts ==
    /\ "none" \in CaseNames
    /\ \A n \in NodeIds : \A v : DecisionCase(n, v) \in CaseNames
<1>1. "none" \in CaseNames
  BY Zenon DEF CaseNames
<1>2. \A n \in NodeIds : \A c \in Node[n].cases : c \in CaseNames
  BY Zenon DEF CaseNames
<1>3. QED
  BY <1>1, <1>2 DEF DecisionCase

\* The attempt of a step that was never dispatched is dropped.
MarkUndispatched(m, s) == [m EXCEPT !.steps[s] = DropUndispatched(@)]

LEMMA DropIs ==
    ASSUME NEW m \in Manifests, NEW s \in StepIds,
           NEW m2, m2 = MarkUndispatched(m, s)
    PROVE  Touches(m, m2, s) /\ m2.steps[s] = DropUndispatched(m.steps[s])
<1>1. DropUndispatched(m.steps[s]) \in StepRecs
  BY StepEntry, DropUndispatchedIs DEF SameRest
<1>2. m2 = WithStep(m, s, DropUndispatched(m.steps[s]))
  BY DEF MarkUndispatched, WithStep
<1>3. QED
  BY <1>1, <1>2, SetStep

\* A new list of items, the step otherwise as it was.
LEMMA NewItems ==
    ASSUME NEW m \in Manifests, NEW s \in StepIds, NEW items \in Seq(ItemRecs),
           NEW m2, m2 = WithStepItems(m, s, items)
    PROVE  LET e == m2.steps[s] IN
           /\ Touches(m, m2, s)
           /\ e \in StepRecs /\ e.items = items
           /\ e.status = m.steps[s].status /\ e.attempts = m.steps[s].attempts
           /\ e.isMap = m.steps[s].isMap /\ e.collect = m.steps[s].collect
<1>1. Touches(m, m2, s) /\ m2.steps[s] = WithItems(m.steps[s], items)
  BY ReplaceItemsIs
<1>2. m.steps[s] \in StepRecs
  BY StepEntry
<1>3. QED
  BY <1>1, <1>2, SetItems

LEMMA FailureIs ==
    ASSUME NEW m \in Manifests, NEW f \in NodeIds \cup {"none"},
           NEW m2, m2 = [m EXCEPT !.failure = f]
    PROVE  /\ m2 \in Manifests
           /\ m2.status = m.status /\ m2.failure = f /\ m2.result = m.result
           /\ m2.exitHook = m.exitHook /\ m2.steps = m.steps
BY DEF Manifests

\* m2 is m in everything but the entry of the active node and the recorded decisions.
Advances(m, m2) ==
    /\ m2 \in Manifests
    /\ m2.status = m.status /\ m2.failure = m.failure
    /\ m2.result = m.result /\ m2.exitHook = m.exitHook
    /\ \A t \in StepIds \ {ActiveNode} : m2.steps[t] = m.steps[t]

\* The lists of items that a round records and settles.
LEMMA RecordDispatchType ==
    ASSUME TypeOK, NEW item \in ItemRecs, NEW o
    PROVE  RecordDispatch(item, o) \in ItemRecs
<1>1. EntryRunning(item, attempt) \in ItemRecs
  BY EntryRunningIs DEF TypeOK, RoundOK, SameRest, Entries
<1>2. \A status \in {"failed", "cancelled"} :
        EntryTerminal(EntryRunning(item, attempt), status) \in ItemRecs
  BY <1>1, EntryTerminalIs DEF SameRest, Entries
<1>3. QED
  BY <1>1, <1>2 DEF RecordDispatch

LEMMA SettledItemsType ==
    ASSUME TypeOK, pc = "mapSettle", NEW verified
    PROVE  /\ SettledItems(verified) \in Seq(ItemRecs)
           /\ DOMAIN SettledItems(verified) = DOMAIN ActiveItems
<1>1. \A item \in ItemRecs :
        /\ EntrySucceeded(item) \in ItemRecs
        /\ EntryRetrying(item) \in ItemRecs
        /\ EntryTerminal(item, "failed") \in ItemRecs
  BY EntrySucceededIs, EntryRetryingIs, EntryTerminalIs DEF SameRest, Entries
<1>2. ActiveItems \in Seq(ItemRecs) /\ \A i \in DOMAIN ActiveItems : ActiveItems[i] \in ItemRecs
  BY PlaceKept, StepEntry DEF ActiveItems, MapPlaces
<1>3. SettledItems(verified) \in [DOMAIN ActiveItems -> ItemRecs]
  BY <1>1, <1>2 DEF SettledItems
<1>4. QED
  BY <1>2, <1>3, ItemsFun

LEMMA CloseRetriesType ==
    ASSUME NEW items \in Seq(ItemRecs), NEW retry
    PROVE  /\ CloseRetries(items, retry) \in Seq(ItemRecs)
           /\ DOMAIN CloseRetries(items, retry) = DOMAIN items
<1>1. \A i \in DOMAIN items : items[i] \in ItemRecs
  BY LenProperties
<1>2. \A item \in ItemRecs : EntryTerminal(item, "failed") \in ItemRecs
  BY EntryTerminalIs DEF SameRest, Entries
<1>3. CloseRetries(items, retry) \in [DOMAIN items -> ItemRecs]
  BY <1>1, <1>2 DEF CloseRetries
<1>4. QED
  BY <1>3, ItemsFun

LEMMA PendingItemsType ==
    ASSUME NEW count \in Nat, NEW items, items = [i \in 1..count |-> PendingItem]
    PROVE  /\ items \in Seq(ItemRecs) /\ DOMAIN items = 1..count
           /\ \A i \in 1..count : items[i].status = "pending" /\ items[i].attempts = <<>>
<1>1. PendingItem \in ItemRecs /\ PendingItem.status = "pending" /\ PendingItem.attempts = <<>>
  BY EmptySeq DEF PendingItem, ItemRecs, Statuses, Terminal
<1>2. items \in [1..count -> ItemRecs]
  BY <1>1
<1>3. QED
  BY <1>1, <1>2, FunIsSeq

\* The map's failure status is one of the two that failMapNode is called with.
LEMMA FailMapType ==
    ASSUME TypeOK, pc \in MapPlaces, NEW m \in Manifests, NEW err, FailMap(m, err)
    PROVE  Advances(m, manifest')
<1>1. PICK status \in {"failed", "cancelled"} : manifest' = FailMapNode(m, ActiveNode, status)
  BY DEF FailMap
<1>2. Touches(m, manifest', ActiveNode)
  BY <1>1, PlaceKept, FailMapNodeIs
<1>3. QED
  BY <1>2 DEF Touches, Advances

\* Only the end of the run touches the journal's header, and a node's handler only the
\* entry of that node.
LEMMA AdvanceStep ==
    ASSUME TypeOK, [Next]_vars, ~Result, ~TerminateRun, ~ExitHook
    PROVE  Advances(manifest, manifest')
<1>0. Advances(manifest, manifest)
  BY DEF Advances, TypeOK, JournalsOK
<1>1. ASSUME Cancel \/ DeadlinePasses \/ RefuseRun \/ Claim \/ Prerequisites \/ StopAtNode \/
        NodeWrite \/ SelectNode \/ EnterNode \/ AttemptWrite \/ RetryWrite \/ SuccessWrite \/
        MapWrite \/ ItemsWrite \/ RoundWrite \/ CollectWrite \/ ResultWrite \/ TerminalWrite \/
        HookWrite
      PROVE  Advances(manifest, manifest')
  BY <1>1, <1>0 DEF Cancel, DeadlinePasses, RefuseRun, Claim, Prerequisites, StopAtNode,
     NodeWrite, SelectNode, EnterNode, AttemptWrite, RetryWrite, SuccessWrite, MapWrite,
     ItemsWrite, RoundWrite, CollectWrite, ResultWrite, TerminalWrite, HookWrite, Goto,
     Persist, Charge, Fail, ErrorFor, NextNode, InvokeError, StartRound, Advances
<1>2. ASSUME SkipNode PROVE Advances(manifest, manifest')
  <2>1. ActiveNode \in NodeIds /\ manifest \in Manifests
    BY <1>2, ActiveFacts DEF SkipNode, AtNode, TypeOK, PlaceOK, JournalsOK
  <2>2. ActiveNode \in StepIds => Advances(manifest, MarkStepSkipped(manifest, ActiveNode))
    BY <2>1, MarkSkippedIs DEF Touches, Advances
  <2>3. Advances(manifest, MarkDecision(manifest, ActiveNode, "skipped", "none"))
    BY <2>1, CaseFacts, MarkDecisionIs DEF Advances
  <2>4. QED
    BY <1>0, <1>2, <2>1, <2>2, <2>3 DEF SkipNode
<1>3. ASSUME DecideNode PROVE Advances(manifest, manifest')
  <2>1. ActiveNode \in NodeIds /\ manifest \in Manifests
    BY <1>3, ActiveFacts DEF DecideNode, Active, AtNode, TypeOK, PlaceOK, JournalsOK
  <2>2. DecisionCase(ActiveNode, InputForNode(res, ActiveNode)) \in CaseNames
    BY <2>1, CaseFacts
  <2>3. "none" \in CaseNames
    BY CaseFacts
  <2>4. \A status \in {"selected", "failed"} : \A case \in CaseNames :
            Advances(manifest, MarkDecision(manifest, ActiveNode, status, case))
    BY <2>1, MarkDecisionIs DEF Advances
  <2>5. QED
    BY <1>3, <2>2, <2>3, <2>4 DEF DecideNode
<1>4. ASSUME StepInput PROVE Advances(manifest, manifest')
  <2>1. ActiveNode \in StepIds /\ manifest \in Manifests
    BY <1>4, PlaceKept DEF StepInput, StepPlaces
  <2>2. \A n \in Nat : Advances(manifest, MarkAttemptRunning(manifest, ActiveNode, n))
    BY <2>1, MarkRunningIs DEF Touches, Advances
  <2>3. QED
    BY <1>0, <1>4, <2>1, <2>2 DEF StepInput, TypeOK, RoundOK
<1>5. ASSUME RetryWait PROVE Advances(manifest, manifest')
  <2>1. ActiveNode \in StepIds /\ manifest \in Manifests
    BY <1>5, PlaceKept DEF RetryWait, StepPlaces
  <2>2. \A n \in Nat : Advances(manifest, MarkAttemptRunning(manifest, ActiveNode, n))
    BY <2>1, MarkRunningIs DEF Touches, Advances
  <2>3. QED
    BY <1>0, <1>5, <2>1, <2>2 DEF RetryWait, TypeOK, RoundOK
<1>6. ASSUME MapInput PROVE Advances(manifest, manifest')
  <2>1. ActiveNode \in StepIds /\ manifest \in Manifests
    BY <1>6, PlaceKept DEF MapInput, MapPlaces
  <2>2. \A n \in Nat : Advances(manifest, MarkAttemptRunning(manifest, ActiveNode, n))
    BY <2>1, MarkRunningIs DEF Touches, Advances
  <2>3. QED
    BY <1>0, <1>6, <2>1, <2>2 DEF MapInput, TypeOK, RoundOK
<1>7. ASSUME InvokeStep PROVE Advances(manifest, manifest')
  <2>1. ActiveNode \in StepIds /\ manifest \in Manifests
    BY <1>7, PlaceKept DEF InvokeStep, StepPlaces
  <2>2. Advances(manifest, MarkAttemptRetrying(manifest, ActiveNode))
    BY <2>1, MarkRetryingIs DEF Touches, Advances
  <2>3. \A o : Advances(manifest, MarkAttemptTerminal(manifest, ActiveNode, RecordedStatus(o)))
    <3>1. \A o : RecordedStatus(o) \in {"failed", "cancelled"}
      BY DEF RecordedStatus
    <3>2. ASSUME NEW status \in {"failed", "cancelled"}
          PROVE  Advances(manifest, MarkAttemptTerminal(manifest, ActiveNode, status))
      <4>1. Touches(manifest, MarkAttemptTerminal(manifest, ActiveNode, status), ActiveNode)
        BY <2>1, MarkTerminalIs
      <4>2. QED
        BY <4>1 DEF Touches, Advances
    <3>3. QED
      BY <3>1, <3>2
  <2>4. Advances(manifest, MarkUndispatched(manifest, ActiveNode))
    BY <2>1, DropIs DEF Touches, Advances
  <2>5. QED
    BY <1>7, <2>1, <2>2, <2>3, <2>4 DEF InvokeStep, StepOutcome, StepUndispatched,
       MarkUndispatched
<1>8. ASSUME Settle PROVE Advances(manifest, manifest')
  <2>1. ActiveNode \in StepIds /\ manifest \in Manifests
    BY <1>8, PlaceKept DEF Settle, StepPlaces
  <2>2. Advances(manifest, MarkAttemptSucceeded(manifest, ActiveNode))
    BY <2>1, MarkSucceededIs DEF Touches, Advances
  <2>3. Advances(manifest, MarkAttemptTerminal(manifest, ActiveNode, "failed"))
    BY <2>1, MarkTerminalIs DEF Touches, Advances
  <2>4. QED
    BY <1>8, <2>2, <2>3 DEF Settle
<1>9. ASSUME Expand PROVE Advances(manifest, manifest')
  <2>1. ActiveNode \in StepIds /\ ActiveNode \in NodeIds /\ manifest \in Manifests /\ pc \in MapPlaces
    BY <1>9, PlaceKept DEF Expand, MapPlaces
  <2>2. PICK count \in Int : count = InputForNode(res, ActiveNode).items
    BY <2>1, InputItems
  <2>3. count \in Nat => Advances(manifest, MarkMapItemsPending(manifest, ActiveNode, count))
    <3>1. SUFFICES ASSUME count \in Nat
                   PROVE  Advances(manifest, MarkMapItemsPending(manifest, ActiveNode, count))
      OBVIOUS
    <3>2. PICK items : items = [i \in 1..count |-> PendingItem]
      OBVIOUS
    <3>3. items \in Seq(ItemRecs)
      BY <3>1, <3>2, PendingItemsType
    <3>4. MarkMapItemsPending(manifest, ActiveNode, count) = WithStepItems(manifest, ActiveNode, items)
      BY <3>2 DEF MarkMapItemsPending, WithStepItems
    <3>5. QED
      BY <2>1, <3>3, <3>4, NewItems DEF Touches, Advances
  <2>4. FailMap(manifest, "other") => Advances(manifest, manifest')
    BY <2>1, FailMapType
  <2>5. QED
    BY <1>9, <2>2, <2>3, <2>4 DEF Expand
<1>10. ASSUME ItemInputs PROVE Advances(manifest, manifest')
  <2>1. manifest \in Manifests /\ pc \in MapPlaces
    BY <1>10 DEF ItemInputs, MapPlaces, TypeOK, JournalsOK
  <2>2. \A err : FailMap(manifest, err) => Advances(manifest, manifest')
    BY <2>1, FailMapType
  <2>3. QED
    BY <1>0, <1>10, <2>1, <2>2 DEF ItemInputs
<1>11. ASSUME RoundWait PROVE Advances(manifest, manifest')
  <2>1. manifest \in Manifests /\ pc \in MapPlaces
    BY <1>11 DEF RoundWait, MapPlaces, TypeOK, JournalsOK
  <2>2. \A err : FailMap(manifest, err) => Advances(manifest, manifest')
    BY <2>1, FailMapType
  <2>3. QED
    BY <1>0, <1>11, <2>1, <2>2 DEF RoundWait
<1>12. ASSUME MapDone PROVE Advances(manifest, manifest')
  <2>1. manifest \in Manifests /\ pc \in MapPlaces
    BY <1>12 DEF MapDone, MapPlaces, TypeOK, JournalsOK
  <2>2. \A err : FailMap(manifest, err) => Advances(manifest, manifest')
    BY <2>1, FailMapType
  <2>3. QED
    BY <1>0, <1>12, <2>1, <2>2 DEF MapDone
<1>13. ASSUME MapInvoke PROVE Advances(manifest, manifest')
  <2>1. ActiveNode \in StepIds /\ manifest \in Manifests
    BY <1>13, PlaceKept DEF MapInvoke, MapPlaces
  <2>2. PICK outs, items :
           /\ items = [i \in DOMAIN ActiveItems |->
                        IF i \in DOMAIN outs THEN RecordDispatch(ActiveItems[i], outs[i]) ELSE ActiveItems[i]]
           /\ manifest' = WithStepItems(manifest, ActiveNode, items)
    BY <1>13 DEF MapInvoke, ActiveItems, WithStepItems
  <2>3. ActiveItems \in Seq(ItemRecs) /\ \A i \in DOMAIN ActiveItems : ActiveItems[i] \in ItemRecs
    BY <2>1, StepEntry DEF ActiveItems
  <2>4. items \in [DOMAIN ActiveItems -> ItemRecs]
    BY <2>2, <2>3, RecordDispatchType
  <2>5. items \in Seq(ItemRecs)
    BY <2>3, <2>4, ItemsFun
  <2>6. PICK m : m = WithStepItems(manifest, ActiveNode, items)
    OBVIOUS
  <2>7. Touches(manifest, m, ActiveNode)
    BY <2>1, <2>5, <2>6, NewItems
  <2>8. QED
    BY <2>2, <2>6, <2>7 DEF Touches, Advances
<1>14. ASSUME MapSettle PROVE Advances(manifest, manifest')
  <2>1. ActiveNode \in StepIds /\ manifest \in Manifests /\ pc = "mapSettle"
    BY <1>14, PlaceKept DEF MapSettle, MapPlaces
  <2>2. PICK verified : SettleRound(verified)
    BY <1>14 DEF MapSettle
  <2>3. PICK items, settled : items = SettledItems(verified) /\ settled = WithStepItems(manifest, ActiveNode, items)
    OBVIOUS
  <2>4. items \in Seq(ItemRecs)
    BY <2>1, <2>3, SettledItemsType
  <2>5. Advances(manifest, settled) /\ settled.steps[ActiveNode].items = items
    BY <2>1, <2>3, <2>4, NewItems DEF Touches, Advances
  <2>6. settled = [manifest EXCEPT !.steps[ActiveNode].items = SettledItems(verified)]
    BY <2>3 DEF WithStepItems
  <2>7. ASSUME FailMap(settled, RoundError) PROVE Advances(manifest, manifest')
    BY <2>1, <2>5, <2>7, FailMapType DEF MapPlaces, Advances
  <2>8. PICK closed : closed = CloseRetries(items, RetryItems)
    OBVIOUS
  <2>9. closed \in Seq(ItemRecs)
    BY <2>4, <2>8, CloseRetriesType
  <2>10. \/ FailMap(settled, RoundError)
         \/ manifest' = settled
         \/ manifest' = WithStepItems(settled, ActiveNode, items)
         \/ manifest' = WithStepItems(settled, ActiveNode, closed)
    <3>1. CASE RoundError # "none"
      BY <2>2, <2>6, <3>1 DEF SettleRound
    <3>2. CASE RoundError = "none" /\ (FailedNow(verified) # {} \/ RetryItems = {})
      <4>1. manifest' = [settled EXCEPT !.steps[ActiveNode].items =
                            IF FailedNow(verified) # {} THEN CloseRetries(@, RetryItems) ELSE @]
        BY <2>2, <2>6, <3>2 DEF SettleRound
      <4>2. manifest' = WithStepItems(settled, ActiveNode,
                            IF FailedNow(verified) # {} THEN closed ELSE items)
        BY <2>5, <2>8, <4>1 DEF WithStepItems
      <4>3. QED
        BY <4>2
    <3>3. CASE RoundError = "none" /\ ~(FailedNow(verified) # {} \/ RetryItems = {})
      BY <2>2, <2>6, <3>3 DEF SettleRound
    <3>4. QED
      BY <3>1, <3>2, <3>3
  <2>11. ASSUME manifest' = WithStepItems(settled, ActiveNode, items) PROVE Advances(manifest, manifest')
    BY <2>1, <2>4, <2>5, <2>11, NewItems DEF Touches, Advances
  <2>12. ASSUME manifest' = WithStepItems(settled, ActiveNode, closed) PROVE Advances(manifest, manifest')
    BY <2>1, <2>9, <2>5, <2>12, NewItems DEF Touches, Advances
  <2>13. QED
    BY <2>5, <2>7, <2>10, <2>11, <2>12
<1>15. ASSUME Collect PROVE Advances(manifest, manifest')
  <2>1. ActiveNode \in StepIds /\ manifest \in Manifests /\ pc \in MapPlaces
    BY <1>15, PlaceKept DEF Collect, MapPlaces
  <2>2. Advances(manifest, MarkAttemptSucceeded(manifest, ActiveNode))
    BY <2>1, MarkSucceededIs DEF Touches, Advances
  <2>3. \A err : FailMap(manifest, err) => Advances(manifest, manifest')
    BY <2>1, FailMapType
  <2>4. QED
    BY <1>15, <2>2, <2>3 DEF Collect
<1>16. CASE UNCHANGED vars
  BY <1>0, <1>16 DEF vars, Advances
<1>17. QED
  BY <1>1, <1>2, <1>3, <1>4, <1>5, <1>6, <1>7, <1>8, <1>9, <1>10, <1>11, <1>12, <1>13, <1>14,
     <1>15, <1>16 DEF Next, RunStep, StepNode, MapNode, Finished

\* Every journal write stores the journal in memory, whole.
LEMMA DurableStep ==
    ASSUME [Next]_vars
    PROVE  \/ UNCHANGED durable
           \/ durable' = manifest /\ UNCHANGED manifest /\ pc # "terminal"

<1>1. ASSUME Cancel \/ DeadlinePasses \/ RefuseRun \/ Claim \/ Prerequisites \/ StopAtNode \/
        SkipNode \/ DecideNode \/ NodeWrite \/ SelectNode \/ EnterNode \/ StepInput \/ AttemptWrite
        \/ InvokeStep \/ RetryWrite \/ RetryWait \/ Settle \/ SuccessWrite \/ MapInput \/ MapWrite
        \/ Expand \/ ItemInputs \/ ItemsWrite \/ MapInvoke \/ MapSettle \/ RoundWrite \/ RoundWait
        \/ MapDone \/ Collect \/ CollectWrite \/ Result \/ ResultWrite \/ TerminateRun \/
        TerminalWrite \/ ExitHook \/ HookWrite
      PROVE  \/ UNCHANGED durable
             \/ durable' = manifest /\ UNCHANGED manifest /\ pc # "terminal"
  BY <1>1 DEF Cancel, DeadlinePasses, RefuseRun, Claim, Prerequisites, StopAtNode, SkipNode,
     DecideNode, NodeWrite, SelectNode, EnterNode, StepInput, AttemptWrite, InvokeStep,
     RetryWrite, RetryWait, Settle, SuccessWrite, MapInput, MapWrite, Expand, ItemInputs,
     ItemsWrite, MapInvoke, MapSettle, RoundWrite, RoundWait, MapDone, Collect, CollectWrite,
     Result, ResultWrite, TerminateRun, TerminalWrite, ExitHook, HookWrite, Goto, Persist,
     Charge, Fail, ErrorFor, NextNode, StepOutcome, StepUndispatched, InvokeError, FailMap,
     StartRound, SettleRound
<1>2. CASE UNCHANGED vars
  BY <1>2 DEF vars
<1>3. QED
  BY <1>1, <1>2 DEF Next, RunStep, StepNode, MapNode, Finished

\* The end of a successful run.
LEMMA ResultIs ==
    ASSUME TypeOK, Result
    PROVE  \/ UNCHANGED manifest /\ pc' = "terminal" /\ runErr' \in {"ctx", "other"}
           \/ /\ pc' = "resultWrite" /\ UNCHANGED runErr
              /\ manifest' \in Manifests
              /\ manifest'.status = "succeeded" /\ manifest'.result = "stored"
              /\ manifest'.failure = manifest.failure /\ manifest'.exitHook = manifest.exitHook
              /\ manifest'.steps = manifest.steps
<1>1. PICK m : m = [manifest EXCEPT !.status = "succeeded", !.result = "stored"]
  OBVIOUS
<1>2. /\ m \in Manifests /\ m.status = "succeeded" /\ m.result = "stored"
      /\ m.failure = manifest.failure /\ m.exitHook = manifest.exitHook /\ m.steps = manifest.steps
  BY <1>1 DEF TypeOK, JournalsOK, Manifests, RunTerminal
<1>3. \/ UNCHANGED manifest /\ pc' = "terminal" /\ runErr' \in {"ctx", "other"}
      \/ pc' = "resultWrite" /\ UNCHANGED runErr /\ manifest' = m
  BY <1>1 DEF Result, Goto, Fail, ErrorFor
<1>4. QED
  BY <1>2, <1>3

\* The deferred terminalization of every other run.
LEMMA TerminateRunIs ==
    ASSUME TypeOK, TerminateRun
    PROVE  /\ manifest' \in Manifests
           /\ TerminalStatus \in {"failed", "cancelled"}
           /\ manifest'.status = TerminalStatus /\ manifest'.result = "none"
           /\ manifest'.failure = IF runErr = "fatal" THEN ActiveNode ELSE manifest.failure
           /\ manifest'.exitHook = manifest.exitHook
           /\ \A s \in StepIds :
                LET e == manifest'.steps[s] IN
                /\ e.status = TerminateEntry(manifest.steps[s], TerminalStatus).status
                /\ e.attempts = TerminateEntry(manifest.steps[s], TerminalStatus).attempts
                /\ e.isMap = manifest.steps[s].isMap /\ e.collect = manifest.steps[s].collect
                /\ DOMAIN e.items = DOMAIN manifest.steps[s].items
                /\ \A i \in DOMAIN manifest.steps[s].items :
                        e.items[i] = TerminateEntry(manifest.steps[s].items[i], TerminalStatus)
<1>1. PICK m : m = Terminate(manifest, TerminalStatus)
  OBVIOUS
<1>2. TerminalStatus \in {"failed", "cancelled"}
  BY DEF TerminalStatus
<1>3. manifest \in Manifests
  BY DEF TypeOK, JournalsOK
<1>4. /\ m \in Manifests /\ m.failure = manifest.failure
  BY <1>1, <1>2, <1>3, TerminateIs
<1>5. PICK f : f = IF runErr = "fatal" THEN ActiveNode ELSE m.failure
  OBVIOUS
<1>6. f \in NodeIds \cup {"none"}
  BY <1>4, <1>5, ActiveFacts DEF TypeOK, PlaceOK, Manifests
<1>7. manifest' = [m EXCEPT !.failure = f]
  BY <1>1, <1>4, <1>5 DEF TerminateRun
<1>8. /\ manifest' \in Manifests
      /\ manifest'.status = m.status /\ manifest'.failure = f /\ manifest'.result = m.result
      /\ manifest'.exitHook = m.exitHook /\ manifest'.steps = m.steps
  BY <1>4, <1>6, <1>7, FailureIs
<1>9. QED
  BY <1>1, <1>2, <1>3, <1>4, <1>5, <1>8, TerminateIs

\* The record of the exit hook.
LEMMA ExitHookIs ==
    ASSUME TypeOK, ExitHook
    PROVE  \/ UNCHANGED manifest /\ pc' = "done"
           \/ /\ pc' = "hookWrite"
              /\ manifest' \in Manifests
              /\ manifest'.status = manifest.status /\ manifest'.failure = manifest.failure
              /\ manifest'.result = manifest.result /\ manifest'.exitHook # NoExitHook
              /\ manifest'.steps = manifest.steps
<1>1. ASSUME NEW settled \in BOOLEAN, NEW expired \in BOOLEAN, NEW m,
             m = [manifest EXCEPT !.exitHook = HookRecord(settled, expired)]
      PROVE  /\ m \in Manifests
             /\ m.status = manifest.status /\ m.failure = manifest.failure
             /\ m.result = manifest.result /\ m.exitHook # NoExitHook /\ m.steps = manifest.steps
  <2>1. HookRecord(settled, expired) \in HookRecords
    BY DEF HookRecords
  <2>2. HookRecord(settled, expired) # NoExitHook
    BY DEF HookRecord, NoExitHook
  <2>3. QED
    BY <1>1, <2>1, <2>2 DEF TypeOK, JournalsOK, Manifests
<1>2. CASE HasExitHook
  <2>1. PICK settled, expired \in BOOLEAN :
            manifest' = [manifest EXCEPT !.exitHook = HookRecord(settled, expired)]
    BY <1>2 DEF ExitHook
  <2>2. pc' = "hookWrite"
    BY <1>2 DEF ExitHook, Goto
  <2>3. QED
    BY <1>1, <2>1, <2>2
<1>3. CASE ~HasExitHook
  BY <1>3 DEF ExitHook, Goto
<1>4. QED
  BY <1>2, <1>3

LEMMA JournalsOKStep ==
    ASSUME TypeOK, [Next]_vars
    PROVE  JournalsOK'
<1>1. manifest \in Manifests
  BY DEF TypeOK, JournalsOK
<1>2. manifest' \in Manifests
  BY <1>1, AdvanceStep, ResultIs, TerminateRunIs, ExitHookIs DEF Advances
<1>3. QED
  BY <1>2, DurableStep DEF TypeOK, JournalsOK

LEMMA PlaceOKStep ==
    ASSUME TypeOK, [Next]_vars
    PROVE  PlaceOK'
<1>1. ASSUME Cancel PROVE PlaceOK'
  BY <1>1, PlanFacts DEF Cancel, TypeOK, PlaceOK, RoundOK, RestOK, ActiveNode, Places,
     OpenPlaces, StepPlaces, MapPlaces, SettledPlaces
<1>2. ASSUME DeadlinePasses PROVE PlaceOK'
  BY <1>2, PlanFacts DEF DeadlinePasses, TypeOK, PlaceOK, RoundOK, RestOK, ActiveNode, Places,
     OpenPlaces, StepPlaces, MapPlaces, SettledPlaces
<1>3. ASSUME RefuseRun PROVE PlaceOK'
  BY <1>3, PlanFacts DEF RefuseRun, Goto, TypeOK, PlaceOK, RoundOK, RestOK, ActiveNode,
     Places, OpenPlaces, StepPlaces, MapPlaces, SettledPlaces
<1>4. ASSUME Claim PROVE PlaceOK'
  BY <1>4, PlanFacts DEF Claim, Goto, Persist, Charge, TypeOK, PlaceOK, RoundOK, RestOK,
     ActiveNode, Places, OpenPlaces, StepPlaces, MapPlaces, SettledPlaces
<1>5. ASSUME Prerequisites PROVE PlaceOK'
  BY <1>5, PlanFacts DEF Prerequisites, Goto, Fail, Charge, ErrorFor, TypeOK, PlaceOK,
     RoundOK, RestOK, ActiveNode, Places, OpenPlaces, StepPlaces, MapPlaces, SettledPlaces
<1>6. ASSUME StopAtNode PROVE PlaceOK'
  BY <1>6, PlanFacts DEF StopAtNode, Fail, TypeOK, PlaceOK, RoundOK, RestOK, ActiveNode,
     Places, OpenPlaces, StepPlaces, MapPlaces, SettledPlaces
<1>7. ASSUME SkipNode PROVE PlaceOK'
  BY <1>7, PlanFacts DEF SkipNode, Goto, AtNode, TypeOK, PlaceOK, RoundOK, RestOK, ActiveNode,
     Places, OpenPlaces, StepPlaces, MapPlaces, SettledPlaces
<1>8. ASSUME DecideNode PROVE PlaceOK'
  BY <1>8, PlanFacts DEF DecideNode, Goto, Fail, Active, AtNode, TypeOK, PlaceOK, RoundOK,
     RestOK, ActiveNode, Places, OpenPlaces, StepPlaces, MapPlaces, SettledPlaces
<1>9. ASSUME NodeWrite PROVE PlaceOK'
  BY <1>9, PlanFacts DEF NodeWrite, Goto, Fail, Persist, Charge, ErrorFor, NextNode, TypeOK,
     PlaceOK, RoundOK, RestOK, ActiveNode, Places, OpenPlaces, StepPlaces, MapPlaces,
     SettledPlaces
<1>10. ASSUME SelectNode PROVE PlaceOK'
  BY <1>10, PlanFacts DEF SelectNode, Goto, NextNode, Active, AtNode, TypeOK, PlaceOK,
     RoundOK, RestOK, ActiveNode, Places, OpenPlaces, StepPlaces, MapPlaces, SettledPlaces
<1>11. ASSUME EnterNode PROVE PlaceOK'
  <2>1. /\ pos <= Len(NodeOrder) /\ UNCHANGED <<pos, runErr>>
        /\ runErr = "none"
        /\ \/ Node[ActiveNode].kind = "step" /\ pc' = "stepInput"
           \/ Node[ActiveNode].kind = "map" /\ pc' = "mapInput"
    BY <1>11 DEF EnterNode, Active, AtNode, Goto, TypeOK, PlaceOK, SettledPlaces
  <2>2. ActiveNode \in NodeIds /\ UNCHANGED ActiveNode
    BY <2>1, ActiveFacts DEF TypeOK, PlaceOK, ActiveNode
  <2>3. ActiveNode \in StepIds
    BY <2>1, <2>2 DEF StepIds
  <2>4. QED
    BY <2>1, <2>2, <2>3 DEF TypeOK, PlaceOK, Places, OpenPlaces, StepPlaces, MapPlaces, SettledPlaces
<1>12. ASSUME StepInput PROVE PlaceOK'
  BY <1>12, PlanFacts DEF StepInput, Goto, Fail, Charge, ErrorFor, TypeOK, PlaceOK, RoundOK,
     RestOK, ActiveNode, Places, OpenPlaces, StepPlaces, MapPlaces, SettledPlaces
<1>13. ASSUME AttemptWrite PROVE PlaceOK'
  BY <1>13, PlanFacts DEF AttemptWrite, Goto, Fail, Persist, Charge, ErrorFor, TypeOK,
     PlaceOK, RoundOK, RestOK, ActiveNode, Places, OpenPlaces, StepPlaces, MapPlaces,
     SettledPlaces
<1>14. ASSUME InvokeStep PROVE PlaceOK'
  BY <1>14, PlanFacts DEF InvokeStep, Goto, Fail, StepOutcome, StepUndispatched, InvokeError,
     TypeOK, PlaceOK, RoundOK, RestOK, ActiveNode, Places, OpenPlaces, StepPlaces, MapPlaces,
     SettledPlaces
<1>15. ASSUME RetryWrite PROVE PlaceOK'
  BY <1>15, PlanFacts DEF RetryWrite, Goto, Fail, Persist, Charge, ErrorFor, TypeOK, PlaceOK,
     RoundOK, RestOK, ActiveNode, Places, OpenPlaces, StepPlaces, MapPlaces, SettledPlaces
<1>16. ASSUME RetryWait PROVE PlaceOK'
  BY <1>16, PlanFacts DEF RetryWait, Goto, Fail, TypeOK, PlaceOK, RoundOK, RestOK, ActiveNode,
     Places, OpenPlaces, StepPlaces, MapPlaces, SettledPlaces
<1>17. ASSUME Settle PROVE PlaceOK'
  BY <1>17, PlanFacts DEF Settle, Goto, Fail, Charge, TypeOK, PlaceOK, RoundOK, RestOK,
     ActiveNode, Places, OpenPlaces, StepPlaces, MapPlaces, SettledPlaces
<1>18. ASSUME SuccessWrite PROVE PlaceOK'
  BY <1>18, PlanFacts DEF SuccessWrite, Goto, Fail, Persist, Charge, InvokeError, NextNode,
     TypeOK, PlaceOK, RoundOK, RestOK, ActiveNode, Places, OpenPlaces, StepPlaces, MapPlaces,
     SettledPlaces
<1>19. ASSUME MapInput PROVE PlaceOK'
  BY <1>19, PlanFacts DEF MapInput, Goto, Fail, Charge, ErrorFor, TypeOK, PlaceOK, RoundOK,
     RestOK, ActiveNode, Places, OpenPlaces, StepPlaces, MapPlaces, SettledPlaces
<1>20. ASSUME MapWrite PROVE PlaceOK'
  BY <1>20, PlanFacts DEF MapWrite, Goto, Fail, Persist, Charge, ErrorFor, TypeOK, PlaceOK,
     RoundOK, RestOK, ActiveNode, Places, OpenPlaces, StepPlaces, MapPlaces, SettledPlaces
<1>21. ASSUME Expand PROVE PlaceOK'
  BY <1>21, PlanFacts DEF Expand, Goto, Fail, FailMap, TypeOK, PlaceOK, RoundOK, RestOK,
     ActiveNode, Places, OpenPlaces, StepPlaces, MapPlaces, SettledPlaces
<1>22. ASSUME ItemInputs PROVE PlaceOK'
  BY <1>22, PlanFacts DEF ItemInputs, Goto, Fail, FailMap, Charge, ErrorFor, TypeOK, PlaceOK,
     RoundOK, RestOK, ActiveNode, Places, OpenPlaces, StepPlaces, MapPlaces, SettledPlaces
<1>23. ASSUME ItemsWrite PROVE PlaceOK'
  BY <1>23, PlanFacts DEF ItemsWrite, Goto, Fail, StartRound, Persist, Charge, ErrorFor,
     TypeOK, PlaceOK, RoundOK, RestOK, ActiveNode, Places, OpenPlaces, StepPlaces, MapPlaces,
     SettledPlaces
<1>24. ASSUME MapInvoke PROVE PlaceOK'
  BY <1>24, PlanFacts DEF MapInvoke, Goto, TypeOK, PlaceOK, RoundOK, RestOK, ActiveNode,
     Places, OpenPlaces, StepPlaces, MapPlaces, SettledPlaces
<1>25. ASSUME MapSettle PROVE PlaceOK'
  BY <1>25, PlanFacts DEF MapSettle, Goto, Fail, FailMap, StartRound, SettleRound, Charge,
     TypeOK, PlaceOK, RoundOK, RestOK, ActiveNode, Places, OpenPlaces, StepPlaces, MapPlaces,
     SettledPlaces
<1>26. ASSUME RoundWrite PROVE PlaceOK'
  BY <1>26, PlanFacts DEF RoundWrite, Goto, Fail, Persist, Charge, ErrorFor, TypeOK, PlaceOK,
     RoundOK, RestOK, ActiveNode, Places, OpenPlaces, StepPlaces, MapPlaces, SettledPlaces
<1>27. ASSUME RoundWait PROVE PlaceOK'
  BY <1>27, PlanFacts DEF RoundWait, Goto, Fail, FailMap, TypeOK, PlaceOK, RoundOK, RestOK,
     ActiveNode, Places, OpenPlaces, StepPlaces, MapPlaces, SettledPlaces
<1>28. ASSUME MapDone PROVE PlaceOK'
  BY <1>28, PlanFacts DEF MapDone, Goto, Fail, FailMap, TypeOK, PlaceOK, RoundOK, RestOK,
     ActiveNode, Places, OpenPlaces, StepPlaces, MapPlaces, SettledPlaces
<1>29. ASSUME Collect PROVE PlaceOK'
  BY <1>29, PlanFacts DEF Collect, Goto, Fail, FailMap, Charge, ErrorFor, TypeOK, PlaceOK,
     RoundOK, RestOK, ActiveNode, Places, OpenPlaces, StepPlaces, MapPlaces, SettledPlaces
<1>30. ASSUME CollectWrite PROVE PlaceOK'
  BY <1>30, PlanFacts DEF CollectWrite, Goto, Fail, Persist, Charge, ErrorFor, NextNode,
     TypeOK, PlaceOK, RoundOK, RestOK, ActiveNode, Places, OpenPlaces, StepPlaces, MapPlaces,
     SettledPlaces
<1>31. ASSUME Result PROVE PlaceOK'
  BY <1>31, PlanFacts DEF Result, Goto, Fail, Charge, ErrorFor, TypeOK, PlaceOK, RoundOK,
     RestOK, ActiveNode, Places, OpenPlaces, StepPlaces, MapPlaces, SettledPlaces
<1>32. ASSUME ResultWrite PROVE PlaceOK'
  BY <1>32, PlanFacts DEF ResultWrite, Goto, Fail, Persist, Charge, ErrorFor, TypeOK, PlaceOK,
     RoundOK, RestOK, ActiveNode, Places, OpenPlaces, StepPlaces, MapPlaces, SettledPlaces
<1>33. ASSUME TerminateRun PROVE PlaceOK'
  BY <1>33, PlanFacts DEF TerminateRun, Goto, TypeOK, PlaceOK, RoundOK, RestOK, ActiveNode,
     Places, OpenPlaces, StepPlaces, MapPlaces, SettledPlaces
<1>34. ASSUME TerminalWrite PROVE PlaceOK'
  BY <1>34, PlanFacts DEF TerminalWrite, Goto, Persist, Charge, TypeOK, PlaceOK, RoundOK,
     RestOK, ActiveNode, Places, OpenPlaces, StepPlaces, MapPlaces, SettledPlaces
<1>35. ASSUME ExitHook PROVE PlaceOK'
  BY <1>35, PlanFacts DEF ExitHook, Goto, TypeOK, PlaceOK, RoundOK, RestOK, ActiveNode,
     Places, OpenPlaces, StepPlaces, MapPlaces, SettledPlaces
<1>36. ASSUME HookWrite PROVE PlaceOK'
  BY <1>36, PlanFacts DEF HookWrite, Goto, Persist, Charge, TypeOK, PlaceOK, RoundOK, RestOK,
     ActiveNode, Places, OpenPlaces, StepPlaces, MapPlaces, SettledPlaces
<1>37. CASE UNCHANGED vars
  BY <1>37 DEF vars, TypeOK, PlaceOK, ActiveNode
<1>38. QED
  BY <1>1, <1>2, <1>3, <1>4, <1>5, <1>6, <1>7, <1>8, <1>9, <1>10, <1>11, <1>12, <1>13, <1>14,
     <1>15, <1>16, <1>17, <1>18, <1>19, <1>20, <1>21, <1>22, <1>23, <1>24, <1>25, <1>26,
     <1>27, <1>28, <1>29, <1>30, <1>31, <1>32, <1>33, <1>34, <1>35, <1>36, <1>37 DEF Next,
     RunStep, StepNode, MapNode, Finished

\* A nonempty set of naturals has a least element.
LEMMA LeastOf ==
    ASSUME NEW S \in SUBSET Nat, S # {}
    PROVE  \E i \in S : \A j \in S : i <= j
<1> DEFINE Less == OpToRel(<, Nat)
<1>1. \A i, j \in Nat : <<i, j>> \in Less <=> i < j
  BY DEF OpToRel
<1>2. IsWellFoundedOn(Less, Nat)
  BY NatLessThanWellFounded
<1> HIDE DEF Less
<1>3. \E i \in S : \A j \in S : ~ (<<j, i>> \in Less)
  BY <1>2, WFMin
<1>4. PICK i \in S : \A j \in S : ~ (<<j, i>> \in Less)
  BY <1>3
<1>5. ASSUME NEW j \in S PROVE i <= j
  <2>1. i \in Nat /\ j \in Nat /\ ~ (<<j, i>> \in Less)
    BY <1>4
  <2>2. ~ (j < i)
    BY <1>1, <2>1
  <2>3. QED
    BY <2>1, <2>2
<1>6. QED
  BY <1>5

LEMMA RestOKStep ==
    ASSUME TypeOK, [Next]_vars
    PROVE  RestOK'
<1>1. ASSUME Cancel PROVE RestOK'
  BY <1>1 DEF Cancel, TypeOK, RestOK
<1>2. ASSUME DeadlinePasses PROVE RestOK'
  BY <1>2 DEF DeadlinePasses, TypeOK, RestOK
<1>3. ASSUME RefuseRun PROVE RestOK'
  BY <1>3 DEF RefuseRun, Goto, TypeOK, RestOK
<1>4. ASSUME Claim PROVE RestOK'
  BY <1>4 DEF Claim, Goto, Persist, Charge, TypeOK, RestOK
<1>5. ASSUME Prerequisites PROVE RestOK'
  BY <1>5 DEF Prerequisites, Goto, Fail, Charge, ErrorFor, TypeOK, RestOK
<1>6. ASSUME StopAtNode PROVE RestOK'
  BY <1>6 DEF StopAtNode, Fail, TypeOK, RestOK
<1>7. ASSUME SkipNode PROVE RestOK'
  BY <1>7 DEF SkipNode, Goto, AtNode, TypeOK, RestOK
<1>8. ASSUME DecideNode PROVE RestOK'
  BY <1>8 DEF DecideNode, Goto, Fail, Active, AtNode, TypeOK, RestOK
<1>9. ASSUME NodeWrite PROVE RestOK'
  BY <1>9 DEF NodeWrite, Goto, Fail, Persist, Charge, ErrorFor, NextNode, TypeOK, RestOK
<1>10. ASSUME SelectNode PROVE RestOK'
  BY <1>10 DEF SelectNode, Goto, NextNode, Active, AtNode, TypeOK, RestOK
<1>11. ASSUME EnterNode PROVE RestOK'
  BY <1>11 DEF EnterNode, Goto, TypeOK, RestOK
<1>12. ASSUME StepInput PROVE RestOK'
  BY <1>12 DEF StepInput, Goto, Fail, Charge, ErrorFor, TypeOK, RestOK
<1>13. ASSUME AttemptWrite PROVE RestOK'
  BY <1>13 DEF AttemptWrite, Goto, Fail, Persist, Charge, ErrorFor, TypeOK, RestOK
<1>14. ASSUME InvokeStep PROVE RestOK'
  <2>1. ActiveNode \in StepIds /\ ActiveNode \in NodeIds /\ attempt \in Nat
    BY <1>14, PlaceKept DEF InvokeStep, StepPlaces, TypeOK, RoundOK
  <2>2. runErr' \in {"none", "ctx", "fatal", "other"}
    BY <1>14 DEF InvokeStep, StepOutcome, StepUndispatched, InvokeError, Goto, Fail, TypeOK, RestOK
  <2>3. \A o \in OutcomeKinds : <<ActiveNode, 0, attempt, o>> \in StepIds \X Nat \X Nat \X OutcomeKinds
    BY <2>1
  <2>4. /\ dispatchedNodes' \subseteq dispatchedNodes \cup {ActiveNode}
        /\ \/ UNCHANGED history
           \/ \E o \in OutcomeKinds : history' = history \cup {<<ActiveNode, 0, attempt, o>>}
        /\ UNCHANGED <<ctx, hookFailed, unpublished, faults>>
    BY <1>14 DEF InvokeStep, StepOutcome, StepUndispatched
  <2>5. dispatchedNodes' \subseteq NodeIds
    BY <2>1, <2>4 DEF TypeOK, RestOK
  <2>6. history' \subseteq (StepIds \X Nat \X Nat \X OutcomeKinds)
    BY <2>3, <2>4 DEF TypeOK, RestOK
  <2>7. QED
    BY <2>2, <2>4, <2>5, <2>6 DEF TypeOK, RestOK
<1>15. ASSUME RetryWrite PROVE RestOK'
  BY <1>15 DEF RetryWrite, Goto, Fail, Persist, Charge, ErrorFor, TypeOK, RestOK
<1>16. ASSUME RetryWait PROVE RestOK'
  BY <1>16 DEF RetryWait, Goto, Fail, TypeOK, RestOK
<1>17. ASSUME Settle PROVE RestOK'
  <2>1. faults' \in {faults, faults + 1} /\ faults \in Nat
    BY <1>17 DEF Settle, Charge, TypeOK, RestOK
  <2>2. runErr' \in {"none", "ctx", "fatal", "other"}
    BY <1>17 DEF Settle, Goto, Fail, TypeOK, RestOK
  <2>3. UNCHANGED <<ctx, dispatchedNodes, hookFailed, unpublished, history>>
    BY <1>17 DEF Settle
  <2>4. QED
    BY <2>1, <2>2, <2>3 DEF TypeOK, RestOK
<1>18. ASSUME SuccessWrite PROVE RestOK'
  BY <1>18 DEF SuccessWrite, Goto, Fail, Persist, Charge, InvokeError, NextNode, TypeOK,
     RestOK
<1>19. ASSUME MapInput PROVE RestOK'
  BY <1>19 DEF MapInput, Goto, Fail, Charge, ErrorFor, TypeOK, RestOK
<1>20. ASSUME MapWrite PROVE RestOK'
  BY <1>20 DEF MapWrite, Goto, Fail, Persist, Charge, ErrorFor, TypeOK, RestOK
<1>21. ASSUME Expand PROVE RestOK'
  BY <1>21 DEF Expand, Goto, Fail, FailMap, TypeOK, RestOK
<1>22. ASSUME ItemInputs PROVE RestOK'
  BY <1>22 DEF ItemInputs, Goto, Fail, FailMap, Charge, ErrorFor, TypeOK, RestOK
<1>23. ASSUME ItemsWrite PROVE RestOK'
  BY <1>23 DEF ItemsWrite, Goto, Fail, StartRound, Persist, Charge, ErrorFor, TypeOK, RestOK
<1>24. ASSUME MapInvoke PROVE RestOK'
  <2>1. ActiveNode \in StepIds /\ ActiveNode \in NodeIds /\ attempt \in Nat /\ pending \subseteq Nat
    BY <1>24, PlaceKept DEF MapInvoke, MapPlaces, TypeOK, RoundOK
  <2>2. PICK outs \in PartialOutcomes(pending) :
           /\ history' = history \cup {<<ActiveNode, i, attempt, outs[i]>> : i \in DOMAIN outs}
           /\ dispatchedNodes' \in {dispatchedNodes, dispatchedNodes \cup {ActiveNode}}
    BY <1>24 DEF MapInvoke
  <2>3. DOMAIN outs \subseteq pending /\ \A i \in DOMAIN outs : outs[i] \in OutcomeKinds
    BY DEF PartialOutcomes
  <2>4. \A i \in DOMAIN outs :
            <<ActiveNode, i, attempt, outs[i]>> \in StepIds \X Nat \X Nat \X OutcomeKinds
    BY <2>1, <2>3
  <2>5. history' \subseteq (StepIds \X Nat \X Nat \X OutcomeKinds)
    BY <2>2, <2>4 DEF TypeOK, RestOK
  <2>6. dispatchedNodes' \subseteq NodeIds
    BY <2>1, <2>2 DEF TypeOK, RestOK
  <2>7. UNCHANGED <<ctx, runErr, hookFailed, unpublished, faults>>
    BY <1>24 DEF MapInvoke, Goto
  <2>8. QED
    BY <2>5, <2>6, <2>7 DEF TypeOK, RestOK
<1>25. ASSUME MapSettle PROVE RestOK'
  <2>1. faults' \in Nat
    BY <1>25 DEF MapSettle, Charge, TypeOK, RestOK
  <2>2. RoundError \in {"none", "ctx", "fatal", "other"}
    BY DEF RoundError, InvokeError
  <2>3. runErr' \in {runErr, RoundError}
    BY <1>25 DEF MapSettle, SettleRound, FailMap, StartRound, Goto, Fail
  <2>4. UNCHANGED <<ctx, dispatchedNodes, hookFailed, unpublished, history>>
    BY <1>25 DEF MapSettle
  <2>5. QED
    BY <2>1, <2>2, <2>3, <2>4 DEF TypeOK, RestOK
<1>26. ASSUME RoundWrite PROVE RestOK'
  BY <1>26 DEF RoundWrite, Goto, Fail, Persist, Charge, ErrorFor, TypeOK, RestOK
<1>27. ASSUME RoundWait PROVE RestOK'
  BY <1>27 DEF RoundWait, Goto, Fail, FailMap, TypeOK, RestOK
<1>28. ASSUME MapDone PROVE RestOK'
  BY <1>28 DEF MapDone, Goto, Fail, FailMap, TypeOK, RestOK
<1>29. ASSUME Collect PROVE RestOK'
  BY <1>29 DEF Collect, Goto, Fail, FailMap, Charge, ErrorFor, TypeOK, RestOK
<1>30. ASSUME CollectWrite PROVE RestOK'
  BY <1>30 DEF CollectWrite, Goto, Fail, Persist, Charge, ErrorFor, NextNode, TypeOK, RestOK
<1>31. ASSUME Result PROVE RestOK'
  BY <1>31 DEF Result, Goto, Fail, Charge, ErrorFor, TypeOK, RestOK
<1>32. ASSUME ResultWrite PROVE RestOK'
  BY <1>32 DEF ResultWrite, Goto, Fail, Persist, Charge, ErrorFor, TypeOK, RestOK
<1>33. ASSUME TerminateRun PROVE RestOK'
  BY <1>33 DEF TerminateRun, Goto, TypeOK, RestOK
<1>34. ASSUME TerminalWrite PROVE RestOK'
  BY <1>34 DEF TerminalWrite, Goto, Persist, Charge, TypeOK, RestOK
<1>35. ASSUME ExitHook PROVE RestOK'
  <2>1. \A S \in SUBSET DOMAIN NodeOrder : S # {} =>
            NodeOrder[CHOOSE i \in S : \A j \in S : i <= j] \in NodeIds
    <3>1. SUFFICES ASSUME NEW S \in SUBSET DOMAIN NodeOrder, S # {}
                   PROVE  NodeOrder[CHOOSE i \in S : \A j \in S : i <= j] \in NodeIds
      OBVIOUS
    <3>2. \E i \in S : \A j \in S : i <= j
      BY PlanFacts, <3>1, LeastOf
    <3>3. QED
      BY <3>2 DEF NodeIds
  <2>2. FailedNode \in NodeIds \cup {"none"}
    BY <2>1 DEF FailedNode, TypeOK, JournalsOK, Manifests
  <2>3. hookFailed' \in {FailedNode, hookFailed}
    BY <1>35 DEF ExitHook
  <2>4. UNCHANGED <<ctx, runErr, dispatchedNodes, unpublished, faults, history>>
    BY <1>35 DEF ExitHook, Goto
  <2>5. QED
    BY <2>2, <2>3, <2>4 DEF TypeOK, RestOK
<1>36. ASSUME HookWrite PROVE RestOK'
  BY <1>36 DEF HookWrite, Goto, Persist, Charge, TypeOK, RestOK
<1>37. CASE UNCHANGED vars
  BY <1>37 DEF vars, TypeOK, RestOK
<1>38. QED
  BY <1>1, <1>2, <1>3, <1>4, <1>5, <1>6, <1>7, <1>8, <1>9, <1>10, <1>11, <1>12, <1>13, <1>14,
     <1>15, <1>16, <1>17, <1>18, <1>19, <1>20, <1>21, <1>22, <1>23, <1>24, <1>25, <1>26,
     <1>27, <1>28, <1>29, <1>30, <1>31, <1>32, <1>33, <1>34, <1>35, <1>36, <1>37 DEF Next,
     RunStep, StepNode, MapNode, Finished

\* Run keeps its variables well typed: the manifest and the durable journal always are
\* journals of the plan, and the active node of a step or map place is one.
THEOREM TypeCorrect == Spec => []TypeOK
<1>1. TypeOK /\ [Next]_vars => TypeOK'
  BY PlaceOKStep, RoundOKStep, ResolverOKStep, JournalsOKStep, RestOKStep DEF TypeOK
<1>2. QED
  BY <1>1, InitType, PTL DEF Spec

-----------------------------------------------------------------------------
\* Places and journals.

LEMMA ControlInit == ASSUME Init PROVE Control
<1>1. manifest.status = "running" /\ durable = NoJournal /\ durable.status = "none"
  BY DEF Init, NewManifest, NoJournal
<1>2. QED
  BY <1>1 DEF Init, Control, OpenRun, ResultPending, Stopping, TerminalPending, Reporting, Unstarted

LEMMA ControlStep ==
    ASSUME TypeOK, Control, [Next]_vars
    PROVE  Control'
<1>0. /\ manifest.status \in {"running", "succeeded", "failed", "cancelled"}
      /\ NoJournal.status = "none"
      /\ runErr # "none" => pc \in {"terminal"} \cup SettledPlaces
  BY DEF TypeOK, PlaceOK, JournalsOK, Manifests, RunTerminal, NoJournal
<1>1. ASSUME Cancel, manifest'.status = manifest.status PROVE Control'
  BY <1>0, <1>1 DEF Cancel, Control, OpenRun, ResultPending, Stopping, TerminalPending,
     Reporting, Unstarted, Places, OpenPlaces, StepPlaces, MapPlaces, SettledPlaces,
     RunTerminal
<1>2. ASSUME DeadlinePasses, manifest'.status = manifest.status PROVE Control'
  BY <1>0, <1>2 DEF DeadlinePasses, Control, OpenRun, ResultPending, Stopping,
     TerminalPending, Reporting, Unstarted, Places, OpenPlaces, StepPlaces, MapPlaces,
     SettledPlaces, RunTerminal
<1>3. ASSUME RefuseRun, manifest'.status = manifest.status PROVE Control'
  BY <1>0, <1>3 DEF RefuseRun, Goto, Control, OpenRun, ResultPending, Stopping,
     TerminalPending, Reporting, Unstarted, Places, OpenPlaces, StepPlaces, MapPlaces,
     SettledPlaces, RunTerminal
<1>4. ASSUME Claim, manifest'.status = manifest.status PROVE Control'
  BY <1>0, <1>4 DEF Claim, Goto, Persist, Charge, Control, OpenRun, ResultPending, Stopping,
     TerminalPending, Reporting, Unstarted, Places, OpenPlaces, StepPlaces, MapPlaces,
     SettledPlaces, RunTerminal
<1>5. ASSUME Prerequisites, manifest'.status = manifest.status PROVE Control'
  BY <1>0, <1>5 DEF Prerequisites, Goto, Fail, Charge, ErrorFor, Control, OpenRun,
     ResultPending, Stopping, TerminalPending, Reporting, Unstarted, Places, OpenPlaces,
     StepPlaces, MapPlaces, SettledPlaces, RunTerminal
<1>6. ASSUME StopAtNode, manifest'.status = manifest.status PROVE Control'
  BY <1>0, <1>6 DEF StopAtNode, Fail, AtNode, Control, OpenRun, ResultPending, Stopping,
     TerminalPending, Reporting, Unstarted, Places, OpenPlaces, StepPlaces, MapPlaces,
     SettledPlaces, RunTerminal
<1>7. ASSUME SkipNode, manifest'.status = manifest.status PROVE Control'
  BY <1>0, <1>7 DEF SkipNode, AtNode, Goto, Control, OpenRun, ResultPending, Stopping,
     TerminalPending, Reporting, Unstarted, Places, OpenPlaces, StepPlaces, MapPlaces,
     SettledPlaces, RunTerminal
<1>8. ASSUME DecideNode, manifest'.status = manifest.status PROVE Control'
  BY <1>0, <1>8 DEF DecideNode, Goto, Fail, Active, AtNode, Control, OpenRun, ResultPending,
     Stopping, TerminalPending, Reporting, Unstarted, Places, OpenPlaces, StepPlaces,
     MapPlaces, SettledPlaces, RunTerminal
<1>9. ASSUME NodeWrite, manifest'.status = manifest.status PROVE Control'
  BY <1>0, <1>9 DEF NodeWrite, Goto, Fail, Persist, Charge, ErrorFor, NextNode, Control,
     OpenRun, ResultPending, Stopping, TerminalPending, Reporting, Unstarted, Places,
     OpenPlaces, StepPlaces, MapPlaces, SettledPlaces, RunTerminal
<1>10. ASSUME SelectNode, manifest'.status = manifest.status PROVE Control'
  BY <1>0, <1>10 DEF SelectNode, Goto, NextNode, Active, AtNode, Control, OpenRun,
     ResultPending, Stopping, TerminalPending, Reporting, Unstarted, Places, OpenPlaces,
     StepPlaces, MapPlaces, SettledPlaces, RunTerminal
<1>11. ASSUME EnterNode, manifest'.status = manifest.status PROVE Control'
  BY <1>0, <1>11 DEF EnterNode, Goto, Active, AtNode, Control, OpenRun, ResultPending,
     Stopping, TerminalPending, Reporting, Unstarted, Places, OpenPlaces, StepPlaces,
     MapPlaces, SettledPlaces, RunTerminal
<1>12. ASSUME StepInput, manifest'.status = manifest.status PROVE Control'
  BY <1>0, <1>12 DEF StepInput, Goto, Fail, Charge, ErrorFor, Control, OpenRun, ResultPending,
     Stopping, TerminalPending, Reporting, Unstarted, Places, OpenPlaces, StepPlaces,
     MapPlaces, SettledPlaces, RunTerminal
<1>13. ASSUME AttemptWrite, manifest'.status = manifest.status PROVE Control'
  BY <1>0, <1>13 DEF AttemptWrite, Goto, Fail, Persist, Charge, ErrorFor, Control, OpenRun,
     ResultPending, Stopping, TerminalPending, Reporting, Unstarted, Places, OpenPlaces,
     StepPlaces, MapPlaces, SettledPlaces, RunTerminal
<1>14. ASSUME InvokeStep, manifest'.status = manifest.status PROVE Control'
  BY <1>0, <1>14 DEF InvokeStep, Goto, Fail, StepOutcome, StepUndispatched, InvokeError,
     Control, OpenRun, ResultPending, Stopping, TerminalPending, Reporting, Unstarted, Places,
     OpenPlaces, StepPlaces, MapPlaces, SettledPlaces, RunTerminal
<1>15. ASSUME RetryWrite, manifest'.status = manifest.status PROVE Control'
  BY <1>0, <1>15 DEF RetryWrite, Goto, Fail, Persist, Charge, ErrorFor, Control, OpenRun,
     ResultPending, Stopping, TerminalPending, Reporting, Unstarted, Places, OpenPlaces,
     StepPlaces, MapPlaces, SettledPlaces, RunTerminal
<1>16. ASSUME RetryWait, manifest'.status = manifest.status PROVE Control'
  BY <1>0, <1>16 DEF RetryWait, Goto, Fail, Control, OpenRun, ResultPending, Stopping,
     TerminalPending, Reporting, Unstarted, Places, OpenPlaces, StepPlaces, MapPlaces,
     SettledPlaces, RunTerminal
<1>17. ASSUME Settle, manifest'.status = manifest.status PROVE Control'
  BY <1>0, <1>17 DEF Settle, Goto, Fail, Charge, Control, OpenRun, ResultPending, Stopping,
     TerminalPending, Reporting, Unstarted, Places, OpenPlaces, StepPlaces, MapPlaces,
     SettledPlaces, RunTerminal
<1>18. ASSUME SuccessWrite, manifest'.status = manifest.status PROVE Control'
  BY <1>0, <1>18 DEF SuccessWrite, Goto, Fail, Persist, Charge, InvokeError, NextNode,
     Control, OpenRun, ResultPending, Stopping, TerminalPending, Reporting, Unstarted, Places,
     OpenPlaces, StepPlaces, MapPlaces, SettledPlaces, RunTerminal
<1>19. ASSUME MapInput, manifest'.status = manifest.status PROVE Control'
  BY <1>0, <1>19 DEF MapInput, Goto, Fail, Charge, ErrorFor, Control, OpenRun, ResultPending,
     Stopping, TerminalPending, Reporting, Unstarted, Places, OpenPlaces, StepPlaces,
     MapPlaces, SettledPlaces, RunTerminal
<1>20. ASSUME MapWrite, manifest'.status = manifest.status PROVE Control'
  BY <1>0, <1>20 DEF MapWrite, Goto, Fail, Persist, Charge, ErrorFor, Control, OpenRun,
     ResultPending, Stopping, TerminalPending, Reporting, Unstarted, Places, OpenPlaces,
     StepPlaces, MapPlaces, SettledPlaces, RunTerminal
<1>21. ASSUME Expand, manifest'.status = manifest.status PROVE Control'
  BY <1>0, <1>21 DEF Expand, Goto, Fail, FailMap, Control, OpenRun, ResultPending, Stopping,
     TerminalPending, Reporting, Unstarted, Places, OpenPlaces, StepPlaces, MapPlaces,
     SettledPlaces, RunTerminal
<1>22. ASSUME ItemInputs, manifest'.status = manifest.status PROVE Control'
  BY <1>0, <1>22 DEF ItemInputs, Goto, Fail, FailMap, Charge, ErrorFor, Control, OpenRun,
     ResultPending, Stopping, TerminalPending, Reporting, Unstarted, Places, OpenPlaces,
     StepPlaces, MapPlaces, SettledPlaces, RunTerminal
<1>23. ASSUME ItemsWrite, manifest'.status = manifest.status PROVE Control'
  BY <1>0, <1>23 DEF ItemsWrite, Goto, Fail, StartRound, Persist, Charge, ErrorFor, Control,
     OpenRun, ResultPending, Stopping, TerminalPending, Reporting, Unstarted, Places,
     OpenPlaces, StepPlaces, MapPlaces, SettledPlaces, RunTerminal
<1>24. ASSUME MapInvoke, manifest'.status = manifest.status PROVE Control'
  BY <1>0, <1>24 DEF MapInvoke, Goto, Control, OpenRun, ResultPending, Stopping,
     TerminalPending, Reporting, Unstarted, Places, OpenPlaces, StepPlaces, MapPlaces,
     SettledPlaces, RunTerminal
<1>25. ASSUME MapSettle, manifest'.status = manifest.status PROVE Control'
  BY <1>0, <1>25 DEF MapSettle, Goto, Fail, FailMap, StartRound, SettleRound, Charge, Control,
     OpenRun, ResultPending, Stopping, TerminalPending, Reporting, Unstarted, Places,
     OpenPlaces, StepPlaces, MapPlaces, SettledPlaces, RunTerminal
<1>26. ASSUME RoundWrite, manifest'.status = manifest.status PROVE Control'
  BY <1>0, <1>26 DEF RoundWrite, Goto, Fail, Persist, Charge, ErrorFor, Control, OpenRun,
     ResultPending, Stopping, TerminalPending, Reporting, Unstarted, Places, OpenPlaces,
     StepPlaces, MapPlaces, SettledPlaces, RunTerminal
<1>27. ASSUME RoundWait, manifest'.status = manifest.status PROVE Control'
  BY <1>0, <1>27 DEF RoundWait, Goto, Fail, FailMap, Control, OpenRun, ResultPending,
     Stopping, TerminalPending, Reporting, Unstarted, Places, OpenPlaces, StepPlaces,
     MapPlaces, SettledPlaces, RunTerminal
<1>28. ASSUME MapDone, manifest'.status = manifest.status PROVE Control'
  BY <1>0, <1>28 DEF MapDone, Goto, Fail, FailMap, Control, OpenRun, ResultPending, Stopping,
     TerminalPending, Reporting, Unstarted, Places, OpenPlaces, StepPlaces, MapPlaces,
     SettledPlaces, RunTerminal
<1>29. ASSUME Collect, manifest'.status = manifest.status PROVE Control'
  BY <1>0, <1>29 DEF Collect, Goto, Fail, FailMap, Charge, ErrorFor, Control, OpenRun,
     ResultPending, Stopping, TerminalPending, Reporting, Unstarted, Places, OpenPlaces,
     StepPlaces, MapPlaces, SettledPlaces, RunTerminal
<1>30. ASSUME CollectWrite, manifest'.status = manifest.status PROVE Control'
  BY <1>0, <1>30 DEF CollectWrite, Goto, Fail, Persist, Charge, ErrorFor, NextNode, Control,
     OpenRun, ResultPending, Stopping, TerminalPending, Reporting, Unstarted, Places,
     OpenPlaces, StepPlaces, MapPlaces, SettledPlaces, RunTerminal
<1>31. ASSUME Result PROVE Control'
  BY <1>0, <1>31, ResultIs DEF Result, Goto, Fail, ErrorFor, Control, OpenRun, ResultPending,
     Stopping, TerminalPending, Reporting, Unstarted, Places, OpenPlaces, StepPlaces,
     MapPlaces, SettledPlaces
<1>32. ASSUME ResultWrite, manifest'.status = manifest.status PROVE Control'
  BY <1>0, <1>32 DEF ResultWrite, Goto, Fail, Persist, Charge, ErrorFor, Control, OpenRun,
     ResultPending, Stopping, TerminalPending, Reporting, Unstarted, Places, OpenPlaces,
     StepPlaces, MapPlaces, SettledPlaces, RunTerminal
<1>33. ASSUME TerminateRun PROVE Control'
  BY <1>0, <1>33, TerminateRunIs DEF TerminateRun, Goto, Control, OpenRun, ResultPending,
     Stopping, TerminalPending, Reporting, Unstarted, Places, OpenPlaces, StepPlaces,
     MapPlaces, SettledPlaces
<1>34. ASSUME TerminalWrite, manifest'.status = manifest.status PROVE Control'
  BY <1>0, <1>34 DEF TerminalWrite, Goto, Persist, Charge, Control, OpenRun, ResultPending,
     Stopping, TerminalPending, Reporting, Unstarted, Places, OpenPlaces, StepPlaces,
     MapPlaces, SettledPlaces, RunTerminal
<1>35. ASSUME ExitHook PROVE Control'
  BY <1>0, <1>35, ExitHookIs DEF ExitHook, Goto, Control, OpenRun, ResultPending, Stopping,
     TerminalPending, Reporting, Unstarted, Places, OpenPlaces, StepPlaces, MapPlaces,
     SettledPlaces
<1>36. ASSUME HookWrite, manifest'.status = manifest.status PROVE Control'
  BY <1>0, <1>36 DEF HookWrite, Goto, Persist, Charge, Control, OpenRun, ResultPending,
     Stopping, TerminalPending, Reporting, Unstarted, Places, OpenPlaces, StepPlaces,
     MapPlaces, SettledPlaces, RunTerminal
<1>37. CASE UNCHANGED vars
  BY <1>37 DEF vars, Control, OpenRun, ResultPending, Stopping, TerminalPending, Reporting, Unstarted
<1>38. ASSUME ~Result, ~TerminateRun, ~ExitHook PROVE manifest'.status = manifest.status
  BY <1>38, AdvanceStep DEF Advances
<1>39. QED
  BY <1>1, <1>2, <1>3, <1>4, <1>5, <1>6, <1>7, <1>8, <1>9, <1>10, <1>11, <1>12, <1>13, <1>14,
     <1>15, <1>16, <1>17, <1>18, <1>19, <1>20, <1>21, <1>22, <1>23, <1>24, <1>25, <1>26,
     <1>27, <1>28, <1>29, <1>30, <1>31, <1>32, <1>33, <1>34, <1>35, <1>36, <1>37, <1>38 DEF
     Next, RunStep, StepNode, MapNode, Finished

(***************************************************************************)
(* At every place of Run, the journal in memory, the durable one and the   *)
(* pending error fit together: a run still executing has written a running *)
(* journal, one that stops carries an error, and one that returned has     *)
(* stored what it reports unless writeRunManifest failed.                  *)
(***************************************************************************)
THEOREM ControlInvariant == Spec => []Control
<1>1. Init => Control
  BY ControlInit
<1>2. TypeOK /\ Control /\ [Next]_vars => Control'
  BY ControlStep
<1>3. QED
  BY <1>1, <1>2, TypeCorrect, PTL DEF Spec

\* What Run reports is what the datastore holds (the deferred terminalization of Run and
\* the status it returns).
THEOREM ReportedCorrect == Spec => []ReportedIsDurable
<1>1. TypeOK /\ Control => ReportedIsDurable
  BY DEF Control, Reporting, ReportedIsDurable
<1>2. QED
  BY <1>1, TypeCorrect, ControlInvariant, PTL

\* A durable terminal journal is never reopened: no journal write of Run that follows a
\* terminal one stores a running journal, or another failure.
THEOREM TerminalCorrect == Spec => TerminalNeverReopens
<1>1. TypeOK /\ Control /\ [Next]_vars =>
        [durable.status \in RunTerminal =>
          /\ durable'.status \in RunTerminal
          /\ durable.status # "succeeded" => durable'.status = durable.status]_vars
  <2>1. SUFFICES ASSUME TypeOK, Control, Next, durable.status \in RunTerminal
                 PROVE  /\ durable'.status \in RunTerminal
                        /\ durable.status # "succeeded" => durable'.status = durable.status
    OBVIOUS
  <2>2. CASE durable' = durable
    BY <2>1, <2>2
  <2>3. CASE durable' = manifest /\ pc # "terminal"
    BY <2>1, <2>3 DEF TypeOK, PlaceOK, Places, Control, OpenRun, ResultPending, TerminalPending,
       Reporting, SettledPlaces, RunTerminal
  <2>4. QED
    BY <2>1, <2>2, <2>3, DurableStep
<1>2. QED
  BY <1>1, TypeCorrect, ControlInvariant, PTL DEF Spec, TerminalNeverReopens

-----------------------------------------------------------------------------
\* The run's cause.

\* Once Run has an error nothing but the end of the run is left.
LEMMA ErrorStep ==
    ASSUME TypeOK, [Next]_vars, runErr # "none"
    PROVE  /\ UNCHANGED <<pos, runErr, history>>
           /\ pc' \in {"terminal"} \cup SettledPlaces
           /\ pc \in SettledPlaces => pc' \in SettledPlaces
<1>0. pc \in {"terminal"} \cup SettledPlaces
  BY DEF TypeOK, PlaceOK
<1>1. ASSUME Cancel \/ DeadlinePasses \/ RefuseRun \/ Claim \/ Prerequisites \/ StopAtNode \/
        SkipNode \/ DecideNode \/ NodeWrite \/ SelectNode \/ EnterNode \/ StepInput \/ AttemptWrite
        \/ InvokeStep \/ RetryWrite \/ RetryWait \/ Settle \/ SuccessWrite \/ MapInput \/ MapWrite
        \/ Expand \/ ItemInputs \/ ItemsWrite \/ MapInvoke \/ MapSettle \/ RoundWrite \/ RoundWait
        \/ MapDone \/ Collect \/ CollectWrite \/ Result \/ ResultWrite \/ TerminateRun \/
        TerminalWrite \/ ExitHook \/ HookWrite
      PROVE  /\ UNCHANGED <<pos, runErr, history>>
             /\ pc' \in {"terminal"} \cup SettledPlaces
             /\ pc \in SettledPlaces => pc' \in SettledPlaces
  BY <1>1, <1>0 DEF Cancel, DeadlinePasses, RefuseRun, Claim, Prerequisites, StopAtNode,
     SkipNode, DecideNode, NodeWrite, SelectNode, EnterNode, StepInput, AttemptWrite,
     InvokeStep, RetryWrite, RetryWait, Settle, SuccessWrite, MapInput, MapWrite, Expand,
     ItemInputs, ItemsWrite, MapInvoke, MapSettle, RoundWrite, RoundWait, MapDone, Collect,
     CollectWrite, Result, ResultWrite, TerminateRun, TerminalWrite, ExitHook, HookWrite,
     Goto, Persist, Charge, Fail, ErrorFor, AtNode, Active, NextNode, StepOutcome,
     StepUndispatched, InvokeError, FailMap, StartRound, SettleRound, SettledPlaces
<1>2. CASE UNCHANGED vars
  BY <1>0, <1>2 DEF vars, SettledPlaces
<1>3. QED
  BY <1>1, <1>2 DEF Next, RunStep, StepNode, MapNode, Finished

\* Whoever changes the dispatches reported so far.
LEMMA HistoryStep ==
    ASSUME [Next]_vars, ~InvokeStep, ~MapInvoke
    PROVE  UNCHANGED <<history, dispatchedNodes>>
<1>1. ASSUME Cancel \/ DeadlinePasses \/ RefuseRun \/ Claim \/ Prerequisites \/ StopAtNode \/
        SkipNode \/ DecideNode \/ NodeWrite \/ SelectNode \/ EnterNode \/ StepInput \/ AttemptWrite
        \/ RetryWrite \/ RetryWait \/ Settle \/ SuccessWrite \/ MapInput \/ MapWrite \/ Expand \/
        ItemInputs \/ ItemsWrite \/ MapSettle \/ RoundWrite \/ RoundWait \/ MapDone \/ Collect \/
        CollectWrite \/ Result \/ ResultWrite \/ TerminateRun \/ TerminalWrite \/ ExitHook \/
        HookWrite
      PROVE  UNCHANGED <<history, dispatchedNodes>>
  BY <1>1 DEF Cancel, DeadlinePasses, RefuseRun, Claim, Prerequisites, StopAtNode, SkipNode,
     DecideNode, NodeWrite, SelectNode, EnterNode, StepInput, AttemptWrite, RetryWrite,
     RetryWait, Settle, SuccessWrite, MapInput, MapWrite, Expand, ItemInputs, ItemsWrite,
     MapSettle, RoundWrite, RoundWait, MapDone, Collect, CollectWrite, Result, ResultWrite,
     TerminateRun, TerminalWrite, ExitHook, HookWrite, Goto, Persist, Charge, Fail, ErrorFor,
     AtNode, Active, NextNode, InvokeError, FailMap, StartRound, SettleRound
<1>2. CASE UNCHANGED vars
  BY <1>2 DEF vars
<1>3. QED
  BY <1>1, <1>2 DEF Next, RunStep, StepNode, MapNode, Finished

\* A round waits for its settlement.
LEMMA SettleStep ==
    ASSUME [Next]_vars, pc = "mapSettle", ~MapSettle
    PROVE  UNCHANGED <<pc, pos, attempt, pending, round, collected, runErr, manifest, history>>
<1>0. pc = "mapSettle"
  OBVIOUS
<1>1. ASSUME Cancel \/ DeadlinePasses \/ RefuseRun \/ Claim \/ Prerequisites \/ StopAtNode \/
        SkipNode \/ DecideNode \/ NodeWrite \/ SelectNode \/ EnterNode \/ StepInput \/ AttemptWrite
        \/ InvokeStep \/ RetryWrite \/ RetryWait \/ Settle \/ SuccessWrite \/ MapInput \/ MapWrite
        \/ Expand \/ ItemInputs \/ ItemsWrite \/ MapInvoke \/ RoundWrite \/ RoundWait \/ MapDone \/
        Collect \/ CollectWrite \/ Result \/ ResultWrite \/ TerminateRun \/ TerminalWrite \/
        ExitHook \/ HookWrite
      PROVE  UNCHANGED <<pc, pos, attempt, pending, round, collected, runErr, manifest, history>>
  BY <1>1, <1>0 DEF Cancel, DeadlinePasses, RefuseRun, Claim, Prerequisites, StopAtNode,
     SkipNode, DecideNode, NodeWrite, SelectNode, EnterNode, StepInput, AttemptWrite,
     InvokeStep, RetryWrite, RetryWait, Settle, SuccessWrite, MapInput, MapWrite, Expand,
     ItemInputs, ItemsWrite, MapInvoke, RoundWrite, RoundWait, MapDone, Collect, CollectWrite,
     Result, ResultWrite, TerminateRun, TerminalWrite, ExitHook, HookWrite, Goto, Persist,
     Charge, Fail, ErrorFor, AtNode, Active, NextNode, StepOutcome, StepUndispatched,
     InvokeError, FailMap, StartRound
<1>2. CASE UNCHANGED vars
  BY <1>2 DEF vars
<1>3. QED
  BY <1>1, <1>2 DEF Next, RunStep, StepNode, MapNode, Finished

\* What one invocation of a step can do: it was never dispatched, it succeeded, it failed
\* with an attempt left, or it ended the step.
LEMMA InvokeStepIs ==
    ASSUME TypeOK, InvokeStep
    PROVE  /\ pc = "invoke" /\ UNCHANGED <<pos, attempt, pending, round, collected, durable, ctx, hookFailed>>
           /\ \/ /\ manifest' = MarkUndispatched(manifest, ActiveNode)
                 /\ pc' = "terminal" /\ runErr' \in {"ctx", "other"}
                 /\ UNCHANGED <<dispatchedNodes, history>>
              \/ \E o \in OutcomeKinds :
                 /\ history' = history \cup {<<ActiveNode, 0, attempt, o>>}
                 /\ dispatchedNodes' = dispatchedNodes \cup {ActiveNode}
                 /\ \/ /\ o = "succeeded" /\ pc' = "settle"
                       /\ UNCHANGED <<manifest, runErr>>
                    \/ /\ RetryableOutcome(o) /\ attempt < Node[ActiveNode].maxAttempts
                       /\ o # "succeeded" /\ o # "fatal" /\ RecordedStatus(o) = "failed"
                       /\ pc' = "retryWrite" /\ UNCHANGED runErr
                       /\ manifest' = MarkAttemptRetrying(manifest, ActiveNode)
                    \/ /\ o # "succeeded" /\ pc' = "terminal"
                       /\ runErr' \in {"ctx", "other", "fatal"}
                       /\ runErr' = "fatal" <=> o = "fatal"
                       /\ manifest' = MarkAttemptTerminal(manifest, ActiveNode, RecordedStatus(o))
<1>1. PICK err \in Errors :
        \/ /\ InvokeStepsReturns({0}, ctx # "live", <<>>, err)
           /\ StepUndispatched(err)
        \/ \E o \in OutcomeKinds :
              /\ InvokeStepsReturns({0}, ctx # "live", [i \in {0} |-> o], err)
              /\ StepOutcome(o, err)
  BY DEF InvokeStep
<1>2. pc = "invoke" /\ UNCHANGED <<pos, attempt, pending, round, collected, durable, ctx, hookFailed>>
  BY DEF InvokeStep
<1>3. CASE /\ InvokeStepsReturns({0}, ctx # "live", <<>>, err)
           /\ StepUndispatched(err)
  <2>1. err \notin {"none", "fatal"}
    BY <1>3 DEF InvokeStepsReturns
  <2>2. QED
    BY <1>2, <1>3, <2>1 DEF StepUndispatched, MarkUndispatched, Fail, InvokeError
<1>4. ASSUME NEW o \in OutcomeKinds,
             InvokeStepsReturns({0}, ctx # "live", [i \in {0} |-> o], err), StepOutcome(o, err)
      PROVE  \/ /\ o = "succeeded" /\ pc' = "settle"
                /\ UNCHANGED <<manifest, runErr>>
             \/ /\ RetryableOutcome(o) /\ attempt < Node[ActiveNode].maxAttempts
                /\ o # "succeeded" /\ o # "fatal" /\ RecordedStatus(o) = "failed"
                /\ pc' = "retryWrite" /\ UNCHANGED runErr
                /\ manifest' = MarkAttemptRetrying(manifest, ActiveNode)
             \/ /\ o # "succeeded" /\ pc' = "terminal"
                /\ runErr' \in {"ctx", "other", "fatal"}
                /\ runErr' = "fatal" <=> o = "fatal"
                /\ manifest' = MarkAttemptTerminal(manifest, ActiveNode, RecordedStatus(o))
  <2>1. err = "fatal" => o = "fatal"
    BY <1>4 DEF InvokeStepsReturns
  <2>2. CASE o = "succeeded"
    <3>1. ~Retries(o, err)
      BY <2>2 DEF Retries, RetryableOutcome, FailedOutcomes, DiagnosticExits
    <3>2. QED
      BY <1>4, <2>2, <3>1 DEF StepOutcome, Goto
  <2>3. CASE o # "succeeded" /\ Retries(o, err)
    BY <1>4, <2>3 DEF StepOutcome, Goto, Retries, RetryableOutcome, FailedOutcomes, DiagnosticExits,
       RecordedStatus
  <2>4. CASE o # "succeeded" /\ ~Retries(o, err)
    BY <1>4, <2>1, <2>4 DEF StepOutcome, Fail, InvokeError
  <2>5. QED
    BY <2>2, <2>3, <2>4
<1>5. \A o \in OutcomeKinds : StepOutcome(o, err) =>
        /\ history' = history \cup {<<ActiveNode, 0, attempt, o>>}
        /\ dispatchedNodes' = dispatchedNodes \cup {ActiveNode}
  BY DEF StepOutcome
<1>6. QED
  BY <1>1, <1>2, <1>3, <1>4, <1>5

\* What a round reports.
LEMMA MapInvokeIs ==
    ASSUME TypeOK, MapInvoke
    PROVE  /\ pc = "mapInvoke" /\ pc' = "mapSettle"
           /\ UNCHANGED <<pos, attempt, pending, collected, durable, runErr, ctx, hookFailed>>
           /\ DOMAIN round'.outs \subseteq pending
           /\ \A i \in DOMAIN round'.outs : round'.outs[i] \in OutcomeKinds
           /\ round'.err = "none" => /\ DOMAIN round'.outs = pending
                                     /\ \A i \in pending : round'.outs[i] \notin ErrorOutcomes
           /\ round'.err = "fatal" => \E i \in DOMAIN round'.outs : round'.outs[i] = "fatal"
           /\ history' = history \cup
                {<<ActiveNode, i, attempt, round'.outs[i]>> : i \in DOMAIN round'.outs}
           /\ dispatchedNodes' = IF DOMAIN round'.outs = {} THEN dispatchedNodes
                                 ELSE dispatchedNodes \cup {ActiveNode}
           /\ manifest' = WithStepItems(manifest, ActiveNode,
                [i \in DOMAIN ActiveItems |->
                    IF i \in DOMAIN round'.outs THEN RecordDispatch(ActiveItems[i], round'.outs[i])
                    ELSE ActiveItems[i]])
<1>1. PICK outs \in PartialOutcomes(pending), err \in Errors :
        /\ InvokeStepsReturns(pending, ctx # "live", outs, err)
        /\ round' = [outs |-> outs, err |-> err]
        /\ manifest' = [manifest EXCEPT !.steps[ActiveNode].items =
                [i \in DOMAIN @ |-> IF i \in DOMAIN outs
                                    THEN RecordDispatch(@[i], outs[i]) ELSE @[i]]]
        /\ history' = history \cup {<<ActiveNode, i, attempt, outs[i]>> : i \in DOMAIN outs}
        /\ dispatchedNodes' = IF DOMAIN outs = {} THEN dispatchedNodes
                              ELSE dispatchedNodes \cup {ActiveNode}
  BY DEF MapInvoke
<1>2. round'.outs = outs /\ round'.err = err
  BY <1>1
<1>3. DOMAIN outs \subseteq pending /\ \A i \in DOMAIN outs : outs[i] \in OutcomeKinds
  BY DEF PartialOutcomes
<1>4. /\ err = "none" => DOMAIN outs = pending /\ \A i \in pending : outs[i] \notin ErrorOutcomes
      /\ err = "fatal" => \E i \in DOMAIN outs : outs[i] = "fatal"
  BY <1>1 DEF InvokeStepsReturns
<1>5. manifest' = WithStepItems(manifest, ActiveNode,
                [i \in DOMAIN ActiveItems |->
                    IF i \in DOMAIN outs THEN RecordDispatch(ActiveItems[i], outs[i])
                    ELSE ActiveItems[i]])
  BY <1>1 DEF WithStepItems, ActiveItems
<1>6. /\ pc = "mapInvoke" /\ pc' = "mapSettle"
      /\ UNCHANGED <<pos, attempt, pending, collected, durable, runErr, ctx, hookFailed>>
  BY DEF MapInvoke, Goto
<1>7. QED
  BY <1>1, <1>2, <1>3, <1>4, <1>5, <1>6

LEMMA MapSettleError ==
    ASSUME TypeOK, MapSettle
    PROVE  /\ pc = "mapSettle" /\ UNCHANGED <<pos, durable, history, dispatchedNodes, ctx, hookFailed>>
           /\ IF RoundError = "none" THEN UNCHANGED runErr /\ pc' \in {"mapDone", "roundWrite"}
              ELSE runErr' = RoundError /\ pc' = "terminal"
           /\ FatalOutcome => RoundError = "fatal"
           /\ RoundError = "fatal" => FatalOutcome \/ round.err = "fatal"
<1>1. pc = "mapSettle" /\ UNCHANGED <<pos, durable, history, dispatchedNodes, ctx, hookFailed>>
  BY DEF MapSettle
<1>2. IF RoundError = "none" THEN UNCHANGED runErr /\ pc' \in {"mapDone", "roundWrite"}
      ELSE runErr' = RoundError /\ pc' = "terminal"
  BY DEF MapSettle, SettleRound, FailMap, StartRound, Goto, Fail
<1>3. /\ FatalOutcome => RoundError = "fatal"
      /\ RoundError = "fatal" => FatalOutcome \/ round.err = "fatal"
  BY DEF RoundError, FatalOutcome, InvokeError
<1>4. QED
  BY <1>1, <1>2, <1>3

LEMMA ArriveMapSettle ==
    ASSUME [Next]_vars, pc' = "mapSettle", ~MapInvoke
    PROVE  pc = "mapSettle" /\ ~MapSettle
<1>1. pc = "mapSettle"
  <2>0. pc' = "mapSettle"
  OBVIOUS
  <2>1. ASSUME Cancel \/ DeadlinePasses \/ RefuseRun \/ Claim \/ Prerequisites \/ StopAtNode \/
        SkipNode \/ DecideNode \/ NodeWrite \/ SelectNode \/ EnterNode \/ StepInput \/ AttemptWrite
        \/ InvokeStep \/ RetryWrite \/ RetryWait \/ Settle \/ SuccessWrite \/ MapInput \/ MapWrite
        \/ Expand \/ ItemInputs \/ ItemsWrite \/ MapSettle \/ RoundWrite \/ RoundWait \/ MapDone \/
        Collect \/ CollectWrite \/ Result \/ ResultWrite \/ TerminateRun \/ TerminalWrite \/
        ExitHook \/ HookWrite
      PROVE  pc = "mapSettle"
    BY <2>1, <2>0 DEF Cancel, DeadlinePasses, RefuseRun, Claim, Prerequisites, StopAtNode,
     SkipNode, DecideNode, NodeWrite, SelectNode, EnterNode, StepInput, AttemptWrite,
     InvokeStep, RetryWrite, RetryWait, Settle, SuccessWrite, MapInput, MapWrite, Expand,
     ItemInputs, ItemsWrite, MapSettle, RoundWrite, RoundWait, MapDone, Collect, CollectWrite,
     Result, ResultWrite, TerminateRun, TerminalWrite, ExitHook, HookWrite, Goto, Persist,
     Charge, Fail, ErrorFor, AtNode, Active, NextNode, StepOutcome, StepUndispatched,
     InvokeError, FailMap, StartRound, SettleRound
  <2>2. CASE UNCHANGED vars
    BY <2>0, <2>2 DEF vars
  <2>3. QED
    BY <2>1, <2>2 DEF Next, RunStep, StepNode, MapNode, Finished
<1>2. ~MapSettle
  BY <1>1 DEF MapSettle, SettleRound, FailMap, StartRound, Goto, Fail
<1>3. QED
  BY <1>1, <1>2

LEMMA StayTerminal ==
    ASSUME [Next]_vars, pc = "terminal", ~TerminateRun
    PROVE  pc' = "terminal"
<1>0. pc = "terminal"
  OBVIOUS
<1>1. ASSUME Cancel \/ DeadlinePasses \/ RefuseRun \/ Claim \/ Prerequisites \/ StopAtNode \/
        SkipNode \/ DecideNode \/ NodeWrite \/ SelectNode \/ EnterNode \/ StepInput \/ AttemptWrite
        \/ InvokeStep \/ RetryWrite \/ RetryWait \/ Settle \/ SuccessWrite \/ MapInput \/ MapWrite
        \/ Expand \/ ItemInputs \/ ItemsWrite \/ MapInvoke \/ MapSettle \/ RoundWrite \/ RoundWait
        \/ MapDone \/ Collect \/ CollectWrite \/ Result \/ ResultWrite \/ TerminalWrite \/ ExitHook
        \/ HookWrite
      PROVE  pc' = "terminal"
  BY <1>1, <1>0 DEF Cancel, DeadlinePasses, RefuseRun, Claim, Prerequisites, StopAtNode,
     SkipNode, DecideNode, NodeWrite, SelectNode, EnterNode, StepInput, AttemptWrite,
     InvokeStep, RetryWrite, RetryWait, Settle, SuccessWrite, MapInput, MapWrite, Expand,
     ItemInputs, ItemsWrite, MapInvoke, MapSettle, RoundWrite, RoundWait, MapDone, Collect,
     CollectWrite, Result, ResultWrite, TerminalWrite, ExitHook, HookWrite, Goto, Persist,
     Charge, Fail, ErrorFor, AtNode, Active, NextNode, StepOutcome, StepUndispatched,
     InvokeError, FailMap, StartRound, SettleRound
<1>2. CASE UNCHANGED vars
  BY <1>0, <1>2 DEF vars
<1>3. QED
  BY <1>1, <1>2 DEF Next, RunStep, StepNode, MapNode, Finished

LEMMA NoNewFatal ==
    ASSUME TypeOK, [Next]_vars, runErr = "none", ~InvokeStep, ~MapSettle
    PROVE  runErr' \in {"none", "ctx", "other"} /\ (runErr' # "none" => pc' = "terminal")
<1>0. runErr = "none" /\ invokeErr \in {"none", "ctx", "infra"}
  BY DEF TypeOK, RoundOK
<1>1. ASSUME Cancel \/ DeadlinePasses \/ RefuseRun \/ Claim \/ Prerequisites \/ StopAtNode \/
        SkipNode \/ DecideNode \/ NodeWrite \/ SelectNode \/ EnterNode \/ StepInput \/ AttemptWrite
        \/ RetryWrite \/ RetryWait \/ Settle \/ SuccessWrite \/ MapInput \/ MapWrite \/ Expand \/
        ItemInputs \/ ItemsWrite \/ MapInvoke \/ RoundWrite \/ RoundWait \/ MapDone \/ Collect \/
        CollectWrite \/ Result \/ ResultWrite \/ TerminateRun \/ TerminalWrite \/ ExitHook \/
        HookWrite
      PROVE  runErr' \in {"none", "ctx", "other"} /\ (runErr' # "none" => pc' = "terminal")
  BY <1>1, <1>0 DEF Cancel, DeadlinePasses, RefuseRun, Claim, Prerequisites, StopAtNode,
     SkipNode, DecideNode, NodeWrite, SelectNode, EnterNode, StepInput, AttemptWrite,
     RetryWrite, RetryWait, Settle, SuccessWrite, MapInput, MapWrite, Expand, ItemInputs,
     ItemsWrite, MapInvoke, RoundWrite, RoundWait, MapDone, Collect, CollectWrite, Result,
     ResultWrite, TerminateRun, TerminalWrite, ExitHook, HookWrite, Goto, Persist, Charge,
     Fail, ErrorFor, AtNode, Active, NextNode, InvokeError, FailMap, StartRound
<1>2. CASE UNCHANGED vars
  BY <1>0, <1>2 DEF vars
<1>3. QED
  BY <1>1, <1>2 DEF Next, RunStep, StepNode, MapNode, Finished

LEMMA ContextStep ==
    ASSUME [Next]_vars
    PROVE  ctx = "cancelled" => ctx' = "cancelled"
<1>1. ASSUME Cancel \/ DeadlinePasses \/ RefuseRun \/ Claim \/ Prerequisites \/ StopAtNode \/
        SkipNode \/ DecideNode \/ NodeWrite \/ SelectNode \/ EnterNode \/ StepInput \/ AttemptWrite
        \/ InvokeStep \/ RetryWrite \/ RetryWait \/ Settle \/ SuccessWrite \/ MapInput \/ MapWrite
        \/ Expand \/ ItemInputs \/ ItemsWrite \/ MapInvoke \/ MapSettle \/ RoundWrite \/ RoundWait
        \/ MapDone \/ Collect \/ CollectWrite \/ Result \/ ResultWrite \/ TerminateRun \/
        TerminalWrite \/ ExitHook \/ HookWrite
      PROVE  ctx = "cancelled" => ctx' = "cancelled"
  BY <1>1 DEF Cancel, DeadlinePasses, RefuseRun, Claim, Prerequisites, StopAtNode, SkipNode,
     DecideNode, NodeWrite, SelectNode, EnterNode, StepInput, AttemptWrite, InvokeStep,
     RetryWrite, RetryWait, Settle, SuccessWrite, MapInput, MapWrite, Expand, ItemInputs,
     ItemsWrite, MapInvoke, MapSettle, RoundWrite, RoundWait, MapDone, Collect, CollectWrite,
     Result, ResultWrite, TerminateRun, TerminalWrite, ExitHook, HookWrite, Goto, Persist,
     Charge, Fail, ErrorFor, AtNode, Active, NextNode, StepOutcome, StepUndispatched,
     InvokeError, FailMap, StartRound, SettleRound
<1>2. CASE UNCHANGED vars
  BY <1>2 DEF vars
<1>3. QED
  BY <1>1, <1>2 DEF Next, RunStep, StepNode, MapNode, Finished

LEMMA NewError ==
    ASSUME TypeOK, [Next]_vars, runErr = "none"
    PROVE  runErr' = "none" \/ pc' = "terminal"
BY NoNewFatal, InvokeStepIs, MapSettleError

LEMMA CauseInit == ASSUME Init PROVE Cause
<1>1. manifest.failure = "none"
  BY DEF Init, NewManifest
<1>2. QED
  BY <1>1 DEF Init, Cause, FatalIsCause, RoundReported, CauseIsFatal, FailureIsCause, CancelIsCause,
     Settled

LEMMA FatalIsCauseStep ==
    ASSUME TypeOK, Cause, [Next]_vars
    PROVE  FatalIsCause'
<1>1. ASSUME runErr = "none", pc # "mapSettle" PROVE \A h \in history : h[4] # "fatal"
  BY <1>1 DEF Cause, FatalIsCause
<1>2. CASE InvokeStep
  <2>1. runErr = "none" /\ pos <= Len(NodeOrder)
    BY <1>2, InvokeStepIs DEF TypeOK, PlaceOK, SettledPlaces, StepPlaces
  <2>2. \A h \in history : h[4] # "fatal"
    BY <1>1, <2>1, <1>2, InvokeStepIs
  <2>3. CASE UNCHANGED history
    BY <2>2, <2>3 DEF FatalIsCause
  <2>4. ASSUME NEW o \in OutcomeKinds, history' = history \cup {<<ActiveNode, 0, attempt, o>>},
               o = "fatal" => runErr' = "fatal"
        PROVE  FatalIsCause'
    BY <1>2, <2>1, <2>2, <2>4, InvokeStepIs DEF FatalIsCause, ActiveNode
  <2>5. QED
    BY <1>2, <2>3, <2>4, InvokeStepIs
<1>3. CASE MapInvoke
  <2>1. runErr = "none" /\ pos <= Len(NodeOrder)
    BY <1>3, MapInvokeIs DEF TypeOK, PlaceOK, SettledPlaces, MapPlaces
  <2>2. \A h \in history : h[4] # "fatal"
    BY <1>1, <2>1, <1>3, MapInvokeIs
  <2>3. /\ pc' = "mapSettle" /\ UNCHANGED pos
        /\ history' = history \cup
                {<<ActiveNode, i, attempt, round'.outs[i]>> : i \in DOMAIN round'.outs}
    BY <1>3, MapInvokeIs
  <2>4. QED
    BY <2>1, <2>2, <2>3 DEF FatalIsCause, FatalOutcome, ActiveNode
<1>4. CASE MapSettle
  <2>1. runErr = "none"
    BY <1>4, MapSettleError DEF TypeOK, PlaceOK, SettledPlaces
  <2>2. ASSUME NEW h \in history, h[4] = "fatal"
        PROVE  pos <= Len(NodeOrder) /\ h[1] = ActiveNode /\ runErr' = "fatal"
    BY <1>4, <2>1, <2>2, MapSettleError DEF Cause, FatalIsCause
  <2>3. UNCHANGED <<pos, history>>
    BY <1>4, MapSettleError
  <2>4. QED
    BY <2>2, <2>3 DEF FatalIsCause, ActiveNode
<1>5. CASE ~InvokeStep /\ ~MapInvoke /\ ~MapSettle
  <2>1. UNCHANGED history
    BY <1>5, HistoryStep
  <2>2. CASE runErr = "none" /\ pc # "mapSettle"
    BY <1>1, <2>1, <2>2 DEF FatalIsCause
  <2>3. CASE runErr # "none"
    BY <2>1, <2>3, ErrorStep DEF Cause, FatalIsCause, ActiveNode, SettledPlaces, TypeOK, PlaceOK
  <2>4. CASE pc = "mapSettle"
    BY <1>5, <2>1, <2>4, SettleStep DEF Cause, FatalIsCause, FatalOutcome, ActiveNode
  <2>5. QED
    BY <2>2, <2>3, <2>4
<1>6. QED
  BY <1>2, <1>3, <1>4, <1>5

LEMMA RoundReportedStep ==
    ASSUME TypeOK, Cause, [Next]_vars
    PROVE  RoundReported'
<1>1. CASE MapInvoke
  <2>1. /\ UNCHANGED <<pos, attempt>>
        /\ round'.err = "fatal" => \E i \in DOMAIN round'.outs : round'.outs[i] = "fatal"
        /\ history' = history \cup
             {<<ActiveNode, i, attempt, round'.outs[i]>> : i \in DOMAIN round'.outs}
    BY <1>1, MapInvokeIs
  <2>2. QED
    BY <2>1 DEF RoundReported, FatalOutcome, ActiveNode
<1>2. CASE pc' # "mapSettle"
  BY <1>2 DEF RoundReported
<1>3. CASE pc' = "mapSettle" /\ ~MapInvoke
  <2>1. pc = "mapSettle" /\ ~MapSettle
    BY <1>3, ArriveMapSettle
  <2>2. QED
    BY <2>1, SettleStep DEF Cause, RoundReported, FatalOutcome, ActiveNode
<1>4. QED
  BY <1>1, <1>2, <1>3

LEMMA CauseIsFatalStep ==
    ASSUME TypeOK, Cause, [Next]_vars
    PROVE  CauseIsFatal'
<1>1. CASE InvokeStep
  <2>1. CASE runErr' # "fatal"
    BY <2>1 DEF CauseIsFatal
  <2>2. CASE runErr' = "fatal"
    <3>1. runErr = "none"
      BY <1>1, InvokeStepIs DEF TypeOK, PlaceOK, SettledPlaces
    <3>2. history' = history \cup {<<ActiveNode, 0, attempt, "fatal">>} /\ UNCHANGED pos
      BY <1>1, <2>2, <3>1, InvokeStepIs
    <3>3. PICK h : h = <<ActiveNode, 0, attempt, "fatal">>
      OBVIOUS
    <3>4. h \in history' /\ h[1] = ActiveNode' /\ h[4] = "fatal"
      BY <3>2, <3>3 DEF ActiveNode
    <3>5. QED
      BY <3>4 DEF CauseIsFatal
  <2>3. QED
    BY <2>1, <2>2
<1>2. CASE MapSettle
  <2>1. CASE RoundError # "fatal"
    <3>1. runErr = "none"
      BY <1>2, MapSettleError DEF TypeOK, PlaceOK, SettledPlaces
    <3>2. QED
      BY <1>2, <2>1, <3>1, MapSettleError DEF CauseIsFatal
  <2>2. CASE RoundError = "fatal"
    <3>1. PICK i \in DOMAIN round.outs : round.outs[i] = "fatal"
      BY <1>2, <2>2, MapSettleError DEF Cause, RoundReported, FatalOutcome
    <3>2. <<ActiveNode, i, attempt, "fatal">> \in history' /\ UNCHANGED pos
      BY <1>2, <3>1, MapSettleError DEF Cause, RoundReported
    <3>3. QED
      BY <3>2 DEF CauseIsFatal, ActiveNode
  <2>3. QED
    BY <2>1, <2>2
<1>3. CASE ~InvokeStep /\ ~MapSettle
  <2>1. CASE runErr # "none"
    BY <2>1, ErrorStep DEF Cause, CauseIsFatal, ActiveNode
  <2>2. CASE runErr = "none"
    BY <1>3, <2>2, NoNewFatal DEF CauseIsFatal
  <2>3. QED
    BY <2>1, <2>2
<1>4. QED
  BY <1>1, <1>2, <1>3

LEMMA FailureIsCauseStep ==
    ASSUME TypeOK, Control, Cause, [Next]_vars
    PROVE  FailureIsCause'
<1>1. CASE Result
  BY <1>1, ResultIs DEF Cause, FailureIsCause, Settled, Result
<1>2. CASE TerminateRun
  <2>1. pc = "terminal" /\ pc' = "terminalWrite" /\ UNCHANGED <<pos, runErr>>
    BY <1>2 DEF TerminateRun, Goto
  <2>2. manifest.failure = "none"
    BY <2>1 DEF Cause, FailureIsCause, Settled
  <2>3. /\ manifest'.status = TerminalStatus
        /\ manifest'.failure = IF runErr = "fatal" THEN ActiveNode ELSE manifest.failure
    BY <1>2, TerminateRunIs
  <2>4. QED
    BY <2>1, <2>2, <2>3 DEF FailureIsCause, TerminalStatus, Settled, ActiveNode
<1>3. CASE ExitHook
  <2>1. pc = "hook" /\ pc' \in {"hookWrite", "done"} /\ UNCHANGED <<pos, runErr>>
    BY <1>3 DEF ExitHook, Goto
  <2>2. manifest'.failure = manifest.failure /\ manifest'.status = manifest.status
    BY <1>3, ExitHookIs
  <2>3. QED
    BY <2>1, <2>2 DEF Cause, FailureIsCause, Settled, ActiveNode
<1>4. CASE ~Result /\ ~TerminateRun /\ ~ExitHook
  <2>1. manifest'.failure = manifest.failure /\ manifest'.status = manifest.status
    BY <1>4, AdvanceStep DEF Advances
  <2>2. CASE runErr # "none" /\ pc \in SettledPlaces
    BY <2>1, <2>2, ErrorStep DEF Cause, FailureIsCause, Settled, ActiveNode, SettledPlaces
  <2>3. CASE runErr # "none" /\ pc \notin SettledPlaces
    <3>1. pc' = "terminal"
      BY <1>4, <2>3, StayTerminal DEF TypeOK, PlaceOK
    <3>2. manifest.failure = "none"
      BY <2>3 DEF Cause, FailureIsCause, Settled, SettledPlaces
    <3>3. QED
      BY <2>1, <3>1, <3>2 DEF FailureIsCause, Settled
  <2>4. CASE runErr = "none"
    <3>1. manifest.failure = "none"
      BY <2>4 DEF Cause, FailureIsCause
    <3>2. runErr' = "none" \/ pc' = "terminal"
      BY <2>4, NewError
    <3>3. QED
      BY <2>1, <3>1, <3>2 DEF FailureIsCause, Settled
  <2>5. QED
    BY <2>2, <2>3, <2>4
<1>5. QED
  BY <1>1, <1>2, <1>3, <1>4

LEMMA CancelIsCauseStep ==
    ASSUME TypeOK, Control, Cause, [Next]_vars
    PROVE  CancelIsCause'
<1>1. ctx = "cancelled" => ctx' = "cancelled"
  BY ContextStep
<1>2. CASE TerminateRun
  BY <1>2, TerminateRunIs DEF CancelIsCause, TerminalStatus, TerminateRun, Goto
<1>3. CASE ~TerminateRun
  <2>1. CASE runErr # "none"
    <3>1. UNCHANGED runErr
      BY <2>1, ErrorStep
    <3>2. CASE pc \in SettledPlaces
      BY <1>1, <1>3, <3>1, <3>2, AdvanceStep, ExitHookIs DEF CancelIsCause, Cause, Settled, Advances,
         SettledPlaces, Result
    <3>3. CASE pc \notin SettledPlaces
      BY <1>3, <2>1, <3>3, StayTerminal DEF CancelIsCause, Settled, TypeOK, PlaceOK
    <3>4. QED
      BY <3>2, <3>3
  <2>2. CASE runErr = "none" /\ runErr' = "none"
    <3>1. Control'
      BY ControlStep
    <3>2. QED
      BY <2>2, <3>1 DEF Control, Reporting, TerminalPending, CancelIsCause, Settled
  <2>3. CASE runErr = "none" /\ runErr' # "none"
    BY <2>3, NewError DEF CancelIsCause, Settled
  <2>4. QED
    BY <2>1, <2>2, <2>3
<1>4. QED
  BY <1>2, <1>3

(***************************************************************************)
(* A fatal author failure reported by InvokeSteps belongs to the active    *)
(* node and is, or is about to become, the error Run returns; only a       *)
(* caller's cancellation makes the terminal status cancelled.              *)
(***************************************************************************)
THEOREM CauseInvariant == Spec => []Cause
<1>1. Init => Cause
  BY CauseInit
<1>2. TypeOK /\ Control /\ Cause /\ [Next]_vars => Cause'
  BY FatalIsCauseStep, RoundReportedStep, CauseIsFatalStep, FailureIsCauseStep, CancelIsCauseStep
     DEF Cause
<1>3. QED
  BY <1>1, <1>2, TypeCorrect, ControlInvariant, PTL DEF Spec

\* A fatal author failure reaches the journal as the run's cause, and only a caller's
\* cancellation makes a run cancelled (Run's deferred terminalization).
THEOREM CauseCorrect == Spec => []CauseIsKept
<1>1. TypeOK /\ Cause => CauseIsKept
  BY DEF TypeOK, PlaceOK, Cause, FatalIsCause, FailureIsCause, CancelIsCause, CauseIsKept, Settled
<1>2. QED
  BY <1>1, TypeCorrect, CauseInvariant, PTL

-----------------------------------------------------------------------------
\* Dispatches and attempts.

\* The loop moves on one node at a time, and only from the end of a node's handler.
LEMMA ProgressStep ==
    ASSUME TypeOK, [Next]_vars
    PROVE  \/ UNCHANGED pos /\ (pc' \in IdlePlaces => pc \in IdlePlaces)
           \/ pos' = pos + 1 /\ pos <= Len(NodeOrder) /\ pc' = "node"
<1>0. pc \in {"nodeWrite"} \cup StepPlaces \cup MapPlaces => pos <= Len(NodeOrder)
  BY DEF TypeOK, PlaceOK
<1>1. ASSUME Cancel \/ DeadlinePasses \/ RefuseRun \/ Claim \/ Prerequisites \/ StopAtNode \/
        SkipNode \/ DecideNode \/ EnterNode \/ StepInput \/ AttemptWrite \/ InvokeStep \/
        RetryWrite \/ RetryWait \/ Settle \/ MapInput \/ MapWrite \/ Expand \/ ItemInputs \/
        ItemsWrite \/ MapInvoke \/ MapSettle \/ RoundWrite \/ RoundWait \/ MapDone \/ Collect \/
        Result \/ ResultWrite \/ TerminateRun \/ TerminalWrite \/ ExitHook \/ HookWrite
      PROVE  UNCHANGED pos /\ (pc' \in IdlePlaces => pc \in IdlePlaces)
  BY <1>1 DEF Cancel, DeadlinePasses, RefuseRun, Claim, Prerequisites, StopAtNode, SkipNode,
     DecideNode, EnterNode, StepInput, AttemptWrite, InvokeStep, RetryWrite, RetryWait,
     Settle, MapInput, MapWrite, Expand, ItemInputs, ItemsWrite, MapInvoke, MapSettle,
     RoundWrite, RoundWait, MapDone, Collect, Result, ResultWrite, TerminateRun,
     TerminalWrite, ExitHook, HookWrite, Goto, Persist, Charge, Fail, ErrorFor, AtNode,
     Active, StepOutcome, StepUndispatched, InvokeError, FailMap, StartRound, SettleRound,
     IdlePlaces
<1>2. ASSUME NodeWrite \/ SelectNode \/ SuccessWrite \/ CollectWrite
      PROVE  \/ UNCHANGED pos /\ pc' = "terminal"
             \/ pos' = pos + 1 /\ pos <= Len(NodeOrder) /\ pc' = "node"
  BY <1>2, <1>0 DEF NodeWrite, SelectNode, SuccessWrite, CollectWrite, Goto, Fail, Persist,
     Charge, ErrorFor, NextNode, Active, AtNode, InvokeError, StepPlaces, MapPlaces
<1>3. CASE UNCHANGED vars
  BY <1>3 DEF vars, IdlePlaces
<1>4. QED
  BY <1>1, <1>2, <1>3 DEF IdlePlaces, Next, RunStep, StepNode, MapNode, Finished

LEMMA ArriveStep ==
    ASSUME [Next]_vars, pc' \in {"attemptWrite", "invoke", "retryWrite", "retryWait"}
    PROVE  StepInput \/ AttemptWrite \/ InvokeStep \/ RetryWrite \/ RetryWait
           \/ UNCHANGED <<pc, pos, attempt, manifest, history>>
<1>0. pc' \in {"attemptWrite", "invoke", "retryWrite", "retryWait"}
  OBVIOUS
<1>1. ASSUME Cancel \/ DeadlinePasses \/ RefuseRun \/ Claim \/ Prerequisites \/ StopAtNode \/
        SkipNode \/ DecideNode \/ NodeWrite \/ SelectNode \/ EnterNode \/ Settle \/ SuccessWrite \/
        MapInput \/ MapWrite \/ Expand \/ ItemInputs \/ ItemsWrite \/ MapInvoke \/ MapSettle \/
        RoundWrite \/ RoundWait \/ MapDone \/ Collect \/ CollectWrite \/ Result \/ ResultWrite \/
        TerminateRun \/ TerminalWrite \/ ExitHook \/ HookWrite
      PROVE  UNCHANGED <<pc, pos, attempt, manifest, history>>
  BY <1>1, <1>0 DEF Cancel, DeadlinePasses, RefuseRun, Claim, Prerequisites, StopAtNode,
     SkipNode, DecideNode, NodeWrite, SelectNode, EnterNode, Settle, SuccessWrite, MapInput,
     MapWrite, Expand, ItemInputs, ItemsWrite, MapInvoke, MapSettle, RoundWrite, RoundWait,
     MapDone, Collect, CollectWrite, Result, ResultWrite, TerminateRun, TerminalWrite,
     ExitHook, HookWrite, Goto, Persist, Charge, Fail, ErrorFor, AtNode, Active, NextNode,
     InvokeError, FailMap, StartRound, SettleRound
<1>2. CASE UNCHANGED vars
  BY <1>2 DEF vars
<1>3. QED
  BY <1>1, <1>2 DEF Next, RunStep, StepNode, MapNode, Finished

LEMMA ArriveRound ==
    ASSUME [Next]_vars, pc' \in {"mapInvoke", "roundWrite", "roundWait"}
    PROVE  ItemsWrite \/ MapSettle \/ RoundWrite \/ RoundWait
           \/ UNCHANGED <<pc, pos, attempt, pending, collected, manifest, history>>
<1>0. pc' \in {"mapInvoke", "roundWrite", "roundWait"}
  OBVIOUS
<1>1. ASSUME Cancel \/ DeadlinePasses \/ RefuseRun \/ Claim \/ Prerequisites \/ StopAtNode \/
        SkipNode \/ DecideNode \/ NodeWrite \/ SelectNode \/ EnterNode \/ StepInput \/ AttemptWrite
        \/ InvokeStep \/ RetryWrite \/ RetryWait \/ Settle \/ SuccessWrite \/ MapInput \/ MapWrite
        \/ Expand \/ ItemInputs \/ MapInvoke \/ MapDone \/ Collect \/ CollectWrite \/ Result \/
        ResultWrite \/ TerminateRun \/ TerminalWrite \/ ExitHook \/ HookWrite
      PROVE  UNCHANGED <<pc, pos, attempt, pending, collected, manifest, history>>
  BY <1>1, <1>0 DEF Cancel, DeadlinePasses, RefuseRun, Claim, Prerequisites, StopAtNode,
     SkipNode, DecideNode, NodeWrite, SelectNode, EnterNode, StepInput, AttemptWrite,
     InvokeStep, RetryWrite, RetryWait, Settle, SuccessWrite, MapInput, MapWrite, Expand,
     ItemInputs, MapInvoke, MapDone, Collect, CollectWrite, Result, ResultWrite, TerminateRun,
     TerminalWrite, ExitHook, HookWrite, Goto, Persist, Charge, Fail, ErrorFor, AtNode,
     Active, NextNode, StepOutcome, StepUndispatched, InvokeError, FailMap
<1>2. CASE UNCHANGED vars
  BY <1>2 DEF vars
<1>3. QED
  BY <1>1, <1>2 DEF Next, RunStep, StepNode, MapNode, Finished

LEMMA DispatchedInit == ASSUME Init PROVE Dispatched
BY DEF Init, Dispatched

LEMMA DispatchedStep ==
    ASSUME TypeOK, Dispatched, [Next]_vars
    PROVE  Dispatched'
<1>1. CASE InvokeStep
  <2>1. UNCHANGED pos /\ pos <= Len(NodeOrder) /\ pc' \notin IdlePlaces
    BY <1>1, InvokeStepIs DEF TypeOK, PlaceOK, IdlePlaces, StepPlaces
  <2>2. CASE UNCHANGED <<history, dispatchedNodes>>
    BY <2>1, <2>2 DEF Dispatched, ActiveNode, Before
  <2>3. ASSUME NEW o, history' = history \cup {<<ActiveNode, 0, attempt, o>>},
               dispatchedNodes' = dispatchedNodes \cup {ActiveNode}
        PROVE  Dispatched'
    <3>1. PICK h : h = <<ActiveNode, 0, attempt, o>>
      OBVIOUS
    <3>2. h[1] = ActiveNode /\ history' = history \cup {h}
      BY <2>3, <3>1
    <3>3. dispatchedNodes' = {g[1] : g \in history'}
      BY <2>3, <3>2 DEF Dispatched
    <3>4. \A g \in history' : g[1] \in Before(pos) \/ g[1] = ActiveNode
      BY <3>2 DEF Dispatched
    <3>5. QED
      BY <2>1, <3>3, <3>4 DEF Dispatched, ActiveNode, Before
  <2>4. QED
    BY <1>1, <2>2, <2>3, InvokeStepIs
<1>2. CASE MapInvoke
  <2>1. /\ UNCHANGED pos /\ pc' = "mapSettle"
        /\ history' = history \cup
             {<<ActiveNode, i, attempt, round'.outs[i]>> : i \in DOMAIN round'.outs}
        /\ dispatchedNodes' = IF DOMAIN round'.outs = {} THEN dispatchedNodes
                              ELSE dispatchedNodes \cup {ActiveNode}
    BY <1>2, MapInvokeIs
  <2>2. pos <= Len(NodeOrder) /\ pc' \notin IdlePlaces
    BY <1>2, <2>1, MapInvokeIs DEF TypeOK, PlaceOK, IdlePlaces, MapPlaces
  <2>3. dispatchedNodes' = {h[1] : h \in history'}
    <3>1. PICK new : new = {<<ActiveNode, i, attempt, round'.outs[i]>> : i \in DOMAIN round'.outs}
      OBVIOUS
    <3>2. \A h \in new : h[1] = ActiveNode
      BY <3>1
    <3>3. ASSUME NEW i \in DOMAIN round'.outs PROVE \E h \in new : TRUE
      BY <3>1
    <3>4. DOMAIN round'.outs = {} => new = {}
      BY <3>1
    <3>5. history' = history \cup new
      BY <2>1, <3>1
    <3>6. QED
      BY <2>1, <3>2, <3>3, <3>4, <3>5 DEF Dispatched
  <2>4. \A h \in history' : h[1] \in Before(pos) \/ h[1] = ActiveNode
    BY <2>1 DEF Dispatched
  <2>5. QED
    BY <2>1, <2>2, <2>3, <2>4 DEF Dispatched, ActiveNode, Before
<1>3. CASE ~InvokeStep /\ ~MapInvoke
  <2>1. UNCHANGED <<history, dispatchedNodes>>
    BY <1>3, HistoryStep
  <2>2. CASE UNCHANGED pos /\ (pc' \in IdlePlaces => pc \in IdlePlaces)
    BY <2>1, <2>2 DEF Dispatched, ActiveNode, Before
  <2>3. CASE pos' = pos + 1 /\ pos <= Len(NodeOrder)
    <3>1. ASSUME NEW n, n \in Before(pos) \/ n = ActiveNode PROVE n \in Before(pos + 1)
      BY <2>3, <3>1, PlanFacts DEF Before, ActiveNode, TypeOK, PlaceOK
    <3>2. Before(pos)' = Before(pos + 1)
      BY <2>3 DEF Before
    <3>3. QED
      BY <2>1, <3>1, <3>2 DEF Dispatched
  <2>4. QED
    BY <2>2, <2>3, ProgressStep
<1>4. QED
  BY <1>1, <1>2, <1>3

(***************************************************************************)
(* Run dispatches the nodes of the plan one after the other: whatever was  *)
(* dispatched lies before the active node, or is the active node past its  *)
(* first journal write.                                                    *)
(***************************************************************************)
THEOREM DispatchedInvariant == Spec => []Dispatched
<1>1. Init => Dispatched
  BY DispatchedInit
<1>2. TypeOK /\ Dispatched /\ [Next]_vars => Dispatched'
  BY DispatchedStep
<1>3. QED
  BY <1>1, <1>2, TypeCorrect, PTL DEF Spec

\* Nothing of the active node is dispatched before its handler invokes the runner.
LEMMA ActiveUndispatched ==
    ASSUME TypeOK, Dispatched, pos <= Len(NodeOrder), pc \in IdlePlaces
    PROVE  \A h \in history : h[1] # ActiveNode
<1>1. \A n \in Before(pos) : n # ActiveNode
  BY PlanFacts DEF Before, ActiveNode, TypeOK, PlaceOK
<1>2. QED
  BY <1>1 DEF Dispatched

LEMMA FirstMaySpend ==
    ASSUME TypeOK, Dispatched, pos <= Len(NodeOrder), pc \in IdlePlaces, NEW i
    PROVE  MaySpend(ActiveNode, i, 1)
<1>1. ActiveNode \in NodeIds
  BY ActiveFacts DEF TypeOK, PlaceOK
<1>2. Node[ActiveNode].maxAttempts \in Nat \ {0}
  BY <1>1, PlanAssumption
<1>3. QED
  BY <1>2, ActiveUndispatched DEF MaySpend

Dispatches(n, a, outs) == {<<n, i, a, outs[i]>> : i \in DOMAIN outs}

\* Spending one attempt of each of some items, all of the same number, keeps the discipline.
LEMMA SpendRound ==
    ASSUME TypeOK, RetryDiscipline, NEW n, NEW a, NEW outs,
           \A i \in DOMAIN outs : outs[i] \in OutcomeKinds /\ MaySpend(n, i, a),
           history' = history \cup Dispatches(n, a, outs)
    PROVE  /\ RetryDiscipline'
           /\ \A i \in DOMAIN outs :
                /\ <<n, i, a, outs[i]>> \in history'
                /\ \A h \in history' : h[1] = n /\ h[2] = i => h[3] <= a
<1> DEFINE New(i) == <<n, i, a, outs[i]>>
<1>1. \A i : New(i)[1] = n /\ New(i)[2] = i /\ New(i)[3] = a /\ New(i)[4] = outs[i]
  OBVIOUS
<1>2. /\ \A h \in history' : h \in history \/ \E i \in DOMAIN outs : h = New(i)
      /\ \A h \in history : h \in history'
      /\ \A i \in DOMAIN outs : New(i) \in history'
  BY DEF Dispatches
<1>3. \A h \in history : h[3] \in Nat
  BY DEF TypeOK, RestOK
<1> HIDE DEF New
<1>4. ASSUME NEW h \in history'
      PROVE  /\ h[3] \in 1..Node[h[1]].maxAttempts
             /\ h[3] > 1 => \E o \in OutcomeKinds :
                    RetryableOutcome(o) /\ <<h[1], h[2], h[3] - 1, o>> \in history'
  <2>1. CASE h \in history
    BY <1>2, <2>1 DEF RetryDiscipline
  <2>2. ASSUME NEW i \in DOMAIN outs, h = New(i)
        PROVE  /\ h[3] \in 1..Node[h[1]].maxAttempts
               /\ h[3] > 1 => \E o \in OutcomeKinds :
                      RetryableOutcome(o) /\ <<h[1], h[2], h[3] - 1, o>> \in history'
    <3>1. h[1] = n /\ h[2] = i /\ h[3] = a /\ MaySpend(n, i, a)
      BY <1>1, <2>2
    <3>2. QED
      BY <1>2, <3>1 DEF MaySpend
  <2>3. QED
    BY <1>2, <2>1, <2>2
<1>5. ASSUME NEW h \in history', NEW g \in history', g[1] = h[1], g[2] = h[2], g[3] = h[3]
      PROVE  g = h
  <2>1. CASE h \in history /\ g \in history
    BY <1>5, <2>1 DEF RetryDiscipline
  <2>2. ASSUME NEW i \in DOMAIN outs, NEW f \in history, f[1] = n, f[2] = i, f[3] = a PROVE FALSE
    BY <1>3, <2>2 DEF MaySpend
  <2>3. QED
    BY <1>1, <1>2, <1>5, <2>1, <2>2
<1>6. ASSUME NEW i \in DOMAIN outs, NEW h \in history', h[1] = n, h[2] = i PROVE h[3] <= a
  <2>1. a \in Nat
    BY DEF MaySpend
  <2>2. CASE h \in history
    BY <1>3, <1>6, <2>1, <2>2 DEF MaySpend
  <2>3. CASE h \notin history
    BY <1>1, <1>2, <2>1, <2>3
  <2>4. QED
    BY <2>2, <2>3
<1>7. QED
  BY <1>2, <1>4, <1>5, <1>6 DEF RetryDiscipline, New

LEMMA InvokeSpends ==
    ASSUME TypeOK, SpendInv, InvokeStep, NEW o \in OutcomeKinds,
           history' = history \cup {<<ActiveNode, 0, attempt, o>>}
    PROVE  /\ RetryDiscipline'
           /\ <<ActiveNode, 0, attempt, o>> \in history'
           /\ \A h \in history' : h[1] = ActiveNode /\ h[2] = 0 => h[3] <= attempt
<1>1. PICK outs : outs = [i \in {0} |-> o]
  OBVIOUS
<1>2. DOMAIN outs = {0} /\ outs[0] = o
  BY <1>1
<1>3. history' = history \cup Dispatches(ActiveNode, attempt, outs)
  BY <1>2 DEF Dispatches
<1>4. MaySpend(ActiveNode, 0, attempt)
  BY InvokeStepIs DEF SpendInv, StepMaySpend
<1>5. RetryDiscipline
  BY DEF SpendInv
<1>6. \A i \in DOMAIN outs : outs[i] \in OutcomeKinds /\ MaySpend(ActiveNode, i, attempt)
  BY <1>2, <1>4
<1>7. /\ RetryDiscipline'
      /\ \A i \in DOMAIN outs :
            /\ <<ActiveNode, i, attempt, outs[i]>> \in history'
            /\ \A h \in history' : h[1] = ActiveNode /\ h[2] = i => h[3] <= attempt
  BY <1>3, <1>5, <1>6, SpendRound
<1>8. QED
  BY <1>2, <1>7

LEMMA RoundSpends ==
    ASSUME TypeOK, SpendInv, MapInvoke
    PROVE  RetryDiscipline' /\ RoundSpent'
<1>1. \A i \in DOMAIN round'.outs : round'.outs[i] \in OutcomeKinds /\ MaySpend(ActiveNode, i, attempt)
  BY MapInvokeIs DEF SpendInv, MapMaySpend
<1>2. history' = history \cup Dispatches(ActiveNode, attempt, round'.outs)
  BY MapInvokeIs DEF Dispatches
<1>3. /\ RetryDiscipline'
      /\ \A i \in DOMAIN round'.outs :
            /\ <<ActiveNode, i, attempt, round'.outs[i]>> \in history'
            /\ \A h \in history' : h[1] = ActiveNode /\ h[2] = i => h[3] <= attempt
  BY <1>1, <1>2, SpendRound DEF SpendInv
<1>4. \A i \in DOMAIN round'.outs : attempt \in 1..Node[ActiveNode].maxAttempts
  BY <1>1 DEF MaySpend
<1>5. UNCHANGED <<pos, attempt>>
  BY MapInvokeIs
<1>6. QED
  BY <1>3, <1>4, <1>5 DEF RoundSpent, ActiveNode

LEMMA SpendInit == ASSUME Init PROVE SpendInv
BY DEF Init, SpendInv, RetryDiscipline, StepMaySpend, MapMaySpend, RoundSpent

LEMMA RetryDisciplineStep ==
    ASSUME TypeOK, SpendInv, [Next]_vars
    PROVE  RetryDiscipline'
<1>1. CASE UNCHANGED history
  BY <1>1 DEF SpendInv, RetryDiscipline
<1>2. QED
  BY <1>1, HistoryStep, InvokeStepIs, InvokeSpends, RoundSpends

LEMMA StepMaySpendStep ==
    ASSUME TypeOK, Dispatched, SpendInv, [Next]_vars
    PROVE  StepMaySpend'
<1>1. CASE pc' \notin {"attemptWrite", "invoke", "retryWrite", "retryWait"}
  BY <1>1 DEF StepMaySpend
<1>2. CASE UNCHANGED <<pc, pos, attempt, history>>
  BY <1>2 DEF SpendInv, StepMaySpend, MaySpend, ActiveNode
<1>3. CASE StepInput
  <2>1. pc = "stepInput" /\ pos <= Len(NodeOrder) /\ pc \in IdlePlaces
    BY <1>3 DEF StepInput, TypeOK, PlaceOK, StepPlaces, IdlePlaces
  <2>2. MaySpend(ActiveNode, 0, 1)
    BY <2>1, FirstMaySpend
  <2>3. UNCHANGED <<pos, history>> /\ (pc' = "terminal" \/ (pc' = "attemptWrite" /\ attempt' = 1))
    BY <1>3 DEF StepInput, Goto, Fail
  <2>4. QED
    BY <2>2, <2>3 DEF StepMaySpend, MaySpend, ActiveNode
<1>4. CASE AttemptWrite
  <2>1. /\ pc = "attemptWrite" /\ pc' \in {"invoke", "terminal"}
        /\ UNCHANGED <<pos, attempt, history>>
    BY <1>4 DEF AttemptWrite, Goto, Fail
  <2>2. QED
    BY <2>1 DEF SpendInv, StepMaySpend, MaySpend, ActiveNode
<1>5. CASE RetryWrite
  <2>1. /\ pc = "retryWrite" /\ pc' \in {"retryWait", "terminal"}
        /\ UNCHANGED <<pos, attempt, history>>
    BY <1>5 DEF RetryWrite, Goto, Fail
  <2>2. QED
    BY <2>1 DEF SpendInv, StepMaySpend, MaySpend, ActiveNode
<1>6. CASE RetryWait
  <2>1. /\ pc = "retryWait" /\ UNCHANGED <<pos, history>>
        /\ \/ pc' = "attemptWrite" /\ attempt' = attempt + 1
           \/ pc' = "terminal"
    BY <1>6 DEF RetryWait, Goto, Fail
  <2>2. MaySpend(ActiveNode, 0, attempt + 1)
    BY <2>1 DEF SpendInv, StepMaySpend
  <2>3. QED
    BY <2>1, <2>2 DEF StepMaySpend, MaySpend, ActiveNode
<1>7. CASE InvokeStep
  <2>1. CASE pc' \notin {"attemptWrite", "invoke", "retryWrite", "retryWait"}
    BY <2>1 DEF StepMaySpend
  <2>2. CASE pc' \in {"attemptWrite", "invoke", "retryWrite", "retryWait"}
    <3>1. PICK o \in OutcomeKinds :
            /\ history' = history \cup {<<ActiveNode, 0, attempt, o>>}
            /\ RetryableOutcome(o) /\ attempt < Node[ActiveNode].maxAttempts
            /\ pc' = "retryWrite"
      BY <1>7, <2>2, InvokeStepIs
    <3>2. /\ <<ActiveNode, 0, attempt, o>> \in history'
          /\ \A h \in history' : h[1] = ActiveNode /\ h[2] = 0 => h[3] <= attempt
      BY <1>7, <3>1, InvokeSpends
    <3>3. attempt \in Nat /\ attempt + 1 - 1 = attempt /\ Node[ActiveNode].maxAttempts \in Nat
      BY <1>7, PlaceKept, InvokeStepIs, PlanAssumption DEF TypeOK, RoundOK, StepPlaces
    <3>4. UNCHANGED <<pos, attempt>>
      BY <1>7, InvokeStepIs
    <3>5. \A h \in history' : h[1] = ActiveNode /\ h[2] = 0 => h[3] < attempt + 1
      <4>1. RestOK'
        BY RestOKStep
      <4>2. \A h \in history' : h[3] \in Nat
        BY <4>1 DEF RestOK
      <4>3. QED
        BY <3>2, <3>3, <4>2
    <3>6. QED
      BY <3>1, <3>2, <3>3, <3>4, <3>5 DEF StepMaySpend, MaySpend, ActiveNode
  <2>3. QED
    BY <2>1, <2>2
<1>8. QED
  BY <1>1, <1>2, <1>3, <1>4, <1>5, <1>6, <1>7, ArriveStep

LEMMA MapMaySpendStep ==
    ASSUME TypeOK, Dispatched, SpendInv, [Next]_vars
    PROVE  MapMaySpend'
<1>1. CASE pc' \notin {"mapInvoke", "roundWrite", "roundWait"}
  BY <1>1 DEF MapMaySpend
<1>2. CASE UNCHANGED <<pc, pos, attempt, pending, history>>
  BY <1>2 DEF SpendInv, MapMaySpend, MaySpend, ActiveNode
<1>3. CASE ItemsWrite
  <2>1. pc = "itemsWrite" /\ pos <= Len(NodeOrder) /\ pc \in IdlePlaces
    BY <1>3 DEF ItemsWrite, TypeOK, PlaceOK, MapPlaces, IdlePlaces
  <2>2. \A i : MaySpend(ActiveNode, i, 1)
    BY <2>1, FirstMaySpend
  <2>3. UNCHANGED <<pos, history>> /\ (pc' = "terminal" \/ attempt' = 1)
    BY <1>3 DEF ItemsWrite, Fail
  <2>4. QED
    BY <2>2, <2>3 DEF MapMaySpend, MaySpend, ActiveNode
<1>4. CASE RoundWrite \/ RoundWait
  <2>1. /\ pc \in {"roundWrite", "roundWait"}
        /\ UNCHANGED <<pos, attempt, pending, history>>
    BY <1>4 DEF RoundWrite, RoundWait
  <2>2. QED
    BY <2>1 DEF SpendInv, MapMaySpend, MaySpend, ActiveNode
<1>5. CASE MapSettle
  <2>1. CASE pc' \notin {"mapInvoke", "roundWrite", "roundWait"}
    BY <2>1 DEF MapMaySpend
  <2>2. CASE pc' \in {"mapInvoke", "roundWrite", "roundWait"}
    <3>1. /\ pc = "mapSettle" /\ UNCHANGED <<pos, history>>
          /\ attempt' = attempt + 1 /\ pending' = RetryItems
      BY <1>5, <2>2 DEF MapSettle, SettleRound, FailMap, StartRound, Goto, Fail
    <3>2. attempt \in Nat /\ attempt + 1 - 1 = attempt /\ \A h \in history : h[3] \in Nat
      BY DEF TypeOK, RoundOK, RestOK
    <3>3. ASSUME NEW i \in RetryItems PROVE MaySpend(ActiveNode, i, attempt + 1)
      <4>1. /\ i \in DOMAIN round.outs /\ RetryableOutcome(round.outs[i])
            /\ attempt < Node[ActiveNode].maxAttempts
        BY <3>3 DEF RetryItems
      <4>2. /\ attempt \in 1..Node[ActiveNode].maxAttempts
            /\ <<ActiveNode, i, attempt, round.outs[i]>> \in history
            /\ \A h \in history : h[1] = ActiveNode /\ h[2] = i => h[3] <= attempt
        BY <3>1, <4>1 DEF SpendInv, RoundSpent
      <4>3. Node[ActiveNode].maxAttempts \in Nat
        BY <3>1, PlaceKept, PlanAssumption DEF MapPlaces
      <4>4. round.outs[i] \in OutcomeKinds
        BY <4>1 DEF TypeOK, RoundOK
      <4>5. \A h \in history : h[1] = ActiveNode /\ h[2] = i => h[3] < attempt + 1
        BY <3>2, <4>2
      <4>6. QED
        BY <3>2, <4>1, <4>2, <4>3, <4>4, <4>5 DEF MaySpend
    <3>4. QED
      BY <3>1, <3>3 DEF MapMaySpend, MaySpend, ActiveNode
  <2>3. QED
    BY <2>1, <2>2
<1>6. QED
  BY <1>1, <1>2, <1>3, <1>4, <1>5, ArriveRound

LEMMA RoundSpentStep ==
    ASSUME TypeOK, SpendInv, [Next]_vars
    PROVE  RoundSpent'
<1>1. CASE pc' # "mapSettle"
  BY <1>1 DEF RoundSpent
<1>2. CASE MapInvoke
  BY <1>2, RoundSpends
<1>3. CASE pc' = "mapSettle" /\ ~MapInvoke
  <2>1. UNCHANGED <<pc, pos, attempt, round, history>>
    BY <1>3, ArriveMapSettle, SettleStep
  <2>2. QED
    BY <2>1 DEF SpendInv, RoundSpent, ActiveNode
<1>4. QED
  BY <1>1, <1>2, <1>3

(***************************************************************************)
(* The attempt that Run or a round of runMapNode is about to spend is the  *)
(* next one of its step or item, within maxAttempts, and follows a         *)
(* retryable failure.                                                      *)
(***************************************************************************)
THEOREM SpendInvariant == Spec => []SpendInv
<1>1. Init => SpendInv
  BY SpendInit
<1>2. TypeOK /\ Dispatched /\ SpendInv /\ [Next]_vars => SpendInv'
  BY RetryDisciplineStep, StepMaySpendStep, MapMaySpendStep, RoundSpentStep DEF SpendInv
<1>3. QED
  BY <1>1, <1>2, TypeCorrect, DispatchedInvariant, PTL DEF Spec

\* Attempts are spent only as the retry contract of a step or map allows, however long a
\* run is and whatever its rounds report.
THEOREM RetryCorrect == Spec => []RetryDiscipline
<1>1. SpendInv => RetryDiscipline
  BY DEF SpendInv
<1>2. QED
  BY <1>1, SpendInvariant, PTL
==============================================================================
