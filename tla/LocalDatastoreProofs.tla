------------------------- MODULE LocalDatastoreProofs -------------------------
(***************************************************************************)
(* TLAPS proof that the filesystem datastore implements ConditionalStore   *)
(* for any number of clients, bodies and content types, provided a key's   *)
(* content type is stable: clients only create it (artifacts), or replace  *)
(* it once it is claimed, by objects of its type (run journals); and of    *)
(* what creates promise: immutable objects, refusals for a real conflict.  *)
(***************************************************************************)
EXTENDS LocalDatastore, TLAPS

StableType == ClaimFirst \/ \A r \in Requests : r.op # "put"

\* A call is served along the path of its operation.
PathOf(op) ==
    IF op = "create" THEN {"temporary", "linkSidecar", "readSidecar", "link", "cleanup"}
    ELSE IF op = "put" THEN {"temporary", "rename", "renameSidecar"}
    ELSE IF op = "get" THEN {"readBody", "readType"}
    ELSE {"idle"}

OnPath == \A c \in Clients : pc[c] \in PathOf(call[c].op)

\* The sidecar is complete, and final, before a body is visible.
SidecarFirst ==
    /\ target # NoObject => sidecar = target.type
    /\ \A c \in Clients :
        /\ pc[c] = "readSidecar" => sidecar # "none"
        /\ pc[c] = "link" => sidecar = call[c].type
        /\ call[c].op = "put" => target # NoObject /\ sidecar = call[c].type
        /\ pc[c] = "readType" => target # NoObject /\ read[c] # NoObject /\ read[c].type = sidecar

LInv == TypeOK /\ OnPath /\ SidecarFirst
-----------------------------------------------------------------------------
\* Facts about requests and answers the provers need.

\* What the assumption on requests says of each of them: the object a request writes
\* is one of Objects and is not NoObject.
LEMMA RequestFacts ==
    ASSUME NEW r \in Requests
    PROVE  /\ r.op \in OpNames
           /\ r # NoRequest
           /\ r.type \in RequestTypes /\ r.type # "none"
           /\ ObjectOf(r) \in Objects
           /\ ObjectOf(r) # NoObject
           /\ ObjectOf(r).type = r.type
  BY RequestAssumption DEF NoRequest, RequestTypes, Objects, ObjectOf, NoObject, OpNames

\* NoObject is a possible content of the object file, and NoRequest has no operation.
LEMMA NothingFacts == NoObject \in Objects /\ NoRequest.op = "none"
  BY DEF Objects, NoRequest

\* An object that exists has a content type.
LEMMA ObjectFacts == \A o \in Objects : o # NoObject => o.type # "none"
  BY RequestFacts DEF Objects

\* Only a client without a call is idle.
LEMMA Serving ==
    ASSUME TypeOK, OnPath, NEW c \in Clients, pc[c] # "idle"
    PROVE  call[c] \in Requests
  BY NothingFacts DEF TypeOK, OnPath, PathOf

\* The files and the calls keep their types.
LEMMA TypeStep ==
    ASSUME TypeOK, OnPath, [Next]_vars
    PROVE  TypeOK'
<1>1. ASSUME NEW c \in Clients, Call(c) PROVE TypeOK'
  BY <1>1, RequestFacts, NothingFacts, Serving DEF Call, TypeOK, Places, Move, Return
<1>2. ASSUME NEW c \in Clients, Fail(c) PROVE TypeOK'
  BY <1>2, RequestFacts, NothingFacts, Serving DEF Fail, TypeOK, Places, Move, Return
<1>3. ASSUME NEW c \in Clients, WriteTemporary(c) PROVE TypeOK'
  BY <1>3, RequestFacts, NothingFacts, Serving DEF WriteTemporary, TypeOK, Places, Move, Return
<1>4. ASSUME NEW c \in Clients, LinkSidecar(c) PROVE TypeOK'
  BY <1>4, RequestFacts, NothingFacts, Serving DEF LinkSidecar, TypeOK, Places, Move, Return
<1>5. ASSUME NEW c \in Clients, ReadSidecar(c) PROVE TypeOK'
  BY <1>5, RequestFacts, NothingFacts, Serving DEF ReadSidecar, TypeOK, Places, Move, Return
<1>6. ASSUME NEW c \in Clients, Link(c) PROVE TypeOK'
  BY <1>6, RequestFacts, NothingFacts, Serving DEF Link, TypeOK, Places, Move, Return
<1>7. ASSUME NEW c \in Clients, Cleanup(c) PROVE TypeOK'
  BY <1>7, RequestFacts, NothingFacts, Serving DEF Cleanup, TypeOK, Places, Move, Return
<1>8. ASSUME NEW c \in Clients, Rename(c) PROVE TypeOK'
  BY <1>8, RequestFacts, NothingFacts, Serving DEF Rename, TypeOK, Places, Move, Return
<1>9. ASSUME NEW c \in Clients, RenameSidecar(c) PROVE TypeOK'
  BY <1>9, RequestFacts, NothingFacts, Serving DEF RenameSidecar, TypeOK, Places, Move, Return
<1>10. ASSUME NEW c \in Clients, ReadBody(c) PROVE TypeOK'
  BY <1>10, RequestFacts, NothingFacts, Serving DEF ReadBody, TypeOK, Places, Move, Return
<1>11. ASSUME NEW c \in Clients, ReadType(c) PROVE TypeOK'
  BY <1>11, RequestFacts, NothingFacts, Serving DEF ReadType, TypeOK, Places, Move, Return
<1>12. ASSUME UNCHANGED vars PROVE TypeOK'
  BY <1>12 DEF vars, TypeOK, Places, Move, Return
<1>13. QED
  BY <1>1, <1>2, <1>3, <1>4, <1>5, <1>6, <1>7, <1>8, <1>9, <1>10, <1>11, <1>12 DEF Next, Serve

\* A call never leaves the path of its operation.
LEMMA PathStep ==
    ASSUME TypeOK, OnPath, [Next]_vars
    PROVE  OnPath'
<1>1. ASSUME NEW c \in Clients, Call(c) PROVE OnPath'
  BY <1>1, RequestFacts, NothingFacts, Serving DEF Call, TypeOK, OnPath, PathOf, Move, Return, OpNames
<1>2. ASSUME NEW c \in Clients, Fail(c) PROVE OnPath'
  BY <1>2, RequestFacts, NothingFacts, Serving DEF Fail, TypeOK, OnPath, PathOf, Move, Return, OpNames
<1>3. ASSUME NEW c \in Clients, WriteTemporary(c) PROVE OnPath'
  BY <1>3, RequestFacts, NothingFacts, Serving DEF WriteTemporary, TypeOK, OnPath, PathOf, Move, Return, OpNames
<1>4. ASSUME NEW c \in Clients, LinkSidecar(c) PROVE OnPath'
  BY <1>4, RequestFacts, NothingFacts, Serving DEF LinkSidecar, TypeOK, OnPath, PathOf, Move, Return, OpNames
<1>5. ASSUME NEW c \in Clients, ReadSidecar(c) PROVE OnPath'
  BY <1>5, RequestFacts, NothingFacts, Serving DEF ReadSidecar, TypeOK, OnPath, PathOf, Move, Return, OpNames
<1>6. ASSUME NEW c \in Clients, Link(c) PROVE OnPath'
  BY <1>6, RequestFacts, NothingFacts, Serving DEF Link, TypeOK, OnPath, PathOf, Move, Return, OpNames
<1>7. ASSUME NEW c \in Clients, Cleanup(c) PROVE OnPath'
  BY <1>7, RequestFacts, NothingFacts, Serving DEF Cleanup, TypeOK, OnPath, PathOf, Move, Return, OpNames
<1>8. ASSUME NEW c \in Clients, Rename(c) PROVE OnPath'
  BY <1>8, RequestFacts, NothingFacts, Serving DEF Rename, TypeOK, OnPath, PathOf, Move, Return, OpNames
<1>9. ASSUME NEW c \in Clients, RenameSidecar(c) PROVE OnPath'
  BY <1>9, RequestFacts, NothingFacts, Serving DEF RenameSidecar, TypeOK, OnPath, PathOf, Move, Return, OpNames
<1>10. ASSUME NEW c \in Clients, ReadBody(c) PROVE OnPath'
  BY <1>10, RequestFacts, NothingFacts, Serving DEF ReadBody, TypeOK, OnPath, PathOf, Move, Return, OpNames
<1>11. ASSUME NEW c \in Clients, ReadType(c) PROVE OnPath'
  BY <1>11, RequestFacts, NothingFacts, Serving DEF ReadType, TypeOK, OnPath, PathOf, Move, Return, OpNames
<1>12. ASSUME UNCHANGED vars PROVE OnPath'
  BY <1>12 DEF vars, TypeOK, OnPath, PathOf, Move, Return, OpNames
<1>13. QED
  BY <1>1, <1>2, <1>3, <1>4, <1>5, <1>6, <1>7, <1>8, <1>9, <1>10, <1>11, <1>12 DEF Next, Serve

\* The content type is recorded before the body, and stays.
LEMMA SidecarStep ==
    ASSUME StableType, TypeOK, TypeOK', OnPath, SidecarFirst, [Next]_vars
    PROVE  SidecarFirst'
<1>1. ASSUME NEW c \in Clients, Call(c) PROVE SidecarFirst'
  <2>1. PICK r \in Requests :
              /\ r.op = "put" /\ ClaimFirst => target.type = r.type
              /\ call' = [call EXCEPT ![c] = r]
              /\ pc' = [pc EXCEPT ![c] = IF r.op = "get" THEN "readBody" ELSE "temporary"]
    BY <1>1 DEF Call, Move
  <2>2. r.op = "put" => target # NoObject /\ sidecar = r.type
    BY <2>1, RequestFacts DEF StableType, SidecarFirst, NoObject
  <2>3. QED
    BY <1>1, <2>1, <2>2 DEF Call, TypeOK, SidecarFirst
<1>2. ASSUME NEW c \in Clients, Fail(c) PROVE SidecarFirst'
  BY <1>2, RequestFacts, NothingFacts, Serving DEF Fail, TypeOK, OnPath, PathOf, SidecarFirst, Move, Return
<1>3. ASSUME NEW c \in Clients, WriteTemporary(c) PROVE SidecarFirst'
  BY <1>3, RequestFacts, NothingFacts, Serving DEF WriteTemporary, TypeOK, OnPath, PathOf, SidecarFirst, Move, Return
<1>4. ASSUME NEW c \in Clients, LinkSidecar(c) PROVE SidecarFirst'
  <2>1. target # NoObject => sidecar # "none"
    BY ObjectFacts DEF TypeOK, SidecarFirst
  <2>2. \A d \in Clients : call[d].op = "put" \/ pc[d] \in {"link", "readType"} =>
                               sidecar # "none"
    BY <2>1, Serving, RequestFacts DEF SidecarFirst
  <2>3. CASE sidecar = "none"
    BY <1>4, <2>1, <2>2, <2>3 DEF LinkSidecar, TypeOK, SidecarFirst, Move
  <2>4. CASE sidecar # "none"
    BY <1>4, <2>4 DEF LinkSidecar, TypeOK, SidecarFirst, Move
  <2>5. QED
    BY <2>3, <2>4
<1>5. ASSUME NEW c \in Clients, ReadSidecar(c) PROVE SidecarFirst'
  BY <1>5, NothingFacts DEF ReadSidecar, ContentType, TypeOK, SidecarFirst, Move, Return
<1>6. ASSUME NEW c \in Clients, Link(c) PROVE SidecarFirst'
  <2>1. call[c] \in Requests
    BY <1>6, Serving DEF Link
  <2>2. CASE target = NoObject
    <3>1. target' = ObjectOf(call[c]) /\ sidecar' = sidecar /\ sidecar = call[c].type
      BY <1>6, <2>2 DEF Link, SidecarFirst
    <3>2. target' # NoObject /\ target'.type = sidecar'
      BY <2>1, <3>1, RequestFacts
    <3>3. pc' = [pc EXCEPT ![c] = "cleanup"] /\ call' = call /\ read' = read
      BY <1>6, <2>2 DEF Link, Move
    <3>4. QED
      BY <2>1, <2>2, <3>1, <3>2, <3>3 DEF TypeOK, SidecarFirst
  <2>3. CASE target # NoObject
    BY <1>6, <2>3, NothingFacts DEF Link, TypeOK, SidecarFirst, Move, Return
  <2>4. QED
    BY <2>2, <2>3
<1>7. ASSUME NEW c \in Clients, Cleanup(c) PROVE SidecarFirst'
  BY <1>7, RequestFacts, NothingFacts, Serving DEF Cleanup, TypeOK, OnPath, PathOf, SidecarFirst, Move, Return
<1>8. ASSUME NEW c \in Clients, Rename(c) PROVE SidecarFirst'
  BY <1>8, RequestFacts, NothingFacts, Serving DEF Rename, TypeOK, OnPath, PathOf, SidecarFirst, Move, Return
<1>9. ASSUME NEW c \in Clients, RenameSidecar(c) PROVE SidecarFirst'
  BY <1>9, RequestFacts, NothingFacts, Serving DEF RenameSidecar, TypeOK, OnPath, PathOf, SidecarFirst, Move, Return
<1>10. ASSUME NEW c \in Clients, ReadBody(c) PROVE SidecarFirst'
  BY <1>10, RequestFacts, NothingFacts, Serving DEF ReadBody, TypeOK, OnPath, PathOf, SidecarFirst, Move, Return
<1>11. ASSUME NEW c \in Clients, ReadType(c) PROVE SidecarFirst'
  BY <1>11, RequestFacts, NothingFacts, Serving DEF ReadType, TypeOK, OnPath, PathOf, SidecarFirst, Move, Return
<1>12. ASSUME UNCHANGED vars PROVE SidecarFirst'
  BY <1>12 DEF vars, TypeOK, OnPath, PathOf, SidecarFirst, Move, Return
<1>13. QED
  BY <1>1, <1>2, <1>3, <1>4, <1>5, <1>6, <1>7, <1>8, <1>9, <1>10, <1>11, <1>12 DEF Next, Serve

-----------------------------------------------------------------------------
\* The step simulation.

Answers == [d \in Clients |-> AnswerOf(d)]

\* A step of one client changes at most its own answer.
LEMMA AnswersOfStep ==
    ASSUME NEW c \in Clients,
           \A d \in Clients \ {c} : pc'[d] = pc[d] /\ read'[d] = read[d]
    PROVE  Answers' = [Answers EXCEPT ![c] = AnswerOf(c)']
<1>1. \A d \in Clients \ {c} : AnswerOf(d)' = AnswerOf(d)
  BY DEF AnswerOf
<1>2. QED
  BY <1>1 DEF Answers

\* A step that touches only c's entries leaves the answers of all other clients.
LEMMA OthersKept ==
    ASSUME TypeOK, [Next]_vars, NEW c \in Clients, Call(c) \/ Fail(c) \/ Serve(c)
    PROVE  \A d \in Clients \ {c} : pc'[d] = pc[d] /\ read'[d] = read[d]
  BY DEF TypeOK, Call, Fail, Serve, WriteTemporary, LinkSidecar, ReadSidecar, Link, Cleanup,
     Rename, RenameSidecar, ReadBody, ReadType, Move, Return

\* The tags tell an answer from none.
LEMMA AnswerFacts ==
    ASSUME NEW o
    PROVE  /\ Answer("created", o) # NoAnswer
           /\ Answer("ok", o) # NoAnswer
           /\ Answer("found", o) # NoAnswer
  BY DEF Answer, NoAnswer

\* Every step of a client is a step of the abstract store, or leaves it unchanged.
LEMMA Simulation ==
    ASSUME StableType, LInv, LInv', [Next]_vars
    PROVE  [Store!Next]_(Store!storeVars)
<1> USE DEF LInv
<1>1. ASSUME NEW c \in Clients, Call(c) PROVE \E r \in Requests : Store!Call(c, r)
  <2>1. AnswerOf(c) = NoAnswer /\ AnswerOf(c)' = NoAnswer
    BY <1>1 DEF Call, Move, AnswerOf, TypeOK
  <2>2. Answers' = Answers
    BY <1>1, <2>1, OthersKept, AnswersOfStep DEF Answers
  <2>3. call[c] = NoRequest
    BY <1>1, RequestFacts DEF Call, TypeOK, OnPath, PathOf, OpNames
  <2>4. QED
    BY <1>1, <2>2, <2>3 DEF Call, Answers, Store!Call, Store!NoRequest, NoRequest
<1>2. ASSUME NEW c \in Clients, Fail(c) PROVE Store!FailCall(c)
  <2>1. AnswerOf(c)' = NoAnswer
    BY <1>2 DEF Fail, Return, Move, AnswerOf, TypeOK
  <2>2. Answers' = [Answers EXCEPT ![c] = NoAnswer]
    BY <1>2, <2>1, OthersKept, AnswersOfStep
  <2>3. call[c] # NoRequest
    BY <1>2, Serving, RequestFacts DEF Fail
  <2>4. QED
    BY <1>2, <2>2, <2>3 DEF Fail, Return, Answers, NoAnswer, NoRequest, NoObject, Answer,
       Store!FailCall, Store!Respond, Store!Answer, Store!NoAnswer, Store!NoRequest,
       Store!NoObject
<1>3. ASSUME NEW c \in Clients, WriteTemporary(c) PROVE UNCHANGED Store!storeVars
  <2>1. AnswerOf(c)' = AnswerOf(c)
    BY <1>3 DEF WriteTemporary, Move, AnswerOf, TypeOK
  <2>2. Answers' = Answers
    BY <1>3, <2>1, OthersKept, AnswersOfStep DEF Serve, Answers
  <2>3. QED
    BY <1>3, <2>2 DEF WriteTemporary, Answers, Store!storeVars
<1>4. ASSUME NEW c \in Clients, LinkSidecar(c)
      PROVE  Store!FixType(c) \/ UNCHANGED Store!storeVars
  <2>1. AnswerOf(c) = NoAnswer /\ AnswerOf(c)' = NoAnswer
    BY <1>4 DEF LinkSidecar, Move, AnswerOf, TypeOK
  <2>2. Answers' = Answers
    BY <1>4, <2>1, OthersKept, AnswersOfStep DEF Serve, Answers
  <2>3. call[c].op = "create"
    BY <1>4, Serving, RequestFacts DEF LinkSidecar, OnPath, PathOf, OpNames
  <2>4. Answers[c] = Store!NoAnswer
    BY <2>1 DEF Answers, NoAnswer, Answer, NoObject, Store!NoAnswer, Store!NoObject
  <2>5. QED
    BY <1>4, <2>2, <2>3, <2>4 DEF LinkSidecar, Answers, Store!FixType, Store!Effective,
       Store!storeVars
<1>5. ASSUME NEW c \in Clients, ReadSidecar(c)
      PROVE  Store!Refuse(c) \/ UNCHANGED Store!storeVars
  <2>1. AnswerOf(c) = NoAnswer /\ AnswerOf(c)' = NoAnswer
    BY <1>5 DEF ReadSidecar, Return, Move, AnswerOf, TypeOK
  <2>2. Answers' = Answers /\ Answers' = [Answers EXCEPT ![c] = NoAnswer]
    BY <1>5, <2>1, OthersKept, AnswersOfStep DEF Serve, Answers
  <2>3. call[c].op = "create" /\ sidecar # "none"
    BY <1>5, Serving, RequestFacts DEF ReadSidecar, OnPath, PathOf, OpNames, SidecarFirst
  <2>4. Answers[c] = NoAnswer
    BY <2>1 DEF Answers
  <2>5. QED
    BY <1>5, <2>2, <2>3, <2>4 DEF ReadSidecar, ContentType, Return, Answers, NoAnswer, Answer,
       NoObject, NoRequest, Store!Refuse, Store!Respond, Store!Effective, Store!Answer,
       Store!NoAnswer, Store!NoRequest, Store!NoObject, Store!storeVars
<1>6. ASSUME NEW c \in Clients, Link(c) PROVE Store!Create(c) \/ Store!Refuse(c)
  <2>1. call[c].op = "create" /\ sidecar = call[c].type
    BY <1>6, Serving, RequestFacts DEF Link, OnPath, PathOf, OpNames, SidecarFirst
  <2>2. Answers[c] = NoAnswer
    BY <1>6 DEF Link, Answers, AnswerOf
  <2>3. Answers' = [Answers EXCEPT ![c] = AnswerOf(c)']
    BY <1>6, OthersKept, AnswersOfStep DEF Serve
  <2>4. CASE target = NoObject
    <3>1. AnswerOf(c)' = Answer("created", NoObject)
      BY <1>6, <2>4 DEF Link, Move, AnswerOf, TypeOK
    <3>2. Store!Create(c)
      BY <1>6, <2>1, <2>2, <2>3, <2>4, <3>1 DEF Link, Answers, NoAnswer, Answer, NoObject,
         ObjectOf, Store!Create, Store!Effective, Store!Answer, Store!NoAnswer,
         Store!NoObject, Store!ObjectOf
    <3>3. QED
      BY <3>2
  <2>5. CASE target # NoObject
    <3>1. AnswerOf(c)' = NoAnswer
      BY <1>6, <2>5 DEF Link, Return, Move, AnswerOf, TypeOK
    <3>2. Store!Refuse(c)
      BY <1>6, <2>1, <2>2, <2>3, <2>5, <3>1 DEF Link, Return, Answers, NoAnswer, Answer,
         NoObject, NoRequest, Store!Refuse, Store!Respond, Store!Effective, Store!Answer,
         Store!NoAnswer, Store!NoRequest, Store!NoObject
    <3>3. QED
      BY <3>2
  <2>6. QED
    BY <2>4, <2>5
<1>7. ASSUME NEW c \in Clients, Cleanup(c) PROVE Store!Return(c)
  <2>1. Answers[c] = Answer("created", NoObject) /\ Answers[c] # NoAnswer
    BY <1>7, AnswerFacts DEF Cleanup, Answers, AnswerOf
  <2>2. AnswerOf(c)' = NoAnswer
    BY <1>7 DEF Cleanup, Return, Move, AnswerOf, TypeOK
  <2>3. Answers' = [Answers EXCEPT ![c] = NoAnswer]
    BY <1>7, <2>2, OthersKept, AnswersOfStep DEF Serve
  <2>4. QED
    BY <1>7, <2>1, <2>3 DEF Cleanup, Return, Answers, NoAnswer, Answer, NoObject, NoRequest,
       Store!Return, Store!Respond, Store!NoAnswer, Store!NoRequest, Store!NoObject
<1>8. ASSUME NEW c \in Clients, Rename(c) PROVE Store!Replace(c)
  <2>1. call[c].op = "put"
    BY <1>8, Serving, RequestFacts DEF Rename, OnPath, PathOf, OpNames
  <2>2. Answers[c] = NoAnswer
    BY <1>8 DEF Rename, Answers, AnswerOf
  <2>3. AnswerOf(c)' = Answer("ok", NoObject)
    BY <1>8 DEF Rename, Move, AnswerOf, TypeOK
  <2>4. Answers' = [Answers EXCEPT ![c] = Answer("ok", NoObject)]
    BY <1>8, <2>3, OthersKept, AnswersOfStep DEF Serve
  <2>5. QED
    BY <1>8, <2>1, <2>2, <2>4 DEF Rename, Answers, NoAnswer, Answer, NoObject, ObjectOf,
       Store!Replace, Store!Effective, Store!Answer, Store!NoAnswer, Store!NoObject,
       Store!ObjectOf
<1>9. ASSUME NEW c \in Clients, RenameSidecar(c) PROVE Store!Return(c)
  <2>1. Answers[c] = Answer("ok", NoObject) /\ Answers[c] # NoAnswer
    BY <1>9, AnswerFacts DEF RenameSidecar, Answers, AnswerOf
  <2>2. AnswerOf(c)' = NoAnswer
    BY <1>9 DEF RenameSidecar, Return, Move, AnswerOf, TypeOK
  <2>3. Answers' = [Answers EXCEPT ![c] = NoAnswer]
    BY <1>9, <2>2, OthersKept, AnswersOfStep DEF Serve
  <2>4. sidecar' = sidecar
    BY <1>9, Serving, RequestFacts
       DEF RenameSidecar, OnPath, PathOf, OpNames, SidecarFirst
  <2>5. QED
    BY <1>9, <2>1, <2>3, <2>4 DEF RenameSidecar, Return, Answers, NoAnswer, Answer, NoObject,
       NoRequest, Store!Return, Store!Respond, Store!NoAnswer, Store!NoRequest, Store!NoObject
<1>10. ASSUME NEW c \in Clients, ReadBody(c) PROVE Store!Read(c) \/ Store!Miss(c)
  <2>1. call[c].op = "get"
    BY <1>10, Serving, RequestFacts DEF ReadBody, OnPath, PathOf, OpNames
  <2>2. Answers[c] = NoAnswer
    BY <1>10 DEF ReadBody, Answers, AnswerOf
  <2>3. Answers' = [Answers EXCEPT ![c] = AnswerOf(c)']
    BY <1>10, OthersKept, AnswersOfStep DEF Serve
  <2>4. CASE target # NoObject
    <3>1. AnswerOf(c)' = Answer("found", target)
      BY <1>10, <2>4 DEF ReadBody, Move, AnswerOf, TypeOK
    <3>2. Store!Read(c)
      BY <1>10, <2>1, <2>2, <2>3, <2>4, <3>1 DEF ReadBody, Answers, NoAnswer, Answer, NoObject,
         Store!Read, Store!Effective, Store!Answer, Store!NoAnswer, Store!NoObject
    <3>3. QED
      BY <3>2
  <2>5. CASE target = NoObject
    <3>1. AnswerOf(c)' = NoAnswer
      BY <1>10, <2>5 DEF ReadBody, Return, Move, AnswerOf, TypeOK
    <3>2. Store!Miss(c)
      BY <1>10, <2>1, <2>2, <2>3, <2>5, <3>1 DEF ReadBody, Return, Answers, NoAnswer, Answer,
         NoObject, NoRequest, Store!Miss, Store!Respond, Store!Effective, Store!Answer,
         Store!NoAnswer, Store!NoRequest, Store!NoObject
    <3>3. QED
      BY <3>2
  <2>6. QED
    BY <2>4, <2>5
<1>11. ASSUME NEW c \in Clients, ReadType(c) PROVE Store!Return(c)
  <2>1. Answers[c] = Answer("found", read[c]) /\ Answers[c] # NoAnswer
    BY <1>11, AnswerFacts DEF ReadType, Answers, AnswerOf
  <2>2. AnswerOf(c)' = NoAnswer
    BY <1>11 DEF ReadType, Return, Move, AnswerOf, TypeOK
  <2>3. Answers' = [Answers EXCEPT ![c] = NoAnswer]
    BY <1>11, <2>2, OthersKept, AnswersOfStep DEF Serve
  <2>4. read[c].type = ContentType
    BY <1>11, ObjectFacts DEF ReadType, TypeOK, SidecarFirst, ContentType
  <2>5. read[c] = [body |-> read[c].body, type |-> ContentType]
    BY <2>4 DEF TypeOK, Objects, ObjectOf, NoObject
  <2>6. QED
    BY <1>11, <2>1, <2>3, <2>5 DEF ReadType, Return, Answers, NoAnswer, Answer, NoObject,
       NoRequest, Store!Return, Store!Respond, Store!NoAnswer, Store!NoRequest, Store!NoObject
<1>12. ASSUME UNCHANGED vars PROVE UNCHANGED Store!storeVars
  BY <1>12 DEF vars, Store!storeVars, AnswerOf
<1>13. QED
  BY <1>1, <1>2, <1>3, <1>4, <1>5, <1>6, <1>7, <1>8, <1>9, <1>10, <1>11, <1>12
     DEF Next, Serve, Store!Next

\* An empty datastore satisfies the invariant.
LEMMA LInvInit == Init => LInv
  BY NothingFacts DEF Init, LInv, TypeOK, OnPath, PathOf, SidecarFirst, Places, NoRequest

\* Every filesystem operation, call and failure preserves the invariant.
LEMMA LInvStep == StableType /\ LInv /\ [Next]_vars => LInv'
  BY TypeStep, PathStep, SidecarStep DEF LInv

(***************************************************************************)
(* The filesystem datastore implements the abstract store for every set of *)
(* clients and requests with a stable content type: creates, replacements  *)
(* and reads are atomic under any interleaving, failure or crash, and a    *)
(* read never pairs a body with another writer's content type.             *)
(***************************************************************************)
THEOREM LocalImplementsStore == StableType => (Spec => ImplementsStore)
<1> SUFFICES ASSUME StableType PROVE Spec => ImplementsStore
  OBVIOUS
<1>1. Init => Store!Init
  BY DEF Init, AnswerOf, NoAnswer, Answer, NoRequest, NoObject, Store!Init, Store!NoAnswer,
     Store!NoRequest, Store!NoObject
<1>2. Spec => []LInv
  BY LInvInit, LInvStep, PTL DEF Spec
<1>3. LInv /\ LInv' /\ [Next]_vars => [Store!Next]_(Store!storeVars)
  BY Simulation
<1>4. QED
  BY <1>1, <1>2, <1>3, PTL DEF Spec, ImplementsStore, Store!Spec



-----------------------------------------------------------------------------
\* What a step may do to a visible object: replace it by an object of its type.
Replaced ==
    /\ target'.type = target.type
    /\ \E c \in Clients : call[c].op = "put" /\ target' = ObjectOf(call[c])

\* Once the object is visible, every other operation is refused before it changes a file,
\* and a replacement finds its own content type recorded.
LEMMA ImmutableStep ==
    ASSUME LInv, [Next]_vars, target # NoObject
    PROVE  sidecar' = sidecar /\ (target' # target => Replaced)
<1> USE DEF LInv
<1>1. ASSUME NEW c \in Clients, LinkSidecar(c) PROVE target' = target /\ sidecar' = sidecar
  <2>1. sidecar # "none"
    BY ObjectFacts DEF TypeOK, SidecarFirst
  <2>2. QED
    BY <1>1, <2>1 DEF LinkSidecar
<1>2. ASSUME NEW c \in Clients, Rename(c) \/ RenameSidecar(c)
      PROVE  sidecar' = sidecar /\ (target' # target => Replaced)
  <2>1. call[c] \in Requests /\ call[c].op = "put"
    BY <1>2, Serving, RequestFacts DEF Rename, RenameSidecar, OnPath, PathOf, OpNames
  <2>2. sidecar = call[c].type /\ sidecar = target.type
    BY <2>1 DEF SidecarFirst
  <2>3. ObjectOf(call[c]).type = call[c].type
    BY <2>1, RequestFacts
  <2>4. CASE Rename(c)
    BY <2>1, <2>2, <2>3, <2>4 DEF Rename, Replaced
  <2>5. CASE RenameSidecar(c)
    BY <2>2, <2>5 DEF RenameSidecar
  <2>6. QED
    BY <1>2, <2>4, <2>5
<1>3. ASSUME NEW c \in Clients,
             \/ Call(c) \/ Fail(c) \/ WriteTemporary(c) \/ ReadSidecar(c) \/ Link(c)
             \/ Cleanup(c) \/ ReadBody(c) \/ ReadType(c)
      PROVE  target' = target /\ sidecar' = sidecar
  BY <1>3 DEF Call, Fail, WriteTemporary, ReadSidecar, Link, Cleanup, ReadBody, ReadType
<1>4. CASE UNCHANGED vars
  BY <1>4 DEF vars
<1>5. QED
  BY <1>1, <1>2, <1>3, <1>4 DEF Next, Serve

(***************************************************************************)
(* For any clients and requests with a stable content type, a visible      *)
(* object changes only by a replacing Put, to an object of the same type:  *)
(* on a key that clients only create and read (an artifact's body and its  *)
(* manifest) it never changes again.                                       *)
(***************************************************************************)
THEOREM LocalImmutable == StableType => (Spec => CreatedIsImmutable)
<1> SUFFICES ASSUME StableType PROVE Spec => CreatedIsImmutable
  OBVIOUS
<1>1. Spec => []LInv
  BY LInvInit, LInvStep, PTL DEF Spec
<1>2. LInv /\ [Next]_vars =>
        [target # NoObject =>
            /\ sidecar' = sidecar
            /\ target' # target =>
                  /\ target'.type = target.type
                  /\ \E c \in Clients : call[c].op = "put" /\ target' = ObjectOf(call[c])]_vars
  BY ImmutableStep DEF Replaced
<1>3. QED
  BY <1>1, <1>2, PTL DEF Spec, CreatedIsImmutable

\* What a refusal rests on, for any requests: a content type that was found recorded
\* is never unrecorded.
RInv ==
    /\ TypeOK /\ OnPath
    /\ result = [c \in Clients |-> result[c]]
    /\ \A c \in Clients : pc[c] = "readSidecar" => sidecar # "none"

\* No operation removes a sidecar.
LEMMA RInvStep ==
    ASSUME RInv, [Next]_vars
    PROVE  RInv'
<1> USE DEF RInv
<1>1. TypeOK' /\ OnPath'
  BY TypeStep, PathStep
<1>2. result' = [c \in Clients |-> result'[c]]
  BY DEF Next, Serve, Call, Fail, WriteTemporary, LinkSidecar, ReadSidecar, Link, Cleanup,
     Rename, RenameSidecar, ReadBody, ReadType, Return, vars
<1>3. sidecar # "none" => sidecar' # "none"
  <2>1. ASSUME NEW c \in Clients, RenameSidecar(c) PROVE sidecar' # "none"
    BY <2>1, Serving, RequestFacts DEF RenameSidecar
  <2>2. QED
    BY <2>1 DEF Next, Serve, Call, Fail, WriteTemporary, LinkSidecar, ReadSidecar, Link,
       Cleanup, Rename, ReadBody, ReadType, vars
<1>4. ASSUME NEW d \in Clients, pc'[d] = "readSidecar" PROVE sidecar' # "none"
  <2>1. pc[d] = "readSidecar" \/ sidecar # "none"
    BY <1>4 DEF TypeOK, Next, Serve, Call, Fail, WriteTemporary, LinkSidecar, ReadSidecar,
       Link, Cleanup, Rename, RenameSidecar, ReadBody, ReadType, Move, Return, vars
  <2>2. QED
    BY <2>1, <1>3
<1>5. QED
  BY <1>1, <1>2, <1>4

\* A create is refused at two places only, each with the conflict in sight.
LEMMA RefusalStep ==
    ASSUME RInv, [Next]_vars, NEW d \in Clients,
           result'[d].tag = "exists", result'[d] # result[d]
    PROVE  target # NoObject \/ sidecar # call[d].type
<1> USE DEF RInv
<1>1. ASSUME NEW c \in Clients, ReadSidecar(c) PROVE sidecar # call[d].type
  <2>1. sidecar # "none"
    BY <1>1 DEF ReadSidecar
  <2>2. c = d
    BY <1>1 DEF ReadSidecar, Return
  <2>3. QED
    BY <1>1, <2>1, <2>2 DEF ReadSidecar, ContentType
<1>2. ASSUME NEW c \in Clients, Link(c) PROVE target # NoObject
  BY <1>2 DEF Link
<1>3. ASSUME NEW c \in Clients, Call(c) \/ WriteTemporary(c) \/ LinkSidecar(c) \/ Rename(c)
      PROVE  FALSE
  BY <1>3 DEF Call, WriteTemporary, LinkSidecar, Rename
<1>4. ASSUME NEW c \in Clients,
             Fail(c) \/ Cleanup(c) \/ RenameSidecar(c) \/ ReadBody(c) \/ ReadType(c)
      PROVE  FALSE
  BY <1>4 DEF Fail, Cleanup, RenameSidecar, ReadBody, ReadType, Return, Answer
<1>5. CASE UNCHANGED vars
  BY <1>5 DEF vars
<1>6. QED
  BY <1>1, <1>2, <1>3, <1>4, <1>5 DEF Next, Serve

(***************************************************************************)
(* For any clients and requests, mixed content types included: a create    *)
(* answers ErrExists only when the object exists or its key was fixed to   *)
(* another content type, so a matching retry of a create that was cut off  *)
(* after its sidecar is not refused.                                       *)
(***************************************************************************)
THEOREM LocalRefusals == Spec => RefusalIsConflict
<1>1. Init => RInv
  BY NothingFacts DEF Init, RInv, TypeOK, OnPath, PathOf, Places, NoRequest
<1>2. RInv /\ [Next]_vars => RInv'
  BY RInvStep
<1>3. RInv /\ [Next]_vars =>
        [\A c \in Clients :
            result'[c].tag = "exists" /\ result'[c] # result[c] =>
                target # NoObject \/ sidecar # call[c].type]_vars
  BY RefusalStep
<1>4. QED
  BY <1>1, <1>2, <1>3, PTL DEF Spec, RefusalIsConflict
==============================================================================
