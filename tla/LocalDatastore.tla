---------------------------- MODULE LocalDatastore ----------------------------
(***************************************************************************)
(* The filesystem datastore, one key: its object file, its content-type    *)
(* sidecar, and clients (threads or processes) whose Put and Get calls     *)
(* interleave at every filesystem operation and may fail or crash between  *)
(* any two of them. Keys share no file: temporaries have fresh names and a *)
(* sidecar is named by the key's digest. A link or a rename is atomic.     *)
(*                                                                         *)
(* A request is [op, body, type]: "create" is Put with IfAbsent, "put" is  *)
(* a replacing Put, "get" is Get or Open. A file in the object's place     *)
(* keeps the content type its writer declared next to its body: a ghost    *)
(* that no operation reads.                                                *)
(***************************************************************************)
CONSTANTS
    Clients,
    Requests,      \* the requests clients make on this key
    DefaultType,   \* the content type of an object without a sidecar
    ClaimFirst     \* clients replace only an object that was created, keeping its type

OpNames == {"create", "put", "get"}

ASSUME RequestAssumption ==
    /\ \A r \in Requests : /\ r = [op |-> r.op, body |-> r.body, type |-> r.type]
                           /\ r.op \in OpNames
                           /\ r.body # "none" /\ r.type # "none"
    /\ DefaultType # "none"
    /\ ClaimFirst \in BOOLEAN

VARIABLES
    target,  \* the object file: [body, type], NoObject when it does not exist
    sidecar, \* the content-type record, "none" when it does not exist
    pc,      \* pc[c]: the next filesystem operation of c's call
    call,    \* call[c]: the request being served
    read,    \* read[c]: the object file c's Get has read
    result   \* result[c]: what c's last call returned

vars == <<target, sidecar, pc, call, read, result>>

NoObject == [body |-> "none", type |-> "none"]
NoRequest == [op |-> "none", body |-> "none", type |-> "none"]
Answer(tag, object) == [tag |-> tag, object |-> object]
NoAnswer == Answer("none", NoObject)
ObjectOf(r) == [body |-> r.body, type |-> r.type]

Places == {"idle", "temporary", "linkSidecar", "readSidecar", "link", "cleanup",
           "rename", "renameSidecar", "readBody", "readType"}

RequestTypes == {r.type : r \in Requests}
Objects == {ObjectOf(r) : r \in Requests} \cup {NoObject}

TypeOK ==
    /\ target \in Objects
    /\ sidecar \in RequestTypes \cup {"none"}
    /\ pc \in [Clients -> Places]
    /\ call \in [Clients -> Requests \cup {NoRequest}]
    /\ read \in [Clients -> Objects]

Init ==
    /\ target = NoObject
    /\ sidecar = "none"
    /\ pc = [c \in Clients |-> "idle"]
    /\ call = [c \in Clients |-> NoRequest]
    /\ read = [c \in Clients |-> NoObject]
    /\ result = [c \in Clients |-> NoAnswer]

-----------------------------------------------------------------------------
Move(c, place) == pc' = [pc EXCEPT ![c] = place]

Return(c, a) ==
    /\ Move(c, "idle")
    /\ call' = [call EXCEPT ![c] = NoRequest]
    /\ read' = [read EXCEPT ![c] = NoObject]
    /\ result' = [result EXCEPT ![c] = a]

Call(c) ==
    /\ pc[c] = "idle"
    /\ \E r \in Requests :
        /\ r.op = "put" /\ ClaimFirst => target.type = r.type
        /\ call' = [call EXCEPT ![c] = r]
        /\ Move(c, IF r.op = "get" THEN "readBody" ELSE "temporary")
    /\ UNCHANGED <<target, sidecar, read, result>>

\* Any operation may fail, and the client may crash before it. The deferred removal
\* of a temporary is not visible to anyone.
Fail(c) ==
    /\ pc[c] # "idle"
    /\ Return(c, Answer("error", NoObject))
    /\ UNCHANGED <<target, sidecar>>

\* The complete body goes to a temporary next to the object.
WriteTemporary(c) ==
    /\ pc[c] = "temporary"
    /\ Move(c, IF call[c].op = "create" THEN "linkSidecar" ELSE "rename")
    /\ UNCHANGED <<target, sidecar, call, read, result>>

LinkSidecarRefuses(c) ==
    /\ pc[c] = "linkSidecar"
    /\ IF sidecar = "none"
       THEN sidecar' = call[c].type /\ Move(c, "link") /\ UNCHANGED <<call, read, result>>
       ELSE Return(c, Answer("exists", NoObject)) /\ UNCHANGED sidecar
    /\ UNCHANGED target

\* writeMetadataIfAbsent: the link fails on an existing record.
LinkSidecar(c) ==
    /\ pc[c] = "linkSidecar"
    /\ IF sidecar = "none"
       THEN sidecar' = call[c].type /\ Move(c, "link")
       ELSE Move(c, "readSidecar") /\ UNCHANGED sidecar
    /\ UNCHANGED <<target, call, read, result>>

\* readContentType: a missing record means the default.
ContentType == IF sidecar = "none" THEN DefaultType ELSE sidecar

ReadSidecarUnchecked(c) ==
    /\ pc[c] = "readSidecar"
    /\ Move(c, "link")
    /\ UNCHANGED <<target, sidecar, call, read, result>>

\* A create of another content type is refused although no object may exist.
ReadSidecar(c) ==
    /\ pc[c] = "readSidecar"
    /\ IF ContentType # call[c].type
       THEN Return(c, Answer("exists", NoObject))
       ELSE Move(c, "link") /\ UNCHANGED <<call, read, result>>
    /\ UNCHANGED <<target, sidecar>>

LinkByRename(c) ==
    /\ pc[c] = "link"
    /\ target' = ObjectOf(call[c])
    /\ Move(c, "cleanup")
    /\ UNCHANGED <<sidecar, call, read, result>>

\* The link makes the body visible, unless the object exists.
Link(c) ==
    /\ pc[c] = "link"
    /\ IF target = NoObject
       THEN /\ target' = ObjectOf(call[c])
            /\ Move(c, "cleanup")
            /\ UNCHANGED <<call, read, result>>
       ELSE /\ Return(c, Answer("exists", NoObject))
            /\ UNCHANGED target
    /\ UNCHANGED sidecar

\* The temporary's name is removed; only then is the object reported as created.
Cleanup(c) ==
    /\ pc[c] = "cleanup"
    /\ Return(c, Answer("created", NoObject))
    /\ UNCHANGED <<target, sidecar>>

Rename(c) ==
    /\ pc[c] = "rename"
    /\ target' = ObjectOf(call[c])
    /\ Move(c, "renameSidecar")
    /\ UNCHANGED <<sidecar, call, read, result>>

\* writeMetadata replaces the record after the body is already visible.
RenameSidecar(c) ==
    /\ pc[c] = "renameSidecar"
    /\ sidecar' = call[c].type
    /\ Return(c, Answer("ok", NoObject))
    /\ UNCHANGED target

\* Get and Open read the object first and its content type afterwards.
ReadBody(c) ==
    /\ pc[c] = "readBody"
    /\ IF target = NoObject
       THEN Return(c, Answer("missing", NoObject))
       ELSE /\ read' = [read EXCEPT ![c] = target]
            /\ Move(c, "readType")
            /\ UNCHANGED <<call, result>>
    /\ UNCHANGED <<target, sidecar>>

ReadType(c) ==
    /\ pc[c] = "readType"
    /\ Return(c, Answer("found", [body |-> read[c].body, type |-> ContentType]))
    /\ UNCHANGED <<target, sidecar>>

-----------------------------------------------------------------------------
Serve(c) ==
    \/ WriteTemporary(c) \/ LinkSidecar(c) \/ ReadSidecar(c) \/ Link(c) \/ Cleanup(c)
    \/ Rename(c) \/ RenameSidecar(c) \/ ReadBody(c) \/ ReadType(c)

Next == \E c \in Clients : Call(c) \/ Fail(c) \/ Serve(c)

Spec == Init /\ [][Next]_vars

-----------------------------------------------------------------------------
\* The abstract store this implements: a create and a replace take effect at the
\* link or rename, a read when the object file is read.
AnswerOf(c) ==
    IF pc[c] = "cleanup" THEN Answer("created", NoObject)
    ELSE IF pc[c] = "renameSidecar" THEN Answer("ok", NoObject)
    ELSE IF pc[c] = "readType" THEN Answer("found", read[c])
    ELSE NoAnswer

Store == INSTANCE ConditionalStore WITH
            object <- target, type <- sidecar, answer <- [c \in Clients |-> AnswerOf(c)]

(***************************************************************************)
(* The files implement the abstract store: whatever interleaving, failure  *)
(* or crash, every Put and Get acts as if it happened at one instant, no   *)
(* object is created twice, and no Get pairs a body with a content type    *)
(* its writer did not declare.                                             *)
(***************************************************************************)
ImplementsStore == Store!Spec

(***************************************************************************)
(* A created object is immutable: once it is visible its content type      *)
(* never changes, and its body only by a replacing Put of that type, never *)
(* by another create. Under a key that clients only create it is final.    *)
(***************************************************************************)
CreatedIsImmutable ==
    [][target # NoObject =>
          /\ sidecar' = sidecar
          /\ target' # target =>
                /\ target'.type = target.type
                /\ \E c \in Clients : call[c].op = "put" /\ target' = ObjectOf(call[c])]_vars

(***************************************************************************)
(* A refused create names a real conflict: the object is there, or another *)
(* content type was fixed for its key. A matching retry is never refused   *)
(* because of what an interrupted create left behind.                      *)
(***************************************************************************)
RefusalIsConflict ==
    [][\A c \in Clients :
          result'[c].tag = "exists" /\ result'[c] # result[c] =>
              target # NoObject \/ sidecar # call[c].type]_vars
==============================================================================
