--------------------------- MODULE ConditionalStore ---------------------------
(***************************************************************************)
(* What a datastore promises about one key to clients that create it,      *)
(* replace it and read it concurrently: every call takes effect at one     *)
(* instant between its start and its return, an object is created at most  *)
(* once, and an object carries the content type its writer declared.       *)
(*                                                                         *)
(* The first create fixes the key's content type, even when it fails       *)
(* before its object is stored; a create of another type is then refused.  *)
(* A call that fails, or whose client crashes, may have taken effect.      *)
(***************************************************************************)
CONSTANTS Clients, Requests

NoObject == [body |-> "none", type |-> "none"]
NoRequest == [op |-> "none", body |-> "none", type |-> "none"]
NoAnswer == [tag |-> "none", object |-> NoObject]

Answer(tag, object) == [tag |-> tag, object |-> object]
ObjectOf(r) == [body |-> r.body, type |-> r.type]

VARIABLES
    object,  \* the stored object, or NoObject
    type,    \* the content type fixed for the key, "none" before the first create
    call,    \* call[c]: the request of c's open call, NoRequest when it has none
    answer,  \* answer[c]: what the open call will answer, NoAnswer before its effect
    result   \* result[c]: what c's last call returned

storeVars == <<object, type, call, answer, result>>

Init ==
    /\ object = NoObject
    /\ type = "none"
    /\ call = [c \in Clients |-> NoRequest]
    /\ answer = [c \in Clients |-> NoAnswer]
    /\ result = [c \in Clients |-> NoAnswer]

Call(c, r) ==
    /\ call[c] = NoRequest
    /\ call' = [call EXCEPT ![c] = r]
    /\ UNCHANGED <<object, type, answer, result>>

Effective(c, op) == call[c].op = op /\ answer[c] = NoAnswer

FixType(c) ==
    /\ Effective(c, "create")
    /\ type = "none"
    /\ type' = call[c].type
    /\ UNCHANGED <<object, call, answer, result>>

Create(c) ==
    /\ Effective(c, "create")
    /\ object = NoObject
    /\ type = call[c].type
    /\ object' = ObjectOf(call[c])
    /\ answer' = [answer EXCEPT ![c] = Answer("created", NoObject)]
    /\ UNCHANGED <<type, call, result>>

Replace(c) ==
    /\ Effective(c, "put")
    /\ object' = ObjectOf(call[c])
    /\ answer' = [answer EXCEPT ![c] = Answer("ok", NoObject)]
    /\ UNCHANGED <<type, call, result>>

Read(c) ==
    /\ Effective(c, "get")
    /\ object # NoObject
    /\ answer' = [answer EXCEPT ![c] = Answer("found", object)]
    /\ UNCHANGED <<object, type, call, result>>

Respond(c, a) ==
    /\ result' = [result EXCEPT ![c] = a]
    /\ call' = [call EXCEPT ![c] = NoRequest]
    /\ answer' = [answer EXCEPT ![c] = NoAnswer]

\* A refused create and a read of nothing take effect as they return.
Refuse(c) ==
    /\ Effective(c, "create")
    /\ object # NoObject \/ type \notin {"none", call[c].type}
    /\ Respond(c, Answer("exists", NoObject))
    /\ UNCHANGED <<object, type>>

Miss(c) ==
    /\ Effective(c, "get")
    /\ object = NoObject
    /\ Respond(c, Answer("missing", NoObject))
    /\ UNCHANGED <<object, type>>

Return(c) ==
    /\ answer[c] # NoAnswer
    /\ Respond(c, answer[c])
    /\ UNCHANGED <<object, type>>

FailCall(c) ==
    /\ call[c] # NoRequest
    /\ Respond(c, Answer("error", NoObject))
    /\ UNCHANGED <<object, type>>

Next ==
    \E c \in Clients :
        \/ \E r \in Requests : Call(c, r)
        \/ FixType(c) \/ Create(c) \/ Replace(c) \/ Read(c)
        \/ Refuse(c) \/ Miss(c) \/ Return(c) \/ FailCall(c)

Spec == Init /\ [][Next]_storeVars
==============================================================================
