------------------------- MODULE ArtifactPublication -------------------------
(***************************************************************************)
(* PublishJSON and ResolveJSON: concurrent calls publish values into slots *)
(* (the manifest key of one producer) and resolve them, on a datastore     *)
(* whose calls are atomic (ConditionalStore). The body is a blob named by  *)
(* its digest and shared by all slots; creating the manifest commits it.   *)
(*                                                                         *)
(* A call may crash between any two of its store operations, a store       *)
(* operation may fail, before or after it took effect, and a blob may be   *)
(* damaged. A retry is another call on the same slot, with the same value  *)
(* or with another one. A slot's key fixes its producer and its schema.    *)
(***************************************************************************)
CONSTANTS
    Calls,   \* calls of PublishJSON and ResolveJSON
    Slots,   \* producer slots
    Bodies,  \* canonical JSON values; a blob key is the value it is named by
    Valid,   \* the values that satisfy the schema
    Schema,  \* the schema's own bytes
    None

ASSUME PublicationAssumption ==
    /\ Valid \subseteq Bodies
    /\ Schema \in Bodies
    /\ None \notin Bodies \cup Slots

VARIABLES
    blob,      \* blob[b]: "absent", "intact" or "damaged"
    manifest,  \* manifest[s]: the body the slot's manifest names, None before
    pc,        \* where each call is
    slot,      \* slot[c]: the slot the call works on
    body,      \* body[c]: the value it publishes, or read from the manifest
    faulted    \* calls that met a failing store operation

vars == <<blob, manifest, pc, slot, body, faulted>>

Ended == {"published", "invalid", "bodyConflict", "manifestConflict", "failed",
          "resolved", "missing", "integrity", "crashed"}
Places == Ended \cup {"idle", "validate", "putBody", "compareBody", "putManifest",
                      "compareManifest", "getManifest", "getBody", "revalidate"}

TypeOK ==
    /\ blob \in [Bodies -> {"absent", "intact", "damaged"}]
    /\ manifest \in [Slots -> Bodies \cup {None}]
    /\ pc \in [Calls -> Places]
    /\ slot \in [Calls -> Slots \cup {None}]
    /\ body \in [Calls -> Bodies \cup {None}]
    /\ faulted \subseteq Calls

Init ==
    /\ blob = [b \in Bodies |-> "absent"]
    /\ manifest = [s \in Slots |-> None]
    /\ pc = [c \in Calls |-> "idle"]
    /\ slot = [c \in Calls |-> None]
    /\ body = [c \in Calls |-> None]
    /\ faulted = {}

Goto(c, place) == pc' = [pc EXCEPT ![c] = place]

-----------------------------------------------------------------------------
\* The environment.

\* A run's prerequisites write the schema's blob, unconditionally.
MaterializeSchema ==
    /\ blob' = [blob EXCEPT ![Schema] = "intact"]
    /\ UNCHANGED <<manifest, pc, slot, body, faulted>>

Damage(b) ==
    /\ blob[b] = "intact"
    /\ blob' = [blob EXCEPT ![b] = "damaged"]
    /\ UNCHANGED <<manifest, pc, slot, body, faulted>>

Crash(c) ==
    /\ pc[c] \notin Ended \cup {"idle"}
    /\ Goto(c, "crashed")
    /\ UNCHANGED <<blob, manifest, slot, body, faulted>>

\* A store operation of the call fails without effect; the call returns an error.
Fault(c, place, error) ==
    /\ pc[c] = place
    /\ Goto(c, error)
    /\ faulted' = faulted \cup {c}
    /\ UNCHANGED <<blob, manifest, slot, body>>

-----------------------------------------------------------------------------
\* PublishJSON.

Publish(c, s, b) ==
    /\ pc[c] = "idle"
    /\ Goto(c, "validate")
    /\ slot' = [slot EXCEPT ![c] = s]
    /\ body' = [body EXCEPT ![c] = b]
    /\ UNCHANGED <<blob, manifest, faulted>>

\* validateCanonicalJSON: the schema's blob must be there and match its digest.
Satisfies(b) == blob[Schema] = "intact" /\ b \in Valid

Validate(c) ==
    /\ pc[c] = "validate"
    /\ Goto(c, IF Satisfies(body[c]) THEN "putBody" ELSE "invalid")
    /\ UNCHANGED <<blob, manifest, slot, body, faulted>>

\* What a conditional create answers: it is refused, or it takes effect and its
\* answer arrives or is lost.
CreateAnswer(c, exists, stored, compare) ==
    IF exists THEN Goto(c, compare) /\ UNCHANGED faulted
    ELSE \/ Goto(c, stored) /\ UNCHANGED faulted
         \/ Goto(c, "failed") /\ faulted' = faulted \cup {c}

PutBodyLater(c) ==
    /\ pc[c] = "putBody"
    /\ Goto(c, "putManifest")
    /\ UNCHANGED <<blob, manifest, slot, body, faulted>>

PutBody(c) ==
    /\ pc[c] = "putBody"
    /\ CreateAnswer(c, blob[body[c]] # "absent", "putManifest", "compareBody")
    /\ blob' = [blob EXCEPT ![body[c]] = IF @ = "absent" THEN "intact" ELSE @]
    /\ UNCHANGED <<manifest, slot, body>>

\* An existing body is never repaired.
CompareBody(c) ==
    /\ pc[c] = "compareBody"
    /\ Goto(c, IF blob[body[c]] = "intact" THEN "putManifest" ELSE "bodyConflict")
    /\ UNCHANGED <<blob, manifest, slot, body, faulted>>

PutManifestConflicts(c) ==
    /\ pc[c] = "putManifest"
    /\ CreateAnswer(c, manifest[slot[c]] # None, "published", "manifestConflict")
    /\ manifest' = [manifest EXCEPT ![slot[c]] = IF @ = None THEN body[c] ELSE @]
    /\ UNCHANGED <<blob, slot, body>>

PutManifest(c) ==
    /\ pc[c] = "putManifest"
    /\ CreateAnswer(c, manifest[slot[c]] # None, "published", "compareManifest")
    /\ manifest' = [manifest EXCEPT ![slot[c]] = IF @ = None THEN body[c] ELSE @]
    /\ UNCHANGED <<blob, slot, body>>

CompareManifestAccepts(c) ==
    /\ pc[c] = "compareManifest"
    /\ Goto(c, "published")
    /\ UNCHANGED <<blob, manifest, slot, body, faulted>>

\* Equality is an idempotent retry.
CompareManifest(c) ==
    /\ pc[c] = "compareManifest"
    /\ Goto(c, IF manifest[slot[c]] = body[c] THEN "published" ELSE "manifestConflict")
    /\ UNCHANGED <<blob, manifest, slot, body, faulted>>

-----------------------------------------------------------------------------
\* ResolveJSON.

Resolve(c, s) ==
    /\ pc[c] = "idle"
    /\ Goto(c, "getManifest")
    /\ slot' = [slot EXCEPT ![c] = s]
    /\ UNCHANGED <<blob, manifest, body, faulted>>

GetManifest(c) ==
    /\ pc[c] = "getManifest"
    /\ Goto(c, IF manifest[slot[c]] = None THEN "missing" ELSE "getBody")
    /\ body' = [body EXCEPT ![c] = manifest[slot[c]]]
    /\ UNCHANGED <<blob, manifest, slot, faulted>>

GetBody(c) ==
    /\ pc[c] = "getBody"
    /\ Goto(c, IF blob[body[c]] = "intact" THEN "revalidate" ELSE "integrity")
    /\ UNCHANGED <<blob, manifest, slot, body, faulted>>

Revalidate(c) ==
    /\ pc[c] = "revalidate"
    /\ Goto(c, IF Satisfies(body[c]) THEN "resolved" ELSE "integrity")
    /\ UNCHANGED <<blob, manifest, slot, body, faulted>>

StoreFault(c) ==
    \/ Fault(c, "validate", "invalid")
    \/ Fault(c, "putBody", "failed")
    \/ Fault(c, "compareBody", "bodyConflict")
    \/ Fault(c, "putManifest", "failed")
    \/ Fault(c, "compareManifest", "manifestConflict")
    \/ Fault(c, "getManifest", "failed")
    \/ Fault(c, "getBody", "integrity")
    \/ Fault(c, "revalidate", "integrity")

Next ==
    \/ MaterializeSchema
    \/ \E b \in Bodies : Damage(b)
    \/ \E c \in Calls :
        \/ \E s \in Slots, b \in Bodies : Publish(c, s, b)
        \/ \E s \in Slots : Resolve(c, s)
        \/ Validate(c) \/ PutBody(c) \/ CompareBody(c) \/ PutManifest(c) \/ CompareManifest(c)
        \/ GetManifest(c) \/ GetBody(c) \/ Revalidate(c)
        \/ StoreFault(c) \/ Crash(c)

Spec == Init /\ [][Next]_vars

-----------------------------------------------------------------------------
\* Properties.

\* PublishJSON stores the body before the manifest that commits it: whatever
\* crashed or failed, a visible manifest names a valid value whose blob exists.
CommittedHasBody ==
    \A s \in Slots : manifest[s] # None => manifest[s] \in Valid /\ blob[manifest[s]] # "absent"

\* Every call that returned a value for a slot, publisher or consumer, returned
\* the value the slot's manifest names, then and ever after: concurrent and
\* repeated publications of different values never both succeed.
SlotHasOneValue ==
    \A c \in Calls : pc[c] \in {"published", "resolved"} => body[c] = manifest[slot[c]]

\* putImmutable's conflicts are real: without a failing store operation a call
\* is refused only where another value is committed or its blob is damaged (the
\* schema's blob may be repaired since), so a retry of an interrupted
\* publication always converges.
RetryConverges ==
    \A c \in Calls \ faulted :
        /\ pc[c] = "manifestConflict" => manifest[slot[c]] \notin {None, body[c]}
        /\ pc[c] = "bodyConflict" => body[c] = Schema \/ blob[body[c]] = "damaged"
==============================================================================
