--------------------------- MODULE ValueParameters ---------------------------
(***************************************************************************)
(* How canonical JSON values travel through a scheduler's parameters: a    *)
(* small value inline, a larger one as a reference to its body in the      *)
(* shared store, the items and results of a map in indexed envelopes.      *)
(*                                                                         *)
(* A body is a record with a size; every body is canonical. Its digest is  *)
(* the body itself, so a reference [hash, size] names exactly one value    *)
(* and store is the set of published bodies. An operator returns           *)
(* [error, value]: error "none", "contract" (ErrContract) or "store", and  *)
(* the ones that publish return the bodies they put as well.               *)
(***************************************************************************)
EXTENDS Integers, Sequences, FiniteSets

CONSTANTS InlineLimit, ItemInlineLimit, MaxMapItems

ASSUME LimitsAssumption ==
    /\ InlineLimit \in Nat /\ ItemInlineLimit \in Nat /\ MaxMapItems \in Nat
    /\ ItemInlineLimit <= InlineLimit

Ok(value) == [error |-> "none", value |-> value]
Err(kind) == [error |-> kind, value |-> <<>>]

RefFor(body) == [hash |-> body, size |-> body.size]

\* A parameter: [form, body or ref]. A workflow input is submitted inline only.
Inline(body) == [form |-> "inline", body |-> body]
Reference(ref) == [form |-> "ref", ref |-> ref]

EncodePublished(body) ==
    IF body.size <= InlineLimit THEN Inline(body) ELSE Reference(RefFor(body))

\* Encode publishes what EncodePublished only refers to.
Published(body, limit) == IF body.size <= limit THEN {} ELSE {body}

\* resolve: the body is read only if the store's size is the reference's.
Resolve(ref, store) ==
    IF ref.hash \notin store THEN Err("store")
    ELSE IF ref.hash.size # ref.size THEN Err("contract")
    ELSE Ok(ref.hash)

\* parseRef refuses a reference to a body that has an inline spelling.
ParseRef(ref, limit, store) == IF ref.size <= limit THEN Err("contract") ELSE Resolve(ref, store)

Decode(parameter, store) ==
    IF parameter.form = "ref" THEN ParseRef(parameter.ref, InlineLimit, store)
    ELSE IF parameter.body.size > InlineLimit THEN Err("contract")
    ELSE Ok(parameter.body)

-----------------------------------------------------------------------------
(* Envelopes: [tag, index, body | ref | failure | pod]. The tags "empty",  *)
(* "fatal" and "lost" carry no index.                                      *)

EmptyMarker == [tag |-> "empty"]
FatalItemEnvelope == [tag |-> "fatal"]
LostEnvelope(pod) == [tag |-> "lost", pod |-> pod]

OutcomeTags == {"failure", "failureRef", "fatal", "lost"}

\* ExpandItems: the loop items of a list, indexed from 0.
ExpandItems(parameter, store) ==
    LET input == Decode(parameter, store) IN
    IF input.error # "none" THEN input
    ELSE LET items == input.value.items IN
         IF Len(items) > MaxMapItems THEN Err("contract")
         ELSE IF items = <<>> THEN Ok(<<EmptyMarker>>)
         ELSE Ok([p \in DOMAIN items |->
                    IF parameter.form = "ref"
                    THEN [tag |-> "listRef", index |-> p - 1, ref |-> parameter.ref]
                    ELSE [tag |-> "value", index |-> p - 1, body |-> items[p]]])

\* DecodeItem: an item pod of a referenced list reads the list and picks its index.
DecodeItem(envelope, store) ==
    IF envelope.tag \notin {"value", "listRef"} THEN Err("contract")
    ELSE IF envelope.tag = "value" THEN Ok(envelope.body)
    ELSE LET list == ParseRef(envelope.ref, InlineLimit, store) IN
         IF list.error # "none" THEN list
         ELSE IF envelope.index >= Len(list.value.items) THEN Err("contract")
         ELSE Ok(list.value.items[envelope.index + 1])

EncodePublishedItemResult(index, body) ==
    IF body.size > ItemInlineLimit
    THEN [tag |-> "ref", index |-> index, ref |-> RefFor(body)]
    ELSE [tag |-> "value", index |-> index, body |-> body]

EncodeItemFailure(index, failure) ==
    IF failure.size <= ItemInlineLimit
    THEN [tag |-> "failure", index |-> index, body |-> failure]
    ELSE [tag |-> "failureRef", index |-> index, ref |-> RefFor(failure)]

\* inlineOrReferenced, for values and for failure records.
InlineOrReferenced(envelope, store) ==
    IF envelope.tag \in {"ref", "failureRef"} THEN ParseRef(envelope.ref, ItemInlineLimit, store)
    ELSE IF envelope.body.size > ItemInlineLimit THEN Err("contract")
    ELSE Ok(envelope.body)

\* aggregateEnvelopes: the marker of an empty map stands alone.
AggregateValid(envelopes) ==
    /\ \A p \in DOMAIN envelopes : envelopes[p].tag # "listRef"
    /\ (\E p \in DOMAIN envelopes : envelopes[p] = EmptyMarker) => Len(envelopes) = 1

FirstError(results) ==
    LET failed == {p \in DOMAIN results : results[p].error # "none"}
    IN  IF failed = {} THEN "none"
        ELSE results[CHOOSE p \in failed : \A q \in failed : p <= q].error

\* Collect: every index of the list exactly once, in its place.
Collect(entries) ==
    IF {entries[p].index : p \in DOMAIN entries} # 0..(Len(entries) - 1) THEN Err("contract")
    ELSE Ok([i \in DOMAIN entries |->
               entries[CHOOSE p \in DOMAIN entries : entries[p].index = i - 1].entry])

CollectResults(envelopes, store) ==
    IF ~AggregateValid(envelopes) THEN Err("contract")
    ELSE IF envelopes = <<EmptyMarker>> THEN Ok(<<>>)
    ELSE IF \E p \in DOMAIN envelopes : envelopes[p].tag \in OutcomeTags THEN Err("contract")
    ELSE LET values == [p \in DOMAIN envelopes |-> InlineOrReferenced(envelopes[p], store)] IN
         IF FirstError(values) # "none" THEN Err(FirstError(values))
         ELSE Collect([p \in DOMAIN envelopes |->
                         [index |-> envelopes[p].index, entry |-> values[p].value]])

\* ParseFailure: a record claims attempts within the item's budget.
ParseFailure(body, maxAttempts) ==
    IF body.error # "none" THEN body
    ELSE IF body.value.what = "failure" /\ body.value.attempts \in 1..maxAttempts THEN body
    ELSE Err("contract")

\* mapexec.CollectOutcomes: values and failures, with the dense indexes of Collect.
CollectOutcomeList(outcomes) ==
    Collect([p \in DOMAIN outcomes |-> [index |-> p - 1, entry |-> outcomes[p]]])

\* The entry at position p. missing maps the pods without an envelope to the failures
\* established for them; maxAttempts bounds what a record may claim.
OutcomeEntry(e, p, maxAttempts, missing, store) ==
    CASE e.tag = "fatal" -> Err("fatal")
      [] e.tag = "lost" -> IF e.pod \in DOMAIN missing
                           THEN ParseFailure(Ok(missing[e.pod]), maxAttempts)
                           ELSE Err("contract")
      [] OTHER -> IF e.index # p - 1 THEN Err("contract")
                  ELSE IF e.tag \in {"failure", "failureRef"}
                  THEN ParseFailure(InlineOrReferenced(e, store), maxAttempts)
                  ELSE InlineOrReferenced(e, store)

\* CollectOutcomes: an entry per position.
CollectOutcomes(envelopes, maxAttempts, missing, store) ==
    LET entries == [p \in DOMAIN envelopes |->
                       OutcomeEntry(envelopes[p], p, maxAttempts, missing, store)]
    IN  IF ~AggregateValid(envelopes) THEN Err("contract")
        ELSE IF envelopes = <<EmptyMarker>> THEN Ok(<<>>)
        ELSE IF FirstError(entries) # "none" THEN Err(FirstError(entries))
        ELSE CollectOutcomeList([p \in DOMAIN entries |-> entries[p].value])

\* MissingOutcomeNodes: a fatal envelope settles the map without asking the scheduler.
MissingOutcomeNodes(envelopes) ==
    IF \E p \in DOMAIN envelopes : envelopes[p].tag = "fatal" THEN {}
    ELSE {envelopes[p].pod : p \in {q \in DOMAIN envelopes : envelopes[q].tag = "lost"}}
==============================================================================
