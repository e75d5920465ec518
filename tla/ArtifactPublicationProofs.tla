----------------------- MODULE ArtifactPublicationProofs -----------------------
(***************************************************************************)
(* TLAPS proofs about artifact publication, for any number of calls, slots *)
(* and values. That a manifest is committed after its body is a fact about *)
(* two operations of one call; PlaceInv carries what the first established *)
(* to the place of the second, past every step of the other calls.         *)
(***************************************************************************)
EXTENDS ArtifactPublication, TLAPS

Publishing == {"putBody", "compareBody", "putManifest", "compareManifest", "published"}
Committing == {"putManifest", "compareManifest", "published"}
Reading == {"getBody", "revalidate", "resolved"}

\* What a call's place says about the slot and the value it holds.
PlaceInv ==
    \A c \in Calls :
        /\ pc[c] # "idle" => slot[c] \in Slots
        /\ pc[c] = "validate" => body[c] \in Bodies
        /\ pc[c] \in Publishing => body[c] \in Valid
        /\ pc[c] \in Committing => blob[body[c]] # "absent"
        /\ pc[c] = "compareManifest" => manifest[slot[c]] # None
        /\ pc[c] \in Reading => manifest[slot[c]] # None /\ body[c] = manifest[slot[c]]

PInv == TypeOK /\ PlaceInv /\ CommittedHasBody /\ SlotHasOneValue

-----------------------------------------------------------------------------
\* The variables keep their types.
LEMMA TypeStep ==
    ASSUME PInv, [Next]_vars
    PROVE  TypeOK'
<1>1. ASSUME MaterializeSchema PROVE TypeOK'
  BY <1>1 DEF MaterializeSchema, PInv, TypeOK
<1>2. ASSUME NEW b \in Bodies, Damage(b) PROVE TypeOK'
  BY <1>2 DEF Damage, PInv, TypeOK
<1>3. ASSUME NEW c \in Calls, NEW s \in Slots, NEW b \in Bodies, Publish(c, s, b) PROVE TypeOK'
  BY <1>3 DEF Publish, Goto, PInv, TypeOK, Places
<1>4. ASSUME NEW c \in Calls, NEW s \in Slots, Resolve(c, s) PROVE TypeOK'
  BY <1>4 DEF Resolve, Goto, PInv, TypeOK, Places
<1>5. ASSUME NEW c \in Calls, Validate(c) PROVE TypeOK'
  BY <1>5 DEF Validate, Goto, PInv, TypeOK, Places, Ended
<1>6. ASSUME NEW c \in Calls, PutBody(c) PROVE TypeOK'
  BY <1>6, PublicationAssumption DEF PutBody, CreateAnswer, Goto, PInv, PlaceInv,
     Publishing, TypeOK, Places, Ended
<1>7. ASSUME NEW c \in Calls, CompareBody(c) PROVE TypeOK'
  BY <1>7 DEF CompareBody, Goto, PInv, TypeOK, Places, Ended
<1>8. ASSUME NEW c \in Calls, PutManifest(c) PROVE TypeOK'
  BY <1>8 DEF PutManifest, CreateAnswer, Goto, PInv, PlaceInv, TypeOK, Places, Ended
<1>9. ASSUME NEW c \in Calls, CompareManifest(c) PROVE TypeOK'
  BY <1>9 DEF CompareManifest, Goto, PInv, TypeOK, Places, Ended
<1>10. ASSUME NEW c \in Calls, GetManifest(c) PROVE TypeOK'
  BY <1>10 DEF GetManifest, Goto, PInv, PlaceInv, TypeOK, Places, Ended
<1>11. ASSUME NEW c \in Calls, GetBody(c) PROVE TypeOK'
  BY <1>11 DEF GetBody, Goto, PInv, TypeOK, Places, Ended
<1>12. ASSUME NEW c \in Calls, Revalidate(c) PROVE TypeOK'
  BY <1>12 DEF Revalidate, Goto, PInv, TypeOK, Places, Ended
<1>13. ASSUME NEW c \in Calls, StoreFault(c) PROVE TypeOK'
  BY <1>13 DEF StoreFault, Fault, Goto, PInv, TypeOK, Places, Ended
<1>14. ASSUME NEW c \in Calls, Crash(c) PROVE TypeOK'
  BY <1>14 DEF Crash, Goto, PInv, TypeOK, Places, Ended
<1>15. ASSUME UNCHANGED vars PROVE TypeOK'
  BY <1>15 DEF vars, PInv, TypeOK
<1>16. QED
  BY <1>1, <1>2, <1>3, <1>4, <1>5, <1>6, <1>7, <1>8, <1>9, <1>10, <1>11, <1>12, <1>13,
     <1>14, <1>15 DEF Next

\* No step of another call undoes what a call's place says: blobs and manifests
\* are created and never removed.
LEMMA PlaceStep ==
    ASSUME PInv, [Next]_vars
    PROVE  PlaceInv'
<1>1. ASSUME MaterializeSchema PROVE PlaceInv'
  BY <1>1 DEF MaterializeSchema, PInv, PlaceInv
<1>2. ASSUME NEW b \in Bodies, Damage(b) PROVE PlaceInv'
  BY <1>2 DEF Damage, PInv, PlaceInv
<1>3. ASSUME NEW c \in Calls, NEW s \in Slots, NEW b \in Bodies, Publish(c, s, b) PROVE PlaceInv'
  BY <1>3 DEF Publish, Goto, PInv, TypeOK, PlaceInv, Publishing, Committing, Reading
<1>4. ASSUME NEW c \in Calls, NEW s \in Slots, Resolve(c, s) PROVE PlaceInv'
  BY <1>4 DEF Resolve, Goto, PInv, TypeOK, PlaceInv, Publishing, Committing, Reading
<1>5. ASSUME NEW c \in Calls, Validate(c) PROVE PlaceInv'
  BY <1>5 DEF Validate, Satisfies, Goto, PInv, PlaceInv, Publishing, Committing, Reading
<1>6. ASSUME NEW c \in Calls, PutBody(c) PROVE PlaceInv'
  BY <1>6, PublicationAssumption DEF PutBody, CreateAnswer, Goto, PInv, TypeOK, PlaceInv,
     Publishing, Reading
<1>7. ASSUME NEW c \in Calls, CompareBody(c) PROVE PlaceInv'
  BY <1>7 DEF CompareBody, Goto, PInv, PlaceInv, Publishing, Committing, Reading
<1>8. ASSUME NEW c \in Calls, PutManifest(c) PROVE PlaceInv'
  BY <1>8 DEF PutManifest, CreateAnswer, Goto, PInv, TypeOK, PlaceInv, Publishing,
     Committing, Reading
<1>9. ASSUME NEW c \in Calls, CompareManifest(c) PROVE PlaceInv'
  BY <1>9 DEF CompareManifest, Goto, PInv, PlaceInv, Publishing, Committing, Reading
<1>10. ASSUME NEW c \in Calls, GetManifest(c) PROVE PlaceInv'
  BY <1>10 DEF GetManifest, Goto, PInv, TypeOK, PlaceInv, Publishing, Committing, Reading
<1>11. ASSUME NEW c \in Calls, GetBody(c) PROVE PlaceInv'
  BY <1>11 DEF GetBody, Goto, PInv, PlaceInv, Publishing, Committing, Reading
<1>12. ASSUME NEW c \in Calls, Revalidate(c) PROVE PlaceInv'
  BY <1>12 DEF Revalidate, Goto, PInv, PlaceInv, Publishing, Committing, Reading
<1>13. ASSUME NEW c \in Calls, StoreFault(c) PROVE PlaceInv'
  BY <1>13 DEF StoreFault, Fault, Goto, PInv, TypeOK, PlaceInv, Publishing, Committing,
     Reading
<1>14. ASSUME NEW c \in Calls, Crash(c) PROVE PlaceInv'
  BY <1>14 DEF Crash, Goto, PInv, PlaceInv, Publishing, Committing, Reading
<1>15. ASSUME UNCHANGED vars PROVE PlaceInv'
  BY <1>15 DEF vars, PInv, PlaceInv
<1>16. QED
  BY <1>1, <1>2, <1>3, <1>4, <1>5, <1>6, <1>7, <1>8, <1>9, <1>10, <1>11, <1>12, <1>13,
     <1>14, <1>15 DEF Next

\* A manifest is created only by a call past the storing of its body.
LEMMA CommittedStep ==
    ASSUME PInv, [Next]_vars
    PROVE  CommittedHasBody'
<1>1. ASSUME MaterializeSchema PROVE CommittedHasBody'
  BY <1>1 DEF MaterializeSchema, PInv, CommittedHasBody
<1>2. ASSUME NEW b \in Bodies, Damage(b) PROVE CommittedHasBody'
  BY <1>2 DEF Damage, PInv, CommittedHasBody
<1>3. ASSUME NEW c \in Calls, NEW s \in Slots, NEW b \in Bodies, Publish(c, s, b) PROVE CommittedHasBody'
  BY <1>3 DEF Publish, PInv, CommittedHasBody
<1>4. ASSUME NEW c \in Calls, NEW s \in Slots, Resolve(c, s) PROVE CommittedHasBody'
  BY <1>4 DEF Resolve, PInv, CommittedHasBody
<1>5. ASSUME NEW c \in Calls, Validate(c) PROVE CommittedHasBody'
  BY <1>5 DEF Validate, PInv, CommittedHasBody
<1>6. ASSUME NEW c \in Calls, PutBody(c) PROVE CommittedHasBody'
  BY <1>6 DEF PutBody, PInv, CommittedHasBody
<1>7. ASSUME NEW c \in Calls, CompareBody(c) PROVE CommittedHasBody'
  BY <1>7 DEF CompareBody, PInv, CommittedHasBody
<1>8. ASSUME NEW c \in Calls, PutManifest(c) PROVE CommittedHasBody'
  BY <1>8 DEF PutManifest, PInv, PlaceInv, Publishing, Committing, CommittedHasBody
<1>9. ASSUME NEW c \in Calls, CompareManifest(c) PROVE CommittedHasBody'
  BY <1>9 DEF CompareManifest, PInv, CommittedHasBody
<1>10. ASSUME NEW c \in Calls, GetManifest(c) PROVE CommittedHasBody'
  BY <1>10 DEF GetManifest, PInv, CommittedHasBody
<1>11. ASSUME NEW c \in Calls, GetBody(c) PROVE CommittedHasBody'
  BY <1>11 DEF GetBody, PInv, CommittedHasBody
<1>12. ASSUME NEW c \in Calls, Revalidate(c) PROVE CommittedHasBody'
  BY <1>12 DEF Revalidate, PInv, CommittedHasBody
<1>13. ASSUME NEW c \in Calls, StoreFault(c) PROVE CommittedHasBody'
  BY <1>13 DEF StoreFault, Fault, PInv, CommittedHasBody
<1>14. ASSUME NEW c \in Calls, Crash(c) PROVE CommittedHasBody'
  BY <1>14 DEF Crash, PInv, CommittedHasBody
<1>15. ASSUME UNCHANGED vars PROVE CommittedHasBody'
  BY <1>15 DEF vars, PInv, CommittedHasBody
<1>16. QED
  BY <1>1, <1>2, <1>3, <1>4, <1>5, <1>6, <1>7, <1>8, <1>9, <1>10, <1>11, <1>12, <1>13,
     <1>14, <1>15 DEF Next

\* A manifest is created once, and compared before a second success.
LEMMA OneValueStep ==
    ASSUME PInv, [Next]_vars
    PROVE  SlotHasOneValue'
<1>1. ASSUME MaterializeSchema PROVE SlotHasOneValue'
  BY <1>1 DEF MaterializeSchema, PInv, SlotHasOneValue
<1>2. ASSUME NEW b \in Bodies, Damage(b) PROVE SlotHasOneValue'
  BY <1>2 DEF Damage, PInv, SlotHasOneValue
<1>3. ASSUME NEW c \in Calls, NEW s \in Slots, NEW b \in Bodies, Publish(c, s, b) PROVE SlotHasOneValue'
  BY <1>3 DEF Publish, Goto, PInv, SlotHasOneValue
<1>4. ASSUME NEW c \in Calls, NEW s \in Slots, Resolve(c, s) PROVE SlotHasOneValue'
  BY <1>4 DEF Resolve, Goto, PInv, SlotHasOneValue
<1>5. ASSUME NEW c \in Calls, Validate(c) PROVE SlotHasOneValue'
  BY <1>5 DEF Validate, Goto, PInv, SlotHasOneValue
<1>6. ASSUME NEW c \in Calls, PutBody(c) PROVE SlotHasOneValue'
  BY <1>6 DEF PutBody, CreateAnswer, Goto, PInv, TypeOK, SlotHasOneValue
<1>7. ASSUME NEW c \in Calls, CompareBody(c) PROVE SlotHasOneValue'
  BY <1>7 DEF CompareBody, Goto, PInv, SlotHasOneValue
<1>8. ASSUME NEW c \in Calls, PutManifest(c) PROVE SlotHasOneValue'
  BY <1>8, PublicationAssumption DEF PutManifest, CreateAnswer, Goto, PInv, TypeOK,
     PlaceInv, Publishing, Reading, SlotHasOneValue
<1>9. ASSUME NEW c \in Calls, CompareManifest(c) PROVE SlotHasOneValue'
  BY <1>9 DEF CompareManifest, Goto, PInv, SlotHasOneValue
<1>10. ASSUME NEW c \in Calls, GetManifest(c) PROVE SlotHasOneValue'
  BY <1>10 DEF GetManifest, Goto, PInv, SlotHasOneValue
<1>11. ASSUME NEW c \in Calls, GetBody(c) PROVE SlotHasOneValue'
  BY <1>11 DEF GetBody, Goto, PInv, SlotHasOneValue
<1>12. ASSUME NEW c \in Calls, Revalidate(c) PROVE SlotHasOneValue'
  BY <1>12 DEF Revalidate, Goto, PInv, PlaceInv, Reading, SlotHasOneValue
<1>13. ASSUME NEW c \in Calls, StoreFault(c) PROVE SlotHasOneValue'
  BY <1>13 DEF StoreFault, Fault, Goto, PInv, TypeOK, SlotHasOneValue
<1>14. ASSUME NEW c \in Calls, Crash(c) PROVE SlotHasOneValue'
  BY <1>14 DEF Crash, Goto, PInv, SlotHasOneValue
<1>15. ASSUME UNCHANGED vars PROVE SlotHasOneValue'
  BY <1>15 DEF vars, PInv, SlotHasOneValue
<1>16. QED
  BY <1>1, <1>2, <1>3, <1>4, <1>5, <1>6, <1>7, <1>8, <1>9, <1>10, <1>11, <1>12, <1>13,
     <1>14, <1>15 DEF Next

\* The invariant holds initially.
LEMMA PInvInit == Init => PInv
  BY DEF Init, PInv, TypeOK, PlaceInv, CommittedHasBody, SlotHasOneValue, Publishing,
     Committing, Reading, Places

\* Every step of a call, of a run's prerequisites and of the store's faults
\* preserves the invariant.
LEMMA PInvStep == PInv /\ [Next]_vars => PInv'
  BY TypeStep, PlaceStep, CommittedStep, OneValueStep DEF PInv

(***************************************************************************)
(* PublishJSON and ResolveJSON stay in PInv.                               *)
(***************************************************************************)
THEOREM Invariance == Spec => []PInv
  BY PInvInit, PInvStep, PTL DEF Spec

(***************************************************************************)
(* Manifest-last publication: wherever publishers stop, a visible manifest *)
(* names a valid value whose body was stored.                              *)
(***************************************************************************)
THEOREM ManifestCommits == Spec => []CommittedHasBody
<1>1. PInv => CommittedHasBody
  BY DEF PInv
<1>2. QED
  BY <1>1, Invariance, PTL

(***************************************************************************)
(* All publishers and consumers of a slot that get a value get the same.   *)
(***************************************************************************)
THEOREM SlotsAgree == Spec => []SlotHasOneValue
<1>1. PInv => SlotHasOneValue
  BY DEF PInv
<1>2. QED
  BY <1>1, Invariance, PTL



-----------------------------------------------------------------------------
\* A refused call knows its value, and a body is compared only once it is there.
RefusedInv ==
    \A c \in Calls :
        /\ pc[c] \in {"bodyConflict", "manifestConflict"} => body[c] \in Bodies
        /\ pc[c] = "compareBody" => blob[body[c]] # "absent"

\* Blobs are never removed, and a call keeps its value to its end.
LEMMA RefusedStep ==
    ASSUME PInv, RefusedInv, [Next]_vars
    PROVE  RefusedInv'
<1>1. ASSUME MaterializeSchema PROVE RefusedInv'
  BY <1>1 DEF MaterializeSchema, RefusedInv
<1>2. ASSUME NEW b \in Bodies, Damage(b) PROVE RefusedInv'
  BY <1>2 DEF Damage, RefusedInv
<1>3. ASSUME NEW c \in Calls, NEW s \in Slots, NEW b \in Bodies, Publish(c, s, b) PROVE RefusedInv'
  BY <1>3 DEF Publish, Goto, PInv, TypeOK, RefusedInv
<1>4. ASSUME NEW c \in Calls, NEW s \in Slots, Resolve(c, s) PROVE RefusedInv'
  BY <1>4 DEF Resolve, Goto, PInv, TypeOK, RefusedInv
<1>5. ASSUME NEW c \in Calls, Validate(c) PROVE RefusedInv'
  BY <1>5 DEF Validate, Goto, PInv, TypeOK, RefusedInv
<1>6. ASSUME NEW c \in Calls, PutBody(c) PROVE RefusedInv'
  BY <1>6, PublicationAssumption DEF PutBody, CreateAnswer, Goto, PInv, TypeOK, PlaceInv,
     Publishing, RefusedInv
<1>7. ASSUME NEW c \in Calls, CompareBody(c) PROVE RefusedInv'
  BY <1>7, PublicationAssumption DEF CompareBody, Goto, PInv, TypeOK, PlaceInv, Publishing,
     RefusedInv
<1>8. ASSUME NEW c \in Calls, PutManifest(c) PROVE RefusedInv'
  BY <1>8 DEF PutManifest, CreateAnswer, Goto, PInv, TypeOK, RefusedInv
<1>9. ASSUME NEW c \in Calls, CompareManifest(c) PROVE RefusedInv'
  BY <1>9, PublicationAssumption DEF CompareManifest, Goto, PInv, TypeOK, PlaceInv,
     Publishing, RefusedInv
<1>10. ASSUME NEW c \in Calls, GetManifest(c) PROVE RefusedInv'
  BY <1>10 DEF GetManifest, Goto, PInv, TypeOK, RefusedInv
<1>11. ASSUME NEW c \in Calls, GetBody(c) PROVE RefusedInv'
  BY <1>11 DEF GetBody, Goto, PInv, TypeOK, RefusedInv
<1>12. ASSUME NEW c \in Calls, Revalidate(c) PROVE RefusedInv'
  BY <1>12 DEF Revalidate, Goto, PInv, TypeOK, RefusedInv
<1>13. ASSUME NEW c \in Calls, StoreFault(c) PROVE RefusedInv'
  BY <1>13, PublicationAssumption DEF StoreFault, Fault, Goto, PInv, TypeOK, PlaceInv,
     Publishing, RefusedInv
<1>14. ASSUME NEW c \in Calls, Crash(c) PROVE RefusedInv'
  BY <1>14 DEF Crash, Goto, PInv, TypeOK, RefusedInv
<1>15. ASSUME UNCHANGED vars PROVE RefusedInv'
  BY <1>15 DEF vars, RefusedInv
<1>16. QED
  BY <1>1, <1>2, <1>3, <1>4, <1>5, <1>6, <1>7, <1>8, <1>9, <1>10, <1>11, <1>12, <1>13,
     <1>14, <1>15 DEF Next

\* The reason a call was refused for stays: a manifest is never replaced, and only
\* the schema's blob is ever repaired.
LEMMA ConvergesStep ==
    ASSUME PInv, RefusedInv, RetryConverges, [Next]_vars
    PROVE  RetryConverges'
<1>1. ASSUME MaterializeSchema PROVE RetryConverges'
  BY <1>1 DEF MaterializeSchema, PInv, TypeOK, RefusedInv, RetryConverges
<1>2. ASSUME NEW b \in Bodies, Damage(b) PROVE RetryConverges'
  BY <1>2 DEF Damage, PInv, TypeOK, RefusedInv, RetryConverges
<1>3. ASSUME NEW c \in Calls, NEW s \in Slots, NEW b \in Bodies, Publish(c, s, b) PROVE RetryConverges'
  BY <1>3 DEF Publish, Goto, PInv, TypeOK, RetryConverges
<1>4. ASSUME NEW c \in Calls, NEW s \in Slots, Resolve(c, s) PROVE RetryConverges'
  BY <1>4 DEF Resolve, Goto, PInv, TypeOK, RetryConverges
<1>5. ASSUME NEW c \in Calls, Validate(c) PROVE RetryConverges'
  BY <1>5 DEF Validate, Goto, PInv, TypeOK, RetryConverges
<1>6. ASSUME NEW c \in Calls, PutBody(c) PROVE RetryConverges'
  BY <1>6, PublicationAssumption DEF PutBody, CreateAnswer, Goto, PInv, TypeOK, RefusedInv,
     RetryConverges
<1>7. ASSUME NEW c \in Calls, CompareBody(c) PROVE RetryConverges'
  BY <1>7, PublicationAssumption DEF CompareBody, Goto, PInv, TypeOK, PlaceInv, Publishing,
     RefusedInv, RetryConverges
<1>8. ASSUME NEW c \in Calls, PutManifest(c) PROVE RetryConverges'
  BY <1>8 DEF PutManifest, CreateAnswer, Goto, PInv, TypeOK, PlaceInv, RetryConverges
<1>9. ASSUME NEW c \in Calls, CompareManifest(c) PROVE RetryConverges'
  BY <1>9 DEF CompareManifest, Goto, PInv, TypeOK, PlaceInv, RetryConverges
<1>10. ASSUME NEW c \in Calls, GetManifest(c) PROVE RetryConverges'
  BY <1>10 DEF GetManifest, Goto, PInv, TypeOK, RetryConverges
<1>11. ASSUME NEW c \in Calls, GetBody(c) PROVE RetryConverges'
  BY <1>11 DEF GetBody, Goto, PInv, TypeOK, RetryConverges
<1>12. ASSUME NEW c \in Calls, Revalidate(c) PROVE RetryConverges'
  BY <1>12 DEF Revalidate, Goto, PInv, TypeOK, RetryConverges
<1>13. ASSUME NEW c \in Calls, StoreFault(c) PROVE RetryConverges'
  BY <1>13 DEF StoreFault, Fault, Goto, PInv, TypeOK, RetryConverges
<1>14. ASSUME NEW c \in Calls, Crash(c) PROVE RetryConverges'
  BY <1>14 DEF Crash, Goto, PInv, TypeOK, RetryConverges
<1>15. ASSUME UNCHANGED vars PROVE RetryConverges'
  BY <1>15 DEF vars, RetryConverges
<1>16. QED
  BY <1>1, <1>2, <1>3, <1>4, <1>5, <1>6, <1>7, <1>8, <1>9, <1>10, <1>11, <1>12, <1>13,
     <1>14, <1>15 DEF Next

(***************************************************************************)
(* Whatever other calls, crashes and damage came between, a call that met  *)
(* no failing store operation is refused only for another committed value  *)
(* or a damaged blob: repeating an interrupted publication converges.      *)
(***************************************************************************)
THEOREM RetriesConverge == Spec => []RetryConverges
<1>1. Init => RefusedInv /\ RetryConverges
  BY DEF Init, RefusedInv, RetryConverges
<1>2. PInv /\ RefusedInv /\ RetryConverges /\ [Next]_vars => RefusedInv' /\ RetryConverges'
  BY RefusedStep, ConvergesStep
<1>3. QED
  BY <1>1, <1>2, Invariance, PTL DEF Spec
==============================================================================
