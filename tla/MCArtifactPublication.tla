------------------------ MODULE MCArtifactPublication ------------------------
EXTENDS ArtifactPublication, TLC

\* Calls are interchangeable, and so are slots.
PublicationSymmetry == Permutations(Calls) \cup Permutations(Slots)
==============================================================================
