--------------------------- MODULE MCLocalDatastore ---------------------------
(***************************************************************************)
(* Requests for model-checking LocalDatastore.                             *)
(***************************************************************************)
EXTENDS LocalDatastore, TLC

Request(op, body, type) == [op |-> op, body |-> body, type |-> type]

\* One key created with two bodies and two content types, replaced once it is claimed,
\* as the run journal is, and read.
ObjectRequests ==
    {Request("create", "b1", "json"), Request("create", "b2", "json"),
     Request("create", "b2", "octets"), Request("put", "b1", "json"),
     Request("get", "any", "any")}

\* Clients are interchangeable.
ClientSymmetry == Permutations(Clients)
==============================================================================
