------------------------------- MODULE MCEvents -------------------------------
(***************************************************************************)
(* Plans and outlets for model-checking RunEvents.                         *)
(***************************************************************************)
EXTENDS RunEvents

MCOutlets == {{"display"}, {"file", "display"}}

MCPlans == {<<"map">>, <<"step", "step">>}
==============================================================================
