----------------------------- MODULE MCBuilds -----------------------------
(* Instances of Builds for TLC. *)
EXTENDS Builds

CONSTANTS b1, r, mon

Two == {[count |-> 2, numbered |-> TRUE, fields |-> <<"autoEnroll">>]}
SomeExist == {{1}}
=============================================================================
