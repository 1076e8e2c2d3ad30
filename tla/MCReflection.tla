---------------------------- MODULE MCReflection ----------------------------
(* Instances of Reflection for TLC. *)
EXTENDS Reflection

CONSTANTS e1, e2

MCEntry2 == {e1, e2, Note}
MCEmpty  == {<<>>}
MCSeeded == {<<>>, <<e1>>, <<e1, Note>>}
=============================================================================
