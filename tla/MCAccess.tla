------------------------------ MODULE MCAccess ------------------------------
(* Access for TLC: one film, which is its own only candidate.              *)
EXTENDS Access

CONSTANT e1

Film == {e1}
FilmUpcoming == e1 :> <<e1>>
=============================================================================
