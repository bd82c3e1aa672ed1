----------------------------- MODULE MCChannel -----------------------------
(* Instances of Channel for TLC.                                           *)
EXTENDS Channel

CONSTANTS s1, s2, r1, r2, b1, b2

FirstHandles == <<s1, r1>>
=============================================================================
