--------------------------- MODULE MCCadMetering ---------------------------
(* Instances of CadMetering: midnight falls within a run, near its start or  *)
(* its end.  The identities of requests are interchangeable.                 *)
EXTENDS CadMetering, TLC

MCStartTimes == {3, 5}

(* From the start of a day, a lock may expire within it. *)
MCDayStart == {0, 5}

MCSymmetry == Permutations(Request)
=============================================================================
