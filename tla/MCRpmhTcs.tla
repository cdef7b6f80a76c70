----------------------------- MODULE MCRpmhTcs -----------------------------
(* Instances of RpmhTcs.  The runs stop where Trusted ends: no property speaks *)
(* of what comes after.                                                       *)
EXTENDS RpmhTcs

CONSTANTS w1, w2, a1, a2
============================================================================
