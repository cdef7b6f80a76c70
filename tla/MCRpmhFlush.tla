---------------------------- MODULE MCRpmhFlush ----------------------------
(* Instances of RpmhFlush. *)
EXTENDS RpmhFlush

CONSTANTS c1, c2, t1, a1, a2, b1, b2, b3

\* Nothing, one batch that fits a TCS and one that is too long
FewBatches == {<<>>, <<b1, b2>>, <<b1, b2, b3>>}

Symmetry == Permutations(Cpus)
============================================================================
