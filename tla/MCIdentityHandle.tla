------------------------- MODULE MCIdentityHandle -------------------------
(* Model-checking instance of IdentityHandle: threads, objects and         *)
(* addresses are model values and interchangeable.                          *)
EXTENDS IdentityHandle, TLC

MCSymmetry == Permutations(Threads) \cup Permutations(Objects) \cup Permutations(Addrs)
=============================================================================
