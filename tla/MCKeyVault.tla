------------------------------ MODULE MCKeyVault ------------------------------
(* KeyVault for TLC: two paths, one of them read-only, two passphrases and  *)
(* two ids, so that a create can replace an earlier one at a path.         *)
EXTENDS KeyVault, TLC

MCSymmetry == Permutations(Passphrases)

=============================================================================
