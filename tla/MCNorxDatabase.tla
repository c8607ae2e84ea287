-------------------------- MODULE MCNorxDatabase --------------------------
(* Instance of NorxDatabase for TLC: names and passwords are model values  *)
(* that the specification treats alike.                                    *)
EXTENDS NorxDatabase, TLC

Symmetry ==
  Permutations(UserNames) \cup Permutations(GroupNames) \cup Permutations(Passwords)
=============================================================================
