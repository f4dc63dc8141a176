----------------------------- MODULE MCObjects -----------------------------
(* Small instances of Objects for TLC.                                     *)
EXTENDS Objects, TLC

MCTexts == {<<1>>, <<1, 2>>}
Symmetric == Permutations(Vars) \cup Permutations(Objs)
=============================================================================
