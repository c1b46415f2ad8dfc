----------------------------- MODULE MCVfsPage -----------------------------
EXTENDS VfsPage, TLC
CONSTANTS d1, d2, f1, s1, s2
MCDirs == {d1, d2}
MCFiles == {f1}
MCCalls == {s1, s2}
(* A folder in a folder with an asset in it; one folder with nothing in it. *)
MCStarts ==
  {(d1 :> Root) @@ (d2 :> d1) @@ (f1 :> d2), (d1 :> Root) @@ (d2 :> Unborn) @@ (f1 :> Unborn)}
MCSymmetry == Permutations(MCCalls)
=============================================================================
