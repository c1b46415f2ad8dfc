-------------------------- MODULE MCBranchCommits --------------------------
(* BranchCommits for TLC: two users, each with one request in flight; the  *)
(* first edits without audio, the second with.                             *)
EXTENDS BranchCommits, TLC

CONSTANTS u1, u2, r1, r2, cut1, dub2

MCOwner == (r1 :> u1) @@ (r2 :> u2)
MCEditsOf == (u1 :> {cut1}) @@ (u2 :> {dub2})
=============================================================================
