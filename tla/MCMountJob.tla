----------------------------- MODULE MCMountJob -----------------------------
(* Two services over two containers, which they may share, and two applies, *)
(* of the same service or of both.                                          *)
EXTENDS MountJob, TLC

CONSTANTS s1, s2, c1, c2, j1, j2

MCServices == {s1, s2}
MCContainers == {c1, c2}
MCJobs == {j1, j2}
MCCreatable == {s1}
OneService == {s1}
Symmetry == Permutations(MCContainers) \cup Permutations(MCJobs)
=============================================================================
