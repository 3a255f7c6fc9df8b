-------------------------- MODULE MCBootstrapLoad --------------------------
(***************************************************************************)
(* Small instances of BootstrapLoad for TLC.                               *)
(***************************************************************************)
EXTENDS BootstrapLoad, TLC

CONSTANTS p1, p2
OneProc == {p1}
TwoProcs == {p1, p2}
Symmetry == Permutations(TwoProcs)

AllVersions == Versions
OddVersions == {1, 3}
OneAge == {2}
ZeroAndOne == {0, 1}

Empty == {None}
Damaged == {[body |-> 0, etag |-> 1, cachedAt |-> 0, maxAge |-> 2]}
=============================================================================
