--------------------------- MODULE MCFileReplace ---------------------------
(***************************************************************************)
(* Small instances of FileReplace for TLC.                                 *)
(***************************************************************************)
EXTENDS FileReplace

CONSTANTS w1, w2, d1, d2, d3, f1, f2, f3, f4
OneWriter == {w1}
TwoWriters == {w1, w2}
ThreeDocuments == {d1, d2, d3}
FourFiles == {f1, f2, f3, f4}
=============================================================================
