------------------------------ MODULE MCPicoFS ------------------------------
(***************************************************************************)
(* For TLC: names and page contents are interchangeable.                   *)
(***************************************************************************)
EXTENDS PicoFS, TLC

Interchangeable == Permutations(Data) \cup Permutations(Names)
=============================================================================
