---------------------------- MODULE MCDataLibrary ----------------------------
(* Bounds for model checking DataLibrary: two environments; an archive with   *)
(* two files, of two bytes and of one, after a directory of one byte.        *)
EXTENDS DataLibrary

CONSTANTS e1, e2

MCEnvs    == {e1, e2}
MCOffsets == <<1, 3>>
=============================================================================
