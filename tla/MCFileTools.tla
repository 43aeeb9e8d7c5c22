---------------------------- MODULE MCFileTools ----------------------------
(***************************************************************************)
(* Small instances of a workspace's files.                                 *)
(***************************************************************************)
EXTENDS FileTools

TwoFiles == <<"a.py", "b.py">>
\* Nothing, a line, and a line end in the middle of a text that ends without one.
ShortTexts == {<<>>, <<"x", NL>>, <<"y", NL, "x">>}
=============================================================================
