----------------------------- MODULE MCConsole ------------------------------
(***************************************************************************)
(* Instances of Console for TLC: a window of three rows and six columns.       *)
(***************************************************************************)
EXTENDS Console

Keys       == {"s", " ", NL, BS}
FewKeys    == {"s", BS}
WithShift  == [c \in CharKeys |-> IF c = "s" THEN "S" ELSE c]
OnePrompt  == <<">">>
Clear      == <<"S">>
Texts      == {<<>>, <<TAB, "x">>, <<"x", "x", "x", "x", "x", "x", "x", NL, "x">>}
ZeroStack  == {0}
=============================================================================
