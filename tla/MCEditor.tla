---- MODULE MCEditor ----
(* One letter, clips with two lines and with a line to wrap, and stacks that *)
(* are full after two edits.                                                 *)
EXTENDS Editor

MCClips == {<<"a", NL, "a">>, <<"a", "a", "a">>}
MCLetter == {"a"}
====
