---------------------------- MODULE MCTaskgroups ----------------------------
(* An instance of Taskgroups for TLC: nested taskgroups, the outermost of   *)
(* which was there before, and another process that removes and makes that  *)
(* one, and a directory inside it.                                          *)
EXTENDS Taskgroups

A    == <<"a">>
AB   == <<"a", "b">>
ABC  == <<"a", "b", "c">>
AD   == <<"a", "d">>

Nested    == {A, AB, ABC}
AllPaths  == Nested \cup {AD}
OnlyA     == {A}
Others    == {A, AD}
============================================================================
