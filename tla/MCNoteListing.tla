--------------------------- MODULE MCNoteListing ----------------------------
(* Small instances of NoteListing for TLC. *)
EXTENDS NoteListing

(* The last two pages overflow the offset: to a negative and to another    *)
(* page's offset.                                                          *)
SomePages == {0, 2, 5}
SomeSizes == {1, 4}
=============================================================================
