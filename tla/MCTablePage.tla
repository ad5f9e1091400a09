---------------------------- MODULE MCTablePage ----------------------------
(***************************************************************************)
(* Model values for the page of the console: a book is called t1 or has no *)
(* name, which is enough to tell a title from the one that was edited, and *)
(* a filter that some books pass from one that all pass.                   *)
(***************************************************************************)
EXTENDS TablePage

CONSTANT t1

MCTitle == {t1}
=============================================================================
