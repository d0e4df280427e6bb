----------------------------- MODULE MCToolLoop -----------------------------
(* A plan of one table and one page, a page that is not in the plan, and     *)
(* limits small enough that every way out of the loop is taken.              *)
EXTENDS ToolLoop
=============================================================================
