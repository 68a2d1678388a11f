---------------------------- MODULE MCSheetTrial ----------------------------
(* Three parts on two sheets: a refill can add a part twice, parts are left *)
(* for the second sheet, and two new parts can outnumber one lost seed.     *)
EXTENDS SheetTrial

=============================================================================
