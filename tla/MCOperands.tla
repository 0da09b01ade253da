----------------------------- MODULE MCOperands -----------------------------
(***************************************************************************)
(* r/m operands for Operands: every addressing form, with the registers    *)
(* that mean something of their own (RSP is none as an index, RBP none as  *)
(* a base) and a few that do not.                                          *)
(***************************************************************************)
EXTENDS Operands

MCForms ==
  [mod : {3}, rm : {0, 1, 4, 5}, scale : {0}, index : {0}, base : {0}]
    \union [mod : 0 .. 2, rm : {0, 1, 5}, scale : {0}, index : {0}, base : {0}]
    \union [mod : 0 .. 2, rm : {4}, scale : 0 .. 3, index : {0, 1, 4, 5}, base : {0, 1, 4, 5}]
=============================================================================
