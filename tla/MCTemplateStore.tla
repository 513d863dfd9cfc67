-------------------------- MODULE MCTemplateStore --------------------------
(***************************************************************************)
(* Finite instances of TemplateStore: t1 outgrows the disk with its new    *)
(* tag, t2 grows, and t3's tags overlap by more than its size.             *)
(***************************************************************************)
EXTENDS TemplateStore, TLC

CONSTANTS t1, t2, t3

MCOldSize == [t \in Templates |-> CASE t = t1 -> 3 [] t = t2 -> 1 [] OTHER -> 2]
MCNewSize == [t \in Templates |-> CASE t = t1 -> 6 [] t = t2 -> 2 [] OTHER -> 2]
MCOverlap == [t \in Templates |-> CASE t = t1 -> 1 [] t = t2 -> 1 [] OTHER -> 3]
=============================================================================
