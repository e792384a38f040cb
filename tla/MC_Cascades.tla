---------------------------- MODULE MC_Cascades ----------------------------
(* Cascades on two exits and two ports; one forward of another tool. *)
EXTENDS Cascades, TLC

CONSTANTS p1, e1, h1, h2, l1

\* Both exits are scanned; an edit makes one unscanned again.
AtHome == [e \in Exit |-> [host |-> IF e = e1 THEN h1 ELSE h2, listen |-> l1]]
OneForeign == {[port |-> p1, to |-> [host |-> h1, listen |-> l1]]}
IdSymmetry == Permutations(Id)
=============================================================================
