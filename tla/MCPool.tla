------------------------------- MODULE MCPool -------------------------------
(* Instances of ConstantPool: the texts are interchangeable. *)
EXTENDS ConstantPool, TLC

TextSymmetry == Permutations(Texts)

=============================================================================
