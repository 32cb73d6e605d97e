---------------------------- MODULE MCDiContainer ----------------------------
(* Small instances of DiContainer for TLC.                                  *)
EXTENDS DiContainer, TLC

CONSTANTS root, child, a, b, d

CallerSymmetry == Permutations(Callers)

(* One container, or a parent with a child.                                 *)
OneLine == [c \in Containers |-> <<c>>]
TreeLine == (root :> <<root>>) @@ (child :> <<child, root>>)

(* a is built from b, whose resolve() asks for d.                           *)
None3 == [t \in Types |-> {}]
AUsesB == [t \in Types |-> IF t = a THEN {b} ELSE {}]
BAsksD == [t \in Types |-> IF t = b THEN {d} ELSE {}]
==============================================================================
