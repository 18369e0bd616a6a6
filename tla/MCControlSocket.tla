--------------------------- MODULE MCControlSocket --------------------------
(***************************************************************************)
(* ControlSocket with two daemons that share their TCP address and one     *)
(* that has its own; or with two that have one each.                       *)
(***************************************************************************)
EXTENDS ControlSocket, TLC

CONSTANTS a, b, c

TwoShare   == [d \in {a, b, c} |-> IF d = c THEN "127.0.0.1:9999" ELSE "127.0.0.1:48750"]
OwnAddress == [d \in {a, b, c} |-> d]

Interchangeable == Permutations({a, b})

=============================================================================
