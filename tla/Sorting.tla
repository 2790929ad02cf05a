------------------------------- MODULE Sorting -------------------------------
(***************************************************************************)
(* A set of numbers as the list that names them in order.                  *)
(***************************************************************************)
EXTENDS Integers, FiniteSets

Sorted(set) ==
    CHOOSE s \in [1 .. Cardinality(set) -> set] : \A m, n \in DOMAIN s : m < n => s[m] < s[n]
=============================================================================
