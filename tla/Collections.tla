----------------------------- MODULE Collections ----------------------------
(***************************************************************************)
(* Parts of lists, numbers in order and sums, in a form that can be        *)
(* reasoned about: the library's SelectSeq, SetToSortSeq and MapThenSumSet *)
(* take operators as parameters.  MCNotifications assumes that what is     *)
(* defined here agrees with them.                                          *)
(***************************************************************************)
EXTENDS Integers, Sequences, FiniteSets

\* What is left of a list, in its order, when only the positions in S stay.
Nth(S, n) == CHOOSE i \in S : Cardinality({j \in S : j < i}) = n - 1
Picked(s, S) == [n \in 1 .. Cardinality(S) |-> s[Nth(S, n)]]

\* A set of numbers in ascending and in descending order.
Ascending(S) == [n \in 1 .. Cardinality(S) |-> Nth(S, n)]
Descending(S) == [n \in 1 .. Cardinality(S) |-> Nth(S, Cardinality(S) + 1 - n)]

\* The sum of w over a finite set.
Total(w, S) ==
    LET sum[T \in SUBSET S] ==
            IF T = {} THEN 0 ELSE LET x == CHOOSE y \in T : TRUE IN w[x] + sum[T \ {x}]
    IN sum[S]
=============================================================================
