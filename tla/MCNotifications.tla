-------------------------- MODULE MCNotifications --------------------------
(* Instances of Notifications for TLC.                                     *)
EXTENDS Notifications

(* Without() takes out of a list what carries one of the ids.              *)
ASSUME WithoutAssumption ==
    \A n \in 0 .. 4 : \A s \in [1 .. n -> [id : 1 .. 3]] : \A ids \in SUBSET (1 .. 3) :
        Without(s, ids) = SelectSeq(s, LAMBDA e : e.id \notin ids)

Library == INSTANCE SequencesExt

(* The definitions of Collections agree with the library's.                *)
ASSUME CollectionsAssumption ==
    /\ \A n \in 0 .. 4 : \A s \in [1 .. n -> 1 .. 3] : \A T \in SUBSET (1 .. 3) :
          Picked(s, {i \in DOMAIN s : s[i] \in T}) = SelectSeq(s, LAMBDA e : e \in T)
    /\ \A S \in SUBSET (0 .. 6) : /\ Ascending(S) = Library!SetToSortSeq(S, <)
                                 /\ Descending(S) = Library!SetToSortSeq(S, >)
    /\ \A w \in [1 .. 3 -> 0 .. 2] : \A S \in SUBSET (1 .. 3) :
          Total(w, S) = Library!FoldSet(LAMBDA x, sum : w[x] + sum, 0, S)
=============================================================================
