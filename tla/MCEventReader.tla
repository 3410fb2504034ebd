---------------------------- MODULE MCEventReader ----------------------------
(***************************************************************************)
(* Instances of EventReader, and of PackReader below it, for TLC.           *)
(***************************************************************************)
EXTENDS EventReader, TLC

\* Three records of two events and one of one, of 2, 3, 1 and 4 bytes.
FourRecords == 0 :> 0 @@ 1 :> 2 @@ 2 :> 5 @@ 3 :> 6 @@ 4 :> 10

Sorted(S) == SelectSeq([i \in 1 .. TotalItems |-> i - 1], LAMBDA p : p \in S)

\* Every list of positions, every range and every position, one of them out of range.
Everything ==
    {[op |-> "items", positions |-> Sorted(S)] : S \in SUBSET (0 .. TotalItems - 1) \ {{}}}
    \cup {[op |-> "range", positions |-> Sorted(s)] :
             s \in {a .. b : a, b \in 0 .. TotalItems - 1} \ {{}}}
    \cup {[op |-> "item", positions |-> <<p>>] : p \in -1 .. TotalItems}

Symmetry == Permutations(Decoders)
=============================================================================
