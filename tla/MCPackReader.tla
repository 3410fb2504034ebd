----------------------------- MODULE MCPackReader -----------------------------
(***************************************************************************)
(* Instances of PackReader for TLC.                                         *)
(***************************************************************************)
EXTENDS PackReader, SequencesExt

\* Three records of 2, 3 and 1 bytes.
ThreeRecords == 0 :> 0 @@ 1 :> 2 @@ 2 :> 5 @@ 3 :> 6

Sorted(S) == SetToSortSeq(S, <)

\* A list over several batches, and a single item.
Mixed == {[op |-> "items", positions |-> Sorted(0 .. TotalItems - 1)],
          [op |-> "item", positions |-> <<TotalItems - 1>>]}

=============================================================================
