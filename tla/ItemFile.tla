------------------------------- MODULE ItemFile -------------------------------
(***************************************************************************)
(* What a packfile writer promises, without records, workers or an index: a *)
(* file that takes items in order, may lag behind or be given up at any     *)
(* time, and is sealed only when it holds every accepted item.  A sealed or *)
(* removed file never changes again.                                        *)
(***************************************************************************)
EXTENDS Naturals, Sequences

VARIABLES
    accepted,   \* how many items the writer has accepted
    stored,     \* the items in the file
    status      \* "open", "sealed" or "removed"

itemVars == <<accepted, stored, status>>

Items(n) == [i \in 1 .. n |-> i]

ItemInit == accepted = 0 /\ stored = <<>> /\ status = "open"

\* Items reach the file in order; the one being accepted may already be there.
Store(n) == /\ status = "open"
            /\ n \in Len(stored) .. accepted + 1
            /\ stored' = Items(n)
            /\ UNCHANGED status

Accept == accepted' = accepted + 1 /\ status = "open"

\* One step may accept the item that completes a record and store that record.
Progress == \E n \in Len(stored) .. accepted + 1 :
               Store(n) /\ (Accept \/ UNCHANGED accepted)

ItemSeal == /\ status = "open"
            /\ stored = Items(accepted)
            /\ status' = "sealed"
            /\ UNCHANGED <<accepted, stored>>

Remove == /\ status = "open"
          /\ status' = "removed"
          /\ UNCHANGED <<accepted, stored>>

ItemNext == Progress \/ ItemSeal \/ Remove

ItemSpec == ItemInit /\ [][ItemNext]_itemVars
=============================================================================
