------------------------------ MODULE OffsetIndex ------------------------------
(***************************************************************************)
(* The index of record offsets of a packfile (packfile/index.go):           *)
(* encodeIndex writes the sizes of the records in groups, decodeIndex finds *)
(* the groups from the end backward and adds the sizes up again.            *)
(*                                                                          *)
(* Data.  An encoded group is its values and its length in bytes: that it   *)
(* unpacks to the same values is the subject of IntPack.  Of the checksum   *)
(* only whether it is right is kept.                                        *)
(***************************************************************************)
EXTENDS Integers, Sequences, FiniteSets, FiniteSetsExt, Functions

CONSTANTS
    GroupSize,   \* groupSize, 128 in the code
    MaxDelta,    \* the largest size, 2^32 - 1 in the code
    Sizes,       \* bound: the sizes of the records
    MaxRecords   \* bound: how many there are

OffsetIndexAssumption ==
    GroupSize \in Nat \ {0} /\ MaxDelta \in Nat /\ Sizes \subseteq Nat /\ MaxRecords \in Nat

Unknown == -1   \* a value of a group that was unpacked with the wrong count

VARIABLES
    sizes,     \* the sizes of the records
    intact,    \* nothing happens to the index in the file
    pc,        \* "encode", "decode", then "done", "refused" (by Finish) or "corrupt"
    g,         \* the group at hand
    groups,    \* the groups in the buffer
    pos,       \* how many bytes of them are still to be decoded
    deltas,    \* the sizes decoded so far
    offsets    \* what decodeIndex returns

vars == <<sizes, intact, pc, g, groups, pos, deltas, offsets>>

Records == Len(sizes)

Init ==
    /\ sizes \in UNION {[1 .. n -> Sizes] : n \in 0 .. MaxRecords} /\ intact \in BOOLEAN
    /\ pc = "encode" /\ g = 0 /\ groups = <<>> /\ pos = 0
    /\ deltas = [i \in {} |-> 0] /\ offsets = <<>>

-----------------------------------------------------------------------------
(***************************************************************************)
(* intpack, by its sizes.                                                   *)
(***************************************************************************)
BitLength(n) == CHOOSE w \in 0 .. 32 : n < 2 ^ w /\ (w = 0 \/ n >= 2 ^ (w - 1))

Width(values) == Max({1, BitLength(Max(Range(values)) - Min(Range(values)))})

GroupBytes(width, n) == (width * n + 7) \div 8 + 5

BytesOf(some) == FoldFunction(LAMBDA x, y : x.bytes + y, 0, some)

-----------------------------------------------------------------------------
(***************************************************************************)
(* encodeIndex.                                                             *)
(***************************************************************************)
AllFit(values) == \A i \in DOMAIN values : values[i] <= MaxDelta

\* One group; the last one may be partial.
EncodeGroup ==
    /\ pc = "encode" /\ g * GroupSize < Records
    /\ LET values == SubSeq(sizes, g * GroupSize + 1, Min({(g + 1) * GroupSize, Records}))
       IN IF AllFit(values)
          THEN /\ g' = g + 1 /\ UNCHANGED pc
               /\ groups' = Append(groups,
                     [values |-> [i \in DOMAIN values |-> values[i] % (MaxDelta + 1)],
                      bytes |-> GroupBytes(Width(values), Len(values))])
          ELSE pc' = "refused" /\ UNCHANGED <<g, groups>>
    /\ UNCHANGED <<sizes, intact, pos, deltas, offsets>>

-----------------------------------------------------------------------------
(***************************************************************************)
(* decodeIndex.                                                             *)
(***************************************************************************)
GroupCount == (Records + GroupSize - 1) \div GroupSize

\* As many groups of at least 6 bytes as the trailer's count of records asks for.
Plausible == Records <= (BytesOf(groups) \div 6) * GroupSize

\* The index is written and read again: its size, the plausibility, the checksum.
StartDecode ==
    /\ pc = "encode" /\ g * GroupSize >= Records
    /\ pc' = IF Plausible /\ intact THEN "decode" ELSE "corrupt"
    /\ g' = GroupCount - 1 /\ pos' = BytesOf(groups)
    /\ UNCHANGED <<sizes, intact, groups, deltas, offsets>>

\* Bug: every group is taken for a whole one.
AlwaysWhole == GroupSize

\* The number of values in group g.
Limit == IF g = GroupCount - 1 /\ Records % GroupSize # 0 THEN Records % GroupSize ELSE GroupSize

\* Which value of group g is the i-th size.
InGroup(i) == i - g * GroupSize

\* The group that ends at pos, with the width in its footer.
DecodeGroup ==
    /\ pc = "decode" /\ g >= 0
    /\ LET k == CHOOSE n \in DOMAIN groups : BytesOf(SubSeq(groups, 1, n)) = pos
           values == groups[k].values
           bytes == GroupBytes(Width(values), Limit)
       IN IF (\E n \in DOMAIN groups : BytesOf(SubSeq(groups, 1, n)) = pos) /\ bytes <= pos
          THEN /\ pos' = pos - bytes /\ g' = g - 1 /\ UNCHANGED pc
               /\ deltas' = [i \in DOMAIN deltas \cup (g * GroupSize + 1 .. g * GroupSize + Limit) |->
                     IF i \in DOMAIN deltas THEN deltas[i]
                     ELSE IF Limit = Len(values) THEN values[InGroup(i)] ELSE Unknown]
          ELSE pc' = "corrupt" /\ UNCHANGED <<pos, g, deltas>>
    /\ UNCHANGED <<sizes, intact, groups, offsets>>

\* Everything is consumed, and the offsets end where the index begins.
SumUp ==
    /\ pc = "decode" /\ g < 0
    /\ LET sum[i \in 0 .. Records] == IF i = 0 THEN 0 ELSE sum[i - 1] + deltas[i]
           base == FoldFunction(+, 0, sizes)
       IN IF pos = 0 /\ sum[Records] = base
          THEN pc' = "done" /\ offsets' = [i \in 1 .. Records + 1 |-> sum[i - 1]]
          ELSE pc' = "corrupt" /\ UNCHANGED offsets
    /\ UNCHANGED <<sizes, intact, g, groups, pos, deltas>>

Next == EncodeGroup \/ StartDecode \/ DecodeGroup \/ SumUp

Spec == Init /\ [][Next]_vars

-----------------------------------------------------------------------------
(***************************************************************************)
(* Properties.                                                              *)
(***************************************************************************)
\* The types of the variables.
TypeOK ==
    /\ pc \in {"encode", "decode", "done", "refused", "corrupt"} /\ g \in -1 .. GroupCount
    /\ pos \in 0 .. BytesOf(groups) /\ DOMAIN deltas \subseteq 1 .. Records
    /\ Len(offsets) \in {0, Records + 1}

\* The offsets are where the writer put the records: the difference of two offsets is
\* the size of the record between them, in full.
LocatesRecords == pc = "done" =>
    /\ offsets[1] = 0
    /\ \A i \in 1 .. Records : offsets[i + 1] - offsets[i] = sizes[i]

\* Every index that Finish wrote is read again unless it was damaged, and Finish refuses
\* to write one only for a record that is too big: each group is found where the one
\* after it begins, whatever its width, equal sizes take no less than the plausibility
\* check expects, and no size is cut.
RefusedForCause ==
    /\ pc = "corrupt" => ~intact
    /\ pc = "refused" => \E i \in DOMAIN sizes : sizes[i] > MaxDelta
=============================================================================
