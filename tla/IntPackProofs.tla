----------------------------- MODULE IntPackProofs -----------------------------
(***************************************************************************)
(* Theorems about IntPack for any group of values of 32 bits.               *)
(***************************************************************************)
EXTENDS IntPack, WellFoundedInduction, TLAPS

(***************************************************************************)
(* Arithmetic: byte and shift locate a bit, and slots of w bits do not      *)
(* overlap.                                                                 *)
(***************************************************************************)
\* A bit is in the byte of its quotient, at its remainder.
LEMMA Bytes == \A p \in Nat : /\ p \div 8 \in Nat /\ p % 8 \in 0 .. 7
                             /\ 8 * (p \div 8) + (p % 8) = p
  OBVIOUS

\* m bits take the bytes that hold them and no more.
LEMMA Rounded == \A m \in Nat : /\ (m + 7) \div 8 \in Nat
                               /\ m <= 8 * ((m + 7) \div 8)
                               /\ 8 * ((m + 7) \div 8) <= m + 7
  OBVIOUS

\* The k-th slot begins where the one before it has ended, or later.
LEMMA SlotsApart == \A w, i, k \in Nat : /\ i * w \in Nat
                                        /\ (i < k => i * w + w <= k * w)
<1> SUFFICES ASSUME NEW w \in Nat, NEW i \in Nat, NEW k \in Nat
             PROVE  /\ i * w \in Nat
                    /\ (i < k => i * w + w <= k * w)
  OBVIOUS
<1>1. i * w \in Nat /\ k * w \in Nat
  OBVIOUS
<1>2. ASSUME i < k PROVE i * w + w <= k * w
  <2>1. PICK d \in Nat : k = i + 1 + d
    <3>1. k - i - 1 \in Nat /\ k = i + 1 + (k - i - 1)
      BY <1>2
    <3> QED BY <3>1
  <2>2. k * w = i * w + w + d * w /\ d * w \in Nat
    BY <2>1
  <2> QED BY <2>2, <1>1
<1> QED BY <1>1, <1>2

\* A slot's bit belongs to no other slot.
LEMMA OneSlot == \A w, i, k \in Nat : \A b, c \in 0 .. w - 1 :
                    i * w + b = k * w + c => i = k /\ b = c
<1> SUFFICES ASSUME NEW w \in Nat, NEW i \in Nat, NEW k \in Nat,
                    NEW b \in 0 .. w - 1, NEW c \in 0 .. w - 1,
                    i * w + b = k * w + c
             PROVE  i = k /\ b = c
  OBVIOUS
<1>1. i * w \in Nat /\ k * w \in Nat
  BY SlotsApart
<1>2. ~ i < k
  BY SlotsApart, <1>1
<1>3. ~ k < i
  BY SlotsApart, <1>1
<1> QED BY <1>1, <1>2, <1>3

\* A set of numbers has a least element.
LEMMA LeastNumber == \A S \in SUBSET Nat : S # {} => \E w \in S : \A v \in S : w <= v
<1> SUFFICES ASSUME NEW S \in SUBSET Nat, S # {}
             PROVE  \E w \in S : \A v \in S : w <= v
  OBVIOUS
<1>1. PICK w \in S : \A v \in S : ~ (<<v, w>> \in OpToRel(<, Nat))
  BY WFMin, NatLessThanWellFounded
<1>2. \A v \in S : ~ (v < w)
  BY <1>1 DEF OpToRel
<1> QED BY <1>2

(***************************************************************************)
(* The width of a group.                                                    *)
(***************************************************************************)
\* Every residual of the group fits its width.
LEMMA WidthFits == \A g \in Groups : /\ RangeWidth(g) \in 1 .. WordBits
                                    /\ \A i \in DOMAIN g : g[i] \subseteq 0 .. RangeWidth(g) - 1
<1> SUFFICES ASSUME NEW g \in Groups
             PROVE  RangeWidth(g) \in Fitting(g)
  BY DEF Fitting
<1>1. g \in Seq(SUBSET (0 .. WordBits - 1))
  BY GroupsAssumption
<1>2. \A i \in DOMAIN g : g[i] \subseteq 0 .. WordBits - 1
  BY <1>1
<1>3. WordBits \in Fitting(g)
  BY <1>2 DEF Fitting, WordBits
<1>4. Fitting(g) \in SUBSET Nat
  BY DEF Fitting, WordBits
<1>5. \E w \in Fitting(g) : \A v \in Fitting(g) : w <= v
  BY <1>3, <1>4, LeastNumber
<1> QED BY <1>5 DEF RangeWidth

(***************************************************************************)
(* The invariant: the first k residuals are in their slots, and nothing     *)
(* else is in the buffer.                                                   *)
(***************************************************************************)
Packed(k) ==
    /\ bits \subseteq Nat
    /\ \A x \in bits : x < k * width
    /\ \A i \in 0 .. k - 1 : \A b \in 0 .. width - 1 :
          (i * width + b) \in bits <=> b \in group[i + 1]

GroupOK ==
    /\ group \in Groups /\ width \in 1 .. WordBits
    /\ \A i \in DOMAIN group : group[i] \subseteq 0 .. width - 1

PhaseInv ==
    /\ phase = "pack" => Packed(j) /\ out = <<>>
    /\ phase # "pack" => Packed(Len(group))
    /\ phase = "unpack" => Len(out) = j
    /\ \A i \in DOMAIN out : out[i] = group[i]

PackInv == TypeOK /\ GroupOK /\ PhaseInv /\ InBounds

\* What the invariant says of the group: a sequence of N residuals.
LEMMA GroupType == ASSUME GroupOK
                   PROVE  /\ Len(group) \in Nat /\ DOMAIN group = 1 .. Len(group)
                          /\ width \in Nat /\ width > 0 /\ width <= 32
                          /\ Len(group) * width \in Nat
<1>1. group \in Seq(SUBSET (0 .. WordBits - 1))
  BY GroupsAssumption DEF GroupOK
<1>2. width \in Nat /\ width > 0 /\ width <= 32 /\ Len(group) \in Nat
  BY <1>1 DEF GroupOK, WordBits
<1> QED BY <1>1, <1>2, SlotsApart

\* Where the j-th slot lies.
LEMMA SlotPlace == ASSUME GroupOK, j \in Nat, j < Len(group)
                   PROVE  /\ BytePos \in Nat /\ Shift \in 0 .. 7 /\ PackSize \in Nat
                          /\ 8 * BytePos + Shift = j * width
                          /\ j * width + width <= 8 * PackSize
                          /\ 8 * PackSize <= Len(group) * width + 7
                          /\ BytePos < PackSize
<1>1. /\ Len(group) \in Nat /\ width \in Nat /\ width > 0
      /\ Len(group) * width \in Nat /\ j * width \in Nat
  BY GroupType, SlotsApart
<1>2. j * width + width <= Len(group) * width
  BY <1>1, SlotsApart
<1>3. width * Len(group) = Len(group) * width
  BY <1>1
<1>4. /\ PackSize \in Nat /\ Len(group) * width <= 8 * PackSize
      /\ 8 * PackSize <= Len(group) * width + 7
  BY <1>1, <1>3, Rounded DEF PackSize
<1>5. BytePos \in Nat /\ Shift \in 0 .. 7 /\ 8 * BytePos + Shift = j * width
  BY <1>1, Bytes DEF BytePos, Shift
<1> QED BY <1>1, <1>2, <1>4, <1>5

\* The loops' steps stay in the buffer.
LEMMA StaysInBounds == ASSUME PackInv, [Next]_vars PROVE InBounds'
<1>1. CASE Pack
  <2>1. j \in Nat /\ j < Len(group) /\ GroupOK
    BY <1>1 DEF PackInv, TypeOK, Pack
  <2>2. access' = [from |-> BytePos, to |-> BytePos + 8, len |-> PackSize + 12]
    BY <1>1, <2>1, SlotPlace DEF Pack, BufferSize
  <2> QED BY <2>1, <2>2, SlotPlace DEF InBounds
<1>2. CASE Unpack
  <2>1. j \in Nat /\ j < Len(group) /\ GroupOK
    BY <1>2 DEF PackInv, TypeOK, Unpack
  <2>2. access' = [from |-> BytePos, to |-> ReadEnd, len |-> PackSize]
    BY <1>2 DEF Unpack
  <2>3. ReadEnd <= PackSize
    BY <2>1, SlotPlace DEF ReadEnd, SafeLimit
  <2> QED BY <2>2, <2>3 DEF InBounds
<1>3. CASE Encoded \/ Decoded \/ UNCHANGED vars
  BY <1>3 DEF PackInv, InBounds, Encoded, Decoded, vars
<1> QED BY <1>1, <1>2, <1>3 DEF Next

\* It holds before the first value is packed.
LEMMA PackInit == Init => PackInv
<1> SUFFICES ASSUME Init PROVE PackInv
  OBVIOUS
<1>1. GroupOK
  BY WidthFits DEF Init, GroupOK
<1>2. Len(group) \in Nat /\ width \in Nat
  BY <1>1, GroupType
<1>3. TypeOK
  BY <1>1, <1>2 DEF Init, TypeOK, GroupOK
<1>4. PhaseInv
  BY <1>2 DEF Init, PhaseInv, Packed
<1> QED BY <1>1, <1>3, <1>4 DEF PackInv, InBounds, Init, Untouched

\* Packing a value fills its slot, and leaves the ones before it as they are.
LEMMA PackKeeps == ASSUME PackInv, Pack
                   PROVE  bits' \subseteq Nat /\ Packed(j)'
<1> USE DEF PackInv
<1>1. /\ j \in Nat /\ j < Len(group) /\ GroupOK /\ Packed(j) /\ width' = width /\ group' = group
      /\ j' = j + 1
  BY DEF TypeOK, PhaseInv, Pack
<1>2. /\ DOMAIN group = 1 .. Len(group) /\ Len(group) \in Nat
      /\ width \in Nat /\ width > 0 /\ width <= 32
  BY <1>1, GroupType
<1>3. group[j + 1] \subseteq 0 .. width - 1
  BY <1>1, <1>2 DEF GroupOK
<1>4. /\ 8 * BytePos + Shift = j * width /\ BytePos \in Nat /\ Shift \in 0 .. 7
      /\ j * width \in Nat
  BY <1>1, <1>2, SlotPlace, SlotsApart
<1>5. bits' = bits \cup {j * width + b : b \in group[j + 1]}
  <2>1. \A b \in group[j + 1] : Shift + b < 64 /\ 8 * BytePos + Shift + b = j * width + b
    BY <1>2, <1>3, <1>4
  <2> QED BY <2>1 DEF Pack, Merged
<1>6. bits' \subseteq Nat
  <2>1. bits \subseteq Nat
    BY <1>1 DEF Packed
  <2>2. \A b \in group[j + 1] : j * width + b \in Nat
    BY <1>2, <1>3, <1>4
  <2> QED BY <1>5, <2>1, <2>2
<1>7. (j + 1) * width = j * width + width
  BY <1>1, <1>2
<1>8. \A x \in bits' : x < (j + 1) * width
  BY <1>1, <1>2, <1>3, <1>4, <1>5, <1>7 DEF Packed
<1>9. ASSUME NEW i \in 0 .. j, NEW b \in 0 .. width - 1
      PROVE  (i * width + b) \in bits' <=> b \in group[i + 1]
  <2>0. i \in Nat /\ i * width \in Nat
    BY <1>1, <1>2, SlotsApart
  <2>1. CASE i < j
    <3>1. \A c \in group[j + 1] : i * width + b # j * width + c
      BY <1>1, <1>2, <1>3, <2>0, <2>1, OneSlot
    <3>2. (i * width + b) \in bits' <=> (i * width + b) \in bits
      BY <1>5, <3>1
    <3> QED BY <1>1, <2>1, <3>2 DEF Packed
  <2>2. CASE i = j
    <3>1. (j * width + b) \notin bits
      BY <1>1, <1>4 DEF Packed
    <3>2. (j * width + b) \in bits' <=> \E c \in group[j + 1] : j * width + b = j * width + c
      BY <1>5, <3>1
    <3> QED BY <2>2, <3>2, <1>3, <1>4
  <2> QED BY <2>1, <2>2, <1>1
<1> QED BY <1>1, <1>6, <1>7, <1>8, <1>9 DEF Packed

\* Unpacking reads the slot it asks for, whichever way it reads.
LEMMA UnpackReads == ASSUME PackInv, Unpack
                     PROVE  out' = Append(out, group[j + 1])
<1> USE DEF PackInv
<1>1. j \in Nat /\ j < Len(group) /\ GroupOK /\ Packed(Len(group))
  BY DEF TypeOK, PhaseInv, Unpack
<1>2. /\ DOMAIN group = 1 .. Len(group) /\ Len(group) \in Nat
      /\ width \in Nat /\ width > 0 /\ width <= 32
  BY <1>1, GroupType
<1>3. group[j + 1] \subseteq 0 .. width - 1
  BY <1>1, <1>2 DEF GroupOK
<1>4. /\ 8 * BytePos + Shift = j * width /\ BytePos \in Nat /\ Shift \in 0 .. 7
      /\ j * width \in Nat /\ PackSize \in Nat /\ j * width + width <= 8 * PackSize
  BY <1>1, <1>2, SlotPlace, SlotsApart
<1>5. ReadEnd \in Nat /\ j * width + width <= 8 * ReadEnd
  BY <1>2, <1>4 DEF ReadEnd, SafeLimit
<1> DEFINE raw == {b - 8 * BytePos : b \in {c \in bits : 8 * BytePos <= c /\ c < 8 * ReadEnd}}
           value == {b - Shift : b \in {r \in raw : Shift <= r}} \cap Mask
<1>6. out' = Append(out, value)
  BY DEF Unpack
<1>7. bits \subseteq Nat
  BY <1>1 DEF Packed
<1>8. \A b \in 0 .. width - 1 : (j * width + b) \in bits <=> b \in group[j + 1]
  BY <1>1 DEF Packed
<1>9. ASSUME NEW b \in group[j + 1] PROVE b \in value
  <2>1. b \in 0 .. width - 1 /\ (j * width + b) \in bits
    BY <1>3, <1>8
  <2>2. 8 * BytePos <= j * width + b /\ j * width + b < 8 * ReadEnd
    BY <2>1, <1>2, <1>4, <1>5
  <2>3. (j * width + b) - 8 * BytePos \in raw /\ (j * width + b) - 8 * BytePos = Shift + b
    BY <2>1, <2>2, <1>4
  <2>4. Shift + b \in raw /\ Shift <= Shift + b /\ (Shift + b) - Shift = b
    BY <2>1, <2>3, <1>4
  <2> QED BY <2>1, <2>4 DEF Mask
<1>10. ASSUME NEW v \in value PROVE v \in group[j + 1]
  <2>1. v \in 0 .. width - 1
    BY DEF Mask
  <2>2. PICK r \in raw : v = r - Shift
    OBVIOUS
  <2>3. PICK b \in bits : r = b - 8 * BytePos
    OBVIOUS
  <2>4. b = j * width + v
    BY <2>1, <2>2, <2>3, <1>4, <1>7
  <2> QED BY <2>1, <2>4, <1>8
<1>11. value = group[j + 1]
  BY <1>9, <1>10
<1> QED BY <1>6, <1>11

\* The types are kept.
LEMMA TypeKept == ASSUME PackInv, [Next]_vars PROVE TypeOK'
<1> USE DEF PackInv
<1>1. TypeOK /\ Len(group) \in Nat
  BY GroupType
<1>2. CASE Pack
  BY <1>1, <1>2, PackKeeps DEF TypeOK, Pack
<1>3. CASE Encoded
  <2>1. bits' \subseteq Nat
    <3>1. bits' \subseteq bits
      BY <1>3 DEF Encoded
    <3> QED BY <1>1, <3>1 DEF TypeOK
  <2>0. 0 \in 0 .. Len(group)
    BY <1>1
  <2>2. /\ group' = group /\ width' = width /\ out' = out
        /\ phase' = "unpack" /\ j' = 0
    BY <1>3 DEF Encoded
  <2> QED BY <1>1, <2>0, <2>1, <2>2 DEF TypeOK
<1>4. CASE Unpack
  <2>1. group[j + 1] \in SUBSET (0 .. WordBits - 1)
    <3>1. group \in Seq(SUBSET (0 .. WordBits - 1))
      BY GroupsAssumption DEF GroupOK
    <3>2. j + 1 \in DOMAIN group
      BY <1>1, <1>4, GroupType DEF TypeOK, Unpack
    <3> QED BY <3>1, <3>2
  <2> QED BY <1>1, <1>4, <2>1, UnpackReads DEF TypeOK, Unpack
<1>5. CASE Decoded \/ UNCHANGED vars
  BY <1>1, <1>5 DEF TypeOK, Decoded, vars
<1> QED BY <1>2, <1>3, <1>4, <1>5 DEF Next

\* A step of packing keeps what the invariant says of each phase.
LEMMA PackStep == ASSUME PackInv, Pack PROVE PhaseInv'
<1>1. Packed(j)' /\ phase' = "pack" /\ out' = out /\ group' = group
  BY PackKeeps DEF Pack
<1> QED BY <1>1 DEF PackInv, PhaseInv, Pack

\* The end of packing leaves every residual in its slot.
LEMMA EncodedStep == ASSUME PackInv, Encoded PROVE PhaseInv'
<1>1. GroupOK /\ Packed(Len(group)) /\ out = <<>>
  BY DEF PackInv, PhaseInv, Encoded
<1>2. /\ Len(group) \in Nat /\ width \in Nat /\ Len(group) * width \in Nat
      /\ width * Len(group) = Len(group) * width
  BY <1>1, GroupType
<1>3. Len(group) * width <= 8 * PackSize /\ PackSize \in Nat
  BY <1>2, Rounded DEF PackSize
<1>4. \A x \in bits : x < 8 * PackSize
  BY <1>1, <1>2, <1>3 DEF Packed
<1>5. bits' = bits /\ group' = group /\ width' = width /\ out' = out /\ phase' = "unpack" /\ j' = 0
  BY <1>4 DEF Encoded
<1>6. Packed(Len(group))'
  BY <1>1, <1>5 DEF Packed
<1> QED BY <1>1, <1>5, <1>6 DEF PhaseInv

\* A step of unpacking adds the next residual.
LEMMA UnpackStep == ASSUME PackInv, Unpack PROVE PhaseInv'
<1>1. /\ out' = Append(out, group[j + 1]) /\ phase' = "unpack" /\ phase = "unpack"
      /\ j' = j + 1 /\ group' = group /\ width' = width /\ bits' = bits
  BY UnpackReads DEF Unpack
<1>2. /\ Packed(Len(group)) /\ Len(out) = j /\ out \in Seq(SUBSET (0 .. WordBits - 1))
      /\ j \in Nat /\ \A i \in DOMAIN out : out[i] = group[i]
  BY <1>1 DEF PackInv, PhaseInv, TypeOK
<1>3. Packed(Len(group))'
  BY <1>1, <1>2 DEF Packed
<1>4. Len(out') = j + 1 /\ \A i \in DOMAIN out' : out'[i] = group[i]
  BY <1>1, <1>2
<1> QED BY <1>1, <1>3, <1>4 DEF PhaseInv

\* The invariant is inductive.
LEMMA PackInvStep == PackInv /\ [Next]_vars => PackInv'
<1> SUFFICES ASSUME PackInv, [Next]_vars PROVE PackInv'
  OBVIOUS
<1>1. GroupOK'
  BY DEF PackInv, GroupOK, Next, Pack, Encoded, Unpack, Decoded, vars
<1>2. PhaseInv'
  <2>1. CASE Decoded \/ UNCHANGED vars
    BY <2>1 DEF PackInv, PhaseInv, Packed, Decoded, vars
  <2> QED BY <2>1, PackStep, EncodedStep, UnpackStep DEF Next
<1> QED BY <1>1, <1>2, TypeKept, StaysInBounds DEF PackInv

\* So it always holds.
LEMMA PackInvAlways == Spec => []PackInv
  BY PackInit, PackInvStep, PTL DEF Spec

(***************************************************************************)
(* Theorems.                                                                *)
(***************************************************************************)
\* Packing and unpacking never touch a byte outside of their buffers, whatever the
\* number of values and their width (packResiduals, unpackResiduals).
THEOREM NeverOutOfBounds == Spec => []InBounds
<1>1. PackInv => InBounds
  BY DEF PackInv
<1> QED BY <1>1, PackInvAlways, PTL

\* Every group that EncodeGroup packs is unpacked as it was by DecodeGroup.
THEOREM RoundTrips == Spec => []RoundTrip
<1>1. PackInv => RoundTrip
  BY DEF PackInv, PhaseInv, RoundTrip
<1> QED BY <1>1, PackInvAlways, PTL

\* Every variable keeps its type.
THEOREM TypeCorrect == Spec => []TypeOK
<1>1. PackInv => TypeOK
  BY DEF PackInv
<1> QED BY <1>1, PackInvAlways, PTL
=============================================================================
