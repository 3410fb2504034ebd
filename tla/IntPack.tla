-------------------------------- MODULE IntPack --------------------------------
(***************************************************************************)
(* Frame-of-reference packing of one group of values (intpack/intpack.go):  *)
(* EncodeGroup packs the residuals, the values less their minimum, with     *)
(* read-modify-writes of 8 bytes; DecodeGroup unpacks them with reads of 8  *)
(* bytes and, near the end, byte by byte.                                   *)
(*                                                                          *)
(* Data.  A residual is the set of its bits that are 1, a buffer the set of *)
(* its bits that are 1; bit b of a buffer is in byte b \div 8.  The minimum *)
(* is stored beside the residuals and added back, and is left out.          *)
(***************************************************************************)
EXTENDS Integers, Sequences, FiniteSets

CONSTANT Groups   \* the groups to encode: sequences of residuals

WordBits == 32

ASSUME GroupsAssumption ==
    \A g \in Groups : /\ g # <<>> /\ g \in Seq(SUBSET (0 .. WordBits - 1))
                      /\ \E i \in DOMAIN g : g[i] = {}

VARIABLES
    group,    \* the residuals
    phase,    \* "pack", "unpack" or "done"
    j,        \* the loops' counter
    bits,     \* the bits of the buffer that are 1
    access,   \* the last access to the buffer: bytes [from, to) of [0, len)
    out,      \* the residuals unpacked
    width     \* their width, in the footer

vars == <<group, width, phase, j, bits, access, out>>

Untouched == [from |-> 0, to |-> 0, len |-> 0]

\* Widths that hold every residual of g, at least 1.
Fitting(g) == {w \in 1 .. WordBits : \A i \in DOMAIN g : g[i] \subseteq 0 .. w - 1}

\* rangeWidth: the bits of the largest residual.
RangeWidth(g) == CHOOSE w \in Fitting(g) : \A v \in Fitting(g) : w <= v

Init ==
    /\ group \in Groups /\ width = RangeWidth(group) /\ phase = "pack" /\ j = 0 /\ bits = {}
    /\ access = Untouched /\ out = <<>>

-----------------------------------------------------------------------------
PackSize == (width * Len(group) + 7) \div 8

BytePos == (j * width) \div 8
Shift   == (j * width) % 8

\* Bug: only the footer is allocated beyond the packed residuals.
NoOvershoot == PackSize + 5

\* The length of EncodeGroup's buffer: the footer, and 7 bytes for the last writes.
BufferSize == PackSize + 5 + 7

\* Bug: a write replaces what was in its 8 bytes.
Replacing(written) == {b \in bits : b < 8 * BytePos} \cup written

\* existing | residual << shift.
Merged(written) == bits \cup written

\* packResiduals: one value.  The shift is in 64 bits.
Pack ==
    /\ phase = "pack" /\ j < Len(group)
    /\ bits' = Merged({8 * BytePos + Shift + b : b \in {r \in group[j + 1] : Shift + r < 64}})
    /\ access' = [from |-> BytePos, to |-> BytePos + 8, len |-> BufferSize]
    /\ j' = j + 1 /\ UNCHANGED <<group, width, phase, out>>

\* The footer is written over the overshoot; DecodeGroup finds the width there and
\* slices the residuals.
Encoded ==
    /\ phase = "pack" /\ j = Len(group)
    /\ phase' = "unpack" /\ j' = 0 /\ bits' = {b \in bits : b < 8 * PackSize}
    /\ UNCHANGED <<group, width, access, out>>

SafeLimit == PackSize - 7

\* Where a read ends: after 8 bytes below the limit, else where the buffer ends.
ReadEnd == IF BytePos < SafeLimit \/ BytePos + 8 <= PackSize THEN BytePos + 8 ELSE PackSize

Mask == 0 .. width - 1

\* unpackResiduals: one value.
Unpack ==
    /\ phase = "unpack" /\ j < Len(group)
    /\ LET raw == {b - 8 * BytePos : b \in {c \in bits : 8 * BytePos <= c /\ c < 8 * ReadEnd}}
       IN out' = Append(out, {b - Shift : b \in {r \in raw : Shift <= r}} \cap Mask)
    /\ access' = [from |-> BytePos, to |-> ReadEnd, len |-> PackSize]
    /\ j' = j + 1 /\ UNCHANGED <<group, width, phase, bits>>

Decoded ==
    /\ phase = "unpack" /\ j = Len(group)
    /\ phase' = "done" /\ UNCHANGED <<group, width, j, bits, access, out>>

Next == Pack \/ Encoded \/ Unpack \/ Decoded

Spec == Init /\ [][Next]_vars

-----------------------------------------------------------------------------
(***************************************************************************)
(* Properties.                                                              *)
(***************************************************************************)
\* The types of the variables.
TypeOK ==
    /\ group \in Groups /\ width \in 1 .. WordBits /\ phase \in {"pack", "unpack", "done"}
    /\ j \in 0 .. Len(group) /\ bits \subseteq Nat
    /\ out \in Seq(SUBSET (0 .. WordBits - 1))

\* No access leaves the buffer, in spite of its width of 8 bytes: neither a write near
\* the footer nor a read near the end of the residuals panics.
InBounds == access.to <= access.len

\* What was packed is unpacked: no write disturbs a residual that shares its bytes, and
\* both ways of reading agree.
RoundTrip == \A i \in DOMAIN out : out[i] = group[i]
=============================================================================
