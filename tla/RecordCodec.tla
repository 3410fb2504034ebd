------------------------------ MODULE RecordCodec ------------------------------
(***************************************************************************)
(* Records of a packfile, from the items (AppendItem, buildBlock, flush and *)
(* blockWorker of packfile/writer.go) to the bytes on disk and back         *)
(* (packfile/decoder.go), by one pooled decoder that reads records of       *)
(* several files, damaged ones among them.                                  *)
(*                                                                          *)
(* Data.  A byte is the item it belongs to and its place there, so that a   *)
(* byte of another item, record or file shows.  A checksum is what it was   *)
(* computed from.  A zstd frame is its header, which says how long its      *)
(* content is, its content, and the checksum of that.  Compression makes    *)
(* any payload small, the worst case for the limits of 32 bits.             *)
(***************************************************************************)
EXTENDS Integers, Sequences, FiniteSets, FiniteSetsExt, Functions, SequencesExt

CONSTANTS
    Files,     \* bound: the packfiles, [format, itemsPerRecord, lens]
    SizeMod,   \* the values of a uint32: 2^32 in the code
    Flipped    \* a byte that was damaged

CodecAssumption ==
    /\ SizeMod \in Nat \ {0}
    /\ \A f \in Files : /\ f.format \in {"Compressed", "Uncompressed", "Raw"}
                        /\ f.itemsPerRecord \in Nat \ {0} /\ f.lens \in Seq(Nat)

VARIABLES
    file,     \* the packfile the decoder is configured for
    buffer,   \* rd.decompressed
    sizes,    \* rd.sizes
    offsets,  \* rd.offsets
    last      \* the last Decode: [record, damage, res]

vars == <<file, buffer, sizes, offsets, last>>

None == [record |-> 0, damage |-> "none", res |-> "none"]

-----------------------------------------------------------------------------
(***************************************************************************)
(* The writer.                                                              *)
(***************************************************************************)
Item(f, i) == [b \in 1 .. f.lens[i] |-> [file |-> f, item |-> i, at |-> b]]

RecordCount(f) == (Len(f.lens) + f.itemsPerRecord - 1) \div f.itemsPerRecord

\* The items of record k.
ItemsOf(f, k) == SubSeq([i \in DOMAIN f.lens |-> i], (k - 1) * f.itemsPerRecord + 1,
                        Min({k * f.itemsPerRecord, Len(f.lens)}))

Payload(f, k) == FlattenSeq([n \in DOMAIN ItemsOf(f, k) |-> Item(f, ItemsOf(f, k)[n])])

\* w.sizes, cut to 32 bits.
ItemSizes(f, k) == [n \in DOMAIN ItemsOf(f, k) |-> f.lens[ItemsOf(f, k)[n]] % SizeMod]

\* The payload, processed, its checksum, and the FOR index with its own.  A record of
\* one item has no index; an empty payload is not compressed to a frame.
EncodeRecord(f, k) ==
    LET index == IF f.itemsPerRecord > 1 THEN ItemSizes(f, k) ELSE <<>>
    IN [header |-> "sound", body |-> Payload(f, k), crc |-> Payload(f, k),
        index |-> index, indexCRC |-> index]

\* Finish refuses a record that takes more than 32 bits on disk (encodeIndex).
Written(f) == f.format = "Compressed"
              \/ \A k \in 1 .. RecordCount(f) : Len(Payload(f, k)) < SizeMod

\* What may happen to a record on disk.  The header of a damaged frame may say that there
\* is no content, or more than fits in memory.  Any other damage to a frame is one that
\* its checksum finds, the damaged "body", or changes nothing of what is decoded.
Damages(rec) ==
    {"none"} \cup (IF rec.body # <<>> THEN {"body"} ELSE {})
             \cup (IF rec.body # <<>> /\ file.format = "Compressed" THEN {"empty", "huge"} ELSE {})
             \cup (IF rec.index # <<>> THEN {"index"} ELSE {})

Damaged(rec, damage) ==
    CASE damage = "none"  -> rec
      [] damage = "body"  -> [rec EXCEPT !.body[1] = Flipped]
      [] damage = "index" -> [rec EXCEPT !.index[1] = @ + 1]
      [] OTHER            -> [rec EXCEPT !.header = damage]

-----------------------------------------------------------------------------
(***************************************************************************)
(* The decoder.                                                             *)
(***************************************************************************)
Init ==
    /\ file \in {f \in Files : Written(f)}
    /\ buffer = <<>> /\ sizes = <<>> /\ offsets = <<>> /\ last = None

\* putDecoder and getDecoder, by the reader of another file.
UseFor(f) ==
    /\ Written(f) /\ file' = f /\ buffer' = <<>> /\ sizes' = <<>> /\ offsets' = <<>> /\ last' = None

\* itemsInRecord: the last record may be partial.
ItemsInRecord(k) ==
    IF k < RecordCount(file) \/ Len(file.lens) % file.itemsPerRecord = 0 THEN file.itemsPerRecord
    ELSE Len(file.lens) % file.itemsPerRecord

\* The payload of a record can be taken: the frame is sound, or its header says that it is
\* empty and nothing is decompressed; or the checksum is right and there is at least a byte
\* before it; or the format has no check.
PayloadOK(rec) ==
    CASE file.format = "Compressed"   -> rec.header = "empty" \/ rec.body = rec.crc
      [] file.format = "Uncompressed" -> rec.body # <<>> /\ rec.body = rec.crc
      [] file.format = "Raw"          -> TRUE

\* Bug: the payload is appended to that of the record before.
Appended(rec) == buffer \o rec.body

\* rd.decompressed[:0] is filled again, with as much as the header says.
Refilled(rec) == IF rec.header = "empty" THEN <<>> ELSE rec.body

\* A frame whose checksum is wrong has been decompressed, over the buffer when it fits.
FailedBuffer(rec) ==
    \/ UNCHANGED buffer
    \/ /\ file.format = "Compressed"
       /\ buffer' = [b \in DOMAIN buffer |-> IF b \in DOMAIN rec.body THEN rec.body[b] ELSE buffer[b]]

\* The sizes account for the payload.
SizesOK(index, payload) == FoldFunction(+, 0, index) = Len(payload)

PrefixSums(some) == LET sum[i \in 0 .. Len(some)] == IF i = 0 THEN 0 ELSE sum[i - 1] + some[i]
                    IN [i \in 1 .. Len(some) + 1 |-> sum[i - 1]]

\* Decode: the index is stripped and checked first, then the payload, then the sizes.  A
\* buffer of the size the header says is made before anything is decompressed, and a size
\* that memory has no room for is a panic.
\* The FOR index of n items is found by its width: with another n its checksum is wrong.
Decode(k, damage) ==
    LET rec  == Damaged(EncodeRecord(file, k), damage)
        n    == ItemsInRecord(k)
        many == file.itemsPerRecord > 1
        payload == Refilled(rec)
        new  == IF many THEN rec.index ELSE <<Len(payload) % SizeMod>>
        Result(res) == last' = [record |-> k, damage |-> damage, res |-> res]
    IN /\ IF many /\ ~(Len(rec.index) = n /\ rec.index = rec.indexCRC)
          THEN Result("err") /\ UNCHANGED <<buffer, sizes, offsets>>
          ELSE IF rec.header = "huge"
          THEN Result("panic") /\ UNCHANGED <<buffer, sizes, offsets>>
          ELSE IF ~PayloadOK(rec)
          THEN Result("err") /\ FailedBuffer(rec) /\ UNCHANGED <<sizes, offsets>>
          ELSE /\ buffer' = payload /\ sizes' = new
               /\ IF many /\ ~SizesOK(new, payload) THEN Result("err") /\ UNCHANGED offsets
                  ELSE Result("nil") /\ offsets' = PrefixSums(new)
       /\ UNCHANGED file

Next ==
    \/ \E f \in Files : UseFor(f)
    \/ \E k \in 1 .. RecordCount(file) :
          \E damage \in Damages(EncodeRecord(file, k)) : Decode(k, damage)

Spec == Init /\ [][Next]_vars

-----------------------------------------------------------------------------
(***************************************************************************)
(* Properties.                                                              *)
(***************************************************************************)
\* decoder.Item.
DecodedItem(n) == SubSeq(buffer, offsets[n] + 1, offsets[n + 1])

\* The types of the variables.
TypeOK ==
    /\ file \in Files /\ last.record \in 0 .. RecordCount(file)
    /\ last.res \in {"none", "err", "nil", "panic"}
    /\ last.res = "nil" => Len(offsets) = Len(sizes) + 1

\* A decoder that decoded has as many items as the record, whatever it decoded before, and
\* they are those of the record, whole, with two exceptions.  Damage to the payload of a Raw
\* record is not found.  A Compressed record whose frame says it is empty is read as items
\* of no bytes: always when it holds one item, and otherwise only if no size in its
\* index, which has a checksum, is left after the cut to 32 bits.  The second is a defect,
\* see DamageRefused.
RightItems == last.res = "nil" =>
    LET items == ItemsOf(file, last.record)
    IN /\ Len(sizes) = Len(items)
       /\ \/ \A n \in DOMAIN items : DecodedItem(n) = Item(file, items[n])
          \/ file.format = "Raw" /\ last.damage = "body"
          \/ /\ file.format = "Compressed" /\ last.damage = "empty"
             /\ \A n \in DOMAIN items : DecodedItem(n) = <<>>
             /\ \/ file.itemsPerRecord = 1
                \/ \A n \in DOMAIN items : ItemSizes(file, last.record)[n] = 0

\* "Integrity is provided by zstd's built-in content checksum (xxHash64), verified
\* automatically during decompression" (packfile-library.md): a Compressed record that is
\* damaged does not decode.
DamageRefused == file.format = "Compressed" /\ last.damage # "none" => last.res # "nil"

\* A record that is as it was written is refused for one reason only: it has an item
\* whose size is not one of 32 bits, or it is Uncompressed and has no byte to check.
\* The second is a defect, see EveryRecordDecodes.
RefusedForCause == last.res = "err" /\ last.damage = "none" =>
    \/ file.format = "Uncompressed" /\ Payload(file, last.record) = <<>>
    \/ \E n \in DOMAIN ItemsOf(file, last.record) :
          file.lens[ItemsOf(file, last.record)[n]] >= SizeMod

\* Items are stored by position and their bytes returned (packfile-library.md): a record
\* that is as it was written decodes.
EveryRecordDecodes == last.damage = "none" => last.res # "err"
=============================================================================
