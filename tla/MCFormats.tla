------------------------------- MODULE MCFormats -------------------------------
(***************************************************************************)
(* The codecs and file formats, for TLC: in every behaviour one of them is  *)
(* at work.  The scenario says which; it is drawn in the initial state and  *)
(* stays.  The variables of IntPack keep an initial value of theirs in the  *)
(* other scenarios.                                                         *)
(***************************************************************************)
EXTENDS IntPack, TLC

CONSTANTS Flipped   \* a byte that was damaged

VARIABLES
    scenario,
    file, sizes, offsets, buffer,            \* of several of the modules
    intact, pc, g, groups, pos, deltas,      \* of OffsetIndex
    last,                                    \* of RecordCodec
    kept, length, source, ev, res,           \* of EventCodec
    index, read, work, txs, events, ret      \* of LedgerEvents

indexVars  == <<intact, pc, g, groups, pos, deltas>>
eventVars  == <<kept, length, source, ev, res>>
ledgerVars == <<index, read, work, txs, events, ret>>
allVars    == <<scenario, vars, file, sizes, offsets, buffer, indexVars, last, eventVars, ledgerVars>>

-----------------------------------------------------------------------------
(***************************************************************************)
(* IntPack.                                                                 *)
(***************************************************************************)
\* Residuals of at most w bits: none, the lowest, the highest, all.
Residuals(w) == {{}, {0}, {w - 1}, 0 .. w - 1}

\* Groups of up to n of them, one being the minimum.
GroupsOf(w, n) == {p \in UNION {[1 .. m -> Residuals(w)] : m \in 1 .. n} :
                      \E i \in DOMAIN p : p[i] = {}}

\* All ones but for the first: w bits at every shift.
Full(w, n) == [i \in 1 .. n |-> IF i = 1 THEN {} ELSE 0 .. w - 1]

\* Every width, every shift that occurs with it; every mixture in short groups.
AllWidths == {Full(w, n) : w \in 1 .. WordBits, n \in 1 .. 18}
                 \cup UNION {GroupsOf(w, 4) : w \in {1, 3, 7, 8, 13, 32}}

NotPacking == group = <<{}>> /\ Init

-----------------------------------------------------------------------------
(***************************************************************************)
(* The index and the records of a packfile.                                 *)
(***************************************************************************)
\* Groups of two, up to five records: no byte, small ones of one and of two bits, the
\* largest, one too large.
Offsets == INSTANCE OffsetIndex WITH
    GroupSize <- 2, MaxDelta <- 300, Sizes <- {0, 1, 3, 300, 301}, MaxRecords <- 5

Packfiles(per, lens) ==
    {[format |-> f, itemsPerRecord |-> n, lens |-> l] :
        f \in {"Compressed", "Uncompressed", "Raw"}, n \in per, l \in lens}

\* Records of one and of two items, the last one partial or empty; and items of a size
\* that is cut, in records of two.
Records == INSTANCE RecordCodec WITH
    Files <- Packfiles({1, 2}, {<<2, 1, 3>>, <<0, 2>>, <<0, 0, 1>>, <<1, 0, 0, 0>>})
                 \cup Packfiles({2}, {<<5, 1>>, <<4, 4>>}),
    SizeMod <- 4

-----------------------------------------------------------------------------
(***************************************************************************)
(* Events and ledgers.                                                      *)
(***************************************************************************)
Event(contract, topics, hash, data, closed) ==
    [contract |-> contract, topics |-> topics, hash |-> hash, type |-> 1, data |-> data,
     closed |-> closed, successful |-> closed > 2, origin |-> 1]

\* Ids that are absent, too short, whole and too long; no topic, empty topics, as many
\* topics and cells as fit; and three events with one count each that does not fit.
Events == INSTANCE EventCodec WITH
    Events <- {Event(<<1, 2>>, <<<<1>>, <<>>>>, <<2, 1>>, <<1>>, 3),
               Event(<<>>, <<<<2, 0>>>>, <<>>, <<>>, 2),
               Event(<<1>>, <<>>, <<1, 1, 1>>, <<2, 1, 0>>, 1),
               Event(<<2, 2, 1>>, <<<<>>, <<1>>, <<0>>>>, <<1>>, <<0, 1>>, 5),
               Event(<<2, 1>>, <<<<>>, <<0>>, <<1>>, <<>>>>, <<2, 2>>, <<1>>, 0),
               Event(<<>>, <<<<1, 0, 1>>>>, <<1, 2>>, <<1>>, 4),
               Event(<<1, 1>>, <<<<1>>>>, <<1, 2>>, <<0, 1, 0, 1>>, 4)},
    IDLen <- 2, CountMod <- 4, TopicMod <- 3, DataMod <- 4, Second <- 2, KeepMax <- 1,
    Garbage <- 7

Tx(hash, reads, evs, ops) == [hash |-> hash, reads |-> reads, events |-> evs, ops |-> ops]
Ledger(txns) == [decodes |-> TRUE, transactions |-> txns]

IndexFile(offs, bytes) ==
    [size |-> 8 + bytes * Len(offs), version |-> 1, offsetSize |-> bytes, offsets |-> offs]

Sound == <<0, 2, 3, 5, 6, 7, 8, 9, 10>>

\* Ledgers with events of transactions and of operations, diagnostic ones among them;
\* one with an event that cannot be marshaled, one with a transaction that cannot be
\* read, three whose frame is damaged, one without transactions, one that does not decode.
\* Index files that are whole, with offsets of 4 and 8 bytes; cut off at and within an
\* offset, and after the header; of another version, or width, or empty; and four whose
\* offsets are wrong, one of which joins two frames to one.
Chunks == INSTANCE LedgerEvents WITH
    Ledgers <- <<Ledger(<<Tx("a", TRUE, <<"contract", "diagnostic">>,
                             <<<<"contract", "contract">>, <<>>, <<"diagnostic", "contract">>>>),
                          Tx("b", TRUE, <<>>, <<<<"system">>>>)>>),
                 Ledger(<<Tx("c", TRUE, <<"contract">>, <<>>),
                          Tx("d", TRUE, <<>>, <<<<"contract", "bad", "contract">>>>),
                          Tx("e", TRUE, <<"contract">>, <<>>)>>),
                 Ledger(<<Tx("f", TRUE, <<"contract">>, <<>>),
                          Tx("g", FALSE, <<"contract">>, <<>>)>>),
                 Ledger(<<Tx("h", TRUE, <<"contract">>, <<>>)>>),
                 Ledger(<<Tx("i", TRUE, <<"contract">>, <<>>)>>),
                 Ledger(<<>>),
                 Ledger(<<Tx("j", TRUE, <<"contract">>, <<>>)>>),
                 [decodes |-> FALSE, transactions |-> <<>>]>>,
    Size <- <<2, 1, 2, 1, 1, 1, 1, 1>>, NoOp <- 65535,
    Damage <- <<"none", "none", "none", "body", "empty", "none", "huge", "none">>,
    Indexes <- {IndexFile(Sound, 4), IndexFile(Sound, 8),
                [IndexFile(Sound, 8) EXCEPT !.size = 8 + 8 * 3],
                [IndexFile(Sound, 4) EXCEPT !.size = 8 + 4 * 3 + 2],
                [IndexFile(Sound, 8) EXCEPT !.size = 8],
                [IndexFile(Sound, 4) EXCEPT !.version = 2],
                [IndexFile(Sound, 4) EXCEPT !.offsetSize = 2],
                [IndexFile(<<>>, 4) EXCEPT !.size = 0],
                IndexFile(<<0, 2, 2, 3>>, 4), IndexFile(<<0, 3, 2, 5>>, 4),
                IndexFile(<<0, 1, 3, 11>>, 8), IndexFile(<<6, 8, 10>>, 4)}

ASSUME Bounds ==
    /\ Offsets!OffsetIndexAssumption /\ Records!CodecAssumption /\ Events!EventAssumption
    /\ Chunks!ChunkAssumption

-----------------------------------------------------------------------------
NoShared == file = "unused" /\ sizes = "unused" /\ offsets = "unused" /\ buffer = "unused"

NoIndex == /\ intact = "unused" /\ pc = "unused" /\ g = "unused" /\ groups = "unused"
           /\ pos = "unused" /\ deltas = "unused"

NoRecord == last = "unused"

NoEvent == /\ kept = "unused" /\ length = "unused" /\ source = "unused" /\ ev = "unused"
           /\ res = "unused"

NoChunk == /\ index = "unused" /\ read = "unused" /\ work = "unused" /\ txs = "unused"
           /\ events = "unused" /\ ret = "unused"

FormatsInit ==
    \/ scenario = "intpack" /\ Init /\ NoShared /\ NoIndex /\ NoRecord /\ NoEvent /\ NoChunk
    \/ /\ scenario = "offsets" /\ Offsets!Init /\ NotPacking
       /\ file = "unused" /\ buffer = "unused" /\ NoRecord /\ NoEvent /\ NoChunk
    \/ scenario = "records" /\ Records!Init /\ NotPacking /\ NoIndex /\ NoEvent /\ NoChunk
    \/ /\ scenario = "events" /\ Events!Init /\ NotPacking
       /\ file = "unused" /\ sizes = "unused" /\ offsets = "unused"
       /\ NoIndex /\ NoRecord /\ NoChunk
    \/ /\ scenario = "chunks" /\ Chunks!Init /\ NotPacking
       /\ sizes = "unused" /\ buffer = "unused" /\ NoIndex /\ NoRecord /\ NoEvent

In(s) == scenario = s /\ UNCHANGED scenario

FormatsNext ==
    \/ /\ In("intpack") /\ Next
       /\ UNCHANGED <<file, sizes, offsets, buffer, indexVars, last, eventVars, ledgerVars>>
    \/ /\ In("offsets") /\ Offsets!Next
       /\ UNCHANGED <<vars, file, buffer, last, eventVars, ledgerVars>>
    \/ /\ In("records") /\ Records!Next
       /\ UNCHANGED <<vars, indexVars, eventVars, ledgerVars>>
    \/ /\ In("events") /\ Events!Next
       /\ UNCHANGED <<vars, file, sizes, offsets, indexVars, last, ledgerVars>>
    \/ /\ In("chunks") /\ Chunks!Next
       /\ UNCHANGED <<vars, sizes, buffer, indexVars, last, eventVars>>

FormatsSpec == FormatsInit /\ [][FormatsNext]_allVars

-----------------------------------------------------------------------------
(***************************************************************************)
(* Properties, by scenario; InBounds and RoundTrip are those of IntPack.    *)
(***************************************************************************)
\* packfile/index.go: every index that Finish writes is read again unless it was damaged,
\* and each record is found where the writer put it; Finish refuses for a record that is
\* too large only. packfile/decoder.go: a decoder that decoded has the items of this
\* record, whole, whatever it decoded before, partial last records and empty items
\* included, or its damage is of the two kinds that RightItems names, one of which leaves
\* only empty items; and a record as it was written is refused for the known reasons only.
\* reader.go and extractor.go: with a sound index every ledger is read as what it is, as an
\* empty one where the header of its frame was damaged so, or not at all, and no damaged
\* index passes off one for another part of the file; the events extracted are those of
\* this ledger, each once, in order, with its own transaction's hash.
FilesRight ==
    /\ scenario = "offsets" =>
           Offsets!TypeOK /\ Offsets!LocatesRecords /\ Offsets!RefusedForCause
    /\ scenario = "records" =>
           Records!TypeOK /\ Records!RightItems /\ Records!RefusedForCause
    /\ scenario = "chunks" => Chunks!TypeOK /\ Chunks!RightLedger /\ Chunks!Extracted

\* packfile-library.md:361 says of Compressed records "Integrity is provided by zstd's
\* built-in content checksum (xxHash64), verified automatically during decompression". The
\* checksum of a frame whose header says that it is empty is not verified.
DamageRefused == scenario = "records" => Records!DamageRefused

\* event/event.go: into whichever used buffer an event is marshaled, and into whichever
\* used event it is unmarshaled, it comes back as it was; a record is read when all of
\* it is there; a read that fails half way leaves no field of another event's header.
EventsRight ==
    [][scenario = "events" =>
          /\ Events!TypeOK' /\ Events!RoundTrip' /\ Events!WholeOrRefused'
          /\ Events!HeaderStep]_allVars
=============================================================================
