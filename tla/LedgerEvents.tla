----------------------------- MODULE LedgerEvents -----------------------------
(***************************************************************************)
(* From a chunk of ledgers to events: ChunkReader of reader.go, over an     *)
(* index and a data file of another program, damaged ones among them, and   *)
(* ExtractEvents of extractor.go, which walks a ledger transaction by       *)
(* transaction into a slice of events that is used again and again.         *)
(*                                                                          *)
(* Data.  An offset is counted in cells of the data file, and the frame of  *)
(* a ledger takes some.  What the SDK decodes, a ledger's transactions and  *)
(* their events, is given; an event is its coordinates, its type and its    *)
(* hash.                                                                    *)
(***************************************************************************)
EXTENDS Integers, Sequences, FiniteSets, SequencesExt

CONSTANTS
    Ledgers,   \* what the chunk holds, [transactions, decodes]
    Size,      \* the cells of each ledger's frame
    Damage,    \* what is damaged of each frame: "none", its "body", or its header, which
               \* then says that the content is "empty" or "huge", more than memory holds
    Indexes,   \* bound: index files, [size, version, offsetSize, offsets]
    NoOp       \* the operation of an event of the transaction: 0xFFFF

Header == 8

StartOf[i \in 1 .. Len(Ledgers) + 1] == IF i = 1 THEN 0 ELSE StartOf[i - 1] + Size[i - 1]

ChunkAssumption ==
    /\ Size \in [DOMAIN Ledgers -> Nat \ {0}]
    /\ Damage \in [DOMAIN Ledgers -> {"none", "body", "empty", "huge"}]
    /\ \A l \in DOMAIN Ledgers : \A t \in DOMAIN Ledgers[l].transactions :
          Len(Ledgers[l].transactions[t].ops) <= NoOp
    /\ \A x \in Indexes : x.size \in Nat /\ x.offsets \in Seq(Nat)

VARIABLES
    file,      \* the data file: "none", "open" or "closed"
    index,     \* the index file the reader was opened with
    offsets,   \* r.offsets
    read,      \* the last ReadLedger: [at, res, ledger]
    work,      \* ExtractEvents: the transaction it has reached, 0 when it is not running
    txs,       \* the loop's variables tx, one for each turn: their hashes
    events,    \* the caller's slice: [tx, op, at, hash], the hash being one of txs
    ret        \* what ExtractEvents returned for the ledger last read

vars == <<file, index, offsets, read, work, txs, events, ret>>

NoRead  == [at |-> 0, res |-> "none", ledger |-> 0]
NoIndex == [size |-> 0, version |-> 0, offsetSize |-> 0, offsets |-> <<>>]

Init ==
    /\ file = "none" /\ index = NoIndex /\ offsets = <<>> /\ read = NoRead
    /\ work = 0 /\ txs = <<>> /\ events = <<>> /\ ret = "none"

-----------------------------------------------------------------------------
(***************************************************************************)
(* ChunkReader.                                                             *)
(***************************************************************************)
\* numOffsets: what is left of a whole one is not looked at.
NumOffsets(x) == (x.size - Header) \div x.offsetSize

NumLedgers == Len(offsets) - 1

Readable(x) == x.size >= Header /\ x.version = 1 /\ x.offsetSize \in {4, 8}

\* NewChunkReader; the data file is opened last, so an error leaves nothing open.
OpenChunk(x) ==
    /\ file # "open" /\ work = 0
    /\ index' = x /\ read' = NoRead
    /\ \/ /\ Readable(x)
          /\ offsets' = SubSeq(x.offsets, 1, NumOffsets(x)) /\ file' = "open"
       \/ /\ ~Readable(x)
          /\ offsets' = <<>> /\ file' = "none"
    /\ ret' = "none"
    /\ UNCHANGED <<work, txs, events>>

\* The ledger whose frame takes exactly these cells and is sound; no other range
\* decompresses.
FrameAt(from, size) ==
    {l \in DOMAIN Ledgers : StartOf[l] = from /\ Size[l] = size /\ Damage[l] = "none"}

\* A range that begins with the header of a frame, and what that says of the content.
HeaderSays(from, content) == \E l \in DOMAIN Ledgers : StartOf[l] = from /\ Damage[l] = content

DataLen == StartOf[Len(Ledgers) + 1]

InRange(i) == i \in 0 .. NumLedgers - 1

\* ReadLedger: offsets that descend make the length of a slice negative, a panic.
\* Nothing to decompress is an empty ledger and not an error, and so is a frame that says
\* it has no content, which is then not looked at; a buffer is made for what it says.
ReadLedger(i) ==
    LET from == offsets[i + 1]
        size == offsets[i + 2] - from
        Result(res, l) == read' = [at |-> i, res |-> res, ledger |-> l]
    IN /\ file # "none" /\ work = 0
       /\ IF ~InRange(i) THEN Result("range", 0)
          ELSE IF size < 0 THEN Result("panic", 0)
          ELSE IF size = 0 THEN Result("ok", 0)
          ELSE IF file = "closed" \/ from + size > DataLen THEN Result("err", 0)
          ELSE IF HeaderSays(from, "empty") THEN Result("ok", 0)
          ELSE IF HeaderSays(from, "huge") THEN Result("panic", 0)
          ELSE IF FrameAt(from, size) = {} THEN Result("err", 0)
          ELSE Result("ok", CHOOSE l \in FrameAt(from, size) : TRUE)
       /\ ret' = "none"
       /\ UNCHANGED <<file, index, offsets, work, txs, events>>

CloseChunk ==
    /\ file # "none" /\ work = 0 /\ file' = "closed"
    /\ UNCHANGED <<index, offsets, read, work, txs, events, ret>>

-----------------------------------------------------------------------------
(***************************************************************************)
(* ExtractEvents.                                                           *)
(***************************************************************************)
Transactions == Ledgers[read.ledger].transactions

Decodes == read.ledger # 0 /\ Ledgers[read.ledger].decodes

Done(res) == work' = 0 /\ ret' = res

Emptied(old) == <<>>

\* ExtractEvents is called with what ReadLedger returned and the slice of the last call.
Extract ==
    /\ work = 0 /\ read.res = "ok"
    /\ events' = Emptied(events) /\ txs' = <<>>
    /\ \/ /\ ~Decodes
          /\ Done("err")
       \/ /\ Decodes
          /\ IF Transactions = <<>> THEN Done("ok") ELSE work' = 1 /\ ret' = "none"
    /\ UNCHANGED <<file, index, offsets, read>>

\* Bug: one variable tx for all the turns.
OneVariable(hash) == <<hash>>

\* tx is a variable of the turn, and the events of the turn have a slice of its hash.
NextVariable(hash) == Append(txs, hash)

\* The events of transaction t, those of the transaction first, then by operation.
Candidates(t) ==
    LET tx == Transactions[t]
        Level(op, types) == [i \in DOMAIN types |-> [tx |-> t, op |-> op, at |-> i - 1, type |-> types[i]]]
    IN Level(NoOp, tx.events) \o FlattenSeq([o \in DOMAIN tx.ops |-> Level(o - 1, tx.ops[o])])

Wanted(e) == e.type # "diagnostic"

\* One turn: a transaction that cannot be read ends the call, and so does an event whose
\* topics cannot be marshaled, after the events before it.
NextTransaction ==
    LET wanted == SelectSeq(Candidates(work), Wanted)
        bad    == {i \in DOMAIN wanted : wanted[i].type = "bad"}
        good   == IF bad = {} THEN wanted
                  ELSE SubSeq(wanted, 1, (CHOOSE i \in bad : \A j \in bad : i <= j) - 1)
    IN /\ work > 0
       /\ \/ /\ ~Transactions[work].reads
             /\ Done("err") /\ UNCHANGED <<txs, events>>
          \/ /\ Transactions[work].reads
             /\ txs' = NextVariable(Transactions[work].hash)
             /\ events' = events \o [i \in DOMAIN good |->
                   [tx |-> good[i].tx, op |-> good[i].op, at |-> good[i].at, hash |-> Len(txs')]]
             /\ IF bad # {} THEN Done("err")
                ELSE IF work = Len(Transactions) THEN Done("ok")
                ELSE work' = work + 1 /\ UNCHANGED ret
       /\ UNCHANGED <<file, index, offsets, read>>

Next ==
    \/ \E x \in Indexes : OpenChunk(x)
    \/ \E i \in -1 .. Len(offsets) : ReadLedger(i)
    \/ CloseChunk \/ Extract \/ NextTransaction

Spec == Init /\ [][Next]_vars

-----------------------------------------------------------------------------
(***************************************************************************)
(* Properties.                                                              *)
(***************************************************************************)
\* The types of the variables.
TypeOK ==
    /\ file \in {"none", "open", "closed"} /\ offsets \in Seq(Nat)
    /\ read.res \in {"none", "ok", "err", "range", "panic"} /\ read.ledger \in 0 .. Len(Ledgers)
    /\ work > 0 => work <= Len(Transactions)
    /\ \A i \in DOMAIN events : events[i].hash \in DOMAIN txs
    /\ ret \in {"none", "ok", "err"}

\* An index that says where the frames of the first n ledgers are, for some n, whatever
\* else there is behind: a whole file, or one that was cut short.
Sound(x) == \A i \in DOMAIN x.offsets : i <= Len(Ledgers) + 1 /\ x.offsets[i] = StartOf[i]

\* With a sound index and an open file every ledger it counts is read as what it is,
\* unless its frame is damaged.  Of a damaged one the read fails, but if its header says
\* that there is no content the ledger is read as an empty one, and if it says that there
\* is too much the read panics.  A damaged index makes a read fail or panic, or gives an
\* empty ledger; it never passes off a part of a ledger, or more than one, as one.
RightLedger ==
    /\ read.res = "ok" => read.ledger = 0 \/ Damage[read.ledger] = "none"
    /\ Sound(index) /\ read.res # "none" =>
          /\ read.res = "range" <=> read.at \notin 0 .. NumLedgers - 1
          /\ read.res = "ok" =>
                read.ledger = IF Damage[read.at + 1] = "empty" THEN 0 ELSE read.at + 1
          /\ read.res = "panic" => Damage[read.at + 1] = "huge"
          /\ (file = "open" /\ read.res = "err") => Damage[read.at + 1] = "body"

\* Where an event stands in its ledger.
Place(e) == <<e.tx, IF e.op = NoOp THEN 0 ELSE e.op + 1, e.at>>

Before(p, q) == \/ p[1] < q[1]
                \/ p[1] = q[1] /\ p[2] < q[2]
                \/ p[1] = q[1] /\ p[2] = q[2] /\ p[3] < q[3]

\* The events of the ledger that are not diagnostic, with their coordinates.
AllOf(transactions) ==
    UNION {LET tx == transactions[t]
           IN {[tx |-> t, op |-> NoOp, at |-> i - 1] :
                  i \in {j \in DOMAIN tx.events : tx.events[j] # "diagnostic"}}
              \cup UNION {{[tx |-> t, op |-> o - 1, at |-> i - 1] :
                  i \in {j \in DOMAIN tx.ops[o] : tx.ops[o][j] # "diagnostic"}} : o \in DOMAIN tx.ops}
           : t \in DOMAIN transactions}

\* The events extracted are those of this ledger and of no call before, each once, in
\* order, with the hash of its own transaction and coordinates no other has; all of them
\* when the call succeeds, and up to a point when it fails.
Extracted == (work > 0 \/ ret # "none") /\ read.ledger # 0 =>
    LET places == {Place(events[i]) : i \in DOMAIN events}
        wanted == {Place(e) : e \in AllOf(Transactions)}
    IN /\ \A i, k \in DOMAIN events : i < k => Before(Place(events[i]), Place(events[k]))
       /\ places \subseteq wanted
       /\ \A p \in places, q \in wanted : Before(q, p) => q \in places
       /\ \A i \in DOMAIN events : txs[events[i].hash] = Transactions[events[i].tx].hash
       /\ ret = "ok" => places = wanted
=============================================================================
