------------------------------ MODULE EventCodec ------------------------------
(***************************************************************************)
(* The binary form of an event (event/event.go).  A writer marshals one     *)
(* event after another into a buffer it reuses, after what it wants to keep *)
(* of it or from the start; a reader unmarshals what was marshaled, cut off *)
(* or followed by something else, into one event that it reuses.            *)
(*                                                                          *)
(* Data.  A cell of the buffer is a byte of a value or one whole field: a   *)
(* length, the time, the flags.  The fields that Unmarshal slices out of    *)
(* its input are taken as values: it tells its callers not to modify it.    *)
(***************************************************************************)
EXTENDS Integers, Sequences, FiniteSetsExt, SequencesExt

CONSTANTS
    Events,      \* bound: the events that are marshaled
    IDLen,       \* the length of a contract id or a hash: 32 in the code
    CountMod,    \* the values of a topic count: 2^8
    TopicMod,    \* the values of a topic length: 2^16
    DataMod,     \* the values of a data length: 2^32
    Second,      \* the ticks of a second
    KeepMax,     \* bound: how much of a buffer is kept
    Garbage      \* what a new buffer holds, and what may follow a record

EventAssumption ==
    /\ {IDLen, CountMod, TopicMod, DataMod, Second} \subseteq Nat \ {0}
    /\ KeepMax \in Nat /\ Garbage \in Nat

VARIABLES
    buffer,   \* the array behind dst, as long as the longest result so far
    kept,     \* how many cells of dst there were before the last Marshal
    length,   \* the length of the last result
    source,   \* the event marshaled last
    ev,       \* the reader's event
    res       \* the last Unmarshal: [cut, res]

vars == <<buffer, kept, length, source, ev, res>>

\* The zero value of Event, its topics before any.
Zero == [contract |-> <<>>, topics |-> <<>>, hash |-> <<>>, type |-> 0, data |-> <<>>,
         closed |-> 0, successful |-> FALSE, origin |-> 0]

None == [cut |-> 0, res |-> "none"]

Init ==
    /\ buffer = <<>> /\ kept = 0 /\ length = 0 /\ source = Zero /\ ev = Zero /\ res = None

-----------------------------------------------------------------------------
(***************************************************************************)
(* The layout: version, type, flags, number of topics, contract id, hash,   *)
(* time, data length, topics with their lengths, data.                      *)
(***************************************************************************)
Version    == 2
IDAt       == 4
HashAt     == IDAt + IDLen
TimeAt     == HashAt + IDLen
HeaderSize == TimeAt + 2

HasID(e) == Len(e.contract) >= IDLen

Zeros == [i \in 1 .. IDLen |-> 0]

\* Bug: the header is not cleared: where an id is absent, the old cells stay.
Stale(field, at, old) == IF Len(field) >= IDLen THEN SubSeq(field, 1, IDLen) ELSE SubSeq(old, at + 1, at + IDLen)

\* An id in the header, or zeros.
Fixed(field, at, old) == IF Len(field) >= IDLen THEN SubSeq(field, 1, IDLen) ELSE Zeros

\* What Marshal writes over the cells old.
Cells(e, old) ==
    <<Version, e.type, [id |-> HasID(e), ok |-> e.successful], Len(e.topics) % CountMod>>
    \o Fixed(e.contract, IDAt, old) \o Fixed(e.hash, HashAt, old)
    \o <<e.closed \div Second, Len(e.data) % DataMod>>
    \o FlattenSeq([t \in DOMAIN e.topics |-> <<Len(e.topics[t]) % TopicMod>> \o e.topics[t]])
    \o e.data

\* The cells of the array where the header goes; a longer array is not cleared.
OldHeader(keep) ==
    [i \in 1 .. HeaderSize |-> IF keep + i \in DOMAIN buffer THEN buffer[keep + i] ELSE Garbage]

\* Marshal(dst[:keep], e): dst is extended in place, or copied to a longer array.
Marshal(keep, e) ==
    LET cells == Cells(e, OldHeader(keep))
        total == keep + Len(cells)
    IN /\ keep <= length
       /\ buffer' = SubSeq(buffer, 1, keep) \o cells \o SubSeq(buffer, total + 1, Len(buffer))
       /\ kept' = keep /\ length' = total /\ source' = e /\ res' = None
       /\ UNCHANGED ev

-----------------------------------------------------------------------------
(***************************************************************************)
(* Unmarshal.                                                               *)
(***************************************************************************)
\* The topics read and where they end: stops at the first one that is truncated.
Topics(data, count) ==
    LET read[i \in 0 .. count] ==
            IF i = 0 THEN [off |-> HeaderSize, topics |-> <<>>, ok |-> TRUE]
            ELSE LET before == read[i - 1]
                     size == data[before.off + 1]
                 IN IF ~before.ok THEN before
                    ELSE IF before.off + 1 > Len(data) \/ before.off + 1 + size > Len(data)
                    THEN [before EXCEPT !.ok = FALSE]
                    ELSE [off    |-> before.off + 1 + size,
                          topics |-> Append(before.topics, SubSeq(data, before.off + 2, before.off + 1 + size)),
                          ok     |-> TRUE]
    IN read[count]

ReadID(data, e) == IF data[3].id THEN SubSeq(data, IDAt + 1, IDAt + IDLen) ELSE <<>>

ReadData(data, off, size) == SubSeq(data, off + 1, off + size)

Within(data, end) == end <= Len(data)

\* The result and the event that a read leaves: the header, then the topics, then the
\* data and the rest, as far as it got.
Filled(data, e) ==
    LET head == [e EXCEPT !.type = data[2], !.contract = ReadID(data, e),
                          !.hash = SubSeq(data, HashAt + 1, HashAt + IDLen),
                          !.closed = data[TimeAt + 1] * Second, !.successful = data[3].ok]
        size == data[TimeAt + 2]
        read == Topics(data, data[4])
        body == [head EXCEPT !.topics = read.topics]
    IN IF Len(data) < HeaderSize \/ data[1] # Version THEN [res |-> "err", ev |-> e]
       ELSE IF ~read.ok \/ ~Within(data, read.off + size) THEN [res |-> "err", ev |-> body]
       ELSE [res |-> "nil", ev |-> [body EXCEPT !.data = ReadData(data, read.off, size), !.origin = 0]]

\* The record that was marshaled last, cut off after some cells or followed by another.
Input(cut) == IF cut > length - kept THEN SubSeq(buffer, kept + 1, length) \o <<Garbage>>
              ELSE SubSeq(buffer, kept + 1, kept + cut)

Unmarshal(cut) ==
    LET read == Filled(Input(cut), ev)
    IN /\ length > 0 /\ cut \in 0 .. length - kept + 1
       /\ ev' = read.ev /\ res' = [cut |-> cut - (length - kept), res |-> read.res]
       /\ UNCHANGED <<buffer, kept, length, source>>

Next ==
    \/ \E e \in Events : \E keep \in 0 .. KeepMax : Marshal(keep, e)
    \/ \E cut \in 0 .. length - kept + 1 : Unmarshal(cut)

Spec == Init /\ [][Next]_vars

-----------------------------------------------------------------------------
(***************************************************************************)
(* Properties.                                                              *)
(***************************************************************************)
\* The counts of e fit their fields.
WithinLimits(e) ==
    /\ Len(e.topics) < CountMod /\ Len(e.data) < DataMod
    /\ \A t \in DOMAIN e.topics : Len(e.topics[t]) < TopicMod

\* What the binary form keeps of e: a whole contract id or none, a whole hash, seconds.
Kept(e) == [e EXCEPT !.contract = IF HasID(e) THEN SubSeq(e.contract, 1, IDLen) ELSE <<>>,
                     !.hash = IF Len(e.hash) >= IDLen THEN SubSeq(e.hash, 1, IDLen) ELSE Zeros,
                     !.closed = (e.closed \div Second) * Second, !.origin = 0]

\* The types of the variables.
TypeOK ==
    /\ kept \in 0 .. KeepMax /\ kept <= length /\ length <= Len(buffer)
    /\ res.res \in {"none", "err", "nil"}
    /\ Len(ev.contract) \in {0, IDLen} /\ Len(ev.hash) \in {0, IDLen}

\* An event whose counts fit comes back as it was, up to what the form keeps, from any
\* buffer that was used before into any event that was read before, failed reads included.
RoundTrip == res.res = "nil" /\ res.cut >= 0 /\ WithinLimits(source) => ev = Kept(source)

\* A record is read when all of it is there, with or without something behind it, and
\* refused when its end is missing, wherever it was cut.
WholeOrRefused == res.res # "none" /\ WithinLimits(source) => (res.res = "nil" <=> res.cut >= 0)

HeaderStep ==
    res' # res /\ res'.res # "none" =>
        IF res'.cut + length - kept < HeaderSize THEN ev' = ev
        ELSE \A f \in {"contract", "hash", "type", "closed", "successful"} : ev'[f] = Kept(source)[f]

\* Whatever becomes of the topics and the data, too many, too long or cut off: once the
\* header is there its fields are those of the record that was read and not of another;
\* a shorter input leaves the event alone.
HeaderOfOne ==
    [][HeaderStep]_vars
=============================================================================
