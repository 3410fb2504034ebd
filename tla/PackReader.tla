------------------------------ MODULE PackReader ------------------------------
(***************************************************************************)
(* The packfile reader of packfile/reader.go: goroutines that share one     *)
(* Reader, whose file is opened in the background; ReadItems, which cuts    *)
(* the positions into batches and hands them to a pool of workers; ReadItem *)
(* and ReadRange, which read in the goroutine of the caller; and Close.     *)
(*                                                                          *)
(* Data.  An item is its position.  A piece of the file is the interval of  *)
(* offsets it covers, and what a decoder holds is the record it decoded.    *)
(***************************************************************************)
EXTENDS Integers, Sequences, FiniteSets

CONSTANTS
    Callers,          \* goroutines that use the Reader
    Concurrency,      \* r.concurrency
    ItemsPerRecord,   \* r.itemsPerRecord
    TotalItems,       \* r.totalItems
    Offsets,          \* r.offsets: where each record starts, then where the last ends
    BufSize,          \* readBufSize
    Decoders,         \* the decoders that circulate through decoderPool
    Requests,         \* bound: what the callers may ask for
    Faults            \* bound: "open", "corrupt", "read", "fn", "ctx": what may go wrong

RecordCount == (TotalItems + ItemsPerRecord - 1) \div ItemsPerRecord
Records     == 0 .. RecordCount - 1
NoRecord    == -1

Ascending(s) == \A i, j \in DOMAIN s : i < j => s[i] < s[j]

\* A call: ReadItem takes any position; ReadItems and ReadRange panic unless the
\* positions are in range and, for ReadItems, ascending.
Request == [op: {"item", "items", "range"}, positions: Seq(Int)]

ASSUME ReaderAssumption ==
    /\ IsFiniteSet(Callers)
    /\ Concurrency \in Nat \ {0} /\ ItemsPerRecord \in Nat \ {0}
    /\ TotalItems \in Nat /\ BufSize \in Nat
    /\ Offsets \in [0 .. RecordCount -> Nat]
    /\ \A r \in Records : Offsets[r] <= Offsets[r + 1]
    /\ IsFiniteSet(Decoders)
    /\ Cardinality(Decoders) >= Cardinality(Callers) * Concurrency
    /\ Requests \subseteq Request
    /\ \A q \in Requests :
          /\ q.positions # <<>> /\ Ascending(q.positions)
          /\ q.op # "item" => \A i \in DOMAIN q.positions : q.positions[i] \in 0 .. TotalItems - 1
          /\ q.op = "item" => Len(q.positions) = 1
    /\ Faults \subseteq {"open", "corrupt", "read", "fn", "ctx"}

\* The worker i of a call of c.  ReadItem and ReadRange use the first one only,
\* which stands for the caller itself.
Workers == Callers \X (1 .. Concurrency)

VARIABLES
    \* the background open and the two sync.Once
    opener,      \* the goroutine Open starts: "open", "check" or "done"
    openCh,      \* what waits in its channel: "none", "ok" or "err"
    once,        \* waitOpen: "new", "busy" or "done"
    openErr,     \* whether waitOpen returns an error
    file,        \* the file handle: "none", "open" or "closed"
    closeOnce,   \* Close: "new", "busy" or "done"
    corrupt,     \* the records that do not decode
    \* per caller
    cpc, req,    \* where its call stands, and what it asked for
    ret,         \* what its last call returned
    ctxDone,     \* its context is cancelled
    got,         \* per index: what fn has been called with
    cut,         \* the loop variables of the partition
    batches,     \* the batches cut so far
    nextBatch,   \* the counter the workers claim batches from
    cancelled, firstErr,
    \* per worker
    wpc, local,  \* where it stands, and its variables
    dec,         \* its decoder
    \* decoderPool
    pool, decoded  \* the decoders in the pool; the record each one holds

openVars   == <<opener, openCh, once, openErr, file, closeOnce, corrupt>>
callVars   == <<cpc, req, ret, ctxDone, got>>
splitVars  == <<cut, batches>>
sharedVars == <<nextBatch, cancelled, firstErr>>
poolVars   == <<dec, pool, decoded>>
workerVars == <<wpc, local, poolVars>>
vars == <<openVars, callVars, splitVars, sharedVars, workerVars>>

Close   == [op |-> "close", positions |-> <<>>]
NoCut   == [next |-> 1, start |-> 1, first |-> 0, last |-> 0, bytes |-> 0]
NoLocal == [batch |-> 0, k |-> 0, prevRec |-> NoRecord, buf |-> <<0, 0>>]

\* Open has returned.
Init ==
    /\ opener = "open" /\ openCh = "none" /\ once = "new" /\ openErr = FALSE
    /\ file = "none" /\ closeOnce = "new"
    /\ corrupt \in SUBSET (IF "corrupt" \in Faults THEN Records ELSE {})
    /\ cpc = [c \in Callers |-> "idle"] /\ req = [c \in Callers |-> Close]
    /\ ret = [c \in Callers |-> "none"] /\ ctxDone = [c \in Callers |-> FALSE]
    /\ cut = [c \in Callers |-> NoCut] /\ batches = [c \in Callers |-> <<>>]
    /\ nextBatch = [c \in Callers |-> 0] /\ cancelled = [c \in Callers |-> FALSE]
    /\ firstErr = [c \in Callers |-> "none"] /\ got = [c \in Callers |-> <<>>]
    /\ wpc = [w \in Workers |-> "exited"] /\ local = [w \in Workers |-> NoLocal]
    /\ dec = [w \in Workers |-> {}]
    /\ pool = Decoders /\ decoded = [d \in Decoders |-> NoRecord]

-----------------------------------------------------------------------------
(***************************************************************************)
(* The background open.                                                     *)
(***************************************************************************)
OpenFrame == UNCHANGED <<once, openErr, closeOnce, corrupt, callVars, splitVars,
                         sharedVars, workerVars>>

OpenFile ==
    /\ opener = "open"
    /\ \/ file' = "open" /\ opener' = "check" /\ UNCHANGED openCh
       \/ "open" \in Faults /\ opener' = "done" /\ openCh' = "err" /\ UNCHANGED file
    /\ OpenFrame

\* Bug: a file that is not a packfile is left open.
LeftOpen == UNCHANGED file

\* doOpen's cleanup, which a panic runs too.
Cleanup == file' = "closed"

\* Size, trailer, index: what is wrong with the file is one fault here.
CheckFile ==
    /\ opener = "check" /\ opener' = "done"
    /\ \/ openCh' = "ok" /\ UNCHANGED file
       \/ "open" \in Faults /\ openCh' = "err" /\ Cleanup
    /\ OpenFrame

-----------------------------------------------------------------------------
(***************************************************************************)
(* Calls.                                                                   *)
(***************************************************************************)
At(c, where) == cpc' = [cpc EXCEPT ![c] = where] /\ UNCHANGED ret

Goto(c, where) == At(c, where) /\ UNCHANGED <<splitVars, sharedVars>>

\* The call returns, and with it go its variables.
Return(c, res) ==
    /\ cpc' = [cpc EXCEPT ![c] = "idle"] /\ ret' = [ret EXCEPT ![c] = res]
    /\ cut' = [cut EXCEPT ![c] = NoCut] /\ batches' = [batches EXCEPT ![c] = <<>>]
    /\ nextBatch' = [nextBatch EXCEPT ![c] = 0]
    /\ cancelled' = [cancelled EXCEPT ![c] = FALSE]
    /\ firstErr' = [firstErr EXCEPT ![c] = "none"]

Begin(c, q, where) ==
    /\ cpc[c] = "idle"
    /\ cpc' = [cpc EXCEPT ![c] = where]
    /\ req' = [req EXCEPT ![c] = q]
    /\ ret' = [ret EXCEPT ![c] = "none"]
    /\ ctxDone' = [ctxDone EXCEPT ![c] = FALSE]
    /\ got' = [got EXCEPT ![c] = [i \in DOMAIN q.positions |-> <<>>]]
    /\ UNCHANGED <<openVars, splitVars, sharedVars, workerVars>>

\* ReadItem, ReadItems or ReadRange is called, with a fresh context.
Read(c) == \E q \in Requests : Begin(c, q, "wait")

CallClose(c) == Begin(c, Close, "close")

CancelCtx(c) ==
    /\ "ctx" \in Faults
    /\ cpc[c] # "idle" /\ req[c].op = "items" /\ ~ctxDone[c]
    /\ ctxDone' = [ctxDone EXCEPT ![c] = TRUE]
    /\ UNCHANGED <<openVars, cpc, req, ret, got, splitVars, sharedVars, workerVars>>

CallFrame == UNCHANGED <<opener, openCh, corrupt, req, ctxDone, got, workerVars>>

\* closeOnce.Do: the first Close goes on, those that come meanwhile wait for it.
EnterClose(c) ==
    /\ cpc[c] = "close"
    /\ \/ closeOnce = "new" /\ closeOnce' = "busy" /\ Goto(c, "wait")
       \/ closeOnce = "done" /\ Return(c, "ok") /\ UNCHANGED closeOnce
    /\ CallFrame
    /\ UNCHANGED <<once, openErr, file>>

\* waitOpen, a sync.OnceValue: the first caller receives the result of the open,
\* those that come meanwhile wait for it.
EnterWait(c) ==
    /\ cpc[c] = "wait"
    /\ \/ once = "new" /\ once' = "busy" /\ Goto(c, "recv")
       \/ once = "done" /\ Goto(c, "opened") /\ UNCHANGED once
    /\ CallFrame
    /\ UNCHANGED <<openErr, closeOnce, file>>

RecvOpen(c) ==
    /\ cpc[c] = "recv" /\ openCh # "none"
    /\ openErr' = (openCh = "err") /\ openCh' = "none"
    /\ once' = "done"
    /\ Goto(c, "opened")
    /\ UNCHANGED <<opener, file, closeOnce, corrupt, req, ctxDone, got, workerVars>>

CloseFile(c) ==
    /\ cpc[c] = "opened" /\ req[c] = Close
    /\ file' = IF openErr THEN file ELSE "closed"
    /\ closeOnce' = "done"
    /\ Return(c, "ok")
    /\ CallFrame
    /\ UNCHANGED <<once, openErr>>

\* A read that ends before it reads anything.
Refused(c) ==
    /\ cpc[c] = "opened" /\ req[c] # Close
    /\ \/ openErr /\ Return(c, "open")
       \/ /\ ~openErr /\ req[c].op = "item"
          /\ req[c].positions[1] \notin 0 .. TotalItems - 1
          /\ Return(c, "range")
    /\ CallFrame
    /\ UNCHANGED <<once, openErr, closeOnce, file>>

-----------------------------------------------------------------------------
(***************************************************************************)
(* The partition into batches of consecutive records.                       *)
(***************************************************************************)
Rec(c, k) == req[c].positions[k] \div ItemsPerRecord

Size(rec) == Offsets[rec + 1] - Offsets[rec]

MaxPerBatch(c) == (Len(req[c].positions) + Concurrency - 1) \div Concurrency

\* The batch being cut, up to the index before the next.
CurrentBatch(c) == [from |-> cut[c].start, to |-> cut[c].next - 1,
                    first |-> cut[c].first, last |-> cut[c].last]

\* The loop variables of a batch that starts at index k.
StartBatch(c, k) ==
    cut' = [cut EXCEPT ![c] = [next |-> k + 1, start |-> k, first |-> Rec(c, k),
                               last |-> Rec(c, k), bytes |-> Size(Rec(c, k))]]

SplitFrame == UNCHANGED <<openVars, req, ctxDone, got, sharedVars, workerVars>>

Split(c) ==
    /\ cpc[c] = "opened" /\ req[c] # Close /\ ~openErr
    /\ req[c].positions[1] \in 0 .. TotalItems - 1
    /\ StartBatch(c, 1)
    /\ At(c, "split")
    /\ SplitFrame
    /\ UNCHANGED batches

\* Bug: the last record of the batch is not moved.
ExtendedShort(c, rec) == [cut[c] EXCEPT !.next = @ + 1, !.bytes = @ + Size(rec)]


Extended(c, rec) == [cut[c] EXCEPT !.next = @ + 1, !.last = rec, !.bytes = @ + Size(rec)]

\* The next record joins the batch: it is the neighbour and fits the buffer, and,
\* for ReadItems, the batch has not had its share of the positions.
Joins(c, rec) ==
    /\ rec = cut[c].last + 1
    /\ cut[c].bytes + Size(rec) <= BufSize
    /\ req[c].op = "items" => cut[c].next - cut[c].start < MaxPerBatch(c)

SplitNext(c) ==
    LET k   == cut[c].next
        rec == Rec(c, k)
    IN  /\ cpc[c] = "split" /\ k <= Len(req[c].positions)
        /\ \/ /\ rec = cut[c].last
              /\ cut' = [cut EXCEPT ![c].next = k + 1]
              /\ UNCHANGED batches
           \/ /\ rec # cut[c].last /\ Joins(c, rec)
              /\ cut' = [cut EXCEPT ![c] = Extended(c, rec)]
              /\ UNCHANGED batches
           \/ /\ rec # cut[c].last /\ ~Joins(c, rec)
              /\ batches' = [batches EXCEPT ![c] = Append(@, CurrentBatch(c))]
              /\ StartBatch(c, k)
        /\ SplitFrame
        /\ UNCHANGED <<cpc, ret>>

AllBatches(c) == Append(batches[c], CurrentBatch(c))

NumWorkers(c) ==
    IF req[c].op # "items" THEN 1
    ELSE IF Len(AllBatches(c)) < Concurrency THEN Len(AllBatches(c)) ELSE Concurrency

\* The last batch is added and, unless the context is done, the workers start.
Launch(c) ==
    /\ cpc[c] = "split" /\ cut[c].next > Len(req[c].positions)
    /\ \/ ctxDone[c] /\ Return(c, "ctx") /\ UNCHANGED wpc
       \/ /\ ~ctxDone[c]
          /\ batches' = [batches EXCEPT ![c] = AllBatches(c)]
          /\ wpc' = [w \in Workers |->
                IF w[1] = c /\ w[2] <= NumWorkers(c) THEN "start" ELSE wpc[w]]
          /\ At(c, "run")
          /\ UNCHANGED <<cut, sharedVars>>
    /\ UNCHANGED <<openVars, req, ctxDone, got, local, poolVars>>

\* Bug: the call does not wait for its workers.
NoWait(c) == TRUE

AllExited(c) == \A i \in 1 .. Concurrency : wpc[<<c, i>>] = "exited"

Join(c) ==
    /\ cpc[c] = "run" /\ AllExited(c)
    /\ Return(c, IF firstErr[c] = "none" THEN "ok" ELSE firstErr[c])
    /\ CallFrame
    /\ UNCHANGED <<once, openErr, closeOnce, file>>

-----------------------------------------------------------------------------
(***************************************************************************)
(* The workers of ReadItems, and the reading loops of ReadItem and          *)
(* ReadRange.                                                               *)
(***************************************************************************)
Step(w, where) == wpc' = [wpc EXCEPT ![w] = where]

WorkerFrame == UNCHANGED <<openVars, cpc, req, ret, ctxDone, splitVars>>

Batch(w) == batches[w[1]][local[w].batch]

\* The goroutine returns; putDecoder empties the decoder and gives it back.
Exit(w) ==
    /\ Step(w, "exited")
    /\ local' = [local EXCEPT ![w] = NoLocal]
    /\ pool' = pool \cup dec[w]
    /\ decoded' = [d \in Decoders |-> IF d \in dec[w] THEN NoRecord ELSE decoded[d]]
    /\ dec' = [dec EXCEPT ![w] = {}]

\* Bug: the error is not kept.
FailQuietly(w, e) ==
    /\ cancelled' = [cancelled EXCEPT ![w[1]] = TRUE]
    /\ Exit(w)
    /\ UNCHANGED firstErr

\* Bug: what failed is tried again.
FailRetries(w, e) == UNCHANGED <<firstErr, cancelled, wpc, local, poolVars>>

\* errOnce.Do, then cancelled.Store, and the goroutine returns.
Fail(w, e) ==
    /\ firstErr' = [firstErr EXCEPT ![w[1]] = IF @ = "none" THEN e ELSE @]
    /\ cancelled' = [cancelled EXCEPT ![w[1]] = TRUE]
    /\ Exit(w)

\* getDecoder: any decoder of the pool, they are all empty.  There is one for every
\* worker, so the pool never runs dry here (the code would make a new one).
WorkerStart(w) ==
    /\ wpc[w] = "start"
    /\ \E d \in pool : dec' = [dec EXCEPT ![w] = {d}] /\ pool' = pool \ {d}
    /\ Step(w, "claim")
    /\ WorkerFrame
    /\ UNCHANGED <<sharedVars, got, local, decoded>>

\* Bug: the counter is read but not moved.
ClaimedAgain(c) == UNCHANGED nextBatch

Claimed(c) == nextBatch' = [nextBatch EXCEPT ![c] = @ + 1]

WorkerClaim(w) ==
    /\ wpc[w] = "claim"
    /\ Claimed(w[1])
    /\ local' = [local EXCEPT ![w].batch = nextBatch[w[1]] + 1]
    /\ Step(w, "check")
    /\ WorkerFrame
    /\ UNCHANGED <<cancelled, firstErr, got, poolVars>>

\* No batch left, or another worker failed; then the context.
WorkerCheck(w) ==
    LET c == w[1]
        stop == local[w].batch > Len(batches[c]) \/ cancelled[c]
    IN  /\ wpc[w] = "check"
        /\ \/ stop /\ Exit(w) /\ UNCHANGED <<firstErr, cancelled>>
           \/ ~stop /\ ctxDone[c] /\ Fail(w, "ctx")
           \/ /\ ~stop /\ ~ctxDone[c]
              /\ local' = [local EXCEPT ![w].k = Batch(w).from, ![w].prevRec = NoRecord]
              /\ Step(w, "read")
              /\ UNCHANGED <<firstErr, cancelled, poolVars>>
        /\ WorkerFrame
        /\ UNCHANGED <<nextBatch, got>>

Interval(b) == <<Offsets[b.first], Offsets[b.last + 1]>>

\* One ReadAt for the records of the batch; it fails once the file is closed.
WorkerRead(w) ==
    /\ wpc[w] = "read"
    /\ \/ /\ file = "open"
          /\ local' = [local EXCEPT ![w].buf = Interval(Batch(w))]
          /\ Step(w, "decode")
          /\ UNCHANGED <<firstErr, cancelled, poolVars>>
       \/ /\ file # "open" \/ "read" \in Faults
          /\ Fail(w, "read")
    /\ WorkerFrame
    /\ UNCHANGED <<nextBatch, got>>

\* Whether the slice of the buffer for record rec exists.
InBuffer(w, rec) ==
    local[w].buf[1] <= Offsets[rec] /\ Offsets[rec + 1] <= local[w].buf[2]

Decoded(w, rec) ==
    /\ decoded' = [d \in Decoders |-> IF d \in dec[w] THEN rec ELSE decoded[d]]
    /\ UNCHANGED pool

\* The record of the next position is decoded, unless it is the previous one's.
\* A slice out of range is a panic of the goroutine, noted as the cause "panic".
WorkerDecode(w) ==
    LET rec == Rec(w[1], local[w].k)
        new == rec # local[w].prevRec
    IN  /\ wpc[w] = "decode"
        /\ \/ ~new /\ Step(w, "fn") /\ UNCHANGED <<firstErr, cancelled, local, poolVars>>
           \/ /\ new /\ InBuffer(w, rec) /\ rec \notin corrupt
              /\ Decoded(w, rec)
              /\ local' = [local EXCEPT ![w].prevRec = rec]
              /\ Step(w, "fn")
              /\ UNCHANGED <<firstErr, cancelled, dec>>
           \/ /\ new /\ ~(InBuffer(w, rec) /\ rec \notin corrupt)
              /\ Fail(w, IF InBuffer(w, rec) THEN "corrupt" ELSE "panic")
        /\ WorkerFrame
        /\ UNCHANGED <<nextBatch, got>>

\* What fn is given: the item at the local index of the record the decoder holds.
ItemAt(w) ==
    LET rec == CHOOSE r \in {decoded[d] : d \in dec[w]} : TRUE
    IN  rec * ItemsPerRecord + (req[w[1]].positions[local[w].k] % ItemsPerRecord)

\* fn (for ReadRange, the consumer) takes the item, and may refuse to go on.
WorkerFn(w) ==
    /\ wpc[w] = "fn"
    /\ got' = [got EXCEPT ![w[1]][local[w].k] = Append(@, ItemAt(w))]
    /\ \/ /\ local' = [local EXCEPT ![w].k = @ + 1]
          /\ Step(w, IF local[w].k = Batch(w).to THEN "claim" ELSE "decode")
          /\ UNCHANGED <<firstErr, cancelled, poolVars>>
       \/ "fn" \in Faults /\ Fail(w, "fn")
    /\ WorkerFrame
    /\ UNCHANGED nextBatch

-----------------------------------------------------------------------------
Opener == OpenFile \/ CheckFile

CallStep(c) == \/ EnterClose(c) \/ EnterWait(c) \/ RecvOpen(c) \/ CloseFile(c)
               \/ Refused(c) \/ Split(c) \/ SplitNext(c) \/ Launch(c) \/ Join(c)

Worker(w) == \/ WorkerStart(w) \/ WorkerClaim(w) \/ WorkerCheck(w)
             \/ WorkerRead(w) \/ WorkerDecode(w) \/ WorkerFn(w)

Next == \/ Opener
        \/ \E c \in Callers : Read(c) \/ CallClose(c) \/ CancelCtx(c) \/ CallStep(c)
        \/ \E w \in Workers : Worker(w)

Spec == Init /\ [][Next]_vars

\* Go schedules every runnable goroutine, and fn returns; calls begin at will.
Fairness == /\ WF_vars(Opener)
            /\ \A c \in Callers : WF_vars(CallStep(c))
            /\ \A w \in Workers : WF_vars(Worker(w))

FairSpec == Spec /\ Fairness

-----------------------------------------------------------------------------
(***************************************************************************)
(* Properties.                                                              *)
(***************************************************************************)
Causes == {"open", "range", "ctx", "read", "corrupt", "panic", "fn"}

OpenType ==
    /\ opener \in {"open", "check", "done"} /\ openCh \in {"none", "ok", "err"}
    /\ once \in {"new", "busy", "done"} /\ openErr \in BOOLEAN
    /\ file \in {"none", "open", "closed"} /\ closeOnce \in {"new", "busy", "done"}
    /\ corrupt \subseteq Records

CallType ==
    /\ cpc \in [Callers -> {"idle", "close", "wait", "recv", "opened", "split", "run"}]
    /\ req \in [Callers -> Requests \cup {Close}]
    /\ ret \in [Callers -> {"none", "ok"} \cup Causes]
    /\ ctxDone \in [Callers -> BOOLEAN] /\ cancelled \in [Callers -> BOOLEAN]
    /\ cut \in [Callers -> [next: Nat, start: Nat, first: Records \cup {0},
                            last: Records \cup {0}, bytes: Nat]]
    /\ batches \in [Callers -> Seq([from: Nat, to: Nat, first: Records, last: Records])]
    /\ nextBatch \in [Callers -> Nat]
    /\ firstErr \in [Callers -> {"none"} \cup Causes]
    /\ got \in [Callers -> Seq(Seq(Int))]

WorkerType ==
    /\ wpc \in [Workers -> {"start", "claim", "check", "read", "decode", "fn", "exited"}]
    /\ local \in [Workers -> [batch: Nat, k: Nat, prevRec: Records \cup {NoRecord},
                             buf: Nat \X Nat]]
    /\ dec \in [Workers -> SUBSET Decoders]
    /\ pool \subseteq Decoders /\ decoded \in [Decoders -> Records \cup {NoRecord}]

\* Type correctness of every variable.
TypeOK == OpenType /\ CallType /\ WorkerType

\* No index is ever handed to fn twice, nor with another item than the one its
\* position asks for, however the workers share batches, buffers and decoders,
\* and whether or not the call ends well.
DeliveredOnce ==
    \A c \in Callers : \A k \in DOMAIN got[c] :
        got[c][k] \in {<<>>, <<req[c].positions[k]>>}

\* A read that returns no error has delivered every index (ReadItems returns
\* firstErr, and a worker that finds the flag set leaves its batch alone).
NilMeansAll ==
    \A c \in Callers : ret[c] = "ok" =>
        \A k \in DOMAIN got[c] : got[c][k] # <<>>

\* A read reports an error only for a reason: its own context, its own fn, a record
\* it asked for, the range of its position, or the file.  In particular no slice
\* of a buffer is out of range.
ErrorHasCause ==
    \A c \in Callers :
        /\ ret[c] = "open" => openErr
        /\ ret[c] = "range" => req[c].positions[1] \notin 0 .. TotalItems - 1
        /\ ret[c] = "ctx" => ctxDone[c]
        /\ ret[c] = "corrupt" => \E k \in DOMAIN req[c].positions : Rec(c, k) \in corrupt
        /\ ret[c] = "read" => file = "closed" \/ "read" \in Faults
        /\ ret[c] = "fn" => "fn" \in Faults
        /\ ret[c] # "panic"

\* Every decoder is in the pool, empty, or with one worker, and a call that has
\* returned holds none.
DecodersOwned ==
    /\ \A d \in Decoders : Cardinality({w \in Workers : d \in dec[w]})
                              = (IF d \in pool THEN 0 ELSE 1)
    /\ \A d \in pool : decoded[d] = NoRecord
    /\ \A w \in Workers : cpc[w[1]] = "idle" => dec[w] = {}

\* Once Close has returned the file is not open, whether the background open had
\* ended, was running or had failed, and whoever was waiting for it.
NotLeaked == closeOnce = "done" => opener = "done" /\ file # "open"

\* Every call returns: nobody waits for an open that has already been taken, for a
\* Close that is over or for a worker that is gone.
CallsReturn == \A c \in Callers : (cpc[c] # "idle") ~> (cpc[c] = "idle")
=============================================================================
