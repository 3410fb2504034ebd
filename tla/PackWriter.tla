------------------------------ MODULE PackWriter ------------------------------
(***************************************************************************)
(* The packfile writer of packfile/writer.go: one caller goroutine that     *)
(* runs AppendItem, Finish and Close, and, when the writer is pipelined, a  *)
(* set of block workers (each with its own hash goroutine), two bounded     *)
(* channels and the runWriter goroutine that puts the blocks back in order  *)
(* and writes them.                                                         *)
(*                                                                          *)
(* Data.  The k-th item handed to AppendItem is the number k, so a payload  *)
(* is a sequence of numbers, and the record area of the file is the         *)
(* sequence of the cells written so far, one cell per item (w.pos is its    *)
(* length).  SHA-256 is injective: the digest of a chunk is the chunk       *)
(* itself, and Garbage is the digest of anything else.                      *)
(***************************************************************************)
EXTENDS Integers, Sequences, FiniteSets

CONSTANTS
    Workers,          \* the block workers: Concurrency goroutines, one or none means serial
    ItemsPerRecord,   \* items per record
    Format,           \* "Compressed", "Uncompressed" or "Raw"
    ContentHash,      \* whether the content hash is computed
    Slices,           \* the []uint32 slices that circulate through sizesPool
    NoSlice,          \* the nil slice
    UintMax,          \* math.MaxUint32, the width of the counts in the trailer
    MaxItems,         \* bound: items the caller offers
    MaxEncodeFaults,  \* bound: zstd calls that fail
    WriteMayFail      \* whether a file operation may fail

ASSUME WriterAssumption ==
    /\ IsFiniteSet(Workers)
    /\ IsFiniteSet(Slices) /\ Cardinality(Slices) > 2 * Cardinality(Workers)
    /\ ItemsPerRecord \in Nat \ {0}
    /\ Format \in {"Compressed", "Uncompressed", "Raw"}
    /\ ContentHash \in BOOLEAN
    /\ NoSlice \notin Slices
    /\ UintMax \in Nat
    /\ MaxItems \in Nat
    /\ MaxEncodeFaults \in Nat
    /\ WriteMayFail \in BOOLEAN

\* Create drops the pipeline when there is nothing to run in parallel.
Pipelined == /\ Cardinality(Workers) > 1
             /\ Format = "Compressed" \/ ContentHash

ChannelCap == Cardinality(Workers)

-----------------------------------------------------------------------------
\* A blockResult on its way through the pipeline.  framed: data already holds
\* the processed record instead of the payload; an empty digest: hasHash = false.
Garbage == <<0>>

Block == [id: Nat, data: Seq(Nat), framed: BOOLEAN,
          hashSizes: Slices \cup {NoSlice}, digest: Seq(Nat), err: BOOLEAN]

NewBlock(id, items, slice) ==
    [id |-> id, data |-> items, framed |-> FALSE,
     hashSizes |-> slice, digest |-> <<>>, err |-> FALSE]

NoBlock == NewBlock(0, <<>>, NoSlice)

Trailer == [magic: BOOLEAN, recordCount: Nat, totalItems: Nat,
            contentHash: Seq(Seq(Nat))]

NoTrailer == [magic |-> FALSE, recordCount |-> 0, totalItems |-> 0,
              contentHash |-> <<>>]

NoErr == "nil"

Errors == {NoErr, "encode", "write", "limit"}

VARIABLES
    \* the caller goroutine and the fields of Writer it owns
    pc,           \* where the call in progress stands, "idle" between calls
    ret,          \* what the last call returned
    buf,          \* items of the record being accumulated (w.buf and w.sizes)
    total,        \* w.total
    err,          \* w.err, also written by runWriter
    closed,       \* w.closed
    fileClosed,   \* w.fileClosed
    nextBlockID,  \* w.nextBlockID
    out,          \* the block a flush is about to send
    hasher,       \* serialHasher: items of its open chunk
    \* the pipeline
    workCh,       \* contents of w.workCh
    workState,    \* "open", "closed", "nil" (the channel is nil) or "panic"
    wpc, work,    \* per block worker: its position and its current block
    hashOut,      \* per worker: the digest its hash goroutine left, <<>> if none
    resultCh,     \* contents of w.resultCh
    rpc,          \* runWriter: "run", "write", "drain" or "done" (writerDone closed)
    pending,      \* runWriter: blocks received ahead of their turn
    nextWrite,    \* runWriter: its own nextBlockID
    doneMsg,      \* the error waiting in writerDone
    sizes, pool,  \* contents of each sizes slice, and the slices in sizesPool
    \* what has been written, and the file
    digests,      \* chunk digests, of serialHasher or of runWriter
    offsets,      \* w.offsets
    file,         \* the record area
    index,        \* the index section, <<>> until written
    trailer,      \* the trailer, NoTrailer until written
    exists,       \* the path exists
    encodeFaults  \* encode failures so far, for the bound

callVars   == <<pc, ret>>
appendVars == <<buf, total, nextBlockID, out, hasher>>
closeVars  == <<closed, fileClosed>>
workerVars == <<wpc, work, hashOut, encodeFaults>>
writerVars == <<rpc, pending, nextWrite, doneMsg>>
sizesVars  == <<sizes, pool>>
recordVars == <<digests, offsets, file>>
sealVars   == <<index, trailer, exists>>
callerVars == <<callVars, appendVars, err, closeVars>>
fileVars   == <<recordVars, sealVars>>
pipeVars   == <<workCh, workState, resultCh, workerVars, writerVars, sizesVars>>
vars == <<callerVars, pipeVars, fileVars>>

\* Create has returned: an empty file at the path and, if pipelined, every
\* goroutine waiting for work.  A serial writer has no goroutine at all.
Init ==
    /\ pc = "idle" /\ ret = "none"
    /\ buf = <<>> /\ total = 0 /\ nextBlockID = 0 /\ out = NoBlock /\ hasher = <<>>
    /\ err = NoErr /\ closed = FALSE /\ fileClosed = FALSE
    /\ workCh = <<>> /\ resultCh = <<>>
    /\ workState = IF Pipelined THEN "open" ELSE "nil"
    /\ wpc = [w \in Workers |-> IF Pipelined THEN "recv" ELSE "exited"]
    /\ work = [w \in Workers |-> NoBlock]
    /\ hashOut = [w \in Workers |-> <<>>]
    /\ encodeFaults = 0
    /\ rpc = IF Pipelined THEN "run" ELSE "done"
    /\ pending = {} /\ nextWrite = 0 /\ doneMsg = NoErr
    /\ sizes = [s \in Slices |-> <<>>] /\ pool = Slices
    /\ digests = <<>> /\ offsets = <<>> /\ file = <<>>
    /\ index = <<>> /\ trailer = NoTrailer /\ exists = TRUE

-----------------------------------------------------------------------------
(***************************************************************************)
(* writeBlock, shared by the serial path and by runWriter.                  *)
(***************************************************************************)
WriteBlockOK(data) ==
    /\ offsets' = Append(offsets, Len(file))
    /\ file' = file \o data

\* A failed Write may have stored any part of the record; w.pos advances by it.
WriteBlockFails(data) ==
    /\ WriteMayFail
    /\ offsets' = Append(offsets, Len(file))
    /\ \E n \in 0 .. Len(data) : file' = file \o SubSeq(data, 1, n)
    /\ err' = "write"

EncodeFails ==
    /\ Format = "Compressed"
    /\ encodeFaults < MaxEncodeFaults
    /\ encodeFaults' = encodeFaults + 1

-----------------------------------------------------------------------------
(***************************************************************************)
(* flush, and what the calls of the API have in common.                     *)
(***************************************************************************)
Return(res) == pc' = "idle" /\ ret' = res

\* runWriter stores w.err while the caller reads it without synchronisation:
\* until the pipeline has been joined the caller may read the old value too.
ErrReads == IF workState = "nil" THEN {err} ELSE {err, NoErr}

\* Serial path: the record is processed and written before flush returns.
FlushSerialOK(items) ==
    /\ WriteBlockOK(items)
    /\ UNCHANGED <<err, encodeFaults>>

FlushSerialFails(items) ==
    \/ /\ EncodeFails
       /\ err' = "encode"
       /\ UNCHANGED <<offsets, file>>
    \/ /\ WriteBlockFails(items)
       /\ UNCHANGED encodeFaults

\* Bug: every block borrows the same slice.
OneSlice == CHOOSE s \in Slices : TRUE

\* getSizes: any pooled slice will do, they differ only in what an earlier
\* block left in them.  There are more slices than blocks that can hold one, so
\* the pool never runs dry here (the code would allocate).
GetSizes == CHOOSE s \in pool : TRUE

\* Concurrent path: the items leave the caller's buffer for a new block.  The
\* send on workCh, which may block, is a step of its own.
FlushPipelined(items) ==
    /\ buf' = <<>>
    /\ IF ContentHash
       THEN /\ pool # {}
            /\ pool' = pool \ {GetSizes}
            /\ sizes' = [sizes EXCEPT ![GetSizes] = items]
            /\ out' = NewBlock(nextBlockID, items, GetSizes)
       ELSE /\ out' = NewBlock(nextBlockID, items, NoSlice)
            /\ UNCHANGED sizesVars
    /\ UNCHANGED <<ret, total, nextBlockID, hasher, err, closeVars, workCh, workState,
                   resultCh, workerVars, writerVars, fileVars>>

SendBlock ==
    /\ workState = "open"
    /\ Len(workCh) < ChannelCap
    /\ workCh' = Append(workCh, out)
    /\ out' = NoBlock
    /\ nextBlockID' = nextBlockID + 1

\* close(w.workCh); closing a closed channel panics.
CloseWorkCh == workState' = IF workState = "open" THEN "closed" ELSE "panic"

\* Bug: the chunk just digested is not cleared.
HasherNeverReset(item) ==
    LET chunk == Append(hasher, item)
    IN  /\ hasher' = chunk
        /\ digests' = IF Len(chunk) % ItemsPerRecord = 0 THEN Append(digests, chunk) ELSE digests

\* contentHasher.Add: a full chunk is digested and the next one opened.
HasherAdd(item) ==
    LET chunk == Append(hasher, item)
    IN  IF Pipelined \/ ~ContentHash THEN UNCHANGED <<hasher, digests>>
        ELSE IF Len(chunk) = ItemsPerRecord
             THEN hasher' = <<>> /\ digests' = Append(digests, chunk)
             ELSE hasher' = chunk /\ UNCHANGED digests

-----------------------------------------------------------------------------
(***************************************************************************)
(* AppendItem.                                                              *)
(***************************************************************************)
\* The guards AppendItem and Finish start with, and the call they refuse.
Admitted == pc = "idle" /\ ~closed /\ NoErr \in ErrReads

Refuse ==
    /\ pc = "idle"
    /\ closed \/ \E e \in ErrReads : e # NoErr
    /\ Return("err")
    /\ UNCHANGED <<appendVars, err, closeVars, pipeVars, fileVars>>

\* The item joins the record being accumulated and does not fill it.
AppendBuffered ==
    /\ Admitted /\ total < MaxItems
    /\ Len(buf) + 1 < ItemsPerRecord
    /\ HasherAdd(total + 1)
    /\ buf' = Append(buf, total + 1)
    /\ total' = total + 1
    /\ Return("ok")
    /\ UNCHANGED <<nextBlockID, out, err, closeVars, pipeVars, offsets, file, sealVars>>

\* The item fills the record, which the caller processes and writes itself.
AppendSerial ==
    /\ Admitted /\ total < MaxItems
    /\ Len(buf) + 1 = ItemsPerRecord /\ ~Pipelined
    /\ HasherAdd(total + 1)
    /\ buf' = <<>>
    /\ \/ FlushSerialOK(Append(buf, total + 1)) /\ total' = total + 1 /\ Return("ok")
       \/ FlushSerialFails(Append(buf, total + 1)) /\ UNCHANGED total /\ Return("err")
    /\ UNCHANGED <<nextBlockID, out, closeVars, workCh, workState, resultCh, wpc, work,
                   hashOut, writerVars, sizesVars, sealVars>>

\* The item fills the record, which goes to the workers.
AppendPipelined ==
    /\ Admitted /\ total < MaxItems
    /\ Len(buf) + 1 = ItemsPerRecord /\ Pipelined
    /\ FlushPipelined(Append(buf, total + 1))
    /\ pc' = "appendSend"

AppendSend ==
    /\ pc = "appendSend"
    /\ SendBlock
    /\ total' = total + 1
    /\ Return("ok")
    /\ UNCHANGED <<buf, hasher, err, closeVars, workState, resultCh, workerVars,
                   writerVars, sizesVars, fileVars>>

-----------------------------------------------------------------------------
(***************************************************************************)
(* Finish.                                                                  *)
(***************************************************************************)
\* Serial: the partial record, if any, is written.
FinishSerial ==
    /\ Admitted /\ ~Pipelined
    /\ buf' = <<>>
    /\ \/ buf = <<>> /\ pc' = "seal" /\ UNCHANGED <<ret, err, offsets, file, encodeFaults>>
       \/ buf # <<>> /\ FlushSerialOK(buf) /\ pc' = "seal" /\ UNCHANGED ret
       \/ buf # <<>> /\ FlushSerialFails(buf) /\ Return("err")
    /\ UNCHANGED <<total, nextBlockID, out, hasher, closeVars, workCh, workState, resultCh,
                   wpc, work, hashOut, writerVars, sizesVars, digests, sealVars>>

\* Pipelined: the partial record, if any, is sent first; then workCh is closed.
FinishFlush ==
    /\ Admitted /\ Pipelined /\ buf # <<>>
    /\ FlushPipelined(buf)
    /\ pc' = "finishSend"

FinishSend ==
    /\ pc = "finishSend"
    /\ SendBlock
    /\ CloseWorkCh
    /\ pc' = "finishJoin"
    /\ UNCHANGED <<ret, buf, total, hasher, err, closeVars, resultCh, workerVars,
                   writerVars, sizesVars, fileVars>>

FinishDrain ==
    /\ Admitted /\ Pipelined /\ buf = <<>>
    /\ IF workState = "nil" THEN pc' = "seal" /\ UNCHANGED workState
                            ELSE pc' = "finishJoin" /\ CloseWorkCh
    /\ UNCHANGED <<ret, appendVars, err, closeVars, workCh, resultCh, workerVars,
                   writerVars, sizesVars, fileVars>>

\* Bug: nobody waits for runWriter to end.
NotAwaited == TRUE

\* Whether a receive from writerDone, once emptied, returns: it is closed.
WriterDone == rpc = "done"

\* Bug: w.workCh is left pointing to the closed channel.
KeepWorkCh == UNCHANGED workState

ForgetWorkCh == workState' = "nil"

\* Bug: the pipeline's error is returned but not kept in w.err.
FinishJoinForgets ==
    /\ pc = "finishJoin"
    /\ ForgetWorkCh
    /\ \/ doneMsg # NoErr /\ doneMsg' = NoErr /\ Return("err")
       \/ doneMsg = NoErr /\ WriterDone /\ pc' = "seal" /\ UNCHANGED <<ret, doneMsg>>
    /\ UNCHANGED <<appendVars, err, closeVars, workCh, resultCh, workerVars, rpc, pending,
                   nextWrite, sizesVars, fileVars>>

FinishJoin ==
    /\ pc = "finishJoin"
    /\ ForgetWorkCh
    /\ \/ doneMsg # NoErr /\ err' = doneMsg /\ doneMsg' = NoErr /\ Return("err")
       \/ doneMsg = NoErr /\ WriterDone /\ pc' = "seal" /\ UNCHANGED <<ret, err, doneMsg>>
    /\ UNCHANGED <<appendVars, closeVars, workCh, resultCh, workerVars, rpc, pending,
                   nextWrite, sizesVars, fileVars>>

\* Bug: the count is not checked against its width.
NeverTooMany == FALSE

TooMany == total > UintMax

\* The count check, the end-of-data offset and contentHasher.Sum.
Seal ==
    /\ pc = "seal"
    /\ \/ /\ TooMany
          /\ err' = "limit" /\ Return("err")
          /\ UNCHANGED <<offsets, digests, hasher>>
       \/ /\ ~TooMany
          /\ offsets' = Append(offsets, Len(file))
          /\ digests' = IF hasher = <<>> THEN digests ELSE Append(digests, hasher)
          /\ hasher' = <<>>
          /\ pc' = "index" /\ UNCHANGED <<ret, err>>
    /\ UNCHANGED <<buf, total, nextBlockID, out, closeVars, pipeVars, file, sealVars>>

\* The file operations that follow, each of which may fail and end the call.  A
\* section written only in part is as good as none, and no property depends on
\* whether there are app data.
FileOp(this, next) ==
    /\ pc = this /\ pc' = next
    /\ UNCHANGED <<ret, appendVars, err, closeVars, pipeVars, recordVars, exists>>

WriteIndex == FileOp("index", "appData") /\ index' = offsets /\ UNCHANGED trailer

WriteAppData == FileOp("appData", "trailer") /\ UNCHANGED <<index, trailer>>

WriteTrailer ==
    /\ FileOp("trailer", "sync")
    /\ trailer' = [magic |-> TRUE,
                   recordCount |-> (Len(offsets) - 1) % (UintMax + 1),
                   totalItems |-> total % (UintMax + 1),
                   contentHash |-> IF ContentHash THEN digests ELSE <<>>]
    /\ UNCHANGED index

Sync == FileOp("sync", "fileClose") /\ UNCHANGED <<index, trailer>>

\* Bug: Finish leaves the writer unclosed.
FileCloseOnly ==
    /\ pc = "fileClose"
    /\ fileClosed' = TRUE
    /\ Return("ok")
    /\ UNCHANGED <<appendVars, err, closed, pipeVars, fileVars>>

FileClose ==
    /\ pc = "fileClose"
    /\ fileClosed' = TRUE /\ closed' = TRUE
    /\ Return("ok")
    /\ UNCHANGED <<appendVars, err, pipeVars, fileVars>>

SealFails ==
    /\ pc \in {"index", "appData", "trailer", "sync", "fileClose"}
    /\ WriteMayFail
    /\ err' = "write"
    /\ Return("err")
    /\ UNCHANGED <<appendVars, closeVars, pipeVars, fileVars>>

-----------------------------------------------------------------------------
(***************************************************************************)
(* Close.                                                                   *)
(***************************************************************************)
CloseAgain ==
    /\ pc = "idle" /\ closed
    /\ Return("ok")
    /\ UNCHANGED <<appendVars, err, closeVars, pipeVars, fileVars>>

CloseBegin ==
    /\ pc = "idle" /\ ~closed
    /\ closed' = TRUE
    /\ IF workState = "nil" THEN pc' = "closeFile" /\ UNCHANGED workState
                            ELSE pc' = "closeJoin" /\ CloseWorkCh
    /\ UNCHANGED <<ret, appendVars, err, fileClosed, workCh, resultCh, workerVars,
                   writerVars, sizesVars, fileVars>>

CloseJoin ==
    /\ pc = "closeJoin"
    /\ doneMsg # NoErr \/ WriterDone
    /\ doneMsg' = NoErr
    /\ pc' = "closeFile"
    /\ UNCHANGED <<ret, appendVars, err, closeVars, workCh, workState, resultCh,
                   workerVars, rpc, pending, nextWrite, sizesVars, fileVars>>

\* file.Close, unless Finish did it, whose error is only reported; then Remove.
CloseFile ==
    /\ pc = "closeFile"
    /\ exists' = FALSE
    /\ \/ Return("ok")
       \/ WriteMayFail /\ Return("err")
    /\ UNCHANGED <<appendVars, err, closeVars, pipeVars, recordVars, index, trailer>>

-----------------------------------------------------------------------------
(***************************************************************************)
(* blockWorker and its hash goroutine.                                      *)
(***************************************************************************)
WorkerFrame == UNCHANGED <<callerVars, workState, writerVars, fileVars>>

\* Phase 1: a block is received and its hash work queued.
WorkerRecv(w) ==
    /\ wpc[w] = "recv"
    /\ workCh # <<>>
    /\ work' = [work EXCEPT ![w] = Head(workCh)]
    /\ workCh' = Tail(workCh)
    /\ wpc' = [wpc EXCEPT ![w] = "format"]
    /\ WorkerFrame
    /\ UNCHANGED <<resultCh, hashOut, encodeFaults, sizesVars>>

\* The range over workCh ends: it is closed and empty.
WorkerExit(w) ==
    /\ wpc[w] = "recv"
    /\ workCh = <<>> /\ workState # "open"
    /\ wpc' = [wpc EXCEPT ![w] = "exited"]
    /\ WorkerFrame
    /\ UNCHANGED <<workCh, resultCh, work, hashOut, encodeFaults, sizesVars>>

FailedBlock(b) == [b EXCEPT !.err = TRUE]

\* Phase 2: compression or CRC, beside the hash goroutine; both only read work.data.
WorkerFormat(w) ==
    /\ wpc[w] = "format"
    /\ \/ UNCHANGED <<work, encodeFaults>>
       \/ EncodeFails /\ work' = [work EXCEPT ![w] = FailedBlock(@)]
    /\ wpc' = [wpc EXCEPT ![w] = "collect"]
    /\ WorkerFrame
    /\ UNCHANGED <<workCh, resultCh, hashOut, sizesVars>>

\* Bug: the worker does not wait for its hash goroutine.
HashIgnored(w) == TRUE

HashDone(w) == work[w].hashSizes # NoSlice => hashOut[w] # <<>>

\* The digest of a failed block is received and dropped.
Collected(b, digest) ==
    [b EXCEPT !.hashSizes = NoSlice, !.framed = ~b.err,
              !.digest = IF b.err THEN <<>> ELSE digest]

\* Phase 3: the digest is awaited, and only then is work.data rewritten in place.
WorkerCollect(w) ==
    /\ wpc[w] = "collect"
    /\ HashDone(w)
    /\ work' = [work EXCEPT ![w] = Collected(@, hashOut[w])]
    /\ hashOut' = [hashOut EXCEPT ![w] = <<>>]
    /\ wpc' = [wpc EXCEPT ![w] = "send"]
    /\ WorkerFrame
    /\ UNCHANGED <<workCh, resultCh, encodeFaults, sizesVars>>

\* The result is sent; after an error the worker is gone.
WorkerSend(w) ==
    /\ wpc[w] = "send"
    /\ Len(resultCh) < ChannelCap
    /\ resultCh' = Append(resultCh, work[w])
    /\ work' = [work EXCEPT ![w] = NoBlock]
    /\ wpc' = [wpc EXCEPT ![w] = IF work[w].err THEN "exited" ELSE "recv"]
    /\ WorkerFrame
    /\ UNCHANGED <<workCh, hashOut, encodeFaults, sizesVars>>

\* The hash goroutine reads work.data as it is now, cut by the sizes in its slice,
\* and gives the slice back.
HashBlock(w) ==
    LET b == work[w]
    IN  /\ wpc[w] \in {"format", "collect"}
        /\ b.hashSizes # NoSlice /\ hashOut[w] = <<>>
        /\ hashOut' = [hashOut EXCEPT ![w] =
               IF ~b.framed /\ sizes[b.hashSizes] = b.data THEN b.data ELSE Garbage]
        /\ pool' = pool \cup {b.hashSizes}
        /\ WorkerFrame
        /\ UNCHANGED <<workCh, resultCh, wpc, work, encodeFaults, sizes>>

-----------------------------------------------------------------------------
(***************************************************************************)
(* runWriter.                                                               *)
(***************************************************************************)
WriterFrame == UNCHANGED <<callerVars, workCh, workState, workerVars, sizesVars, fileVars>>

\* Bug: resultCh is never closed.
ResultNeverClosed == FALSE

\* The goroutine Create starts closes resultCh when every worker has returned.
ResultClosed == \A w \in Workers : wpc[w] = "exited"

\* Bug: results are written as they arrive.
Arrived(blocks, id) == blocks

\* The blocks of the map the inner loop may write.
Due(blocks, id) == {b \in blocks : b.id = id}

\* Where the inner loop goes next.
Loop(blocks, id) == IF Due(blocks, id) # {} THEN "write" ELSE "run"

DigestsWith(b) == IF b.digest = <<>> THEN digests ELSE Append(digests, b.digest)

WriterRecv ==
    /\ rpc = "run"
    /\ resultCh # <<>>
    /\ resultCh' = Tail(resultCh)
    /\ IF Head(resultCh).err
       THEN doneMsg' = "encode" /\ rpc' = "drain" /\ UNCHANGED pending
       ELSE /\ pending' = pending \cup {Head(resultCh)}
            /\ rpc' = Loop(pending', nextWrite)
            /\ UNCHANGED doneMsg
    /\ WriterFrame
    /\ UNCHANGED nextWrite

WriterWrite ==
    /\ rpc = "write"
    /\ \E b \in Due(pending, nextWrite) :
        /\ pending' = pending \ {b}
        /\ \/ /\ WriteBlockOK(b.data)
              /\ digests' = DigestsWith(b)
              /\ nextWrite' = nextWrite + 1
              /\ rpc' = Loop(pending', nextWrite')
              /\ UNCHANGED <<err, doneMsg>>
           \/ /\ WriteBlockFails(b.data)
              /\ doneMsg' = "write"
              /\ rpc' = "drain"
              /\ UNCHANGED <<digests, nextWrite>>
    /\ UNCHANGED <<callVars, appendVars, closeVars, workCh, workState, resultCh,
                   workerVars, sizesVars, sealVars>>

\* Bug: runWriter gives up without draining resultCh.
NoDrain == FALSE

WriterDrain ==
    /\ rpc = "drain"
    /\ resultCh # <<>>
    /\ resultCh' = Tail(resultCh)
    /\ WriterFrame
    /\ UNCHANGED writerVars

WriterExit ==
    /\ rpc \in {"run", "drain"}
    /\ resultCh = <<>> /\ ResultClosed
    /\ rpc' = "done"
    /\ WriterFrame
    /\ UNCHANGED <<resultCh, pending, nextWrite, doneMsg>>

-----------------------------------------------------------------------------
\* The calls of the API, and the steps that carry a call on.
Call == \/ Refuse \/ AppendBuffered \/ AppendSerial \/ AppendPipelined
        \/ FinishSerial \/ FinishFlush \/ FinishDrain
        \/ CloseAgain \/ CloseBegin

CallStep == \/ AppendSend \/ FinishSend \/ FinishJoin \/ Seal
            \/ WriteIndex \/ WriteAppData \/ WriteTrailer \/ Sync \/ FileClose \/ SealFails
            \/ CloseJoin \/ CloseFile

BlockWorker(w) == \/ WorkerRecv(w) \/ WorkerExit(w) \/ WorkerFormat(w)
                  \/ WorkerCollect(w) \/ WorkerSend(w)

RunWriter == WriterRecv \/ WriterWrite \/ WriterDrain \/ WriterExit

Next == \/ Call
        \/ CallStep
        \/ \E w \in Workers : BlockWorker(w) \/ HashBlock(w)
        \/ RunWriter

Spec == Init /\ [][Next]_vars

\* Go schedules every runnable goroutine, and a call in progress runs to its end;
\* which call is made next, if any, is up to the program.
Fairness == /\ WF_vars(CallStep)
            /\ \A w \in Workers : WF_vars(BlockWorker(w)) /\ WF_vars(HashBlock(w))
            /\ WF_vars(RunWriter)

FairSpec == Spec /\ Fairness

\* "defer w.Close()": the program that uses a writer closes it in the end.
ClosingSpec == FairSpec /\ WF_vars(CloseBegin)

-----------------------------------------------------------------------------
(***************************************************************************)
(* Properties.                                                              *)
(***************************************************************************)
Calls == {"idle", "appendSend", "finishSend", "finishJoin", "seal", "index", "appData",
          "trailer", "sync", "fileClose", "closeJoin", "closeFile"}

CallerType ==
    /\ pc \in Calls /\ ret \in {"none", "ok", "err"}
    /\ buf \in Seq(Nat) /\ total \in Nat /\ nextBlockID \in Nat
    /\ out \in Block /\ hasher \in Seq(Nat)
    /\ err \in Errors /\ closed \in BOOLEAN /\ fileClosed \in BOOLEAN

WorkerType ==
    /\ wpc \in [Workers -> {"recv", "format", "collect", "send", "exited"}]
    /\ work \in [Workers -> Block]
    /\ hashOut \in [Workers -> Seq(Nat)]
    /\ encodeFaults \in Nat
    /\ sizes \in [Slices -> Seq(Nat)] /\ pool \subseteq Slices

ChannelType ==
    /\ workCh \in Seq(Block) /\ resultCh \in Seq(Block)
    /\ workState \in {"open", "closed", "nil", "panic"}
    /\ rpc \in {"run", "write", "drain", "done"}
    /\ pending \subseteq Block /\ nextWrite \in Nat /\ doneMsg \in Errors

FileType ==
    /\ digests \in Seq(Seq(Nat)) /\ offsets \in Seq(Nat) /\ file \in Seq(Nat)
    /\ index \in Seq(Nat) /\ trailer \in Trailer /\ exists \in BOOLEAN

\* Type correctness of every variable.
TypeOK == CallerType /\ WorkerType /\ ChannelType /\ FileType

\* The items before record id, and those of record id in a file of n items.
Base(id) == id * ItemsPerRecord

RecordItems(id, n) ==
    LET last == IF Base(id + 1) < n THEN Base(id + 1) ELSE n
    IN  [i \in 1 .. last - Base(id) |-> Base(id) + i]

\* The items of s are those that follow the first n, in order.
Consecutive(s, n) == \A i \in 1 .. Len(s) : s[i] = n + i

\* The record area is, at every moment and whatever fails, a prefix of the items
\* in the order AppendItem was called: no item is written twice, ahead of its
\* turn or after a gap, although the workers finish in any order (runWriter's
\* reordering by blockID; a short write ends the file).  Only the item of the
\* call in progress, or of the call that failed, may be there uncounted.
PrefixInOrder ==
    /\ Len(file) <= total + 1
    /\ Consecutive(file, 0)

\* A trailer is only ever written over a complete file: every accepted item is in
\* the record area, the counts in the trailer are the true ones at their width,
\* and the index locates exactly the records Finish promises (Finish drains the
\* pipeline before it writes the index).
SealedComplete ==
    trailer.magic =>
        /\ Len(file) = total
        /\ trailer.totalItems = total
        /\ trailer.recordCount = Len(index) - 1
        /\ index[Len(index)] = total
        /\ \A r \in 0 .. Len(index) - 2 :
              SubSeq(file, index[r + 1] + 1, index[r + 2]) = RecordItems(r, total)

\* The content hash in the trailer is the one the serial contentHasher defines,
\* the digests of the chunks in order, whichever worker hashed which chunk and
\* whichever slice carried its sizes.
SealedHash ==
    trailer.magic /\ ContentHash =>
        trailer.contentHash =
            [r \in 1 .. Len(index) - 1 |-> RecordItems(r - 1, total)]

\* Every slice of sizes has one holder at most: sizesPool, a block in workCh or
\* at the sender, or a worker whose hash goroutine has not given it back.
SlicesOwned ==
    LET Hashing == {w \in Workers : work[w].hashSizes # NoSlice /\ hashOut[w] = <<>>}
        InCh    == {i \in 1 .. Len(workCh) : workCh[i].hashSizes # NoSlice}
        Held    == {work[w].hashSizes : w \in Hashing}
                       \cup {workCh[i].hashSizes : i \in InCh} \cup ({out.hashSizes} \ {NoSlice})
    IN  /\ Held \cap pool = {}
        /\ Cardinality(Held) = Cardinality(Hashing) + Cardinality(InCh)
                                  + (IF out.hashSizes = NoSlice THEN 0 ELSE 1)

\* "If Finish was not called, the incomplete file is removed": between calls a
\* closed writer has left a file exactly if Finish completed it, whatever the
\* calls before and however many of them failed.
FinalFate == closed /\ pc = "idle" => (exists <=> fileClosed)

\* workCh is never closed twice, by Finish and Close or by two Closes: that panics.
NoPanic == workState # "panic"

\* An error is final: once a call on a writer whose file is not complete has
\* returned one, no later Finish can complete the file, even though the caller's
\* read of w.err may miss what runWriter wrote.
ErrorIsFinal == [](ret = "err" /\ ~fileClosed => []~fileClosed)

\* Every call returns, whatever fails in the pipeline it waits for.
CallReturns == (pc # "idle") ~> (pc = "idle")

\* Once workCh is closed, every goroutine of the writer ends.
GoroutinesEnd == (workState # "open") ~> (ResultClosed /\ rpc = "done")

\* The idiom of Close's comment, "defer w.Close()": in the end there is a complete
\* file, or no file at all.
CompleteOrRemoved == <>(fileClosed \/ ~exists)
=============================================================================
