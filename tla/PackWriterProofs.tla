--------------------------- MODULE PackWriterProofs ---------------------------
(***************************************************************************)
(* Proofs about PackWriter, for every number of workers, of slices and of   *)
(* failures, every record size, format and number of items, in three parts. *)
(*   The order of the file: it is a prefix of the items, it is there        *)
(* exactly if it is complete, and an error leaves no way to complete it.    *)
(*   The slices of sizesPool: none has two holders, and every digest is     *)
(* that of its own block.                                                   *)
(*   What a sealed packfile holds: nothing is lost between AppendItem and   *)
(* the trailer, the content hash is that of the items, and the writer       *)
(* implements ItemFile.                                                     *)
(***************************************************************************)
EXTENDS MCPackWriter, SequenceTheorems, FiniteSetTheorems, TLAPS

USE DEF vars, callerVars, pipeVars, fileVars, callVars, appendVars, closeVars,
        workerVars, writerVars, sizesVars, recordVars, sealVars, WorkerFrame, WriterFrame

-----------------------------------------------------------------------------
(***************************************************************************)
(* Type correctness.                                                        *)
(***************************************************************************)
LEMMA NewBlockType ==
  ASSUME NEW id \in Nat, NEW items \in Seq(Nat), NEW slice \in Slices \cup {NoSlice}
  PROVE  NewBlock(id, items, slice) \in Block
  BY DEF NewBlock, Block

LEMMA NoBlockType == NoBlock \in Block
<1>1. <<>> \in Seq(Nat)
  OBVIOUS
<1> QED  BY <1>1, NewBlockType DEF NoBlock

LEMMA GetSizesPooled == pool # {} => GetSizes \in pool
  BY DEF GetSizes

LEMMA FlushPipelinedType ==
  ASSUME TypeOK, NEW items \in Seq(Nat), FlushPipelined(items), pc' \in Calls
  PROVE  TypeOK'
<1>1. out' \in Block /\ sizes' \in [Slices -> Seq(Nat)] /\ pool' \subseteq Slices
  <2>1. /\ nextBlockID \in Nat /\ pool \subseteq Slices
        /\ sizes \in [Slices -> Seq(Nat)]
    BY DEF TypeOK, CallerType, WorkerType
  <2>2. CASE ContentHash
    <3>1. GetSizes \in Slices
      BY <2>1, <2>2, GetSizesPooled DEF FlushPipelined
    <3>2. NewBlock(nextBlockID, items, GetSizes) \in Block
      BY <2>1, <3>1, NewBlockType
    <3> QED  BY <2>1, <2>2, <3>1, <3>2 DEF FlushPipelined
  <2>3. CASE ~ContentHash
    <3>1. NewBlock(nextBlockID, items, NoSlice) \in Block
      BY <2>1, NewBlockType
    <3> QED  BY <2>1, <2>3, <3>1 DEF FlushPipelined
  <2> QED  BY <2>2, <2>3
<1>2. buf' \in Seq(Nat)
  <2>1. buf' = <<>>
    BY DEF FlushPipelined
  <2> QED  BY <2>1
<1>3. CallerType' /\ WorkerType'
  BY <1>1, <1>2 DEF FlushPipelined, TypeOK, CallerType, WorkerType
<1>4. ChannelType' /\ FileType'
  BY DEF FlushPipelined, TypeOK, ChannelType, FileType
<1> QED  BY <1>3, <1>4 DEF TypeOK

LEMMA WriteBlockType ==
  ASSUME FileType, NEW data \in Seq(Nat)
  PROVE  /\ WriteBlockOK(data) => offsets' \in Seq(Nat) /\ file' \in Seq(Nat)
         /\ WriteBlockFails(data) =>
               offsets' \in Seq(Nat) /\ file' \in Seq(Nat) /\ err' \in Errors
<1>1. file \o data \in Seq(Nat) /\ Append(offsets, Len(file)) \in Seq(Nat)
  BY DEF FileType
<1>2. ASSUME NEW n \in 0 .. Len(data)
      PROVE  file \o SubSeq(data, 1, n) \in Seq(Nat)
  <2>1. \A i \in 1 .. n : data[i] \in Nat
    BY <1>2
  <2>2. SubSeq(data, 1, n) \in Seq(Nat)
    BY <2>1, SubSeqProperties
  <2> QED  BY <2>2 DEF FileType
<1> QED  BY <1>1, <1>2 DEF WriteBlockOK, WriteBlockFails, Errors

LEMMA FlushSerialType ==
  ASSUME TypeOK, NEW items \in Seq(Nat), FlushSerialOK(items) \/ FlushSerialFails(items)
  PROVE  /\ offsets' \in Seq(Nat) /\ file' \in Seq(Nat) /\ err' \in Errors
         /\ encodeFaults' \in Nat
<1>1. encodeFaults \in Nat /\ err \in Errors /\ offsets \in Seq(Nat) /\ file \in Seq(Nat)
  BY DEF TypeOK, CallerType, WorkerType, FileType
<1>2. CASE FlushSerialOK(items)
  BY <1>1, <1>2, WriteBlockType DEF FlushSerialOK, TypeOK
<1>3. CASE FlushSerialFails(items)
  BY <1>1, <1>3, WriteBlockType DEF FlushSerialFails, EncodeFails, TypeOK, Errors
<1> QED  BY <1>2, <1>3

LEMMA InitType == Init => TypeOK
<1> SUFFICES ASSUME Init PROVE TypeOK
  OBVIOUS
<1>1. <<>> \in Seq(Nat) /\ <<>> \in Seq(Seq(Nat)) /\ <<>> \in Seq(Block)
  OBVIOUS
<1>2. CallerType
  BY <1>1, NoBlockType DEF Init, CallerType, Calls, Errors
<1>3. WorkerType
  BY <1>1, NoBlockType DEF Init, WorkerType
<1>4. ChannelType
  BY <1>1 DEF Init, ChannelType, Errors
<1>5. FileType
  BY <1>1 DEF Init, FileType, Trailer, NoTrailer
<1> QED  BY <1>2, <1>3, <1>4, <1>5 DEF TypeOK

LEMMA AppendType ==
  ASSUME TypeOK, AppendBuffered \/ AppendSerial \/ AppendPipelined \/ AppendSend
  PROVE  TypeOK'
<1>1. Append(buf, total + 1) \in Seq(Nat) /\ Append(hasher, total + 1) \in Seq(Nat)
  BY DEF TypeOK, CallerType
<1>2. HasherAdd(total + 1) => hasher' \in Seq(Nat) /\ digests' \in Seq(Seq(Nat))
  <2>1. Append(digests, Append(hasher, total + 1)) \in Seq(Seq(Nat))
    BY <1>1, AppendProperties DEF TypeOK, FileType
  <2>2. <<>> \in Seq(Nat)
    OBVIOUS
  <2> QED  BY <1>1, <2>1, <2>2 DEF HasherAdd, TypeOK, CallerType, FileType
<1>3. CASE AppendBuffered
  <2>1. CallerType' /\ digests' \in Seq(Seq(Nat))
    BY <1>1, <1>2, <1>3 DEF AppendBuffered, Return, TypeOK, CallerType, Calls
  <2>2. WorkerType' /\ ChannelType' /\ FileType'
    BY <1>3, <2>1 DEF AppendBuffered, TypeOK, WorkerType, ChannelType, FileType
  <2> QED  BY <2>1, <2>2 DEF TypeOK
<1>4. CASE AppendSerial
  <2>1. /\ offsets' \in Seq(Nat) /\ file' \in Seq(Nat) /\ err' \in Errors
        /\ encodeFaults' \in Nat /\ total' \in Nat /\ pc' = "idle" /\ ret' \in {"ok", "err"}
    <3>1. FlushSerialOK(Append(buf, total + 1)) \/ FlushSerialFails(Append(buf, total + 1))
      BY <1>4 DEF AppendSerial
    <3>2. total' \in Nat /\ pc' = "idle" /\ ret' \in {"ok", "err"}
      BY <1>4 DEF AppendSerial, Return, TypeOK, CallerType
    <3> QED  BY <1>1, <3>1, <3>2, FlushSerialType
  <2>2. CallerType'
    BY <1>2, <1>4, <2>1 DEF AppendSerial, TypeOK, CallerType, Calls
  <2>3. WorkerType' /\ ChannelType' /\ FileType'
    BY <1>2, <1>4, <2>1 DEF AppendSerial, TypeOK, WorkerType, ChannelType, FileType
  <2> QED  BY <2>2, <2>3 DEF TypeOK
<1>5. CASE AppendPipelined
  BY <1>1, <1>5, FlushPipelinedType DEF AppendPipelined, Calls
<1>6. CASE AppendSend
  <2>1. CallerType' /\ ChannelType'
    BY <1>6, NoBlockType DEF AppendSend, SendBlock, Return, TypeOK, CallerType, ChannelType, Calls
  <2>2. WorkerType' /\ FileType'
    BY <1>6 DEF AppendSend, SendBlock, TypeOK, WorkerType, FileType
  <2> QED  BY <2>1, <2>2 DEF TypeOK
<1> QED  BY <1>3, <1>4, <1>5, <1>6

LEMMA FinishType ==
  ASSUME TypeOK,
         FinishSerial \/ FinishFlush \/ FinishSend \/ FinishDrain \/ FinishJoin
  PROVE  TypeOK'
<1>1. CASE FinishSerial
  <2>1. /\ offsets' \in Seq(Nat) /\ file' \in Seq(Nat) /\ err' \in Errors
        /\ encodeFaults' \in Nat
    <3>1. CASE UNCHANGED <<err, offsets, file, encodeFaults>>
      BY <3>1 DEF TypeOK, CallerType, WorkerType, FileType
    <3>2. CASE FlushSerialOK(buf) \/ FlushSerialFails(buf)
      BY <3>2, FlushSerialType DEF TypeOK, CallerType
    <3> QED  BY <1>1, <3>1, <3>2 DEF FinishSerial
  <2>2. <<>> \in Seq(Nat)
    OBVIOUS
  <2>3. CallerType'
    BY <1>1, <2>1, <2>2 DEF FinishSerial, Return, TypeOK, CallerType, Calls
  <2>4. WorkerType' /\ ChannelType' /\ FileType'
    BY <1>1, <2>1 DEF FinishSerial, TypeOK, WorkerType, ChannelType, FileType
  <2> QED  BY <2>3, <2>4 DEF TypeOK
<1>2. CASE FinishFlush
  BY <1>2, FlushPipelinedType DEF FinishFlush, TypeOK, CallerType, Calls
<1>3. CASE FinishSend
  <2>1. CallerType' /\ ChannelType'
    BY <1>3, NoBlockType
    DEF FinishSend, SendBlock, CloseWorkCh, TypeOK, CallerType, ChannelType, Calls
  <2>2. WorkerType' /\ FileType'
    BY <1>3 DEF FinishSend, SendBlock, TypeOK, WorkerType, FileType
  <2> QED  BY <2>1, <2>2 DEF TypeOK
<1>4. CASE FinishDrain
  BY <1>4 DEF FinishDrain, CloseWorkCh, TypeOK, CallerType, WorkerType, ChannelType,
              FileType, Calls
<1>5. CASE FinishJoin
  <2>1. CallerType' /\ ChannelType'
    BY <1>5 DEF FinishJoin, ForgetWorkCh, Return, TypeOK, CallerType, ChannelType, Calls, Errors
  <2>2. WorkerType' /\ FileType'
    BY <1>5 DEF FinishJoin, TypeOK, WorkerType, FileType
  <2> QED  BY <2>1, <2>2 DEF TypeOK
<1> QED  BY <1>1, <1>2, <1>3, <1>4, <1>5

LEMMA SealType ==
  ASSUME TypeOK,
         \/ Seal \/ WriteIndex \/ WriteAppData \/ WriteTrailer
         \/ Sync \/ FileClose \/ SealFails
  PROVE  TypeOK'
<1>1. CASE Seal
  <2>1. /\ Append(digests, hasher) \in Seq(Seq(Nat))
        /\ Append(offsets, Len(file)) \in Seq(Nat)
        /\ <<>> \in Seq(Nat)
    BY AppendProperties DEF TypeOK, CallerType, FileType
  <2>2. CallerType' /\ WorkerType'
    BY <1>1, <2>1 DEF Seal, Return, TypeOK, CallerType, WorkerType, Calls, Errors
  <2>3. ChannelType' /\ FileType'
    BY <1>1, <2>1 DEF Seal, TypeOK, ChannelType, FileType
  <2> QED  BY <2>2, <2>3 DEF TypeOK
<1>2. CASE WriteIndex
  BY <1>2 DEF WriteIndex, FileOp, TypeOK, CallerType, WorkerType, ChannelType, FileType, Calls
<1>3. CASE WriteAppData
  BY <1>3 DEF WriteAppData, FileOp, TypeOK, CallerType, WorkerType, ChannelType, FileType, Calls
<1>4. CASE WriteTrailer
  <2>1. trailer' \in Trailer
    <3>1. (Len(offsets) - 1) % (UintMax + 1) \in Nat /\ total % (UintMax + 1) \in Nat
      BY WriterAssumption DEF TypeOK, CallerType, FileType
    <3>2. <<>> \in Seq(Seq(Nat))
      OBVIOUS
    <3> QED  BY <1>4, <3>1, <3>2 DEF WriteTrailer, Trailer, TypeOK, FileType
  <2> QED  BY <1>4, <2>1 DEF WriteTrailer, FileOp, TypeOK, CallerType, WorkerType, ChannelType,
                             FileType, Calls
<1>5. CASE Sync
  BY <1>5 DEF Sync, FileOp, TypeOK, CallerType, WorkerType, ChannelType, FileType, Calls
<1>6. CASE FileClose
  BY <1>6 DEF FileClose, Return, TypeOK, CallerType, WorkerType, ChannelType, FileType, Calls
<1>7. CASE SealFails
  BY <1>7 DEF SealFails, Return, TypeOK, CallerType, WorkerType, ChannelType, FileType, Calls,
              Errors
<1> QED  BY <1>1, <1>2, <1>3, <1>4, <1>5, <1>6, <1>7

LEMMA CloseType ==
  ASSUME TypeOK, Refuse \/ CloseAgain \/ CloseBegin \/ CloseJoin \/ CloseFile
  PROVE  TypeOK'
<1> USE DEF TypeOK, CallerType, WorkerType, ChannelType, FileType, Calls, Return
<1>1. CASE Refuse
  BY <1>1 DEF Refuse
<1>2. CASE CloseAgain
  BY <1>2 DEF CloseAgain
<1>3. CASE CloseBegin
  BY <1>3 DEF CloseBegin, CloseWorkCh
<1>4. CASE CloseJoin
  BY <1>4 DEF CloseJoin, Errors
<1>5. CASE CloseFile
  BY <1>5 DEF CloseFile
<1> QED  BY <1>1, <1>2, <1>3, <1>4, <1>5

LEMMA WorkerStepType ==
  ASSUME TypeOK, NEW w \in Workers, BlockWorker(w) \/ HashBlock(w)
  PROVE  TypeOK'
<1>1. CallerType' /\ FileType'
  BY DEF BlockWorker, WorkerRecv, WorkerExit, WorkerFormat, WorkerCollect, WorkerSend, HashBlock,
         TypeOK, CallerType, FileType
<1>2. CASE WorkerRecv(w)
  BY <1>1, <1>2 DEF WorkerRecv, TypeOK, WorkerType, ChannelType
<1>3. CASE WorkerExit(w)
  BY <1>1, <1>3 DEF WorkerExit, TypeOK, WorkerType, ChannelType
<1>4. CASE WorkerFormat(w)
  <2>1. FailedBlock(work[w]) \in Block
    BY DEF FailedBlock, TypeOK, WorkerType, Block
  <2>2. WorkerType'
    BY <1>4, <2>1 DEF WorkerFormat, EncodeFails, TypeOK, WorkerType
  <2> QED  BY <1>1, <1>4, <2>2 DEF WorkerFormat, TypeOK, ChannelType
<1>5. CASE WorkerCollect(w)
  <2>1. <<>> \in Seq(Nat)
    OBVIOUS
  <2>2. Collected(work[w], hashOut[w]) \in Block
    BY <2>1 DEF Collected, TypeOK, WorkerType, Block
  <2>3. work' \in [Workers -> Block] /\ hashOut' \in [Workers -> Seq(Nat)]
    BY <1>5, <2>1, <2>2 DEF WorkerCollect, TypeOK, WorkerType
  <2> QED  BY <1>1, <1>5, <2>3 DEF WorkerCollect, TypeOK, WorkerType, ChannelType
<1>6. CASE WorkerSend(w)
  BY <1>1, <1>6, NoBlockType DEF WorkerSend, TypeOK, WorkerType, ChannelType
<1>7. CASE HashBlock(w)
  <2>1. work[w].data \in Seq(Nat) /\ work[w].hashSizes \in Slices \cup {NoSlice}
    BY DEF TypeOK, WorkerType, Block
  <2>2. Garbage \in Seq(Nat)
    BY DEF Garbage
  <2>3. hashOut' \in [Workers -> Seq(Nat)] /\ pool' \subseteq Slices
    BY <1>7, <2>1, <2>2 DEF HashBlock, TypeOK, WorkerType
  <2> QED  BY <1>1, <1>7, <2>3 DEF HashBlock, TypeOK, WorkerType, ChannelType
<1> QED  BY <1>2, <1>3, <1>4, <1>5, <1>6, <1>7 DEF BlockWorker

LEMMA WriterStepType ==
  ASSUME TypeOK, RunWriter
  PROVE  TypeOK'
<1>1. CASE WriterRecv
  <2>1. CallerType' /\ WorkerType' /\ FileType'
    BY <1>1 DEF WriterRecv, TypeOK, CallerType, WorkerType, FileType
  <2>2. ChannelType'
    BY <1>1 DEF WriterRecv, Loop, TypeOK, ChannelType, Errors
  <2> QED  BY <2>1, <2>2 DEF TypeOK
<1>2. CASE WriterWrite
  <2> PICK b \in Due(pending, nextWrite) :
        /\ pending' = pending \ {b}
        /\ \/ /\ WriteBlockOK(b.data)
              /\ digests' = DigestsWith(b)
              /\ nextWrite' = nextWrite + 1
              /\ rpc' = Loop(pending', nextWrite')
              /\ UNCHANGED <<err, doneMsg>>
           \/ /\ WriteBlockFails(b.data)
              /\ doneMsg' = "write"
              /\ rpc' = "drain"
              /\ UNCHANGED <<digests, nextWrite>>
    BY <1>2 DEF WriterWrite
  <2>1. b \in Block /\ b.data \in Seq(Nat) /\ b.digest \in Seq(Nat)
    BY DEF Due, TypeOK, ChannelType, Block
  <2>2. offsets' \in Seq(Nat) /\ file' \in Seq(Nat) /\ err' \in Errors
    BY <2>1, WriteBlockType DEF TypeOK, CallerType
  <2>3. digests' \in Seq(Seq(Nat))
    <3>1. Append(digests, b.digest) \in Seq(Seq(Nat))
      BY <2>1, AppendProperties DEF TypeOK, FileType
    <3> QED  BY <3>1 DEF DigestsWith, TypeOK, FileType
  <2>4. CallerType' /\ WorkerType' /\ FileType'
    BY <1>2, <2>2, <2>3 DEF WriterWrite, TypeOK, CallerType, WorkerType, FileType
  <2>5. ChannelType'
    BY <1>2 DEF WriterWrite, Loop, TypeOK, ChannelType, Errors
  <2> QED  BY <2>4, <2>5 DEF TypeOK
<1>3. CASE WriterDrain
  BY <1>3 DEF WriterDrain, TypeOK, CallerType, WorkerType, ChannelType, FileType
<1>4. CASE WriterExit
  BY <1>4 DEF WriterExit, TypeOK, CallerType, WorkerType, ChannelType, FileType
<1> QED  BY <1>1, <1>2, <1>3, <1>4 DEF RunWriter

\* Type correctness holds in every state of every writer.
THEOREM TypeCorrect == Spec => []TypeOK
<1>1. TypeOK /\ [Next]_vars => TypeOK'
  <2> SUFFICES ASSUME TypeOK, [Next]_vars PROVE TypeOK'
    OBVIOUS
  <2>1. CASE Call
    BY <2>1, AppendType, FinishType, CloseType DEF Call
  <2>2. CASE CallStep
    BY <2>2, AppendType, FinishType, SealType, CloseType DEF CallStep
  <2>3. CASE \E w \in Workers : BlockWorker(w) \/ HashBlock(w)
    BY <2>3, WorkerStepType
  <2>4. CASE RunWriter
    BY <2>4, WriterStepType
  <2>5. CASE UNCHANGED vars
    BY <2>5 DEF TypeOK, CallerType, WorkerType, ChannelType, FileType
  <2> QED  BY <2>1, <2>2, <2>3, <2>4, <2>5 DEF Next
<1> QED  BY <1>1, InitType, PTL DEF Spec

-----------------------------------------------------------------------------
(***************************************************************************)
(* The state of workCh, of w.closed and of w.err at each point of a call.   *)
(***************************************************************************)
Sealing == {"seal", "index", "appData", "trailer", "sync", "fileClose"}

ControlInv ==
    /\ workState # "panic"
    /\ closed => workState # "open"
    /\ pc = "idle" /\ ~closed =>
          workState = "open" \/ (workState = "nil" /\ (~Pipelined \/ err # NoErr))
    /\ pc \in {"appendSend", "finishSend"} => workState = "open"
    /\ pc = "finishJoin" => workState = "closed" /\ ~closed
    /\ pc \in Sealing => workState = "nil" /\ ~closed
    /\ pc = "closeJoin" => workState = "closed" /\ closed
    /\ pc = "closeFile" => closed
    /\ ~Pipelined => /\ workState = "nil" /\ rpc = "done"
                     /\ \A w \in Workers : wpc[w] = "exited"

(***************************************************************************)
(* Where the items are.  A block in flight holds the items of its record;   *)
(* only the last block may be short, and then no other follows it.          *)
(***************************************************************************)
BlockInv(b) ==
    /\ b.id < nextBlockID
    /\ Consecutive(b.data, Base(b.id))
    /\ Base(b.id) + Len(b.data) <= total
    /\ Len(b.data) = ItemsPerRecord \/ (b.id = nextBlockID - 1 /\ workState # "open")

FlightInv ==
    /\ \A i \in 1 .. Len(workCh) : BlockInv(workCh[i])
    /\ \A w \in Workers : wpc[w] \in {"format", "collect", "send"} => BlockInv(work[w])
    /\ \A i \in 1 .. Len(resultCh) : BlockInv(resultCh[i])
    /\ \A b \in pending : BlockInv(b)

\* The record being accumulated follows the blocks sent, or the file.
BufferInv ==
    /\ Pipelined /\ pc = "idle" /\ workState = "open" =>
          Consecutive(buf, Base(nextBlockID)) /\ total = Base(nextBlockID) + Len(buf)
    /\ ~Pipelined /\ pc = "idle" /\ ~closed /\ err = NoErr =>
          Consecutive(buf, Len(file)) /\ total = Len(file) + Len(buf)

\* The block about to be sent is the next one.
OutInv ==
    /\ pc \in {"appendSend", "finishSend"} =>
          buf = <<>> /\ out.id = nextBlockID /\ Consecutive(out.data, Base(nextBlockID))
    /\ pc = "appendSend" => Len(out.data) = ItemsPerRecord
                            /\ total + 1 = Base(nextBlockID) + Len(out.data)
    /\ pc = "finishSend" => total = Base(nextBlockID) + Len(out.data)

\* runWriter has written every record before nextWrite, in full but for the last.
PositionInv ==
    Pipelined /\ rpc \in {"run", "write"} =>
        Len(file) = Base(nextWrite) \/ (nextWrite = nextBlockID /\ workState # "open")

OrderInv == /\ PrefixInOrder /\ (Pipelined => Len(file) <= total)
            /\ BufferInv /\ OutInv /\ PositionInv /\ FlightInv

-----------------------------------------------------------------------------
\* What each step does to the variables ControlInv reads.
LEMMA ControlStep ==
  ASSUME TypeOK, ControlInv, [Next]_vars
  PROVE  ControlInv'
<1> USE DEF ControlInv, Sealing, ErrReads, Admitted, Return
<1>1. CASE Call
  <2>1. CASE Refuse \/ CloseAgain
    BY <2>1 DEF Refuse, CloseAgain
  <2>2. CASE AppendBuffered
    BY <2>2 DEF AppendBuffered
  <2>3. CASE AppendSerial
    BY <2>3 DEF AppendSerial
  <2>4. CASE AppendPipelined
    BY <2>4 DEF AppendPipelined, FlushPipelined
  <2>5. CASE FinishSerial
    BY <2>5 DEF FinishSerial
  <2>6. CASE FinishFlush
    BY <2>6 DEF FinishFlush, FlushPipelined
  <2>7. CASE FinishDrain
    BY <2>7 DEF FinishDrain, CloseWorkCh
  <2>8. CASE CloseBegin
    BY <2>8 DEF CloseBegin, CloseWorkCh
  <2> QED  BY <1>1, <2>1, <2>2, <2>3, <2>4, <2>5, <2>6, <2>7, <2>8 DEF Call
<1>2. CASE CallStep
  <2>1. CASE AppendSend
    BY <2>1 DEF AppendSend, SendBlock
  <2>2. CASE FinishSend
    BY <2>2 DEF FinishSend, SendBlock, CloseWorkCh
  <2>3. CASE FinishJoin
    BY <2>3 DEF FinishJoin, ForgetWorkCh
  <2>4. CASE Seal
    BY <2>4 DEF Seal, NoErr
  <2>5. CASE WriteIndex \/ WriteAppData \/ WriteTrailer \/ Sync
    BY <2>5 DEF WriteIndex, WriteAppData, WriteTrailer, Sync, FileOp
  <2>6. CASE FileClose
    BY <2>6 DEF FileClose
  <2>7. CASE SealFails
    BY <2>7 DEF SealFails, NoErr
  <2>8. CASE CloseJoin
    BY <2>8 DEF CloseJoin
  <2>9. CASE CloseFile
    BY <2>9 DEF CloseFile
  <2> QED  BY <1>2, <2>1, <2>2, <2>3, <2>4, <2>5, <2>6, <2>7, <2>8, <2>9 DEF CallStep
<1>3. ASSUME NEW w \in Workers, BlockWorker(w) \/ HashBlock(w)
      PROVE  ControlInv'
  <2>1. Pipelined /\ UNCHANGED <<workState, closed, pc, err>>
    BY <1>3 DEF BlockWorker, WorkerRecv, WorkerExit, WorkerFormat, WorkerCollect, WorkerSend,
                HashBlock
  <2> QED  BY <2>1
<1>4. CASE RunWriter
  <2>1. Pipelined /\ UNCHANGED <<workState, closed, pc>> /\ (UNCHANGED err \/ err' # NoErr)
    BY <1>4 DEF RunWriter, WriterRecv, WriterWrite, WriterDrain, WriterExit, WriteBlockFails, NoErr
  <2> QED  BY <2>1
<1>5. CASE UNCHANGED vars
  BY <1>5
<1> QED  BY <1>1, <1>2, <1>3, <1>4, <1>5 DEF Next

LEMMA InitControl == Init => ControlInv
  BY DEF Init, ControlInv, Sealing

\* No call ever closes workCh twice: the writer never panics on it.
THEOREM NeverPanics == Spec => []NoPanic
<1>1. TypeOK /\ ControlInv /\ [Next]_vars => ControlInv'
  BY ControlStep
<1>2. ControlInv => NoPanic
  BY DEF ControlInv, NoPanic
<1> QED  BY <1>1, <1>2, InitControl, TypeCorrect, PTL DEF Spec

-----------------------------------------------------------------------------
(***************************************************************************)
(* Runs of consecutive items.                                               *)
(***************************************************************************)
LEMMA BaseStep ==
  ASSUME NEW id \in Nat
  PROVE  Base(id) \in Nat /\ Base(id + 1) = Base(id) + ItemsPerRecord
  BY WriterAssumption DEF Base

LEMMA BaseZero == Base(0) = 0
  BY WriterAssumption DEF Base

LEMMA ConsecutiveEmpty == ASSUME NEW n PROVE Consecutive(<<>>, n)
  BY DEF Consecutive

LEMMA ConsecutiveAppend ==
  ASSUME NEW s \in Seq(Nat), NEW n \in Nat, Consecutive(s, n)
  PROVE  Consecutive(Append(s, n + Len(s) + 1), n)
  BY DEF Consecutive

LEMMA ConsecutiveConcat ==
  ASSUME NEW s \in Seq(Nat), NEW t \in Seq(Nat), NEW n \in Nat,
         Consecutive(s, n), Consecutive(t, n + Len(s))
  PROVE  Consecutive(s \o t, n) /\ Len(s \o t) = Len(s) + Len(t)
<1>1. /\ Len(s) \in Nat /\ Len(t) \in Nat
      /\ Len(s \o t) = Len(s) + Len(t)
      /\ \A i \in 1 .. Len(s) + Len(t) :
            (s \o t)[i] = IF i <= Len(s) THEN s[i] ELSE t[i - Len(s)]
  BY ConcatProperties
<1>2. ASSUME NEW i \in 1 .. Len(s) + Len(t)
      PROVE  (s \o t)[i] = n + i
  <2>1. CASE i <= Len(s)
    BY <1>1, <2>1 DEF Consecutive
  <2>2. CASE i > Len(s)
    <3>1. i - Len(s) \in 1 .. Len(t)
      BY <1>1, <2>2
    <3>2. t[i - Len(s)] = n + Len(s) + (i - Len(s))
      BY <3>1 DEF Consecutive
    <3> QED  BY <1>1, <2>2, <3>2
  <2> QED  BY <1>1, <2>1, <2>2
<1> QED  BY <1>1, <1>2 DEF Consecutive

LEMMA ConsecutivePrefix ==
  ASSUME NEW s \in Seq(Nat), NEW n \in Nat, Consecutive(s, n), NEW k \in 0 .. Len(s)
  PROVE  /\ SubSeq(s, 1, k) \in Seq(Nat)
         /\ Consecutive(SubSeq(s, 1, k), n) /\ Len(SubSeq(s, 1, k)) = k
<1>1. \A i \in 1 .. k : s[i] \in Nat
  OBVIOUS
<1>2. /\ SubSeq(s, 1, k) \in Seq(Nat)
      /\ Len(SubSeq(s, 1, k)) = IF 1 <= k THEN k - 1 + 1 ELSE 0
      /\ \A i \in 1 .. k - 1 + 1 : SubSeq(s, 1, k)[i] = s[1 + i - 1]
  BY <1>1, SubSeqProperties
<1> QED  BY <1>2 DEF Consecutive

\* writeBlock extends the file by the record, or by a part of it.
LEMMA WriteInOrder ==
  ASSUME FileType, NEW data \in Seq(Nat), Consecutive(file, 0), Consecutive(data, Len(file)),
         WriteBlockOK(data) \/ WriteBlockFails(data)
  PROVE  /\ Consecutive(file', 0)
         /\ Len(file') <= Len(file) + Len(data)
         /\ WriteBlockOK(data) => Len(file') = Len(file) + Len(data)
<1>1. file \in Seq(Nat) /\ Len(file) \in Nat /\ Len(data) \in Nat
  BY DEF FileType
<1>2. CASE WriteBlockOK(data)
  <2>1. Consecutive(file \o data, 0) /\ Len(file \o data) = Len(file) + Len(data)
    <3>1. Consecutive(data, 0 + Len(file))
      BY <1>1
    <3> QED  BY <1>1, <3>1, ConsecutiveConcat
  <2> QED  BY <1>1, <1>2, <2>1 DEF WriteBlockOK
<1>3. CASE WriteBlockFails(data) /\ ~WriteBlockOK(data)
  <2>1. PICK k \in 0 .. Len(data) : file' = file \o SubSeq(data, 1, k)
    BY <1>3 DEF WriteBlockFails
  <2>2. /\ SubSeq(data, 1, k) \in Seq(Nat)
        /\ Consecutive(SubSeq(data, 1, k), Len(file)) /\ Len(SubSeq(data, 1, k)) = k
    BY <1>1, ConsecutivePrefix
  <2>3. Consecutive(file', 0) /\ Len(file') = Len(file) + k
    <3>1. Consecutive(SubSeq(data, 1, k), 0 + Len(file))
      BY <1>1, <2>2
    <3> QED  BY <1>1, <2>1, <2>2, <3>1, ConsecutiveConcat
  <2> QED  BY <1>1, <1>3, <2>3
<1> QED  BY <1>2, <1>3

-----------------------------------------------------------------------------
(***************************************************************************)
(* The order invariant is inductive.                                        *)
(***************************************************************************)
\* Accepting items, sending blocks and closing workCh do no harm to the blocks
\* in flight.
Advances ==
    /\ nextBlockID' \in Nat /\ nextBlockID' >= nextBlockID
    /\ total' \in Nat /\ total' >= total
    /\ workState' = "open" => workState = "open"
    /\ nextBlockID' = nextBlockID \/ workState = "open"

LEMMA BlockStable ==
  ASSUME TypeOK, Advances, NEW b \in Block, BlockInv(b)
  PROVE  BlockInv(b)'
<1>1. b.id \in Nat /\ Len(b.data) \in Nat /\ Base(b.id) \in Nat
  BY BaseStep DEF Block
<1>2. nextBlockID \in Nat /\ total \in Nat
  BY DEF TypeOK, CallerType
<1> QED  BY <1>1, <1>2 DEF BlockInv, Advances

LEMMA FlightStable ==
  ASSUME TypeOK, Advances, FlightInv, UNCHANGED <<workCh, resultCh, work, wpc, pending>>
  PROVE  FlightInv'
<1>1. ASSUME NEW i \in 1 .. Len(workCh) PROVE BlockInv(workCh[i])'
  <2>1. workCh[i] \in Block /\ BlockInv(workCh[i])
    BY DEF FlightInv, TypeOK, ChannelType
  <2>2. workCh'[i] = workCh[i]
    OBVIOUS
  <2> QED  BY <2>1, <2>2, BlockStable
<1>2. ASSUME NEW i \in 1 .. Len(resultCh) PROVE BlockInv(resultCh[i])'
  <2>1. resultCh[i] \in Block /\ BlockInv(resultCh[i])
    BY DEF FlightInv, TypeOK, ChannelType
  <2> QED  BY <2>1, BlockStable
<1>3. ASSUME NEW w \in Workers, wpc[w] \in {"format", "collect", "send"}
      PROVE  BlockInv(work[w])'
  <2>1. work[w] \in Block /\ BlockInv(work[w])
    BY <1>3 DEF FlightInv, TypeOK, WorkerType
  <2> QED  BY <2>1, BlockStable
<1>4. ASSUME NEW b \in pending PROVE BlockInv(b)'
  <2>1. b \in Block /\ BlockInv(b)
    BY DEF FlightInv, TypeOK, ChannelType
  <2> QED  BY <2>1, BlockStable
<1> QED  BY <1>1, <1>2, <1>3, <1>4 DEF FlightInv

\* A worker only moves a block on, and leaves its items as they are.
LEMMA WorkerOrder ==
  ASSUME TypeOK, OrderInv, NEW w \in Workers, BlockWorker(w) \/ HashBlock(w)
  PROVE  OrderInv'
<1> USE DEF OrderInv
<1>1. UNCHANGED <<callerVars, workState, writerVars, fileVars>>
  BY DEF BlockWorker, WorkerRecv, WorkerExit, WorkerFormat, WorkerCollect, WorkerSend, HashBlock
<1>2. /\ PrefixInOrder' /\ (Pipelined => Len(file) <= total)'
      /\ BufferInv' /\ OutInv' /\ PositionInv'
  BY <1>1 DEF PrefixInOrder, BufferInv, OutInv, PositionInv
<1>3. ASSUME NEW b, BlockInv(b) PROVE BlockInv(b)'
  BY <1>1, <1>3 DEF BlockInv
<1>4. \A b \in pending' : BlockInv(b)'
  BY <1>1, <1>3 DEF FlightInv
<1>5. CASE WorkerRecv(w)
  <2>1. BlockInv(Head(workCh))
    BY <1>5 DEF WorkerRecv, FlightInv, TypeOK, ChannelType
  <2>2. \A i \in 1 .. Len(workCh') : BlockInv(workCh'[i])
    <3>1. /\ Len(Tail(workCh)) = Len(workCh) - 1
          /\ \A i \in 1 .. Len(Tail(workCh)) : Tail(workCh)[i] = workCh[i + 1]
      BY <1>5, HeadTailProperties DEF WorkerRecv, TypeOK, ChannelType
    <3> QED  BY <1>5, <3>1 DEF WorkerRecv, FlightInv, TypeOK, ChannelType
  <2>3. \A v \in Workers : wpc'[v] \in {"format", "collect", "send"} => BlockInv(work'[v])
    BY <1>5, <2>1 DEF WorkerRecv, FlightInv, TypeOK, WorkerType
  <2> QED  BY <1>2, <1>3, <1>4, <1>5, <2>2, <2>3 DEF WorkerRecv, FlightInv
<1>6. CASE WorkerExit(w)
  <2>1. \A v \in Workers : wpc'[v] \in {"format", "collect", "send"} => BlockInv(work'[v])
    BY <1>6 DEF WorkerExit, FlightInv, TypeOK, WorkerType
  <2> QED  BY <1>2, <1>3, <1>4, <1>6, <2>1 DEF WorkerExit, FlightInv
<1>7. CASE WorkerFormat(w) \/ WorkerCollect(w)
  <2>1. wpc[w] \in {"format", "collect"} /\ BlockInv(work[w])
    BY <1>7 DEF WorkerFormat, WorkerCollect, FlightInv
  <2>2. work'[w].id = work[w].id /\ work'[w].data = work[w].data
    <3>1. /\ FailedBlock(work[w]).id = work[w].id
          /\ FailedBlock(work[w]).data = work[w].data
          /\ Collected(work[w], hashOut[w]).id = work[w].id
          /\ Collected(work[w], hashOut[w]).data = work[w].data
      BY DEF FailedBlock, Collected, TypeOK, WorkerType, Block
    <3>2. work'[w] \in {work[w], FailedBlock(work[w]), Collected(work[w], hashOut[w])}
      BY <1>7 DEF WorkerFormat, WorkerCollect, TypeOK, WorkerType
    <3> QED  BY <3>1, <3>2
  <2>3. BlockInv(work'[w])
    BY <2>1, <2>2 DEF BlockInv
  <2>4. \A v \in Workers \ {w} : work'[v] = work[v] /\ wpc'[v] = wpc[v]
    BY <1>7 DEF WorkerFormat, WorkerCollect, TypeOK, WorkerType
  <2>5. \A v \in Workers : wpc'[v] \in {"format", "collect", "send"} => BlockInv(work'[v])
    BY <2>3, <2>4 DEF FlightInv
  <2> QED  BY <1>2, <1>3, <1>4, <1>7, <2>5 DEF WorkerFormat, WorkerCollect, FlightInv
<1>8. CASE WorkerSend(w)
  <2>1. BlockInv(work[w]) /\ work[w] \in Block
    BY <1>8 DEF WorkerSend, FlightInv, TypeOK, WorkerType
  <2>2. \A i \in 1 .. Len(resultCh') : BlockInv(resultCh'[i])
    BY <1>8, <2>1 DEF WorkerSend, FlightInv, TypeOK, ChannelType
  <2>3. \A v \in Workers : wpc'[v] \in {"format", "collect", "send"} => BlockInv(work'[v])
    BY <1>8 DEF WorkerSend, FlightInv, TypeOK, WorkerType
  <2> QED  BY <1>2, <1>3, <1>4, <1>8, <2>2, <2>3 DEF WorkerSend, FlightInv
<1>9. CASE HashBlock(w)
  BY <1>2, <1>3, <1>4, <1>9 DEF HashBlock, FlightInv
<1> QED  BY <1>5, <1>6, <1>7, <1>8, <1>9 DEF BlockWorker

\* runWriter writes a block only when its turn has come.
LEMMA WriterOrder ==
  ASSUME TypeOK, ControlInv, OrderInv, RunWriter
  PROVE  OrderInv'
<1> USE DEF OrderInv
<1>1. UNCHANGED <<callVars, appendVars, closeVars, workCh, workState, workerVars>>
  BY DEF RunWriter, WriterRecv, WriterWrite, WriterDrain, WriterExit
<1>2. Pipelined /\ rpc # "done"
  BY DEF RunWriter, WriterRecv, WriterWrite, WriterDrain, WriterExit, ControlInv
<1>3. BufferInv' /\ OutInv'
  BY <1>1, <1>2 DEF BufferInv, OutInv
<1>4. ASSUME NEW b, BlockInv(b) PROVE BlockInv(b)'
  BY <1>1, <1>4 DEF BlockInv
<1>5. /\ \A i \in 1 .. Len(workCh') : BlockInv(workCh[i])'
      /\ \A w \in Workers : wpc'[w] \in {"format", "collect", "send"} => BlockInv(work[w])'
  BY <1>1, <1>4 DEF FlightInv
<1>6. ASSUME resultCh # <<>>, resultCh' = Tail(resultCh)
      PROVE  BlockInv(Head(resultCh)) /\ \A i \in 1 .. Len(resultCh') : BlockInv(resultCh'[i])
  <2>1. /\ Len(Tail(resultCh)) = Len(resultCh) - 1
        /\ \A i \in 1 .. Len(Tail(resultCh)) : Tail(resultCh)[i] = resultCh[i + 1]
    BY <1>6, HeadTailProperties DEF TypeOK, ChannelType
  <2> QED  BY <1>6, <2>1 DEF FlightInv, TypeOK, ChannelType
<1>7. CASE WriterRecv
  <2>1. \A b \in pending' : BlockInv(b)
    BY <1>6, <1>7 DEF WriterRecv, FlightInv
  <2>2. /\ PrefixInOrder' /\ (Pipelined => Len(file) <= total)' /\ PositionInv'
    BY <1>7 DEF WriterRecv, PrefixInOrder, PositionInv
  <2>3. FlightInv'
    BY <1>4, <1>5, <1>6, <1>7, <2>1 DEF WriterRecv, FlightInv
  <2> QED  BY <1>3, <2>2, <2>3
<1>8. CASE WriterWrite
  <2> PICK b \in Due(pending, nextWrite) :
        /\ pending' = pending \ {b}
        /\ \/ WriteBlockOK(b.data) /\ nextWrite' = nextWrite + 1
           \/ WriteBlockFails(b.data) /\ nextWrite' = nextWrite /\ rpc' = "drain"
    BY <1>8 DEF WriterWrite
  <2>1. b \in Block /\ b \in pending /\ b.id = nextWrite /\ BlockInv(b)
    BY DEF Due, FlightInv, TypeOK, ChannelType
  <2>2. /\ b.data \in Seq(Nat) /\ Len(b.data) \in Nat /\ Len(file) \in Nat /\ total \in Nat
        /\ nextWrite \in Nat /\ nextBlockID \in Nat /\ Base(nextWrite) \in Nat
        /\ Base(nextWrite + 1) = Base(nextWrite) + ItemsPerRecord
    <3>1. nextWrite \in Nat /\ nextBlockID \in Nat /\ file \in Seq(Nat) /\ total \in Nat
      BY DEF TypeOK, ChannelType, FileType, CallerType
    <3>2. b.data \in Seq(Nat)
      BY <2>1 DEF Block
    <3>3. Base(nextWrite) \in Nat /\ Base(nextWrite + 1) = Base(nextWrite) + ItemsPerRecord
      BY <3>1, BaseStep
    <3>4. Len(b.data) \in Nat /\ Len(file) \in Nat
      BY <3>1, <3>2
    <3> QED  BY <3>1, <3>2, <3>3, <3>4
  <2>3. Len(file) = Base(nextWrite)
    BY <1>2, <1>8, <2>1, <2>2 DEF WriterWrite, PositionInv, BlockInv
  <2>4. /\ Consecutive(file', 0)
        /\ Len(file') <= Len(file) + Len(b.data)
        /\ WriteBlockOK(b.data) => Len(file') = Len(file) + Len(b.data)
    BY <2>1, <2>2, <2>3, WriteInOrder DEF TypeOK, PrefixInOrder, BlockInv
  <2>5. Len(file') \in Nat
    BY <1>8, WriterStepType DEF RunWriter, TypeOK, FileType
  <2>6. PrefixInOrder' /\ (Pipelined => Len(file) <= total)'
    BY <1>1, <2>1, <2>2, <2>3, <2>4, <2>5 DEF PrefixInOrder, BlockInv
  <2>7. PositionInv'
    BY <1>1, <2>1, <2>2, <2>3, <2>4, <2>5 DEF PositionInv, BlockInv
  <2>8. FlightInv'
    BY <1>4, <1>5, <1>8 DEF WriterWrite, FlightInv
  <2> QED  BY <1>3, <2>6, <2>7, <2>8
<1>9. CASE WriterDrain \/ WriterExit
  <2>1. /\ PrefixInOrder' /\ (Pipelined => Len(file) <= total)' /\ PositionInv'
    BY <1>9 DEF WriterDrain, WriterExit, PrefixInOrder, PositionInv
  <2>2. FlightInv'
    BY <1>4, <1>5, <1>6, <1>9 DEF WriterDrain, WriterExit, FlightInv
  <2> QED  BY <1>3, <2>1, <2>2
<1> QED  BY <1>7, <1>8, <1>9 DEF RunWriter

LEMMA AdmittedState ==
  ASSUME ControlInv, Admitted
  PROVE  (Pipelined /\ workState = "open") \/ (~Pipelined /\ err = NoErr)
  BY DEF ControlInv, Admitted, ErrReads

\* A call that takes no item and neither sends nor writes.
LEMMA QuietOrder ==
  ASSUME TypeOK, OrderInv,
         UNCHANGED <<buf, total, nextBlockID, out, workCh, resultCh, workerVars,
                     rpc, pending, nextWrite, file>>,
         workState' = "open" => workState = "open",
         pc' \notin {"appendSend", "finishSend"},
         pc' = "idle" /\ workState' = "open" => pc = "idle",
         pc' = "idle" /\ ~closed' /\ err' = NoErr => pc = "idle" /\ ~closed /\ err = NoErr
  PROVE  OrderInv'
<1> USE DEF OrderInv
<1>1. Advances
  BY DEF Advances, TypeOK, CallerType
<1>2. FlightInv'
  BY <1>1, FlightStable
<1>3. PrefixInOrder' /\ (Pipelined => Len(file) <= total)'
  BY DEF PrefixInOrder
<1>4. BufferInv' /\ OutInv' /\ PositionInv'
  BY DEF BufferInv, OutInv, PositionInv
<1> QED  BY <1>2, <1>3, <1>4

\* FlushPipelined hands the accumulated items over, as the next block.
LEMMA FlushOrder ==
  ASSUME TypeOK, OrderInv, Pipelined, NEW items \in Seq(Nat),
         FlushPipelined(items), Consecutive(items, Base(nextBlockID)),
         \/ /\ pc' = "appendSend" /\ Len(items) = ItemsPerRecord
            /\ total + 1 = Base(nextBlockID) + Len(items)
         \/ pc' = "finishSend" /\ total = Base(nextBlockID) + Len(items)
  PROVE  OrderInv'
<1> USE DEF OrderInv
<1>1. Advances
  BY DEF Advances, FlushPipelined, TypeOK, CallerType
<1>2. FlightInv'
  BY <1>1, FlightStable DEF FlushPipelined
<1>3. PrefixInOrder' /\ (Pipelined => Len(file) <= total)' /\ BufferInv' /\ PositionInv'
  BY DEF FlushPipelined, PrefixInOrder, BufferInv, PositionInv
<1>4. out'.id = nextBlockID /\ out'.data = items
  BY DEF FlushPipelined, NewBlock
<1>5. OutInv'
  BY <1>4 DEF FlushPipelined, OutInv
<1> QED  BY <1>2, <1>3, <1>5

LEMMA AppendOrder ==
  ASSUME TypeOK, ControlInv, OrderInv,
         AppendBuffered \/ AppendSerial \/ AppendPipelined
  PROVE  OrderInv'
<1> USE DEF OrderInv
<1>1. /\ buf \in Seq(Nat) /\ total \in Nat /\ file \in Seq(Nat) /\ nextBlockID \in Nat
      /\ Base(nextBlockID) \in Nat
  BY BaseStep DEF TypeOK, CallerType, FileType
<1>2. Append(buf, total + 1) \in Seq(Nat) /\ Len(Append(buf, total + 1)) = Len(buf) + 1
  BY <1>1
<1>3. pc = "idle" /\ ~closed
  BY DEF AppendBuffered, AppendSerial, AppendPipelined, Admitted
<1>4. (Pipelined /\ workState = "open") \/ (~Pipelined /\ err = NoErr)
  BY AdmittedState DEF AppendBuffered, AppendSerial, AppendPipelined
<1>5. /\ Pipelined => /\ Consecutive(Append(buf, total + 1), Base(nextBlockID))
                      /\ total = Base(nextBlockID) + Len(buf)
      /\ ~Pipelined => /\ Consecutive(Append(buf, total + 1), Len(file))
                       /\ total = Len(file) + Len(buf)
  BY <1>1, <1>3, <1>4, ConsecutiveAppend DEF BufferInv
<1>6. CASE AppendBuffered
  <2>1. Advances
    BY <1>1, <1>6 DEF AppendBuffered, Advances
  <2>2. FlightInv'
    BY <1>6, <2>1, FlightStable DEF AppendBuffered
  <2>3. PrefixInOrder' /\ (Pipelined => Len(file) <= total)'
    BY <1>1, <1>6 DEF AppendBuffered, PrefixInOrder
  <2>4. BufferInv'
    <3>1. buf' = Append(buf, total + 1) /\ total' = total + 1
          /\ UNCHANGED <<file, nextBlockID>>
      BY <1>6 DEF AppendBuffered
    <3>2. Len(buf') = Len(buf) + 1 /\ Len(buf) \in Nat /\ Len(file) \in Nat
      BY <1>1, <1>2, <3>1
    <3>3. Base(nextBlockID)' = Base(nextBlockID)
      BY <3>1 DEF Base
    <3>4. CASE Pipelined
      <4>1. Consecutive(buf', Base(nextBlockID)) /\ total = Base(nextBlockID) + Len(buf)
        BY <1>5, <3>1, <3>4
      <4>2. total' = Base(nextBlockID) + Len(buf')
        BY <1>1, <3>1, <3>2, <4>1
      <4> QED  BY <3>3, <3>4, <4>1, <4>2 DEF BufferInv, Consecutive
    <3>5. CASE ~Pipelined
      <4>1. Consecutive(buf', Len(file)) /\ total = Len(file) + Len(buf)
        BY <1>5, <3>1, <3>5
      <4>2. total' = Len(file) + Len(buf')
        BY <1>1, <3>1, <3>2, <4>1
      <4> QED  BY <3>1, <3>5, <4>1, <4>2 DEF BufferInv, Consecutive
    <3> QED  BY <3>4, <3>5
  <2>5. OutInv' /\ PositionInv'
    BY <1>6 DEF AppendBuffered, Return, OutInv, PositionInv
  <2> QED  BY <2>2, <2>3, <2>4, <2>5
<1>7. CASE AppendSerial
  <2>1. total' \in {total, total + 1} /\ pc' = "idle" /\ buf' = <<>> /\ ~Pipelined
    BY <1>7 DEF AppendSerial, Return
  <2>2. Advances
    BY <1>1, <1>7, <2>1 DEF AppendSerial, Advances
  <2>3. FlightInv'
    BY <1>7, <2>2, FlightStable DEF AppendSerial
  <2>4. \/ /\ WriteBlockOK(Append(buf, total + 1)) /\ total' = total + 1
        \/ /\ err' # NoErr
           /\ WriteBlockFails(Append(buf, total + 1)) \/ file' = file
           /\ total' = total
    BY <1>7 DEF AppendSerial, FlushSerialOK, FlushSerialFails, WriteBlockFails, NoErr
  <2>5. /\ Consecutive(file', 0)
        /\ Len(file') <= total + 1
        /\ total' = total + 1 => Len(file') = total + 1 \/ err' # NoErr
    <3>1. CASE file' = file /\ total' = total
      BY <1>1, <3>1 DEF PrefixInOrder
    <3>2. CASE WriteBlockOK(Append(buf, total + 1)) \/ WriteBlockFails(Append(buf, total + 1))
      <4>1. /\ Consecutive(file', 0)
            /\ Len(file') <= Len(file) + Len(Append(buf, total + 1))
            /\ WriteBlockOK(Append(buf, total + 1)) =>
                  Len(file') = Len(file) + Len(Append(buf, total + 1))
        BY <1>2, <1>5, <2>1, <3>2, WriteInOrder DEF TypeOK, PrefixInOrder
      <4> QED  BY <1>1, <1>2, <1>5, <2>1, <2>4, <4>1
    <3> QED  BY <2>4, <3>1, <3>2
  <2>6. Len(file') \in Nat
    BY <1>7, AppendType DEF TypeOK, FileType
  <2>7. PrefixInOrder' /\ (Pipelined => Len(file) <= total)'
    BY <1>1, <2>1, <2>5, <2>6 DEF PrefixInOrder
  <2>8. BufferInv'
    BY <1>1, <2>1, <2>4, <2>5, <2>6, ConsecutiveEmpty DEF BufferInv
  <2>9. OutInv' /\ PositionInv'
    BY <2>1 DEF OutInv, PositionInv
  <2> QED  BY <2>3, <2>7, <2>8, <2>9
<1>8. CASE AppendPipelined
  <2>1. /\ Pipelined /\ pc' = "appendSend" /\ Len(buf) + 1 = ItemsPerRecord
        /\ FlushPipelined(Append(buf, total + 1))
    BY <1>8 DEF AppendPipelined
  <2>2. total + 1 = Base(nextBlockID) + Len(Append(buf, total + 1))
    BY <1>1, <1>2, <1>5, <2>1
  <2> QED  BY <1>2, <1>5, <2>1, <2>2, FlushOrder
<1> QED  BY <1>6, <1>7, <1>8

\* A sent block is in flight, and the next one is due.
LEMMA SendOrder ==
  ASSUME TypeOK, ControlInv, OrderInv, AppendSend \/ FinishSend
  PROVE  OrderInv'
<1> USE DEF OrderInv
<1>1. /\ total \in Nat /\ nextBlockID \in Nat /\ Base(nextBlockID) \in Nat
      /\ Base(nextBlockID + 1) = Base(nextBlockID) + ItemsPerRecord
      /\ out \in Block /\ Len(out.data) \in Nat
  <2>1. nextBlockID \in Nat /\ total \in Nat /\ out \in Block
    BY DEF TypeOK, CallerType
  <2>2. Base(nextBlockID) \in Nat /\ Base(nextBlockID + 1) = Base(nextBlockID) + ItemsPerRecord
    BY <2>1, BaseStep
  <2> QED  BY <2>1, <2>2 DEF Block
<1>2. /\ nextBlockID' = nextBlockID + 1 /\ workCh' = Append(workCh, out)
      /\ workState = "open" /\ total' \in {total, total + 1}
      /\ UNCHANGED <<buf, err, closeVars, resultCh, workerVars, writerVars, fileVars>>
  BY DEF AppendSend, FinishSend, SendBlock
<1>3. Pipelined
  BY <1>2 DEF ControlInv
<1>4. Advances
  BY <1>1, <1>2 DEF AppendSend, FinishSend, Advances, CloseWorkCh
<1>5. ASSUME NEW b, b = out PROVE BlockInv(b)'
  <2>1. /\ b.id = nextBlockID /\ Consecutive(b.data, Base(nextBlockID))
        /\ Base(nextBlockID) + Len(b.data) <= total'
        /\ Len(b.data) = ItemsPerRecord \/ workState' # "open"
    BY <1>1, <1>2, <1>5 DEF AppendSend, FinishSend, OutInv, CloseWorkCh
  <2> QED  BY <1>1, <1>2, <2>1 DEF BlockInv
<1>6. \A i \in 1 .. Len(workCh') : BlockInv(workCh[i])'
  <2> SUFFICES ASSUME NEW i \in 1 .. Len(workCh') PROVE BlockInv(workCh[i])'
    OBVIOUS
  <2>1. CASE i \in 1 .. Len(workCh)
    <3>1. workCh'[i] = workCh[i] /\ workCh[i] \in Block /\ BlockInv(workCh[i])
      BY <1>1, <1>2, <2>1 DEF FlightInv, TypeOK, ChannelType
    <3> QED  BY <1>4, <3>1, BlockStable
  <2>2. CASE i = Len(workCh) + 1
    <3>1. workCh'[i] = out
      BY <1>1, <1>2, <2>2 DEF TypeOK, ChannelType
    <3> QED  BY <1>5, <3>1
  <2> QED  BY <1>1, <1>2, <2>1, <2>2 DEF TypeOK, ChannelType
<1>7. FlightInv'
  <2>1. ASSUME NEW b \in Block, BlockInv(b) PROVE BlockInv(b)'
    BY <1>4, <2>1, BlockStable
  <2> QED  BY <1>2, <1>6, <2>1 DEF FlightInv, TypeOK, WorkerType, ChannelType
<1>8. PrefixInOrder' /\ (Pipelined => Len(file) <= total)'
  BY <1>1, <1>2, <1>3 DEF PrefixInOrder, TypeOK, FileType
<1>9. PositionInv'
  BY <1>1, <1>2 DEF PositionInv
<1>10. OutInv'
  BY DEF OutInv, AppendSend, FinishSend, Return
<1>11. BufferInv'
  <2>1. CASE AppendSend
    <3>1. /\ buf' = <<>> /\ total' = total + 1
          /\ total + 1 = Base(nextBlockID) + Len(out.data) /\ Len(out.data) = ItemsPerRecord
      BY <2>1 DEF AppendSend, OutInv
    <3>2. total' = Base(nextBlockID') + Len(buf')
      BY <1>1, <1>2, <3>1
    <3> QED  BY <1>3, <3>1, <3>2, ConsecutiveEmpty DEF BufferInv
  <2>2. CASE FinishSend
    BY <1>3, <2>2 DEF FinishSend, BufferInv
  <2> QED  BY <2>1, <2>2
<1> QED  BY <1>7, <1>8, <1>9, <1>10, <1>11

LEMMA FinishOrder ==
  ASSUME TypeOK, ControlInv, OrderInv, FinishSerial \/ FinishFlush
  PROVE  OrderInv'
<1> USE DEF OrderInv
<1>1. /\ buf \in Seq(Nat) /\ total \in Nat /\ file \in Seq(Nat) /\ nextBlockID \in Nat
      /\ pc = "idle" /\ ~closed
  BY DEF TypeOK, CallerType, FileType, FinishSerial, FinishFlush, Admitted
<1>2. (Pipelined /\ workState = "open") \/ (~Pipelined /\ err = NoErr)
  BY AdmittedState DEF FinishSerial, FinishFlush
<1>3. CASE FinishSerial
  <2>1. /\ ~Pipelined /\ buf' = <<>> /\ total' = total
        /\ UNCHANGED <<nextBlockID, workState, closed, out>>
    BY <1>3 DEF FinishSerial
  <2>2. FlightInv'
    <3>1. Advances
      BY <1>1, <2>1 DEF Advances
    <3> QED  BY <1>3, <3>1, FlightStable DEF FinishSerial
  <2>3. Consecutive(buf, Len(file)) /\ total = Len(file) + Len(buf)
    BY <1>1, <1>2, <2>1 DEF BufferInv
  <2>4. /\ WriteBlockOK(buf) \/ WriteBlockFails(buf) \/ file' = file
        /\ pc' = "seal" \/ (pc' = "idle" /\ err' # NoErr)
    BY <1>3 DEF FinishSerial, FlushSerialOK, FlushSerialFails, WriteBlockFails, Return, NoErr
  <2>5. Consecutive(file', 0) /\ Len(file') <= total
    <3>1. CASE file' = file
      BY <1>1, <2>3, <3>1 DEF PrefixInOrder
    <3>2. CASE WriteBlockOK(buf) \/ WriteBlockFails(buf)
      BY <1>1, <2>3, <3>2, WriteInOrder DEF TypeOK, PrefixInOrder
    <3> QED  BY <2>4, <3>1, <3>2
  <2>6. Len(file') \in Nat
    BY <1>3, FinishType DEF TypeOK, FileType
  <2>7. PrefixInOrder' /\ (Pipelined => Len(file) <= total)'
    BY <1>1, <2>1, <2>5, <2>6 DEF PrefixInOrder
  <2>8. BufferInv' /\ OutInv' /\ PositionInv'
    BY <2>1, <2>4 DEF BufferInv, OutInv, PositionInv
  <2> QED  BY <2>2, <2>7, <2>8
<1>4. CASE FinishFlush
  <2>1. Pipelined /\ FlushPipelined(buf) /\ pc' = "finishSend"
    BY <1>4 DEF FinishFlush
  <2>2. Consecutive(buf, Base(nextBlockID)) /\ total = Base(nextBlockID) + Len(buf)
    BY <1>1, <1>2, <2>1 DEF BufferInv
  <2> QED  BY <1>1, <2>1, <2>2, FlushOrder
<1> QED  BY <1>3, <1>4

\* The calls and call steps that only wait, close, seal or refuse.
LEMMA OtherCallOrder ==
  ASSUME TypeOK, ControlInv, OrderInv,
         \/ Refuse \/ CloseAgain \/ CloseBegin \/ FinishDrain
         \/ FinishJoin \/ SealFails \/ FileClose \/ CloseJoin \/ CloseFile
         \/ Seal \/ WriteIndex \/ WriteAppData \/ WriteTrailer \/ Sync
  PROVE  OrderInv'
<1> USE QuietOrder DEF Return
<1>1. CASE Refuse \/ CloseAgain
  BY <1>1 DEF Refuse, CloseAgain
<1>2. CASE CloseBegin \/ FinishDrain
  BY <1>2 DEF CloseBegin, FinishDrain, CloseWorkCh
<1>3. CASE FinishJoin
  BY <1>3 DEF FinishJoin, ForgetWorkCh
<1>4. CASE SealFails
  BY <1>4 DEF SealFails, ControlInv, Sealing, NoErr
<1>5. CASE FileClose
  BY <1>5 DEF FileClose, ControlInv, Sealing
<1>6. CASE CloseJoin \/ CloseFile
  BY <1>6 DEF CloseJoin, CloseFile, ControlInv
<1>7. CASE Seal
  BY <1>7 DEF Seal, ControlInv, Sealing, NoErr
<1>8. CASE WriteIndex \/ WriteAppData \/ WriteTrailer \/ Sync
  BY <1>8 DEF WriteIndex, WriteAppData, WriteTrailer, Sync, FileOp
<1> QED  BY <1>1, <1>2, <1>3, <1>4, <1>5, <1>6, <1>7, <1>8

LEMMA OrderStep ==
  ASSUME TypeOK, ControlInv, OrderInv, [Next]_vars
  PROVE  OrderInv'
<1>1. CASE Call
  BY <1>1, AppendOrder, FinishOrder, OtherCallOrder DEF Call
<1>2. CASE CallStep
  BY <1>2, SendOrder, OtherCallOrder DEF CallStep
<1>3. CASE \E w \in Workers : BlockWorker(w) \/ HashBlock(w)
  BY <1>3, WorkerOrder
<1>4. CASE RunWriter
  BY <1>4, WriterOrder
<1>5. CASE UNCHANGED vars
  <2>1. Advances
    BY <1>5 DEF Advances, TypeOK, CallerType
  <2>2. FlightInv'
    BY <1>5, <2>1, FlightStable DEF OrderInv
  <2> QED  BY <1>5, <2>2 DEF OrderInv, PrefixInOrder, BufferInv, OutInv, PositionInv
<1> QED  BY <1>1, <1>2, <1>3, <1>4, <1>5 DEF Next

LEMMA InitOrder == Init => OrderInv
<1> SUFFICES ASSUME Init PROVE OrderInv
  OBVIOUS
<1>1. PrefixInOrder /\ (Pipelined => Len(file) <= total) /\ BufferInv /\ PositionInv
  BY ConsecutiveEmpty, BaseZero DEF Init, PrefixInOrder, BufferInv, PositionInv
<1>2. OutInv /\ FlightInv
  BY DEF Init, OutInv, FlightInv
<1> QED  BY <1>1, <1>2 DEF OrderInv

\* The record area is a prefix of the accepted items, in order, in every state of
\* every writer, however many workers finish in whatever order and whatever fails.
THEOREM WrittenInOrder == Spec => []PrefixInOrder
<1>1. Init => TypeOK /\ ControlInv /\ OrderInv
  BY InitType, InitControl, InitOrder
<1>2. TypeOK /\ ControlInv /\ OrderInv /\ [Next]_vars => ControlInv' /\ OrderInv'
  BY ControlStep, OrderStep
<1>3. OrderInv => PrefixInOrder
  BY DEF OrderInv
<1> QED  BY <1>1, <1>2, <1>3, TypeCorrect, PTL DEF Spec

-----------------------------------------------------------------------------
(***************************************************************************)
(* How a writer ends.                                                       *)
(***************************************************************************)
Closing == {"closeJoin", "closeFile"}

Sending == {"appendSend", "finishSend"}

\* How closed, fileClosed and exists go together at each point of a call.
EndInv ==
    /\ fileClosed => closed /\ exists /\ pc = "idle"
    /\ ~exists => closed /\ pc = "idle"
    /\ closed => pc \in Closing \cup {"idle"}
    /\ pc \in Closing => closed
    /\ FinalFate

\* No Finish can complete the file any more: the writer is closed, or its error is
\* where the next Finish must find it, in w.err or in writerDone.
Doomed ==
    /\ ~fileClosed /\ pc \notin Sealing
    /\ closed \/ (err # NoErr /\ (workState = "nil" \/ doneMsg # NoErr))

\* runWriter stores w.err only together with a message in writerDone, which is gone
\* only when the caller has taken it over, or has closed the writer.
ErrorInv ==
    /\ err # NoErr /\ ~closed => workState = "nil" \/ doneMsg # NoErr
    /\ pc \in Sealing => err = NoErr
    /\ ret = "err" => fileClosed \/ Doomed

\* runWriter writes no more once it has sent its message, been joined, or been closed.
Stopped == rpc \in {"drain", "done"}

StopInv == doneMsg # NoErr \/ workState = "nil" \/ pc = "closeFile" \/ ~exists \/ fileClosed => Stopped

\* No worker, nor runWriter, ever touches what the caller decides with.
LEMMA BehindCaller ==
  ASSUME NEW w \in Workers, BlockWorker(w) \/ HashBlock(w)
  PROVE  UNCHANGED <<callerVars, workState, writerVars, fileVars>>
  BY DEF BlockWorker, WorkerRecv, WorkerExit, WorkerFormat, WorkerCollect, WorkerSend, HashBlock

LEMMA BehindWriter ==
  ASSUME RunWriter
  PROVE  /\ UNCHANGED <<callVars, appendVars, closeVars, sealVars, workState, workCh, workerVars,
                        sizesVars>>
         /\ doneMsg' = doneMsg \/ doneMsg' # NoErr
         /\ err' = err \/ (err' # NoErr /\ doneMsg' # NoErr)
  BY DEF RunWriter, WriterRecv, WriterWrite, WriterDrain, WriterExit, WriteBlockFails, NoErr

LEMMA EndCall ==
  ASSUME ControlInv, EndInv, Call
  PROVE  EndInv'
<1> USE DEF EndInv, FinalFate, Closing, Return, Admitted
<1>1. CASE Refuse \/ CloseAgain
  BY <1>1 DEF Refuse, CloseAgain
<1>2. CASE AppendBuffered \/ AppendSerial \/ AppendPipelined
  BY <1>2 DEF AppendBuffered, AppendSerial, AppendPipelined, FlushPipelined
<1>3. CASE FinishSerial \/ FinishFlush \/ FinishDrain
  BY <1>3 DEF FinishSerial, FinishFlush, FinishDrain, FlushPipelined
<1>4. CASE CloseBegin
  BY <1>4 DEF CloseBegin
<1> QED  BY <1>1, <1>2, <1>3, <1>4 DEF Call

LEMMA EndCallStep ==
  ASSUME ControlInv, EndInv, CallStep
  PROVE  EndInv'
<1> USE DEF EndInv, FinalFate, Closing, Return, ControlInv, Sealing
<1>1. CASE AppendSend \/ FinishSend
  BY <1>1 DEF AppendSend, FinishSend
<1>2. CASE FinishJoin
  BY <1>2 DEF FinishJoin
<1>3. CASE Seal
  BY <1>3 DEF Seal
<1>4. CASE WriteIndex \/ WriteAppData \/ WriteTrailer \/ Sync
  BY <1>4 DEF WriteIndex, WriteAppData, WriteTrailer, Sync, FileOp
<1>5. CASE FileClose
  BY <1>5 DEF FileClose
<1>6. CASE SealFails
  BY <1>6 DEF SealFails
<1>7. CASE CloseJoin
  BY <1>7 DEF CloseJoin
<1>8. CASE CloseFile
  BY <1>8 DEF CloseFile
<1> QED  BY <1>1, <1>2, <1>3, <1>4, <1>5, <1>6, <1>7, <1>8 DEF CallStep

LEMMA EndStep ==
  ASSUME ControlInv, EndInv, [Next]_vars
  PROVE  EndInv'
<1>1. CASE \E w \in Workers : BlockWorker(w) \/ HashBlock(w)
  BY <1>1, BehindCaller DEF EndInv, FinalFate
<1>2. CASE RunWriter
  BY <1>2, BehindWriter DEF EndInv, FinalFate
<1>3. CASE UNCHANGED vars
  BY <1>3 DEF EndInv, FinalFate
<1> QED  BY <1>1, <1>2, <1>3, EndCall, EndCallStep DEF Next

LEMMA InitEnd == Init => EndInv
  BY DEF Init, EndInv, FinalFate, Closing

\* Between calls a closed writer has left a file exactly if Finish completed it
\* ("If Finish was not called, the incomplete file is removed"), whatever calls were
\* made before and however many of them failed.
THEOREM FateDecided == Spec => []FinalFate
<1>1. Init => TypeOK /\ ControlInv /\ EndInv
  BY InitType, InitControl, InitEnd
<1>2. TypeOK /\ ControlInv /\ EndInv /\ [Next]_vars => ControlInv' /\ EndInv'
  BY ControlStep, EndStep
<1>3. EndInv => FinalFate
  BY DEF EndInv
<1> QED  BY <1>1, <1>2, <1>3, TypeCorrect, PTL DEF Spec

-----------------------------------------------------------------------------
\* A writer that is doomed stays so.
LEMMA DoomedStays ==
  ASSUME ControlInv, Doomed, [Next]_vars
  PROVE  Doomed'
<1> USE DEF Doomed, Sealing, ControlInv, Return
<1>1. CASE Refuse \/ CloseAgain \/ CloseBegin
  BY <1>1 DEF Refuse, CloseAgain, CloseBegin, CloseWorkCh
<1>2. CASE AppendBuffered \/ AppendPipelined \/ FinishFlush
  BY <1>2 DEF AppendBuffered, AppendPipelined, FinishFlush, FlushPipelined, Admitted
<1>3. CASE AppendSerial \/ FinishSerial
  BY <1>3, AdmittedState DEF AppendSerial, FinishSerial, Admitted
<1>4. CASE FinishDrain
  <2>1. workState = "open"
    BY <1>4, AdmittedState DEF FinishDrain
  <2> QED  BY <1>4, <2>1 DEF FinishDrain, Admitted, CloseWorkCh
<1>5. CASE AppendSend \/ FinishSend
  BY <1>5 DEF AppendSend, FinishSend, SendBlock, CloseWorkCh
<1>6. CASE FinishJoin
  BY <1>6 DEF FinishJoin, ForgetWorkCh
<1>7. CASE Seal \/ WriteIndex \/ WriteAppData \/ WriteTrailer \/ Sync \/ FileClose \/ SealFails
  BY <1>7 DEF Seal, WriteIndex, WriteAppData, WriteTrailer, Sync, FileClose, SealFails, FileOp
<1>8. CASE CloseJoin \/ CloseFile
  BY <1>8 DEF CloseJoin, CloseFile
<1>9. CASE \E w \in Workers : BlockWorker(w) \/ HashBlock(w)
  BY <1>9, BehindCaller
<1>10. CASE RunWriter
  BY <1>10, BehindWriter
<1>11. CASE UNCHANGED vars
  BY <1>11
<1> QED  BY <1>1, <1>2, <1>3, <1>4, <1>5, <1>6, <1>7, <1>8, <1>9, <1>10, <1>11
         DEF Next, Call, CallStep

LEMMA StopStep ==
  ASSUME ControlInv, EndInv, StopInv, [Next]_vars
  PROVE  StopInv'
<1> USE DEF StopInv, Stopped
<1>1. CASE Call
  <2>1. /\ UNCHANGED <<doneMsg, rpc, exists, fileClosed>>
        /\ workState' = workState \/ workState' # "nil"
        /\ pc' # "closeFile" \/ workState = "nil"
    BY <1>1 DEF Call, Refuse, AppendBuffered, AppendSerial, AppendPipelined, FinishSerial,
                FinishFlush, FinishDrain, CloseAgain, CloseBegin, FlushPipelined, CloseWorkCh, Return
  <2> QED  BY <2>1
<1>2. CASE AppendSend \/ FinishSend
  BY <1>2 DEF AppendSend, FinishSend, SendBlock, CloseWorkCh, Return, ControlInv
<1>3. CASE FinishJoin
  BY <1>3 DEF FinishJoin, Return, WriterDone
<1>4. CASE Seal \/ WriteIndex \/ WriteAppData \/ WriteTrailer \/ Sync \/ FileClose \/ SealFails
  BY <1>4 DEF Seal, WriteIndex, WriteAppData, WriteTrailer, Sync, FileClose, SealFails, FileOp,
              Return, ControlInv, Sealing
<1>5. CASE CloseJoin
  BY <1>5 DEF CloseJoin, WriterDone
<1>6. CASE CloseFile
  BY <1>6 DEF CloseFile, Return
<1>7. CASE \E w \in Workers : BlockWorker(w) \/ HashBlock(w)
  BY <1>7, BehindCaller
<1>8. CASE RunWriter
  BY <1>8 DEF RunWriter, WriterRecv, WriterWrite, WriterDrain, WriterExit
<1>9. CASE UNCHANGED vars
  BY <1>9
<1> QED  BY <1>1, <1>2, <1>3, <1>4, <1>5, <1>6, <1>7, <1>8, <1>9 DEF Next, CallStep

\* An error is returned only by a writer that is doomed.
LEMMA ErrorStep ==
  ASSUME ControlInv, EndInv, StopInv, ErrorInv, [Next]_vars
  PROVE  ErrorInv'
<1> USE DEF ErrorInv, ControlInv, Sealing, Return
<1>0. /\ ~closed => ~fileClosed
      /\ Doomed => Doomed'
  BY DoomedStays DEF EndInv
<1> HIDE DEF ErrorInv, ControlInv
<1>1. CASE Refuse \/ CloseAgain \/ CloseBegin
  BY <1>0, <1>1 DEF Refuse, CloseAgain, CloseBegin, CloseWorkCh, ErrReads, ErrorInv, ControlInv,
                    Doomed
<1>2. CASE AppendBuffered \/ AppendPipelined \/ FinishFlush
  BY <1>0, <1>2 DEF AppendBuffered, AppendPipelined, FinishFlush, FlushPipelined, Admitted, ErrorInv
<1>3. CASE AppendSerial \/ FinishSerial
  <2>1. workState = "nil" /\ ~closed /\ ~fileClosed /\ err = NoErr
    BY <1>0, <1>3, AdmittedState DEF AppendSerial, FinishSerial, Admitted, ControlInv
  <2> QED  BY <1>0, <1>3, <2>1 DEF AppendSerial, FinishSerial, FlushSerialOK, FlushSerialFails,
                                   WriteBlockFails, ErrorInv, Doomed, NoErr
<1>4. CASE FinishDrain
  <2>1. workState = "open"
    BY <1>4, AdmittedState DEF FinishDrain
  <2> QED  BY <1>0, <1>4, <2>1 DEF FinishDrain, Admitted, CloseWorkCh, ErrorInv
<1>5. CASE AppendSend \/ FinishSend
  BY <1>0, <1>5 DEF AppendSend, FinishSend, SendBlock, CloseWorkCh, ErrorInv, ControlInv
<1>6. CASE FinishJoin
  BY <1>0, <1>6 DEF FinishJoin, ForgetWorkCh, ErrorInv, ControlInv, Doomed
<1>7. CASE Seal \/ SealFails
  BY <1>0, <1>7 DEF Seal, SealFails, ErrorInv, ControlInv, Doomed, NoErr
<1>8. CASE WriteIndex \/ WriteAppData \/ WriteTrailer \/ Sync \/ FileClose
  BY <1>0, <1>8 DEF WriteIndex, WriteAppData, WriteTrailer, Sync, FileClose, FileOp, ErrorInv,
                    ControlInv
<1>9. CASE CloseJoin \/ CloseFile
  BY <1>0, <1>9 DEF CloseJoin, CloseFile, ErrorInv, ControlInv, EndInv, Closing, Doomed
<1>10. CASE \E w \in Workers : BlockWorker(w) \/ HashBlock(w)
  BY <1>0, <1>10, BehindCaller DEF ErrorInv
<1>11. CASE RunWriter
  <2>1. pc \notin Sealing \/ UNCHANGED err
    BY <1>11 DEF RunWriter, WriterRecv, WriterWrite, WriterDrain, WriterExit, Sealing, ControlInv,
                 StopInv, Stopped
  <2> QED  BY <1>0, <1>11, <2>1, BehindWriter DEF ErrorInv
<1>12. CASE UNCHANGED vars
  BY <1>12 DEF ErrorInv, Doomed
<1> QED  BY <1>1, <1>2, <1>3, <1>4, <1>5, <1>6, <1>7, <1>8, <1>9, <1>10, <1>11, <1>12
         DEF Next, Call, CallStep

LEMMA InitError == Init => ErrorInv /\ StopInv
  BY DEF Init, ErrorInv, StopInv, Stopped, Sealing

\* An error is final: once a call on a writer whose file is not complete has returned
\* one, no later Finish completes the file, although the caller reads w.err with no
\* synchronisation and may miss what runWriter stored in it.
THEOREM ErrorsFinal == Spec => ErrorIsFinal
<1>1. Init => TypeOK /\ ControlInv /\ EndInv /\ ErrorInv /\ StopInv
  BY InitType, InitControl, InitEnd, InitError
<1>2. TypeOK /\ ControlInv /\ EndInv /\ ErrorInv /\ StopInv /\ [Next]_vars =>
          ControlInv' /\ EndInv' /\ ErrorInv' /\ StopInv'
  BY ControlStep, EndStep, ErrorStep, StopStep
<1>3. ErrorInv /\ ret = "err" /\ ~fileClosed => Doomed
  BY DEF ErrorInv
<1>4. ControlInv /\ Doomed /\ [Next]_vars => Doomed'
  BY DoomedStays
<1>5. Doomed => ~fileClosed
  BY DEF Doomed
<1> QED  BY <1>1, <1>2, <1>3, <1>4, <1>5, TypeCorrect, PTL DEF Spec, ErrorIsFinal

-----------------------------------------------------------------------------
(***************************************************************************)
(* The contents of a channel.                                               *)
(***************************************************************************)
Queued(ch) == {ch[i] : i \in 1 .. Len(ch)}

LEMMA QueuedAppend ==
  ASSUME NEW S, NEW ch \in Seq(S), NEW b \in S
  PROVE  /\ Queued(Append(ch, b)) = Queued(ch) \cup {b}
         /\ Len(Append(ch, b)) = Len(ch) + 1
         /\ \A i \in 1 .. Len(ch) : Append(ch, b)[i] = ch[i]
         /\ Append(ch, b)[Len(ch) + 1] = b
<1>1. /\ Len(Append(ch, b)) = Len(ch) + 1 /\ Len(ch) \in Nat
      /\ \A i \in 1 .. Len(ch) : Append(ch, b)[i] = ch[i]
      /\ Append(ch, b)[Len(ch) + 1] = b
  BY AppendProperties
<1>2. 1 .. Len(ch) + 1 = (1 .. Len(ch)) \cup {Len(ch) + 1}
  BY <1>1
<1> QED  BY <1>1, <1>2 DEF Queued

LEMMA QueuedTail ==
  ASSUME NEW S, NEW ch \in Seq(S), ch # <<>>
  PROVE  /\ Queued(ch) = {Head(ch)} \cup Queued(Tail(ch))
         /\ Head(ch) = ch[1] /\ 1 \in 1 .. Len(ch)
         /\ Len(Tail(ch)) = Len(ch) - 1
         /\ \A i \in 1 .. Len(Tail(ch)) : Tail(ch)[i] = ch[i + 1] /\ i + 1 \in 1 .. Len(ch)
<1>1. /\ Len(Tail(ch)) = Len(ch) - 1 /\ Len(ch) \in Nat \ {0}
      /\ \A i \in 1 .. Len(Tail(ch)) : Tail(ch)[i] = ch[i + 1] /\ i + 1 \in 1 .. Len(ch)
      /\ Head(ch) = ch[1]
  BY HeadTailProperties, EmptySeq
<1>2. \A i \in 1 .. Len(ch) : i = 1 \/ (i - 1 \in 1 .. Len(Tail(ch)) /\ ch[i] = Tail(ch)[i - 1])
  BY <1>1
<1>3. 1 \in 1 .. Len(ch)
  BY <1>1
<1>4. Queued(ch) \subseteq {Head(ch)} \cup Queued(Tail(ch))
  BY <1>1, <1>2 DEF Queued
<1>5. {Head(ch)} \cup Queued(Tail(ch)) \subseteq Queued(ch)
  BY <1>1, <1>3 DEF Queued
<1> QED  BY <1>1, <1>3, <1>4, <1>5

LEMMA QueuedEmpty == Queued(<<>>) = {}
  BY DEF Queued

-----------------------------------------------------------------------------
(***************************************************************************)
(* The invariant.                                                           *)
(***************************************************************************)
\* A block that nobody has hashed yet.
Fresh(b) ==
    /\ b.data # <<>>
    /\ ~b.framed /\ b.digest = <<>>
    /\ b.hashSizes # NoSlice <=> ContentHash

Hashed(b) == ContentHash /\ ~b.err => b.digest = b.data

Working == {"format", "collect"}

\* Who needs hashing is where, and a digest is that of the block it goes with.
DigestInv ==
    /\ IF pc \in Sending THEN Fresh(out) ELSE out = NoBlock
    /\ \A i \in 1 .. Len(workCh) : Fresh(workCh[i])
    /\ \A w \in Workers :
          /\ wpc[w] \in Working => Fresh(work[w])
          /\ wpc[w] \notin Working => work[w].hashSizes = NoSlice /\ hashOut[w] = <<>>
          /\ hashOut[w] # <<>> => ContentHash /\ hashOut[w] = work[w].data
          /\ wpc[w] = "send" => Hashed(work[w])
    /\ \A b \in Queued(resultCh) \cup pending : Hashed(b)

\* The hash goroutine of w has not read its slice yet, or not given it back.
Hashing(w) == wpc[w] \in Working /\ hashOut[w] = <<>>

\* The block has a slice out of the pool, and the slice holds its sizes.
Owns(b) == b.hashSizes \in Slices \ pool /\ sizes[b.hashSizes] = b.data

Apart(b, c) == b.hashSizes # c.hashSizes

\* Blocks that are not hashed yet have a slice each.
SliceInv ==
    ContentHash =>
        /\ pc \in Sending =>
              /\ Owns(out)
              /\ \A i \in 1 .. Len(workCh) : Apart(out, workCh[i])
              /\ \A w \in Workers : Hashing(w) => Apart(out, work[w])
        /\ \A i \in 1 .. Len(workCh) :
              /\ Owns(workCh[i])
              /\ \A j \in 1 .. Len(workCh) : i # j => Apart(workCh[i], workCh[j])
              /\ \A w \in Workers : Hashing(w) => Apart(workCh[i], work[w])
        /\ \A w \in Workers : Hashing(w) =>
              /\ Owns(work[w])
              /\ \A v \in Workers : Hashing(v) /\ v # w => Apart(work[w], work[v])

HashInv == DigestInv /\ SliceInv

LEMMA InitHash == Init => HashInv
<1> SUFFICES ASSUME Init PROVE HashInv
  OBVIOUS
<1>1. Queued(resultCh) = {} /\ pending = {}
  BY QueuedEmpty DEF Init
<1>2. DigestInv
  BY <1>1 DEF Init, DigestInv, Sending, Working, NoBlock, NewBlock
<1>3. SliceInv
  BY DEF Init, SliceInv, Sending, Working, Hashing
<1> QED  BY <1>2, <1>3 DEF HashInv

\* What leaves blocks, workers and slices alone, and sends nothing, keeps it.
LEMMA HashSame ==
  ASSUME HashInv, UNCHANGED <<out, workCh, resultCh, wpc, work, hashOut, pending, sizesVars>>,
         pc' \in Sending <=> pc \in Sending
  PROVE  HashInv'
<1>1. DigestInv'
  BY DEF HashInv, DigestInv, Fresh, Hashed
<1>2. SliceInv'
  BY DEF HashInv, SliceInv, Owns, Apart, Hashing
<1> QED  BY <1>1, <1>2 DEF HashInv

\* A slice of the pool is nobody's: filling it disturbs no one.
LEMMA HashFlush ==
  ASSUME TypeOK, HashInv, NEW items \in Seq(Nat), items # <<>>, FlushPipelined(items),
         pc \notin Sending, pc' \in Sending
  PROVE  HashInv'
<1>1. /\ UNCHANGED <<workCh, resultCh, workerVars, pending>>
      /\ pool \subseteq Slices /\ sizes \in [Slices -> Seq(Nat)]
  BY DEF FlushPipelined, TypeOK, WorkerType
<1>2. /\ out'.data = items /\ ~out'.framed /\ out'.digest = <<>>
      /\ out'.hashSizes = IF ContentHash THEN GetSizes ELSE NoSlice
  BY DEF FlushPipelined, NewBlock
<1>3. ContentHash => /\ GetSizes \in pool /\ GetSizes \in Slices /\ GetSizes # NoSlice
                     /\ pool' = pool \ {GetSizes}
                     /\ sizes' = [sizes EXCEPT ![GetSizes] = items]
  BY <1>1, GetSizesPooled, WriterAssumption DEF FlushPipelined
<1>4. DigestInv'
  BY <1>1, <1>2, <1>3 DEF HashInv, DigestInv, Fresh, Hashed
<1>5. ASSUME ContentHash PROVE SliceInv'
  <2>1. Owns(out)'
    BY <1>1, <1>2, <1>3, <1>5 DEF Owns
  <2>2. ASSUME NEW b, Owns(b) PROVE Owns(b)' /\ Apart(out', b)
    BY <1>1, <1>2, <1>3, <1>5, <2>2 DEF Owns, Apart
  <2>3. \A w \in Workers : Hashing(w)' <=> Hashing(w)
    BY <1>1 DEF Hashing
  <2> QED  BY <1>1, <1>5, <2>1, <2>2, <2>3 DEF HashInv, SliceInv, Apart
<1> QED  BY <1>4, <1>5 DEF HashInv, SliceInv

\* The block to send becomes the last of workCh.
LEMMA HashSend ==
  ASSUME TypeOK, HashInv, SendBlock, pc \in Sending, pc' \notin Sending,
         UNCHANGED <<resultCh, workerVars, pending, sizesVars>>
  PROVE  HashInv'
<1>1. /\ out' = NoBlock /\ workCh' = Append(workCh, out)
      /\ Len(workCh') = Len(workCh) + 1 /\ Len(workCh) \in Nat
      /\ \A i \in 1 .. Len(workCh) : workCh'[i] = workCh[i]
      /\ workCh'[Len(workCh) + 1] = out
  BY QueuedAppend DEF SendBlock, TypeOK, CallerType, ChannelType
<1>2. 1 .. Len(workCh') = (1 .. Len(workCh)) \cup {Len(workCh) + 1}
  BY <1>1
<1>3. DigestInv'
  BY <1>1, <1>2 DEF HashInv, DigestInv, Fresh, Hashed
<1>4. SliceInv'
  <2> SUFFICES ASSUME ContentHash PROVE SliceInv'
    BY DEF SliceInv
  <2>1. \A w \in Workers : Hashing(w)' <=> Hashing(w)
    BY DEF Hashing
  <2>2. \A b : Owns(b)' <=> Owns(b)
    BY DEF Owns
  <2> QED  BY <1>1, <1>2, <2>1, <2>2 DEF HashInv, SliceInv, Apart
<1> QED  BY <1>3, <1>4 DEF HashInv

\* A worker that takes the next block, with its slice, out of workCh.
LEMMA HashRecv ==
  ASSUME TypeOK, HashInv, NEW w \in Workers, WorkerRecv(w)
  PROVE  HashInv'
<1>1. /\ workCh # <<>> /\ workCh' = Tail(workCh) /\ wpc[w] = "recv"
      /\ work' = [work EXCEPT ![w] = workCh[1]] /\ wpc' = [wpc EXCEPT ![w] = "format"]
      /\ UNCHANGED <<pc, out, resultCh, pending, hashOut, sizesVars>>
      /\ work \in [Workers -> Block] /\ wpc \in [Workers -> {"recv", "format", "collect", "send", "exited"}]
      /\ workCh \in Seq(Block)
  BY QueuedTail DEF WorkerRecv, TypeOK, WorkerType, ChannelType
<1>2. /\ 1 \in 1 .. Len(workCh) /\ Len(workCh) \in Nat
      /\ Len(workCh') = Len(workCh) - 1
      /\ \A i \in 1 .. Len(workCh') : workCh'[i] = workCh[i + 1] /\ i + 1 \in 1 .. Len(workCh)
                                     /\ i + 1 # 1
  BY <1>1, QueuedTail
<1>3. DigestInv'
  <2>1. \A v \in Workers :
          /\ wpc'[v] \in Working => Fresh(work'[v])
          /\ wpc'[v] \notin Working => work'[v].hashSizes = NoSlice /\ hashOut'[v] = <<>>
          /\ hashOut'[v] # <<>> => ContentHash /\ hashOut'[v] = work'[v].data
          /\ wpc'[v] = "send" => Hashed(work'[v])
    BY <1>1, <1>2 DEF HashInv, DigestInv, Working
  <2>2. \A i \in 1 .. Len(workCh') : Fresh(workCh'[i])
    BY <1>1, <1>2 DEF HashInv, DigestInv
  <2> QED  BY <1>1, <2>1, <2>2 DEF HashInv, DigestInv, Fresh, Hashed
<1>4. SliceInv'
  <2> SUFFICES ASSUME ContentHash PROVE SliceInv'
    BY DEF SliceInv
  <2>1. \A v \in Workers : Hashing(v)' <=> Hashing(v) \/ v = w
    BY <1>1 DEF Hashing, HashInv, DigestInv, Working
  <2>2. \A v \in Workers : work'[v] = IF v = w THEN workCh[1] ELSE work[v]
    BY <1>1
  <2>3. \A b : Owns(b)' <=> Owns(b)
    BY <1>1 DEF Owns
  <2>4. ~Hashing(w)
    BY <1>1 DEF Hashing, Working
  <2>5. \A v \in Workers : Hashing(v)' =>
          /\ Owns(work'[v])
          /\ \A u \in Workers : Hashing(u)' /\ u # v => Apart(work'[v], work'[u])
    BY <1>2, <2>1, <2>2, <2>4 DEF HashInv, SliceInv, Apart
  <2>6. \A i \in 1 .. Len(workCh') :
          /\ Owns(workCh'[i])
          /\ \A j \in 1 .. Len(workCh') : i # j => Apart(workCh'[i], workCh'[j])
          /\ \A v \in Workers : Hashing(v)' => Apart(workCh'[i], work'[v])
    BY <1>2, <2>1, <2>2 DEF HashInv, SliceInv
  <2>7. pc \in Sending =>
          /\ Owns(out)
          /\ \A i \in 1 .. Len(workCh') : Apart(out, workCh'[i])
          /\ \A v \in Workers : Hashing(v)' => Apart(out, work'[v])
    BY <1>2, <2>1, <2>2 DEF HashInv, SliceInv
  <2> QED  BY <1>1, <2>3, <2>5, <2>6, <2>7 DEF SliceInv, Apart
<1> QED  BY <1>3, <1>4 DEF HashInv

\* A worker that leaves workCh and the pool alone, and holds no other slice than it did.
LEMMA HashAlong ==
  ASSUME TypeOK, HashInv, NEW w \in Workers,
         UNCHANGED <<pc, out, workCh, sizesVars, pending>>,
         \A v \in Workers \ {w} : wpc'[v] = wpc[v] /\ work'[v] = work[v] /\ hashOut'[v] = hashOut[v],
         Hashing(w)' => Hashing(w) /\ work'[w].hashSizes = work[w].hashSizes
                                  /\ work'[w].data = work[w].data,
         wpc'[w] \in Working => Fresh(work'[w]),
         wpc'[w] \notin Working => work'[w].hashSizes = NoSlice /\ hashOut'[w] = <<>>,
         hashOut'[w] # <<>> => ContentHash /\ hashOut'[w] = work'[w].data,
         wpc'[w] = "send" => Hashed(work'[w]),
         \A b \in Queued(resultCh') : Hashed(b)
  PROVE  HashInv'
<1>1. DigestInv'
  BY DEF HashInv, DigestInv, Fresh, Hashed
<1>2. SliceInv'
  <2> SUFFICES ASSUME ContentHash PROVE SliceInv'
    BY DEF SliceInv
  <2>1. \A v \in Workers : Hashing(v)' => /\ Hashing(v)
                                          /\ work'[v].hashSizes = work[v].hashSizes
                                          /\ work'[v].data = work[v].data
    BY DEF Hashing
  <2> QED  BY <2>1 DEF HashInv, SliceInv, Owns, Apart
<1> QED  BY <1>1, <1>2 DEF HashInv

\* The worker waits for the digest before it touches the block (blockWorker, phase 3).
LEMMA HashWork ==
  ASSUME TypeOK, HashInv, NEW w \in Workers,
         WorkerExit(w) \/ WorkerFormat(w) \/ WorkerCollect(w) \/ WorkerSend(w)
  PROVE  HashInv'
<1> USE DEF HashInv, DigestInv, Hashing, Working
<1>1. /\ UNCHANGED <<pc, out, workCh, sizesVars, pending>>
      /\ \A v \in Workers \ {w} : wpc'[v] = wpc[v] /\ work'[v] = work[v] /\ hashOut'[v] = hashOut[v]
      /\ \A b \in Queued(resultCh) : Hashed(b)
      /\ work \in [Workers -> Block] /\ hashOut \in [Workers -> Seq(Nat)]
      /\ wpc \in [Workers -> {"recv", "format", "collect", "send", "exited"}]
  BY DEF WorkerExit, WorkerFormat, WorkerCollect, WorkerSend, TypeOK, WorkerType
<1>2. CASE WorkerExit(w)
  BY <1>1, <1>2, HashAlong DEF WorkerExit
<1>3. CASE WorkerFormat(w)
  <2>1. /\ work'[w] \in {work[w], FailedBlock(work[w])} /\ wpc'[w] = "collect"
        /\ hashOut' = hashOut /\ resultCh' = resultCh /\ wpc[w] = "format" /\ Fresh(work[w])
    BY <1>1, <1>3 DEF WorkerFormat
  <2>2. /\ work'[w].hashSizes = work[w].hashSizes /\ work'[w].data = work[w].data
        /\ work'[w].framed = work[w].framed /\ work'[w].digest = work[w].digest
    BY <1>1, <2>1 DEF FailedBlock, Block
  <2>3. Fresh(work'[w])
    BY <2>1, <2>2 DEF Fresh
  <2> QED  BY <1>1, <2>1, <2>2, <2>3, HashAlong
<1>4. CASE WorkerCollect(w)
  <2>1. /\ work'[w] = Collected(work[w], hashOut[w]) /\ wpc'[w] = "send"
        /\ hashOut'[w] = <<>> /\ resultCh' = resultCh /\ wpc[w] = "collect" /\ Fresh(work[w])
    BY <1>1, <1>4 DEF WorkerCollect
  <2>2. ContentHash => hashOut[w] = work[w].data
    BY <1>4, <2>1 DEF WorkerCollect, HashDone, Fresh
  <2>3. /\ work'[w].hashSizes = NoSlice /\ work'[w].data = work[w].data
        /\ work'[w].err = work[w].err
        /\ ~work[w].err => work'[w].digest = hashOut[w]
    BY <1>1, <2>1 DEF Collected, Block
  <2> QED  BY <1>1, <2>1, <2>2, <2>3, HashAlong DEF Hashed
<1>5. CASE WorkerSend(w)
  <2>1. /\ work'[w] = NoBlock /\ wpc'[w] \in {"exited", "recv"} /\ wpc[w] = "send"
        /\ hashOut' = hashOut /\ resultCh' = Append(resultCh, work[w])
    BY <1>1, <1>5 DEF WorkerSend
  <2>2. Queued(resultCh') = Queued(resultCh) \cup {work[w]}
    BY <1>1, <2>1, QueuedAppend DEF TypeOK, ChannelType
  <2>3. work'[w].hashSizes = NoSlice
    BY <2>1 DEF NoBlock, NewBlock
  <2> QED  BY <1>1, <2>1, <2>2, <2>3, HashAlong
<1> QED  BY <1>2, <1>3, <1>4, <1>5

\* The hash goroutine finds the sizes of its own block, and gives the slice back.
LEMMA HashHash ==
  ASSUME TypeOK, HashInv, NEW w \in Workers, HashBlock(w)
  PROVE  HashInv'
<1>1. /\ wpc[w] \in Working /\ work[w].hashSizes # NoSlice /\ hashOut[w] = <<>>
      /\ UNCHANGED <<pc, out, workCh, resultCh, wpc, work, pending, sizes>>
      /\ pool' = pool \cup {work[w].hashSizes}
      /\ hashOut \in [Workers -> Seq(Nat)]
  BY DEF HashBlock, Working, TypeOK, WorkerType
<1>2. Fresh(work[w]) /\ ContentHash /\ Hashing(w)
  BY <1>1 DEF HashInv, DigestInv, Fresh, Hashing
<1>3. Owns(work[w])
  BY <1>2 DEF HashInv, SliceInv
<1>4. hashOut' = [hashOut EXCEPT ![w] = work[w].data] /\ work[w].data # <<>>
  BY <1>2, <1>3 DEF HashBlock, Fresh, Owns
<1>5. DigestInv'
  <2>1. \A v \in Workers : hashOut'[v] # <<>> => hashOut'[v] = work[v].data
    BY <1>1, <1>4 DEF HashInv, DigestInv
  <2>2. \A v \in Workers : wpc[v] \notin Working => v # w /\ hashOut'[v] = hashOut[v]
    BY <1>1, <1>4
  <2> QED  BY <1>1, <1>2, <2>1, <2>2 DEF HashInv, DigestInv, Fresh, Hashed
<1>6. SliceInv'
  <2>1. \A v \in Workers : Hashing(v)' => Hashing(v) /\ v # w
    BY <1>1, <1>4 DEF Hashing
  <2>2. ASSUME NEW b, Owns(b), Apart(b, work[w]) \/ Apart(work[w], b) PROVE Owns(b)'
    BY <1>1, <2>2 DEF Owns, Apart
  <2> QED  BY <1>1, <1>2, <2>1, <2>2 DEF HashInv, SliceInv, Apart
<1> QED  BY <1>5, <1>6 DEF HashInv

\* runWriter only takes blocks away that are hashed.
LEMMA HashWriter ==
  ASSUME TypeOK, HashInv, RunWriter
  PROVE  HashInv'
<1>1. UNCHANGED <<pc, out, workCh, workerVars, sizesVars>>
  BY BehindWriter
<1>2. Queued(resultCh') \cup pending' \subseteq Queued(resultCh) \cup pending
  <2>1. resultCh # <<>> => Queued(resultCh) = {Head(resultCh)} \cup Queued(Tail(resultCh))
    BY QueuedTail DEF TypeOK, ChannelType
  <2> QED  BY <2>1 DEF RunWriter, WriterRecv, WriterWrite, WriterDrain, WriterExit
<1>3. DigestInv'
  BY <1>1, <1>2 DEF HashInv, DigestInv, Fresh, Hashed
<1>4. SliceInv'
  BY <1>1 DEF HashInv, SliceInv, Owns, Apart, Hashing
<1> QED  BY <1>3, <1>4 DEF HashInv

LEMMA HashStep ==
  ASSUME TypeOK, HashInv, [Next]_vars
  PROVE  HashInv'
<1> USE DEF Sending, Return
<1>1. CASE AppendPipelined
  <2>1. Append(buf, total + 1) \in Seq(Nat) /\ Append(buf, total + 1) # <<>>
    <3>1. buf \in Seq(Nat) /\ total + 1 \in Nat
      BY DEF TypeOK, CallerType
    <3>2. Append(buf, total + 1) \in Seq(Nat) /\ Len(Append(buf, total + 1)) = Len(buf) + 1
      BY <3>1, AppendProperties
    <3>3. Len(buf) \in Nat
      BY <3>1
    <3> QED  BY <3>2, <3>3
  <2> QED  BY <1>1, <2>1, HashFlush DEF AppendPipelined, Admitted
<1>2. CASE FinishFlush
  BY <1>2, HashFlush DEF FinishFlush, Admitted, TypeOK, CallerType
<1>3. CASE AppendSend \/ FinishSend
  BY <1>3, HashSend DEF AppendSend, FinishSend
<1>4. CASE Refuse \/ AppendBuffered \/ AppendSerial \/ FinishSerial \/ FinishDrain
             \/ CloseAgain \/ CloseBegin
  <2>1. UNCHANGED <<out, workCh, resultCh, wpc, work, hashOut, pending, sizesVars>>
        /\ pc \notin Sending /\ pc' \notin Sending
    BY <1>4 DEF Refuse, AppendBuffered, AppendSerial, FinishSerial, FinishDrain, CloseAgain,
                CloseBegin, Admitted
  <2> QED  BY <2>1, HashSame
<1>5. CASE CallStep /\ ~(AppendSend \/ FinishSend)
  <2>1. UNCHANGED <<out, workCh, resultCh, wpc, work, hashOut, pending, sizesVars>>
        /\ pc \notin Sending /\ pc' \notin Sending
    BY <1>5 DEF CallStep, FinishJoin, Seal, WriteIndex, WriteAppData, WriteTrailer, Sync, FileClose,
                SealFails, CloseJoin, CloseFile, FileOp
  <2> QED  BY <2>1, HashSame
<1>6. CASE \E w \in Workers : BlockWorker(w) \/ HashBlock(w)
  BY <1>6, HashRecv, HashWork, HashHash DEF BlockWorker
<1>7. CASE RunWriter
  BY <1>7, HashWriter
<1>8. CASE UNCHANGED vars
  BY <1>8, HashSame
<1> QED  BY <1>1, <1>2, <1>3, <1>4, <1>5, <1>6, <1>7, <1>8 DEF Next, Call

-----------------------------------------------------------------------------
(***************************************************************************)
(* Counting the holders of the slices.                                      *)
(***************************************************************************)
\* As many values as places, where no two places have the same value.
LEMMA AsManyValues ==
  ASSUME NEW S, IsFiniteSet(S), NEW V, NEW f \in [S -> V],
         \A v \in V : \E x \in S : f[x] = v,
         \A x, y \in S : x # y => f[x] # f[y]
  PROVE  IsFiniteSet(V) /\ Cardinality(V) = Cardinality(S)
<1>1. f \in Bijection(S, V)
  BY DEF Bijection, Injection, Surjection, IsInjective
<1>2. ExistsBijection(S, V)
  BY <1>1 DEF ExistsBijection
<1> QED  BY <1>2, FS_Bijection

LEMMA OneHolder ==
  ASSUME TypeOK, HashInv
  PROVE  SlicesOwned
<1> DEFINE H == {w \in Workers : work[w].hashSizes # NoSlice /\ hashOut[w] = <<>>}
           I == {i \in 1 .. Len(workCh) : workCh[i].hashSizes # NoSlice}
           OfH == {work[w].hashSizes : w \in H}
           OfI == {workCh[i].hashSizes : i \in I}
           O == {out.hashSizes} \ {NoSlice}
           n == IF out.hashSizes = NoSlice THEN 0 ELSE 1
<1> USE DEF HashInv
<1>1. \A w \in H : Hashing(w) /\ ContentHash
  BY DEF DigestInv, Fresh, Hashing
<1>2. \A i \in I : ContentHash
  BY DEF DigestInv, Fresh
<1>3. out.hashSizes # NoSlice => pc \in Sending /\ ContentHash
  BY DEF DigestInv, Fresh, NoBlock, NewBlock
<1>4. OfH \cap pool = {} /\ OfI \cap pool = {} /\ O \cap pool = {}
  BY <1>1, <1>2, <1>3 DEF SliceInv, Owns
<1>5. OfH \cap OfI = {} /\ (OfH \cup OfI) \cap O = {}
  BY <1>1, <1>2, <1>3 DEF SliceInv, Apart
<1>6. IsFiniteSet(OfH) /\ Cardinality(OfH) = Cardinality(H) /\ Cardinality(H) \in Nat
  <2> DEFINE f == [w \in H |-> work[w].hashSizes]
  <2>1. IsFiniteSet(H)
    BY FS_Subset, WriterAssumption
  <2>2. \A w, v \in H : w # v => f[w] # f[v]
    BY <1>1 DEF SliceInv, Apart
  <2>3. f \in [H -> OfH] /\ \A v \in OfH : \E w \in H : f[w] = v
    OBVIOUS
  <2> HIDE DEF f, H, OfH
  <2>4. IsFiniteSet(OfH) /\ Cardinality(OfH) = Cardinality(H)
    BY <2>1, <2>2, <2>3, AsManyValues
  <2> QED  BY <2>1, <2>4, FS_CardinalityType
<1>7. IsFiniteSet(OfI) /\ Cardinality(OfI) = Cardinality(I) /\ Cardinality(I) \in Nat
  <2> DEFINE g == [i \in I |-> workCh[i].hashSizes]
  <2>1. IsFiniteSet(I)
    <3>1. Len(workCh) \in Nat
      BY LenProperties DEF TypeOK, ChannelType
    <3>2. IsFiniteSet(1 .. Len(workCh))
      BY <3>1, FS_Interval
    <3>3. I \in SUBSET (1 .. Len(workCh))
      OBVIOUS
    <3> HIDE DEF I
    <3> QED  BY <3>2, <3>3, FS_Subset
  <2>2. \A i, j \in I : i # j => g[i] # g[j]
    BY <1>2 DEF SliceInv, Apart
  <2>3. g \in [I -> OfI] /\ \A v \in OfI : \E i \in I : g[i] = v
    OBVIOUS
  <2> HIDE DEF g, I, OfI
  <2>4. IsFiniteSet(OfI) /\ Cardinality(OfI) = Cardinality(I)
    BY <2>1, <2>2, <2>3, AsManyValues
  <2> QED  BY <2>1, <2>4, FS_CardinalityType
<1>8. IsFiniteSet(O) /\ Cardinality(O) = n
  <2>1. CASE out.hashSizes = NoSlice
    <3>1. O = {} /\ n = 0
      BY <2>1
    <3> QED  BY <3>1, FS_EmptySet
  <2>2. CASE out.hashSizes # NoSlice
    <3>1. O = {out.hashSizes} /\ n = 1
      BY <2>2
    <3> QED  BY <3>1, FS_Singleton
  <2> QED  BY <2>1, <2>2
<1> HIDE DEF H, I, OfH, OfI, O, n
<1>9. /\ IsFiniteSet(OfH \cup OfI)
      /\ Cardinality(OfH \cup OfI) = Cardinality(H) + Cardinality(I)
  <2>1. Cardinality(OfH \cup OfI)
           = Cardinality(OfH) + Cardinality(OfI) - Cardinality(OfH \cap OfI)
    BY <1>6, <1>7, FS_Union
  <2>2. Cardinality(OfH \cap OfI) = 0
    BY <1>5, FS_EmptySet
  <2>3. IsFiniteSet(OfH \cup OfI)
    BY <1>6, <1>7, FS_Union
  <2> QED  BY <1>6, <1>7, <2>1, <2>2, <2>3
<1>10. Cardinality((OfH \cup OfI) \cup O) = Cardinality(H) + Cardinality(I) + n
  <2>1. Cardinality((OfH \cup OfI) \cup O)
           = Cardinality(OfH \cup OfI) + Cardinality(O) - Cardinality((OfH \cup OfI) \cap O)
    BY <1>8, <1>9, FS_Union
  <2>2. Cardinality((OfH \cup OfI) \cap O) = 0
    BY <1>5, FS_EmptySet
  <2>3. n \in Nat
    BY DEF n
  <2> QED  BY <1>6, <1>7, <1>8, <1>9, <2>1, <2>2, <2>3
<1>11. ((OfH \cup OfI) \cup O) \cap pool = {}
  BY <1>4
<1> QED  BY <1>10, <1>11 DEF SlicesOwned, H, I, OfH, OfI, O, n

\* No slice of sizesPool ever has two holders: the pool, the block being sent, a
\* block in workCh, or the worker whose hash goroutine has not given it back yet
\* (getSizes at the flush, putSizes in blockHasher).
THEOREM SlicesSeparate == Spec => []SlicesOwned
<1>1. Init => TypeOK /\ HashInv
  BY InitType, InitHash
<1>2. TypeOK /\ HashInv /\ [Next]_vars => HashInv'
  BY HashStep
<1>3. TypeOK /\ HashInv => SlicesOwned
  BY OneHolder
<1> QED  BY <1>1, <1>2, <1>3, TypeCorrect, PTL DEF Spec

-----------------------------------------------------------------------------
(***************************************************************************)
(* Records and the items they hold.                                         *)
(***************************************************************************)
LEMMA BaseOrder ==
  ASSUME NEW i \in Nat, NEW j \in Nat
  PROVE  /\ Base(i) \in Nat
         /\ i <= Base(i)
         /\ i < j => Base(i) + ItemsPerRecord <= Base(j)
         /\ i <= j => Base(i) <= Base(j)
<1>1. ItemsPerRecord \in Nat \ {0}
  BY WriterAssumption
<1>2. \A k \in Nat : k <= k * ItemsPerRecord /\ k * ItemsPerRecord \in Nat
  BY <1>1
<1>3. i < j => /\ j - i - 1 \in Nat
               /\ (j - i - 1) * ItemsPerRecord \in Nat
               /\ j * ItemsPerRecord = i * ItemsPerRecord + ItemsPerRecord
                                          + (j - i - 1) * ItemsPerRecord
  BY <1>1
<1> HIDE DEF Base
<1> QED  BY <1>1, <1>2, <1>3 DEF Base

\* The items of a record that ends with the file, or the record size is reached.
LEMMA RecordOf ==
  ASSUME NEW s \in Seq(Nat), NEW id \in Nat, NEW n \in Nat, Consecutive(s, Base(id)),
         Len(s) <= ItemsPerRecord, n = Base(id) + Len(s)
  PROVE  s = RecordItems(id, n)
<1>1. Base(id) \in Nat /\ Base(id + 1) = Base(id) + ItemsPerRecord /\ ItemsPerRecord \in Nat
  BY BaseStep, WriterAssumption
<1>2. Len(s) \in Nat /\ s = [i \in 1 .. Len(s) |-> s[i]]
  BY LenProperties
<1>3. RecordItems(id, n) = [i \in 1 .. Len(s) |-> Base(id) + i]
  BY <1>1, <1>2 DEF RecordItems
<1> QED  BY <1>2, <1>3 DEF Consecutive

\* A full record is the same in every file that reaches beyond it.
LEMMA FullRecord ==
  ASSUME NEW id \in Nat, NEW n \in Nat, NEW m \in Nat, Base(id + 1) <= n, Base(id + 1) <= m
  PROVE  RecordItems(id, n) = RecordItems(id, m)
<1>1. Base(id) \in Nat /\ Base(id + 1) \in Nat
  BY BaseStep
<1> QED  BY <1>1 DEF RecordItems

\* A run of items cut out of a file of consecutive ones.
LEMMA CutOut ==
  ASSUME NEW s \in Seq(Nat), Consecutive(s, 0), NEW a \in Nat, NEW b \in Nat,
         a <= b, b <= Len(s)
  PROVE  SubSeq(s, a + 1, b) = [i \in 1 .. b - a |-> a + i]
<1> DEFINE t == SubSeq(s, a + 1, b)
<1>1. \A i \in a + 1 .. b : s[i] \in Nat
  OBVIOUS
<1>2. /\ t \in Seq(Nat)
      /\ Len(t) = IF a + 1 <= b THEN b - (a + 1) + 1 ELSE 0
      /\ \A i \in 1 .. b - (a + 1) + 1 : t[i] = s[a + 1 + i - 1]
  <2>1. a + 1 \in Int /\ b \in Int
    OBVIOUS
  <2> QED  BY <1>1, <2>1, SubSeqProperties
<1> HIDE DEF t
<1>3. Len(t) = b - a
  BY <1>2
<1>4. \A i \in 1 .. b - a : t[i] = a + i
  <2> SUFFICES ASSUME NEW i \in 1 .. b - a PROVE t[i] = a + i
    OBVIOUS
  <2>1. i \in 1 .. b - (a + 1) + 1 /\ a + 1 + i - 1 = a + i /\ a + i \in 1 .. Len(s)
    OBVIOUS
  <2>2. t[i] = s[a + i]
    BY <1>2, <2>1
  <2> QED  BY <2>1, <2>2 DEF Consecutive
<1>5. t = [i \in 1 .. Len(t) |-> t[i]]
  BY <1>2
<1> QED  BY <1>3, <1>4, <1>5 DEF t

\* A record as the index locates it.
LEMMA RecordInFile ==
  ASSUME NEW s \in Seq(Nat), Consecutive(s, 0), NEW id \in Nat, Base(id) < Len(s)
  PROVE  SubSeq(s, Base(id) + 1, IF Base(id + 1) < Len(s) THEN Base(id + 1) ELSE Len(s))
            = RecordItems(id, Len(s))
<1> DEFINE last == IF Base(id + 1) < Len(s) THEN Base(id + 1) ELSE Len(s)
<1>1. /\ Base(id) \in Nat /\ Base(id + 1) \in Nat /\ Base(id) <= Base(id + 1)
  BY BaseOrder, BaseStep
<1>2. Len(s) \in Nat /\ last \in Nat /\ last <= Len(s) /\ Base(id) <= last
  BY <1>1
<1> HIDE DEF last
<1>3. SubSeq(s, Base(id) + 1, last) = [i \in 1 .. last - Base(id) |-> Base(id) + i]
  BY <1>1, <1>2, CutOut
<1> QED  BY <1>3 DEF RecordItems, last

-----------------------------------------------------------------------------
(***************************************************************************)
(* Nothing sent is lost on the way to runWriter.                            *)
(***************************************************************************)
Busy == Working \cup {"send"}

AtWorkers == {work[w] : w \in {v \in Workers : wpc[v] \in Busy}}

InFlight == Queued(workCh) \cup AtWorkers \cup Queued(resultCh) \cup pending

\* Somebody has failed, or the caller has given the file up.
GivenUp ==
    \/ err # NoErr \/ doneMsg # NoErr \/ closed
    \/ \E b \in AtWorkers \cup Queued(resultCh) : b.err

\* A goroutine stops, or drops results, only after an error or when all is done.
IdleInv ==
    /\ rpc = "drain" => err # NoErr \/ doneMsg # NoErr \/ closed
    /\ Pipelined /\ rpc = "done" => ResultClosed /\ resultCh = <<>>
    /\ Pipelined /\ ~GivenUp /\ (\E w \in Workers : wpc[w] = "exited") =>
          workCh = <<>> /\ workState # "open"
    /\ \A b \in pending : ~b.err

\* Every block sent and not written is in flight; runWriter waits only for the next one.
FlowInv ==
    Pipelined /\ ~GivenUp =>
        /\ nextWrite <= nextBlockID
        /\ \A id \in nextWrite .. nextBlockID - 1 : \E b \in InFlight : b.id = id
        /\ rpc = "run" => Due(pending, nextWrite) = {}
        /\ rpc = "done" => nextWrite = nextBlockID /\ workState # "open"

\* What a worker does to the blocks: it moves them, and never loses or invents one.
Carried == /\ \A b \in InFlight : \E c \in InFlight' : c.id = b.id /\ c.data = b.data
           /\ \A c \in InFlight' : \E b \in InFlight : c.id = b.id /\ c.data = b.data

\* A failed block stays where its error will be seen.
LEMMA WorkerCarries ==
  ASSUME TypeOK, NEW w \in Workers, BlockWorker(w) \/ HashBlock(w)
  PROVE  /\ Carried
         /\ GivenUp => GivenUp'
         /\ wpc'[w] = "exited" => wpc[w] = "exited" \/ GivenUp' \/ (workCh = <<>> /\ workState # "open")
         /\ \A v \in Workers \ {w} : wpc'[v] = wpc[v]
         /\ workCh = <<>> => workCh' = <<>>
         /\ wpc[w] # "exited"
<1>1. /\ UNCHANGED <<pending, err, doneMsg, closed>>
      /\ work \in [Workers -> Block]
      /\ wpc \in [Workers -> {"recv", "format", "collect", "send", "exited"}]
      /\ workCh \in Seq(Block) /\ resultCh \in Seq(Block)
  BY BehindCaller DEF TypeOK, WorkerType, ChannelType
<1> DEFINE Others == {work[v] : v \in {u \in Workers \ {w} : wpc[u] \in Busy}}
<1>2. AtWorkers = IF wpc[w] \in Busy THEN Others \cup {work[w]} ELSE Others
  BY DEF AtWorkers
<1>3. ASSUME \A v \in Workers \ {w} : wpc'[v] = wpc[v] /\ work'[v] = work[v]
      PROVE  AtWorkers' = IF wpc'[w] \in Busy THEN Others \cup {work'[w]} ELSE Others
  BY <1>3 DEF AtWorkers
<1> HIDE DEF Others
<1> USE DEF Busy, Working
<1>4. CASE WorkerRecv(w)
  <2>1. /\ wpc[w] = "recv" /\ wpc'[w] = "format" /\ work'[w] = Head(workCh)
        /\ \A v \in Workers \ {w} : wpc'[v] = wpc[v] /\ work'[v] = work[v]
        /\ resultCh' = resultCh /\ Queued(workCh) = {Head(workCh)} \cup Queued(workCh')
        /\ workCh # <<>>
    BY <1>1, <1>4, QueuedTail DEF WorkerRecv
  <2>2. AtWorkers = Others /\ AtWorkers' = Others \cup {Head(workCh)}
    BY <1>2, <1>3, <2>1
  <2>3. InFlight' = InFlight
    BY <1>1, <2>1, <2>2 DEF InFlight
  <2> QED  BY <1>1, <2>1, <2>2, <2>3 DEF Carried, GivenUp
<1>5. CASE WorkerExit(w)
  <2>1. /\ wpc[w] = "recv" /\ wpc'[w] = "exited"
        /\ \A v \in Workers \ {w} : wpc'[v] = wpc[v] /\ work'[v] = work[v]
        /\ UNCHANGED <<workCh, resultCh>> /\ workCh = <<>> /\ workState # "open"
    BY <1>1, <1>5 DEF WorkerExit
  <2>2. AtWorkers = Others /\ AtWorkers' = Others
    BY <1>2, <1>3, <2>1
  <2>3. InFlight' = InFlight
    BY <1>1, <2>1, <2>2 DEF InFlight
  <2> QED  BY <1>1, <2>1, <2>2, <2>3 DEF Carried, GivenUp
<1>6. CASE WorkerFormat(w) \/ WorkerCollect(w) \/ HashBlock(w)
  <2>1. /\ wpc[w] \in Busy /\ wpc'[w] \in Busy
        /\ \A v \in Workers \ {w} : wpc'[v] = wpc[v] /\ work'[v] = work[v]
        /\ UNCHANGED <<workCh, resultCh>>
        /\ work'[w] \in {work[w], FailedBlock(work[w]), Collected(work[w], hashOut[w])}
    BY <1>1, <1>6 DEF WorkerFormat, WorkerCollect, HashBlock
  <2>2. /\ work'[w].id = work[w].id /\ work'[w].data = work[w].data
        /\ work[w].err => work'[w].err
    BY <1>1, <2>1 DEF FailedBlock, Collected, Block
  <2>3. AtWorkers = Others \cup {work[w]} /\ AtWorkers' = Others \cup {work'[w]}
    BY <1>2, <1>3, <2>1
  <2>4. Carried
    BY <1>1, <2>1, <2>2, <2>3 DEF InFlight, Carried
  <2>5. GivenUp => GivenUp'
    BY <1>1, <2>1, <2>2, <2>3 DEF GivenUp
  <2> QED  BY <1>1, <2>1, <2>4, <2>5
<1>7. CASE WorkerSend(w)
  <2>1. /\ wpc[w] = "send" /\ wpc'[w] \notin Busy
        /\ wpc'[w] = "exited" => work[w].err
        /\ \A v \in Workers \ {w} : wpc'[v] = wpc[v] /\ work'[v] = work[v]
        /\ UNCHANGED workCh
    BY <1>1, <1>7 DEF WorkerSend
  <2>2. Queued(resultCh') = Queued(resultCh) \cup {work[w]}
    BY <1>1, <1>7, QueuedAppend DEF WorkerSend
  <2>3. AtWorkers = Others \cup {work[w]} /\ AtWorkers' = Others
    BY <1>2, <1>3, <2>1
  <2>4. InFlight' = InFlight
    BY <1>1, <2>1, <2>2, <2>3 DEF InFlight
  <2>5. wpc'[w] = "exited" => GivenUp'
    BY <2>1, <2>2 DEF GivenUp
  <2> QED  BY <1>1, <2>1, <2>2, <2>3, <2>4, <2>5 DEF Carried, GivenUp
<1> QED  BY <1>4, <1>5, <1>6, <1>7 DEF BlockWorker

\* What the caller's steps leave to the goroutines behind it.
LEMMA CallerKeeps ==
  ASSUME ControlInv, Call \/ CallStep
  PROVE  /\ UNCHANGED <<wpc, work, hashOut, resultCh, pending, nextWrite, rpc>>
         /\ UNCHANGED <<AtWorkers, Queued(resultCh), ResultClosed>>
         /\ GivenUp => GivenUp'
         /\ err # NoErr => err' # NoErr
         /\ doneMsg # NoErr => doneMsg' # NoErr \/ err' # NoErr \/ closed'
         /\ closed => closed'
         /\ workState' = "open" => workState = "open"
         /\ workCh' = workCh \/ (workState = "open" /\ (AppendSend \/ FinishSend))
<1>1. UNCHANGED <<wpc, work, hashOut, resultCh, pending, nextWrite, rpc>>
  BY DEF Call, Refuse, AppendBuffered, AppendSerial, AppendPipelined, FinishSerial, FinishFlush,
         FinishDrain, CloseAgain, CloseBegin, FlushPipelined, CallStep, AppendSend, FinishSend,
         SendBlock, FinishJoin, Seal, WriteIndex, WriteAppData, WriteTrailer, Sync, FileClose,
         SealFails, CloseJoin, CloseFile, FileOp
<1>2. UNCHANGED <<AtWorkers, Queued(resultCh), ResultClosed>>
  BY <1>1 DEF AtWorkers, Queued, ResultClosed
<1>3. /\ err # NoErr => err' # NoErr
      /\ doneMsg # NoErr => doneMsg' # NoErr \/ err' # NoErr \/ closed'
      /\ closed => closed'
      /\ workState' = "open" => workState = "open"
      /\ workCh' = workCh \/ (workState = "open" /\ (AppendSend \/ FinishSend))
  <2>1. CASE Call
    BY <2>1 DEF Call, Refuse, AppendBuffered, AppendSerial, AppendPipelined, FinishSerial,
         FinishFlush, FinishDrain, CloseAgain, CloseBegin, FlushPipelined, FlushSerialOK,
         FlushSerialFails, WriteBlockFails, CloseWorkCh, Admitted, NoErr
  <2>2. CASE AppendSend \/ FinishSend
    BY <2>2 DEF AppendSend, FinishSend, SendBlock, CloseWorkCh
  <2>3. CASE CallStep /\ ~(AppendSend \/ FinishSend)
    BY <2>3 DEF CallStep, FinishJoin, ForgetWorkCh, Seal, WriteIndex, WriteAppData, WriteTrailer,
         Sync, FileClose, SealFails, CloseJoin, CloseFile, FileOp, NoErr, ControlInv
  <2> QED  BY <2>1, <2>2, <2>3
<1>4. GivenUp => GivenUp'
  BY <1>2, <1>3 DEF GivenUp
<1> QED  BY <1>1, <1>2, <1>3, <1>4

\* runWriter never drops a failed block without saying so.
LEMMA WriterGivesUp ==
  ASSUME TypeOK, IdleInv, RunWriter, GivenUp
  PROVE  GivenUp'
<1>1. UNCHANGED <<AtWorkers, closed>>
  BY BehindWriter DEF AtWorkers
<1>2. resultCh # <<>> => Queued(resultCh) = {Head(resultCh)} \cup Queued(Tail(resultCh))
  BY QueuedTail DEF TypeOK, ChannelType
<1>3. CASE WriterRecv
  BY <1>1, <1>2, <1>3 DEF WriterRecv, GivenUp, NoErr
<1>4. CASE WriterWrite
  BY <1>1, <1>4 DEF WriterWrite, WriteBlockFails, GivenUp, NoErr, Queued
<1>5. CASE WriterDrain
  BY <1>5 DEF WriterDrain, GivenUp, IdleInv
<1>6. CASE WriterExit
  BY <1>1, <1>6 DEF WriterExit, GivenUp, Queued
<1> QED  BY <1>3, <1>4, <1>5, <1>6 DEF RunWriter

LEMMA GivenUpStays ==
  ASSUME TypeOK, ControlInv, IdleInv, [Next]_vars, GivenUp
  PROVE  GivenUp'
<1>1. CASE UNCHANGED vars
  BY <1>1 DEF GivenUp, AtWorkers, Queued
<1> QED  BY <1>1, CallerKeeps, WorkerCarries, WriterGivesUp DEF Next

LEMMA SomeWorker == Pipelined => \E w \in Workers : TRUE
<1>1. Pipelined => Workers # {}
  BY FS_EmptySet DEF Pipelined
<1> QED  BY <1>1

LEMMA IdleStep ==
  ASSUME TypeOK, ControlInv, IdleInv, [Next]_vars
  PROVE  IdleInv'
<1>1. GivenUp => GivenUp'
  BY GivenUpStays
<1>2. CASE Call \/ CallStep
  BY <1>2, CallerKeeps DEF IdleInv
<1>3. CASE \E w \in Workers : BlockWorker(w) \/ HashBlock(w)
  <2> PICK w \in Workers : BlockWorker(w) \/ HashBlock(w)
    BY <1>3
  <2>1. UNCHANGED <<callerVars, workState, writerVars, fileVars>>
    BY BehindCaller
  <2>2. ~ResultClosed
    BY WorkerCarries DEF ResultClosed
  <2> QED  BY <1>1, <2>1, <2>2, WorkerCarries DEF IdleInv
<1>4. CASE RunWriter
  <2>1. UNCHANGED <<closed, workState, workCh, wpc, ResultClosed>>
    BY <1>4, BehindWriter DEF ResultClosed
  <2>2. /\ rpc' = "drain" => err' # NoErr \/ doneMsg' # NoErr \/ closed'
        /\ rpc' = "done" => ResultClosed' /\ resultCh' = <<>>
        /\ \A b \in pending' : ~b.err
    BY <1>4, <2>1 DEF RunWriter, WriterRecv, WriterWrite, WriterDrain, WriterExit, IdleInv, NoErr,
                      WriteBlockFails, Loop
  <2> QED  BY <1>1, <2>1, <2>2 DEF IdleInv
<1>5. CASE UNCHANGED vars
  BY <1>1, <1>5 DEF IdleInv, ResultClosed
<1> QED  BY <1>2, <1>3, <1>4, <1>5 DEF Next

\* The block the caller sends is the next one, and it is in flight from then on.
LEMMA FlowSend ==
  ASSUME TypeOK, ControlInv, OrderInv, IdleInv, FlowInv, AppendSend \/ FinishSend
  PROVE  FlowInv'
<1> SUFFICES ASSUME Pipelined, ~GivenUp' PROVE FlowInv'
  BY DEF FlowInv
<1>1. /\ UNCHANGED <<pending, nextWrite, rpc, AtWorkers, Queued(resultCh)>> /\ ~GivenUp
  BY CallerKeeps DEF CallStep
<1>2. /\ nextBlockID' = nextBlockID + 1 /\ workCh' = Append(workCh, out)
      /\ workState = "open" /\ out.id = nextBlockID
  BY DEF AppendSend, FinishSend, SendBlock, OrderInv, OutInv
<1>3. nextBlockID \in Nat /\ nextWrite \in Nat
  BY DEF TypeOK, CallerType, ChannelType
<1>4. InFlight' = InFlight \cup {out}
  <2>1. workCh \in Seq(Block) /\ out \in Block
    BY DEF TypeOK, CallerType, ChannelType
  <2>2. Queued(workCh') = Queued(workCh) \cup {out}
    BY <1>2, <2>1, QueuedAppend
  <2> QED  BY <1>1, <2>2 DEF InFlight, Queued
<1>5. \A id \in nextWrite .. nextBlockID - 1 : \E b \in InFlight' : b.id = id
  BY <1>1, <1>4 DEF FlowInv
<1>6. \A id \in nextWrite .. nextBlockID : \E b \in InFlight' : b.id = id
  <2>1. ASSUME NEW id \in nextWrite .. nextBlockID PROVE id = nextBlockID \/ id \in nextWrite .. nextBlockID - 1
    BY <1>3
  <2> QED  BY <1>2, <1>4, <1>5, <2>1
<1> QED  BY <1>1, <1>2, <1>3, <1>6 DEF FlowInv, Due

\* runWriter writes a block in its turn, and stops when there is none left.
LEMMA FlowWriter ==
  ASSUME TypeOK, ControlInv, OrderInv, IdleInv, FlowInv, RunWriter
  PROVE  FlowInv'
<1> SUFFICES ASSUME Pipelined, ~GivenUp' PROVE FlowInv'
  BY DEF FlowInv
<1>1. /\ UNCHANGED <<nextBlockID, workState, workCh, AtWorkers, closed>> /\ ~GivenUp
      /\ nextWrite \in Nat /\ nextBlockID \in Nat
  BY BehindWriter, WriterGivesUp DEF AtWorkers, TypeOK, CallerType, ChannelType
<1>2. CASE WriterRecv
  <2>1. doneMsg' = NoErr
    BY DEF GivenUp
  <2>2. /\ pending' = pending \cup {Head(resultCh)} /\ rpc' = Loop(pending', nextWrite)
        /\ nextWrite' = nextWrite /\ resultCh # <<>> /\ resultCh' = Tail(resultCh)
    BY <1>2, <2>1 DEF WriterRecv, NoErr
  <2>3. Queued(resultCh) = {Head(resultCh)} \cup Queued(resultCh')
    BY <2>2, QueuedTail DEF TypeOK, ChannelType
  <2>4. InFlight' = InFlight
    BY <1>1, <2>2, <2>3 DEF InFlight, Queued
  <2> QED  BY <1>1, <2>2, <2>4 DEF FlowInv, Loop
<1>3. CASE WriterWrite
  <2>1. doneMsg' = NoErr
    BY DEF GivenUp
  <2>2. PICK b \in Due(pending, nextWrite) : pending' = pending \ {b}
                /\ nextWrite' = nextWrite + 1 /\ rpc' = Loop(pending', nextWrite')
    BY <1>3, <2>1 DEF WriterWrite, NoErr
  <2>3. b \in pending /\ b.id = nextWrite /\ b.id < nextBlockID
    BY DEF Due, OrderInv, FlightInv, BlockInv
  <2>4. \A c \in InFlight : c.id # nextWrite => c \in InFlight'
    BY <1>1, <1>3, <2>2, <2>3 DEF InFlight, Queued, WriterWrite
  <2>5. ASSUME NEW id \in nextWrite + 1 .. nextBlockID - 1
        PROVE  \E c \in InFlight' : c.id = id
    <3>1. id \in nextWrite .. nextBlockID - 1 /\ id # nextWrite
      BY <1>1
    <3> QED  BY <1>1, <2>4, <3>1 DEF FlowInv
  <2>6. nextWrite + 1 <= nextBlockID
    BY <1>1, <2>3
  <2> QED  BY <1>1, <2>2, <2>5, <2>6 DEF FlowInv, Loop
<1>4. CASE WriterDrain
  BY <1>1, <1>4 DEF WriterDrain, IdleInv, GivenUp
<1>5. CASE WriterExit
  <2>1. /\ rpc = "run" /\ rpc' = "done" /\ resultCh = <<>> /\ ResultClosed
        /\ UNCHANGED <<pending, nextWrite, resultCh>>
    BY <1>1, <1>5 DEF WriterExit, IdleInv, GivenUp
  <2>2. workCh = <<>> /\ workState # "open"
    BY <1>1, <2>1, SomeWorker DEF ResultClosed, IdleInv
  <2>3. AtWorkers = {}
    BY <2>1 DEF AtWorkers, ResultClosed, Busy, Working
  <2>4. InFlight = pending
    BY <2>1, <2>2, <2>3, QueuedEmpty DEF InFlight
  <2>5. nextWrite = nextBlockID
    <3> SUFFICES ASSUME nextWrite # nextBlockID PROVE FALSE
      OBVIOUS
    <3>1. nextWrite \in nextWrite .. nextBlockID - 1
      BY <1>1 DEF FlowInv
    <3>2. PICK b \in pending : b.id = nextWrite
      BY <1>1, <2>4, <3>1 DEF FlowInv
    <3> QED  BY <1>1, <2>1, <3>2 DEF FlowInv, Due
  <2> QED  BY <1>1, <2>1, <2>2, <2>5 DEF FlowInv
<1> QED  BY <1>2, <1>3, <1>4, <1>5 DEF RunWriter

LEMMA FlowStep ==
  ASSUME TypeOK, ControlInv, OrderInv, IdleInv, FlowInv, [Next]_vars
  PROVE  FlowInv'
<1>1. GivenUp => GivenUp'
  BY GivenUpStays
<1>2. CASE (Call \/ CallStep) /\ ~(AppendSend \/ FinishSend)
  <2>1. /\ UNCHANGED <<pending, nextWrite, rpc, AtWorkers, Queued(resultCh), workCh>>
        /\ workState' = "open" => workState = "open"
    BY <1>2, CallerKeeps
  <2>2. nextBlockID' = nextBlockID
    BY <1>2 DEF Call, Refuse, AppendBuffered, AppendSerial, AppendPipelined, FinishSerial,
       FinishFlush, FinishDrain, CloseAgain, CloseBegin, FlushPipelined, CallStep, FinishJoin, Seal,
       WriteIndex, WriteAppData, WriteTrailer, Sync, FileClose, SealFails, CloseJoin, CloseFile,
       FileOp
  <2>3. InFlight' = InFlight
    BY <2>1 DEF InFlight, Queued
  <2> QED  BY <1>1, <2>1, <2>2, <2>3 DEF FlowInv
<1>3. CASE \E w \in Workers : BlockWorker(w) \/ HashBlock(w)
  <2>1. Carried
    BY <1>3, WorkerCarries
  <2>2. UNCHANGED <<nextWrite, nextBlockID, pending, rpc, workState>>
    BY <1>3, BehindCaller
  <2> QED  BY <1>1, <2>1, <2>2 DEF FlowInv, Carried
<1>4. CASE UNCHANGED vars
  BY <1>1, <1>4 DEF FlowInv, InFlight, AtWorkers, Queued
<1> QED  BY <1>2, <1>3, <1>4, FlowSend, FlowWriter DEF Next

LEMMA InitFlow == Init => IdleInv /\ FlowInv
<1> SUFFICES ASSUME Init PROVE IdleInv /\ FlowInv
  OBVIOUS
<1>1. IdleInv
  BY SomeWorker DEF Init, IdleInv
<1>2. FlowInv
  BY DEF Init, FlowInv, Due
<1> QED  BY <1>1, <1>2

-----------------------------------------------------------------------------
(***************************************************************************)
(* The blocks and the last item.                                            *)
(***************************************************************************)
\* A block is a full record, or ends with the last item once workCh is closed.
Shape(b) ==
    /\ Len(b.data) \in 1 .. ItemsPerRecord
    /\ Len(b.data) = ItemsPerRecord \/ (workState # "open" /\ Base(b.id) + Len(b.data) = total)

\* The block Finish sends is the one with the last item.
ShapeInv ==
    Pipelined =>
        /\ pc = "idle" /\ workState = "open" => Len(buf) < ItemsPerRecord
        /\ pc \in Sending => Len(out.data) \in 1 .. ItemsPerRecord
        /\ \A b \in InFlight : Shape(b)
        /\ workState # "open" /\ ~closed =>
              /\ total <= Base(nextBlockID)
              /\ nextBlockID > 0 => Base(nextBlockID - 1) < total

LEMMA ShapeFlush ==
  ASSUME TypeOK, ControlInv, OrderInv, ShapeInv, AppendPipelined \/ FinishFlush
  PROVE  ShapeInv'
<1>1. /\ Pipelined /\ workState = "open" /\ pc = "idle" /\ pc' \in Sending /\ pc' # "idle"
      /\ UNCHANGED <<workState, pending, AtWorkers, Queued(resultCh), workCh, total>>
  BY CallerKeeps, AdmittedState DEF AppendPipelined, FinishFlush, FlushPipelined, Call, Sending,
     Admitted
<1>2. InFlight' = InFlight
  BY <1>1 DEF InFlight, Queued
<1>3. out'.data = buf \/ out'.data = Append(buf, total + 1)
  BY DEF AppendPipelined, FinishFlush, FlushPipelined, NewBlock
<1>4. Len(out'.data) \in 1 .. ItemsPerRecord
  <2>1. Len(buf) \in Nat /\ Len(Append(buf, total + 1)) = Len(buf) + 1 /\ ItemsPerRecord \in Nat
        /\ Len(buf) < ItemsPerRecord
    BY <1>1, WriterAssumption DEF TypeOK, CallerType, ShapeInv
  <2>2. out'.data = buf => buf # <<>>
    BY <1>3 DEF AppendPipelined, FinishFlush, FlushPipelined, NewBlock, TypeOK, CallerType
  <2> QED  BY <1>3, <2>1, <2>2 DEF TypeOK, CallerType
<1> QED  BY <1>1, <1>2, <1>4 DEF ShapeInv, Shape

LEMMA ShapeSend ==
  ASSUME TypeOK, ControlInv, OrderInv, ShapeInv, AppendSend \/ FinishSend
  PROVE  ShapeInv'
<1> SUFFICES ASSUME Pipelined PROVE ShapeInv'
  BY DEF ShapeInv
<1>1. /\ UNCHANGED <<pending, AtWorkers, Queued(resultCh)>>
      /\ nextBlockID' = nextBlockID + 1 /\ workCh' = Append(workCh, out)
      /\ workState = "open" /\ pc' \notin Sending /\ buf = <<>> /\ buf' = <<>> /\ closed' = closed
  BY CallerKeeps DEF AppendSend, FinishSend, SendBlock, OrderInv, OutInv, CallStep, Return, Sending
<1>2. InFlight' = InFlight \cup {out}
  <2>1. workCh \in Seq(Block) /\ out \in Block
    BY DEF TypeOK, CallerType, ChannelType
  <2>2. Queued(workCh') = Queued(workCh) \cup {out}
    BY <1>1, <2>1, QueuedAppend
  <2> QED  BY <1>1, <2>2 DEF InFlight, Queued
<1>3. \A b \in InFlight : Len(b.data) = ItemsPerRecord
  BY <1>1 DEF ShapeInv, Shape
<1>4. Len(out.data) \in 1 .. ItemsPerRecord /\ out.id = nextBlockID
  BY DEF ShapeInv, AppendSend, FinishSend, Sending, OrderInv, OutInv
<1>5. 0 < ItemsPerRecord /\ ItemsPerRecord \in Nat
  BY WriterAssumption
<1>6. Len(out.data) = ItemsPerRecord \/ (workState' # "open" /\ Base(out.id) + Len(out.data) = total')
  BY <1>1, <1>4 DEF AppendSend, FinishSend, OrderInv, OutInv, CloseWorkCh
<1>7. workState' # "open" => total' <= Base(nextBlockID') /\ Base(nextBlockID' - 1) < total'
  <2>1. workState' # "open" => total' = Base(nextBlockID) + Len(out.data)
    BY <1>1 DEF AppendSend, FinishSend, OrderInv, OutInv
  <2>2. nextBlockID \in Nat /\ nextBlockID' - 1 = nextBlockID
    BY <1>1 DEF TypeOK, CallerType
  <2>3. Base(nextBlockID) \in Nat /\ Base(nextBlockID + 1) = Base(nextBlockID) + ItemsPerRecord
    BY <2>2, BaseStep
  <2> QED  BY <1>1, <1>4, <1>5, <2>1, <2>2, <2>3
<1>8. \A b \in InFlight' : Shape(b)'
  BY <1>2, <1>3, <1>4, <1>5, <1>6 DEF Shape
<1> QED  BY <1>1, <1>5, <1>7, <1>8 DEF ShapeInv

LEMMA ShapeCall ==
  ASSUME TypeOK, ControlInv, OrderInv, ShapeInv, Call \/ CallStep,
         ~(AppendPipelined \/ FinishFlush \/ AppendSend \/ FinishSend)
  PROVE  ShapeInv'
<1> SUFFICES ASSUME Pipelined PROVE ShapeInv'
  BY DEF ShapeInv
<1>1. /\ UNCHANGED <<pending, AtWorkers, Queued(resultCh), workCh>>
      /\ workState' = "open" => workState = "open"
      /\ closed => closed'
  BY CallerKeeps
<1>2. InFlight' = InFlight
  BY <1>1 DEF InFlight, Queued
<1>3. pc' \notin Sending /\ pc \notin Sending /\ nextBlockID' = nextBlockID
  BY DEF Call, Refuse, AppendBuffered, AppendSerial, FinishSerial, Sending, Return, Admitted,
       FinishDrain, CloseAgain, CloseBegin, CallStep, FinishJoin, Seal,
       WriteIndex, WriteAppData, WriteTrailer, Sync, FileClose, SealFails, CloseJoin, CloseFile,
       FileOp
<1>4. CASE AppendBuffered
  <2>1. workState = "open"
    BY <1>4, AdmittedState DEF AppendBuffered
  <2>2. Len(buf') = Len(buf) + 1
    BY <1>4 DEF AppendBuffered, TypeOK, CallerType
  <2> QED  BY <1>1, <1>2, <1>3, <1>4, <2>1, <2>2 DEF AppendBuffered, ShapeInv, Shape
<1>5. CASE AppendSerial \/ FinishSerial
  BY <1>5 DEF AppendSerial, FinishSerial
<1>6. CASE FinishDrain
  <2>1. workState = "open" /\ workState' # "open" /\ buf = <<>> /\ pc' # "idle" /\ pc = "idle"
        /\ total' = total /\ closed' = closed
    BY <1>6, AdmittedState DEF FinishDrain, CloseWorkCh, Admitted
  <2>2. total = Base(nextBlockID) /\ nextBlockID \in Nat /\ total \in Nat
    <3>1. nextBlockID \in Nat /\ total \in Nat /\ Base(nextBlockID) \in Nat
      BY BaseStep DEF TypeOK, CallerType
    <3> QED  BY <2>1, <3>1 DEF OrderInv, BufferInv
  <2>3. nextBlockID > 0 => Base(nextBlockID - 1) + ItemsPerRecord <= Base(nextBlockID)
                           /\ Base(nextBlockID - 1) \in Nat
    BY <2>2, BaseOrder
  <2>4. ItemsPerRecord \in Nat /\ ItemsPerRecord > 0
    BY WriterAssumption
  <2> QED  BY <1>1, <1>2, <1>3, <2>1, <2>2, <2>3, <2>4 DEF ShapeInv, Shape
<1>7. CASE ~(AppendBuffered \/ AppendSerial \/ FinishSerial \/ FinishDrain)
  <2>1. /\ total' = total /\ buf' = buf
        /\ workState' # workState => closed' \/ workState # "open"
    BY <1>7 DEF Call, Refuse, CloseAgain, CloseBegin, CallStep, FinishJoin, Seal, ForgetWorkCh,
       WriteIndex, WriteAppData, WriteTrailer, Sync, FileClose, SealFails, CloseJoin, CloseFile,
       FileOp, ControlInv
  <2>2. pc' = "idle" /\ workState' = "open" => pc = "idle"
    BY <1>7 DEF Call, Refuse, CloseAgain, CloseBegin, CallStep, FinishJoin, Seal, ForgetWorkCh,
       WriteIndex, WriteAppData, WriteTrailer, Sync, FileClose, SealFails, CloseJoin, CloseFile,
       FileOp, ControlInv, Sealing
  <2> QED  BY <1>1, <1>2, <1>3, <2>1, <2>2 DEF ShapeInv, Shape
<1> QED  BY <1>4, <1>5, <1>6, <1>7

LEMMA ShapeStep ==
  ASSUME TypeOK, ControlInv, OrderInv, ShapeInv, [Next]_vars
  PROVE  ShapeInv'
<1>1. CASE \E w \in Workers : BlockWorker(w) \/ HashBlock(w)
  <2>1. Carried
    BY <1>1, WorkerCarries
  <2>2. UNCHANGED <<pc, buf, out, total, closed, nextBlockID, workState>>
    BY <1>1, BehindCaller
  <2> QED  BY <2>1, <2>2 DEF ShapeInv, Carried, Shape
<1>2. CASE RunWriter
  <2>1. UNCHANGED <<pc, buf, out, total, closed, nextBlockID, workState, workCh, AtWorkers>>
    BY <1>2, BehindWriter DEF AtWorkers
  <2>2. resultCh # <<>> => Queued(resultCh) = {Head(resultCh)} \cup Queued(Tail(resultCh))
    BY QueuedTail DEF TypeOK, ChannelType
  <2>3. Queued(resultCh') \cup pending' \subseteq Queued(resultCh) \cup pending
    BY <1>2, <2>2 DEF RunWriter, WriterRecv, WriterWrite, WriterDrain, WriterExit
  <2>4. InFlight' \subseteq InFlight
    BY <2>1, <2>3 DEF InFlight, Queued
  <2> QED  BY <2>1, <2>4 DEF ShapeInv, Shape
<1>3. CASE UNCHANGED vars
  BY <1>3 DEF ShapeInv, Shape, InFlight, AtWorkers, Queued
<1> QED  BY <1>1, <1>2, <1>3, ShapeFlush, ShapeSend, ShapeCall DEF Next

LEMMA InitShape == Init => ShapeInv
<1>1. Pipelined /\ Init => InFlight = {}
  BY QueuedEmpty DEF Init, InFlight, AtWorkers, Busy, Working
<1> QED  BY <1>1, WriterAssumption DEF Init, ShapeInv, Sending

-----------------------------------------------------------------------------
(***************************************************************************)
(* What has been written.                                                   *)
(***************************************************************************)
\* The offsets of n records, and the digests of the n records of a file of len items.
Located(locs, n) == Len(locs) = n /\ \A i \in 1 .. n : locs[i] = Base(i - 1)

Digested(chunks, n, len) == Len(chunks) = n /\ \A i \in 1 .. n : chunks[i] = RecordItems(i - 1, len)

\* The file ends in its n-th record.
Ends(n) ==
    /\ Len(file) = total /\ total <= Base(n)
    /\ n > 0 => Base(n - 1) < total

LEMMA LocatedNext ==
  ASSUME NEW n \in Nat, NEW locs \in Seq(Nat), Located(locs, n)
  PROVE  Located(Append(locs, Base(n)), n + 1)
<1>1. Base(n) \in Nat /\ Len(locs) = n
  BY BaseStep DEF Located
<1>2. /\ Len(Append(locs, Base(n))) = n + 1
      /\ Append(locs, Base(n))[n + 1] = Base(n)
      /\ \A i \in 1 .. n : Append(locs, Base(n))[i] = locs[i]
  BY <1>1, AppendProperties
<1>3. \A i \in 1 .. n + 1 : i \in 1 .. n \/ (i = n + 1 /\ i - 1 = n)
  OBVIOUS
<1> QED  BY <1>2, <1>3 DEF Located

LEMMA DigestedNext ==
  ASSUME NEW n \in Nat, NEW chunks \in Seq(Seq(Nat)), Digested(chunks, n, Base(n)),
         NEW data \in Seq(Nat), Consecutive(data, Base(n)), Len(data) <= ItemsPerRecord
  PROVE  Digested(Append(chunks, data), n + 1, Base(n) + Len(data))
<1>1. Base(n) \in Nat /\ Len(data) \in Nat
  BY BaseStep
<1>2. data = RecordItems(n, Base(n) + Len(data))
  BY <1>1, RecordOf
<1>3. ASSUME NEW i \in 1 .. n
      PROVE  Append(chunks, data)[i] = RecordItems(i - 1, Base(n) + Len(data))
  <2>1. i - 1 \in Nat /\ i - 1 + 1 = i /\ Base(i) <= Base(n)
    BY BaseOrder
  <2>2. RecordItems(i - 1, Base(n)) = RecordItems(i - 1, Base(n) + Len(data))
    BY <1>1, <2>1, FullRecord, BaseOrder
  <2>3. Append(chunks, data)[i] = chunks[i]
    BY AppendProperties DEF Digested
  <2> QED  BY <2>2, <2>3 DEF Digested
<1>4. Len(Append(chunks, data)) = n + 1 /\ Append(chunks, data)[n + 1] = data
  BY AppendProperties DEF Digested
<1>5. \A i \in 1 .. n + 1 : i \in 1 .. n \/ i = n + 1
  OBVIOUS
<1> QED  BY <1>2, <1>3, <1>4, <1>5 DEF Digested

\* runWriter has written the records before nextWrite, each at its place.
WrittenInv ==
    Pipelined /\ ~GivenUp /\ pc \notin Sealing \ {"seal"} =>
        /\ Located(offsets, nextWrite)
        /\ ContentHash => Digested(digests, nextWrite, Len(file))
        /\ \/ Len(file) = Base(nextWrite)
           \/ nextWrite = nextBlockID /\ workState # "open" /\ Len(file) = total

LEMMA WrittenCall ==
  ASSUME TypeOK, ControlInv, IdleInv, WrittenInv, Call \/ CallStep
  PROVE  WrittenInv'
<1> SUFFICES ASSUME Pipelined, ~GivenUp', pc' \notin Sealing \ {"seal"} PROVE WrittenInv'
  BY DEF WrittenInv
<1>1. ~GivenUp /\ nextWrite' = nextWrite /\ (workState # "open" => workState' # "open")
  BY CallerKeeps
<1>2. closed' = FALSE /\ err' = NoErr
  BY DEF GivenUp, ControlInv, TypeOK, CallerType, Call, CallStep, CloseBegin
<1>3. /\ UNCHANGED <<offsets, digests, file>>
      /\ nextBlockID' = nextBlockID \/ workState = "open"
      /\ total' = total \/ workState = "open"
      /\ pc \notin Sealing \ {"seal"}
  <2> USE DEF Sealing, Return, Admitted
  <2>1. CASE AppendBuffered \/ AppendPipelined \/ FinishFlush
    <3>1. workState = "open"
      BY <2>1, AdmittedState DEF AppendBuffered, AppendPipelined, FinishFlush
    <3> QED  BY <2>1, <3>1 DEF AppendBuffered, AppendPipelined, FinishFlush, FlushPipelined, HasherAdd
  <2>2. CASE Refuse \/ AppendSerial \/ FinishSerial \/ FinishDrain \/ CloseAgain \/ CloseBegin
    BY <2>2 DEF Refuse, AppendSerial, FinishSerial, FinishDrain, CloseAgain, CloseBegin
  <2>3. CASE AppendSend \/ FinishSend \/ FinishJoin \/ CloseJoin \/ CloseFile
    BY <2>3 DEF AppendSend, FinishSend, SendBlock, FinishJoin, CloseJoin, CloseFile
  <2>4. CASE Seal \/ WriteIndex \/ WriteAppData \/ WriteTrailer \/ Sync \/ FileClose \/ SealFails
    BY <1>2, <2>4 DEF Seal, WriteIndex, WriteAppData, WriteTrailer, Sync, FileClose, SealFails,
                      FileOp, NoErr
  <2> QED  BY <2>1, <2>2, <2>3, <2>4 DEF Call, CallStep
<1> QED  BY <1>1, <1>3 DEF WrittenInv

LEMMA WrittenWriter ==
  ASSUME TypeOK, ControlInv, OrderInv, HashInv, IdleInv, ShapeInv, WrittenInv, RunWriter
  PROVE  WrittenInv'
<1> SUFFICES ASSUME Pipelined, ~GivenUp', pc' \notin Sealing \ {"seal"} PROVE WrittenInv'
  BY DEF WrittenInv
<1>1. ~GivenUp /\ UNCHANGED <<pc, nextBlockID, total, workState>> /\ doneMsg' = NoErr
  BY BehindWriter, WriterGivesUp DEF GivenUp
<1>2. CASE ~WriterWrite
  BY <1>1, <1>2 DEF RunWriter, WriterRecv, WriterDrain, WriterExit, WrittenInv
<1>3. CASE WriterWrite
  <2>1. PICK b \in Due(pending, nextWrite) :
            WriteBlockOK(b.data) /\ digests' = DigestsWith(b) /\ nextWrite' = nextWrite + 1
    BY <1>1, <1>3 DEF WriterWrite, NoErr
  <2>2. /\ b \in pending /\ b \in Block /\ b.id = nextWrite /\ BlockInv(b) /\ Shape(b) /\ ~b.err
        /\ Hashed(b)
    BY DEF Due, OrderInv, FlightInv, TypeOK, ChannelType, ShapeInv, InFlight, IdleInv, HashInv,
           DigestInv
  <2>3. /\ nextWrite \in Nat /\ nextBlockID \in Nat /\ Base(nextWrite) \in Nat
        /\ Base(nextWrite + 1) = Base(nextWrite) + ItemsPerRecord
        /\ offsets \in Seq(Nat) /\ file \in Seq(Nat) /\ digests \in Seq(Seq(Nat))
        /\ b.data \in Seq(Nat) /\ Len(b.data) \in Nat
    <3>1. /\ nextWrite \in Nat /\ nextBlockID \in Nat
          /\ offsets \in Seq(Nat) /\ file \in Seq(Nat) /\ digests \in Seq(Seq(Nat))
      BY DEF TypeOK, CallerType, ChannelType, FileType
    <3>2. b.data \in Seq(Nat) /\ Len(b.data) \in Nat
      BY <2>2 DEF Block
    <3> QED  BY <3>1, <3>2, BaseStep
  <2>4. Len(file) = Base(nextWrite) /\ Consecutive(b.data, Base(nextWrite))
    BY <1>1, <2>2, <2>3 DEF WrittenInv, BlockInv
  <2>5. Len(file') = Base(nextWrite) + Len(b.data) /\ offsets' = Append(offsets, Base(nextWrite))
    <3>1. Len(file \o b.data) = Len(file) + Len(b.data)
      BY <2>3, ConcatProperties
    <3> QED  BY <2>1, <2>4, <3>1 DEF WriteBlockOK
  <2>6. Located(offsets', nextWrite')
    BY <1>1, <2>1, <2>3, <2>5, LocatedNext DEF WrittenInv
  <2>7. ContentHash => Digested(digests', nextWrite', Len(file'))
    <3>1. Len(b.data) \in 1 .. ItemsPerRecord
      BY <2>2 DEF Shape
    <3>2. ContentHash => digests' = Append(digests, b.data)
      BY <2>1, <2>2, <2>3, <3>1 DEF DigestsWith, Hashed
    <3>3. ContentHash => Digested(digests, nextWrite, Base(nextWrite))
      BY <1>1, <2>4 DEF WrittenInv
    <3>4. ContentHash =>
            Digested(Append(digests, b.data), nextWrite + 1, Base(nextWrite) + Len(b.data))
      BY <2>3, <2>4, <3>1, <3>3, DigestedNext
    <3> QED  BY <2>1, <2>5, <3>2, <3>4
  <2>8. \/ Len(file') = Base(nextWrite')
        \/ nextWrite' = nextBlockID /\ workState # "open" /\ Len(file') = total
    BY <2>1, <2>2, <2>3, <2>5 DEF Shape, BlockInv
  <2> QED  BY <1>1, <2>6, <2>7, <2>8 DEF WrittenInv
<1> QED  BY <1>2, <1>3

LEMMA WrittenStep ==
  ASSUME TypeOK, ControlInv, OrderInv, HashInv, IdleInv, ShapeInv, WrittenInv, [Next]_vars
  PROVE  WrittenInv'
<1>1. GivenUp => GivenUp'
  BY GivenUpStays
<1>2. CASE \E w \in Workers : BlockWorker(w) \/ HashBlock(w)
  BY <1>1, <1>2, BehindCaller DEF WrittenInv
<1>3. CASE UNCHANGED vars
  BY <1>1, <1>3 DEF WrittenInv
<1> QED  BY <1>2, <1>3, WrittenCall, WrittenWriter DEF Next

LEMMA InitWritten == Init => WrittenInv
  BY BaseZero DEF Init, WrittenInv, Located, Digested

\* contentHasher.Sum: the digests with that of the open chunk.
Sum == IF hasher = <<>> THEN digests ELSE Append(digests, hasher)

\* A serial writer has written every full record, and hashed what it has buffered.
SerialInv ==
    /\ Pipelined \/ ~ContentHash => hasher = <<>>
    /\ ~Pipelined /\ pc = "idle" /\ ~closed /\ err = NoErr =>
          /\ Len(buf) < ItemsPerRecord
          /\ Len(file) = Base(Len(offsets)) /\ Located(offsets, Len(offsets))
          /\ ContentHash => hasher = buf /\ Digested(digests, Len(offsets), Len(file))

\* When Finish begins to seal, everything is in the file.
ReadyInv ==
    pc = "seal" =>
        /\ Located(offsets, Len(offsets)) /\ Ends(Len(offsets))
        /\ ContentHash => Digested(Sum, Len(offsets), total)

\* One more record of a serial writer.
LEMMA SerialWrite ==
  ASSUME TypeOK, Len(file) = Base(Len(offsets)), Located(offsets, Len(offsets)),
         NEW items \in Seq(Nat), FlushSerialOK(items)
  PROVE  /\ Located(offsets', Len(offsets')) /\ Len(offsets') = Len(offsets) + 1
         /\ Len(file') = Base(Len(offsets)) + Len(items)
         /\ err' = err
<1>1. /\ offsets \in Seq(Nat) /\ Len(offsets) \in Nat /\ file \in Seq(Nat)
      /\ offsets' = Append(offsets, Base(Len(offsets))) /\ file' = file \o items /\ err' = err
  BY DEF FlushSerialOK, WriteBlockOK, TypeOK, FileType
<1>2. Len(file \o items) = Len(file) + Len(items)
  BY <1>1, ConcatProperties
<1>3. Len(offsets') = Len(offsets) + 1
  BY <1>1, AppendProperties
<1> QED  BY <1>1, <1>2, <1>3, LocatedNext

LEMMA SerialStep ==
  ASSUME TypeOK, ControlInv, OrderInv, SerialInv, [Next]_vars
  PROVE  SerialInv'
<1> USE DEF Return, Admitted
<1>1. CASE AppendBuffered \/ AppendSerial
  <2>1. /\ buf \in Seq(Nat) /\ total \in Nat /\ digests \in Seq(Seq(Nat)) /\ offsets \in Seq(Nat)
        /\ Append(buf, total + 1) \in Seq(Nat) /\ Len(Append(buf, total + 1)) = Len(buf) + 1
        /\ Len(offsets) \in Nat
    BY DEF TypeOK, CallerType, FileType
  <2>2. ItemsPerRecord \in Nat \ {0}
    BY WriterAssumption
  <2>3. CASE Pipelined
    BY <1>1, <2>3 DEF AppendBuffered, AppendSerial, HasherAdd, SerialInv
  <2>4. CASE ~Pipelined
    <3>1. /\ err = NoErr /\ pc = "idle" /\ ~closed
          /\ Consecutive(buf, Len(file)) /\ total = Len(file) + Len(buf)
          /\ ContentHash => hasher = buf
      BY <1>1, <2>4, AdmittedState DEF AppendBuffered, AppendSerial, OrderInv, BufferInv, SerialInv
    <3>2. CASE AppendBuffered
      BY <2>1, <2>4, <3>1, <3>2 DEF AppendBuffered, HasherAdd, SerialInv
    <3>3. CASE AppendSerial
      <4> DEFINE items == Append(buf, total + 1)
      <4>1. /\ buf' = <<>> /\ Len(items) = ItemsPerRecord /\ items \in Seq(Nat)
            /\ ContentHash => hasher' = <<>> /\ digests' = Append(digests, items)
            /\ ~ContentHash => hasher' = <<>>
        BY <2>1, <2>4, <3>1, <3>3 DEF AppendSerial, HasherAdd, SerialInv
      <4>2. CASE err' # NoErr
        BY <4>1, <4>2, <2>4, <3>3 DEF SerialInv
      <4>3. CASE err' = NoErr
        <5>1. FlushSerialOK(items)
          BY <3>3, <4>3 DEF AppendSerial, FlushSerialFails, WriteBlockFails, NoErr
        <5>2. Len(file) = Base(Len(offsets)) /\ Located(offsets, Len(offsets))
          BY <2>4, <3>1 DEF SerialInv
        <5>3. /\ Located(offsets', Len(offsets')) /\ Len(offsets') = Len(offsets) + 1
              /\ Len(file') = Base(Len(offsets)) + Len(items)
          BY <4>1, <5>1, <5>2, SerialWrite
        <5>4. Len(file') = Base(Len(offsets'))
          BY <2>1, <4>1, <5>3, BaseStep
        <5>5. Consecutive(items, Base(Len(offsets)))
          <6>1. /\ total + 1 = Base(Len(offsets)) + Len(buf) + 1 /\ Base(Len(offsets)) \in Nat
                /\ Consecutive(buf, Base(Len(offsets)))
            BY <2>1, <3>1, <5>2, BaseStep
          <6> QED  BY <2>1, <6>1, ConsecutiveAppend
        <5>6. ContentHash => Digested(digests', Len(offsets'), Len(file'))
          <6>1. ContentHash => Digested(digests, Len(offsets), Base(Len(offsets)))
            BY <2>4, <3>1, <5>2 DEF SerialInv
          <6> HIDE DEF items
          <6>2. ContentHash => Digested(Append(digests, items), Len(offsets) + 1,
                                        Base(Len(offsets)) + Len(items))
            <7>1. Len(items) <= ItemsPerRecord
              BY <2>2, <4>1
            <7> QED  BY <2>1, <4>1, <5>5, <6>1, <7>1, DigestedNext
          <6> QED  BY <4>1, <5>3, <6>2
        <5> HIDE DEF items
        <5> QED  BY <2>2, <2>4, <4>1, <5>3, <5>4, <5>6 DEF SerialInv
      <4> QED  BY <4>2, <4>3
    <3> QED  BY <1>1, <3>2, <3>3
  <2> QED  BY <2>3, <2>4
<1>2. CASE Call /\ ~(AppendBuffered \/ AppendSerial)
  BY <1>2 DEF Call, Refuse, AppendPipelined, FinishSerial, FinishFlush, FinishDrain, CloseAgain,
     CloseBegin, FlushPipelined, FlushSerialFails, WriteBlockFails, SerialInv, NoErr
<1>3. CASE Seal
  BY <1>3 DEF Seal, SerialInv, NoErr
<1>4. CASE CallStep /\ ~Seal
  BY <1>4 DEF CallStep, AppendSend, FinishSend, SendBlock, FinishJoin, WriteIndex,
     WriteAppData, WriteTrailer, Sync, FileClose, SealFails, CloseJoin, CloseFile, FileOp,
     SerialInv, NoErr, ControlInv
<1>5. CASE \E w \in Workers : BlockWorker(w) \/ HashBlock(w)
  BY <1>5, BehindCaller DEF SerialInv
<1>6. CASE RunWriter
  <2>1. Pipelined
    BY <1>6 DEF ControlInv, RunWriter, WriterRecv, WriterWrite, WriterDrain, WriterExit
  <2> QED  BY <1>6, <2>1, BehindWriter DEF SerialInv
<1>7. CASE UNCHANGED vars
  BY <1>7 DEF SerialInv
<1> QED  BY <1>1, <1>2, <1>3, <1>4, <1>5, <1>6, <1>7 DEF Next

\* Finish found the pipeline drained and nobody complaining.
LEMMA ReadyJoin ==
  ASSUME TypeOK, ControlInv, OrderInv, ErrorInv, IdleInv, FlowInv, ShapeInv, WrittenInv, SerialInv,
         FinishJoin, pc' = "seal"
  PROVE  ReadyInv'
<1>1. /\ doneMsg = NoErr /\ rpc = "done" /\ pc = "finishJoin" /\ workState = "closed" /\ ~closed
      /\ UNCHANGED <<total, offsets, digests, file, hasher>>
  BY DEF FinishJoin, WriterDone, Return, ControlInv
<1>2. Pipelined /\ ResultClosed /\ resultCh = <<>>
  BY <1>1 DEF ControlInv, IdleInv
<1>3. err = NoErr
  BY <1>1 DEF ErrorInv, TypeOK, CallerType
<1>4. ~GivenUp
  <2>1. AtWorkers = {} /\ Queued(resultCh) = {}
    BY <1>2, QueuedEmpty DEF AtWorkers, ResultClosed, Busy, Working
  <2> QED  BY <1>1, <1>3, <2>1 DEF GivenUp
<1>5. nextWrite = nextBlockID
  BY <1>1, <1>2, <1>4 DEF FlowInv
<1>6. /\ Located(offsets, nextBlockID) /\ hasher = <<>>
      /\ ContentHash => Digested(digests, nextBlockID, Len(file))
      /\ Len(file) = Base(nextBlockID) \/ Len(file) = total
  BY <1>1, <1>2, <1>4, <1>5 DEF WrittenInv, Sealing, SerialInv
<1>7. /\ total <= Base(nextBlockID) /\ (nextBlockID > 0 => Base(nextBlockID - 1) < total)
      /\ Len(file) <= total
  BY <1>1, <1>2 DEF ShapeInv, OrderInv
<1>8. total \in Nat /\ nextBlockID \in Nat /\ Base(nextBlockID) \in Nat /\ Len(file) \in Nat
  <2>1. total \in Nat /\ nextBlockID \in Nat /\ Len(file) \in Nat
    BY DEF TypeOK, CallerType, FileType
  <2> QED  BY <2>1, BaseStep
<1>9. Ends(nextBlockID)
  BY <1>6, <1>7, <1>8 DEF Ends
<1>10. Len(offsets) = nextBlockID
  BY <1>6 DEF Located
<1> QED  BY <1>1, <1>6, <1>9, <1>10 DEF ReadyInv, Ends, Sum

\* A serial Finish has flushed the last record, if there was one to flush.
LEMMA ReadySerial ==
  ASSUME TypeOK, ControlInv, OrderInv, SerialInv, FinishSerial, pc' = "seal"
  PROVE  ReadyInv'
<1>1. /\ ~Pipelined /\ pc = "idle" /\ ~closed /\ err = NoErr
      /\ UNCHANGED <<total, digests, hasher>>
  BY AdmittedState DEF FinishSerial, Admitted
<1>2. /\ buf \in Seq(Nat) /\ Len(buf) \in Nat /\ file \in Seq(Nat) /\ Len(file) \in Nat
      /\ offsets \in Seq(Nat) /\ Len(offsets) \in Nat /\ digests \in Seq(Seq(Nat)) /\ total \in Nat
      /\ Base(Len(offsets)) \in Nat /\ Base(Len(offsets) + 1) = Base(Len(offsets)) + ItemsPerRecord
      /\ ItemsPerRecord \in Nat \ {0}
  <2>1. /\ buf \in Seq(Nat) /\ Len(buf) \in Nat /\ file \in Seq(Nat) /\ Len(file) \in Nat
        /\ offsets \in Seq(Nat) /\ Len(offsets) \in Nat /\ digests \in Seq(Seq(Nat)) /\ total \in Nat
    BY DEF TypeOK, CallerType, FileType
  <2>2. ItemsPerRecord \in Nat \ {0}
    BY WriterAssumption
  <2> QED  BY <2>1, <2>2, BaseStep
<1>3. /\ Len(file) = Base(Len(offsets)) /\ Located(offsets, Len(offsets)) /\ Len(buf) < ItemsPerRecord
      /\ ContentHash => hasher = buf /\ Digested(digests, Len(offsets), Base(Len(offsets)))
      /\ ~ContentHash => hasher = <<>>
      /\ Consecutive(buf, Base(Len(offsets))) /\ total = Base(Len(offsets)) + Len(buf)
  BY <1>1 DEF SerialInv, OrderInv, BufferInv
<1>4. CASE buf = <<>>
  <2>1. UNCHANGED <<offsets, file>> /\ total = Len(file) /\ Len(buf) = 0
    BY <1>2, <1>3, <1>4 DEF FinishSerial, Return
  <2>2. Len(offsets) > 0 => Base(Len(offsets) - 1) + ItemsPerRecord <= Base(Len(offsets))
                            /\ Base(Len(offsets) - 1) \in Nat
    <3>1. Len(offsets) > 0 => Len(offsets) - 1 \in Nat /\ Len(offsets) - 1 < Len(offsets)
      BY <1>2
    <3> QED  BY <1>2, <3>1, BaseOrder
  <2>3. total <= Base(Len(offsets)) /\ (Len(offsets) > 0 => Base(Len(offsets) - 1) < total)
    BY <1>2, <1>3, <2>1, <2>2
  <2> QED  BY <1>1, <1>3, <1>4, <2>1, <2>3 DEF ReadyInv, Ends, Sum
<1>5. CASE buf # <<>>
  <2>1. FlushSerialOK(buf)
    BY <1>5 DEF FinishSerial, Return
  <2>2. /\ Located(offsets', Len(offsets')) /\ Len(offsets') = Len(offsets) + 1
        /\ Len(file') = Base(Len(offsets)) + Len(buf)
    BY <1>2, <1>3, <2>1, SerialWrite
  <2>3. Len(buf) > 0
    BY <1>2, <1>5
  <2>4. Ends(Len(offsets))'
    BY <1>1, <1>2, <1>3, <2>2, <2>3 DEF Ends
  <2>5. ContentHash => Sum' = Append(digests, buf)
    BY <1>1, <1>3, <1>5 DEF Sum
  <2>6. ContentHash => Digested(Append(digests, buf), Len(offsets) + 1, total)
    <3>1. Len(buf) <= ItemsPerRecord
      BY <1>2, <1>3
    <3> QED  BY <1>2, <1>3, <3>1, DigestedNext
  <2> QED  BY <1>1, <2>2, <2>4, <2>5, <2>6 DEF ReadyInv
<1> QED  BY <1>4, <1>5

LEMMA ReadyStep ==
  ASSUME TypeOK, ControlInv, OrderInv, EndInv, StopInv, ErrorInv, IdleInv, FlowInv, ShapeInv,
         WrittenInv, SerialInv, ReadyInv, [Next]_vars
  PROVE  ReadyInv'
<1> SUFFICES ASSUME pc' = "seal" PROVE ReadyInv'
  BY DEF ReadyInv
<1>1. CASE (Call \/ CallStep) /\ ~(FinishSerial \/ FinishJoin)
  <2>1. CASE FinishDrain
    BY <1>1, <2>1, AdmittedState DEF FinishDrain
  <2> QED  BY <1>1, <2>1 DEF Call, Refuse, AppendBuffered, AppendSerial, AppendPipelined,
     FinishFlush, CloseAgain, CloseBegin, CallStep, AppendSend, FinishSend, Seal, WriteIndex,
     WriteAppData, WriteTrailer, Sync, FileClose, SealFails, CloseJoin, CloseFile, FileOp, Return
<1>2. CASE \E w \in Workers : BlockWorker(w) \/ HashBlock(w)
  BY <1>2, BehindCaller DEF ReadyInv, Ends, Sum
<1>3. CASE RunWriter
  <2>1. pc = "seal" /\ workState = "nil"
    BY <1>3, BehindWriter DEF ControlInv, Sealing
  <2>2. UNCHANGED <<offsets, digests, file, total, hasher>>
    BY <1>3, <2>1 DEF RunWriter, WriterRecv, WriterWrite, WriterDrain, WriterExit, StopInv, Stopped
  <2> QED  BY <2>1, <2>2 DEF ReadyInv, Ends, Sum
<1>4. CASE UNCHANGED vars
  BY <1>4 DEF ReadyInv, Ends, Sum
<1> QED  BY <1>1, <1>2, <1>3, <1>4, ReadySerial, ReadyJoin DEF Next, Call, CallStep

-----------------------------------------------------------------------------
(***************************************************************************)
(* The sections that seal the file.                                         *)
(***************************************************************************)
\* The offsets of all records, and the end of the data, with the digests.
LaidOut(locs, chunks) ==
    /\ Len(locs) > 0 /\ locs[Len(locs)] = total
    /\ \A i \in 1 .. Len(locs) - 1 : locs[i] = Base(i - 1)
    /\ Ends(Len(locs) - 1)
    /\ ContentHash => Digested(chunks, Len(locs) - 1, total)
    /\ total <= UintMax

\* The call that wrote the trailer goes on to close the file, or has ended for good.
Settled == workState = "nil" /\ (pc \in {"sync", "fileClose"} \/ closed \/ err # NoErr)

SealInv ==
    /\ pc \in Sealing \ {"seal"} => LaidOut(offsets, digests)
    /\ pc \in {"appData", "trailer"} => index = offsets
    /\ trailer.magic =>
          /\ Settled /\ LaidOut(index, trailer.contentHash)
          /\ trailer.totalItems = total /\ trailer.recordCount = Len(index) - 1

\* Nothing is accepted or written any more behind a settled call.
LEMMA SettledStays ==
  ASSUME ControlInv, StopInv, ErrorInv, Settled, [Next]_vars
  PROVE  Settled' /\ UNCHANGED <<total, file, index, trailer>>
<1> USE DEF Settled
<1>1. CASE Call
  <2>1. err # NoErr => err' # NoErr
    BY <1>1, CallerKeeps
  <2>2. Admitted => FALSE
    BY AdmittedState DEF Admitted
  <2> QED  BY <1>1, <2>1, <2>2 DEF Call, Refuse, AppendBuffered, AppendSerial, AppendPipelined,
     FinishSerial, FinishFlush, FinishDrain, CloseAgain, CloseBegin, Return, Admitted
<1>2. CASE Sync \/ FileClose \/ SealFails \/ CloseJoin \/ CloseFile
  BY <1>2 DEF Sync, FileClose, SealFails, CloseJoin, CloseFile, FileOp, Return, NoErr
<1>3. CASE AppendSend \/ FinishSend \/ FinishJoin \/ Seal \/ WriteIndex \/ WriteAppData \/ WriteTrailer
  BY <1>3 DEF ControlInv, ErrorInv, Sealing, AppendSend, FinishSend, FinishJoin, Seal, WriteIndex,
     WriteAppData, WriteTrailer, FileOp
<1>4. CASE \E w \in Workers : BlockWorker(w) \/ HashBlock(w)
  BY <1>4, BehindCaller
<1>5. CASE RunWriter
  BY <1>5 DEF RunWriter, WriterRecv, WriterWrite, WriterDrain, WriterExit, StopInv, Stopped
<1>6. CASE UNCHANGED vars
  BY <1>6
<1> QED  BY <1>1, <1>2, <1>3, <1>4, <1>5, <1>6 DEF Next, CallStep

LEMMA LaidOutSame ==
  ASSUME NEW locs, NEW chunks, LaidOut(locs, chunks), UNCHANGED <<total, file>>
  PROVE  LaidOut(locs, chunks)'
  BY DEF LaidOut, Ends

\* The end-of-data offset and the last digest complete the sections.
LEMMA SealLaysOut ==
  ASSUME TypeOK, ReadyInv, Seal, pc' = "index"
  PROVE  LaidOut(offsets, digests)'
<1>1. /\ pc = "seal" /\ ~TooMany /\ offsets' = Append(offsets, Len(file)) /\ digests' = Sum
      /\ UNCHANGED <<total, file>>
  BY DEF Seal, Return, Sum
<1>2. /\ offsets \in Seq(Nat) /\ Len(offsets) \in Nat /\ Len(file) \in Nat /\ total \in Nat
      /\ UintMax \in Nat
  BY WriterAssumption DEF TypeOK, CallerType, FileType
<1>3. /\ Located(offsets, Len(offsets)) /\ Ends(Len(offsets)) /\ Len(file) = total
      /\ ContentHash => Digested(Sum, Len(offsets), total)
  BY <1>1 DEF ReadyInv, Ends
<1>4. /\ Len(offsets') = Len(offsets) + 1 /\ offsets'[Len(offsets) + 1] = total
      /\ \A i \in 1 .. Len(offsets) : offsets'[i] = offsets[i]
  BY <1>1, <1>2, <1>3, AppendProperties
<1>5. Len(offsets') - 1 = Len(offsets) /\ Len(offsets') > 0
  BY <1>2, <1>4
<1>6. total <= UintMax
  BY <1>1, <1>2 DEF TooMany
<1>7. Ends(Len(offsets) - 1)'
  BY <1>1, <1>3, <1>5 DEF Ends
<1> QED  BY <1>1, <1>3, <1>4, <1>5, <1>6, <1>7 DEF LaidOut, Located

\* The counts fit their width.
LEMMA TrailerCounts ==
  ASSUME TypeOK, LaidOut(offsets, digests), WriteTrailer
  PROVE  /\ trailer'.totalItems = total /\ trailer'.recordCount = Len(offsets) - 1
         /\ ContentHash => trailer'.contentHash = digests
<1>1. total \in Nat /\ Len(offsets) \in Nat /\ UintMax \in Nat
  BY WriterAssumption DEF TypeOK, CallerType, FileType
<1>2. Len(offsets) - 1 \in Nat /\ Len(offsets) - 1 <= UintMax /\ total <= UintMax
  <2>1. CASE Len(offsets) = 1
    BY <1>1, <2>1 DEF LaidOut
  <2>2. CASE Len(offsets) > 1
    <3>1. Len(offsets) - 1 - 1 \in Nat /\ Base(Len(offsets) - 1 - 1) < total
      BY <1>1, <2>2 DEF LaidOut, Ends
    <3>2. /\ Len(offsets) - 1 - 1 <= Base(Len(offsets) - 1 - 1)
          /\ Base(Len(offsets) - 1 - 1) \in Nat
      BY <3>1, BaseOrder
    <3> QED  BY <1>1, <2>2, <3>1, <3>2 DEF LaidOut
  <2> QED  BY <1>1, <2>1, <2>2 DEF LaidOut
<1>3. \A n \in Nat : n <= UintMax => n % (UintMax + 1) = n
  BY <1>1
<1> QED  BY <1>1, <1>2, <1>3 DEF WriteTrailer

LEMMA SealStep ==
  ASSUME TypeOK, ControlInv, StopInv, ErrorInv, ReadyInv, SealInv, [Next]_vars
  PROVE  SealInv'
<1>1. CASE trailer.magic
  <2>1. Settled' /\ UNCHANGED <<total, file, index, trailer>>
    BY <1>1, SettledStays DEF SealInv
  <2>2. LaidOut(index, trailer.contentHash)'
    BY <1>1, <2>1, LaidOutSame DEF SealInv
  <2>3. pc \in Sealing => pc \in {"sync", "fileClose"}
    BY <1>1 DEF SealInv, Settled, ControlInv, ErrorInv
  <2>4. pc' \in Sealing => pc \in {"sync", "fileClose"} /\ pc' \in {"sync", "fileClose"}
                           /\ UNCHANGED <<offsets, digests>>
    <3>1. CASE Call
      <4>1. Admitted => FALSE
        BY <1>1, AdmittedState DEF Admitted, SealInv, Settled
      <4> QED  BY <3>1, <4>1 DEF Call, Refuse, AppendBuffered, AppendSerial, AppendPipelined,
           FinishSerial, FinishFlush, FinishDrain, CloseAgain, CloseBegin, Return, Sealing
    <3>2. CASE CallStep
      BY <1>1, <2>3, <3>2 DEF CallStep, AppendSend, FinishSend, FinishJoin, Seal, WriteIndex,
         WriteAppData, WriteTrailer, Sync, FileClose, SealFails, CloseJoin, CloseFile, FileOp,
         Return, Sealing, ControlInv, SealInv, Settled
    <3>3. CASE (\E w \in Workers : BlockWorker(w) \/ HashBlock(w)) \/ UNCHANGED vars
      BY <2>3, <3>3, BehindCaller
    <3>4. CASE RunWriter
      BY <1>1, <2>3, <3>4, BehindWriter DEF RunWriter, WriterRecv, WriterWrite, WriterDrain,
         WriterExit, StopInv, Stopped, SealInv, Settled
    <3> QED  BY <3>1, <3>2, <3>3, <3>4 DEF Next
  <2>5. pc' \in Sealing => LaidOut(offsets, digests)'
    BY <2>1, <2>4, LaidOutSame DEF SealInv, Sealing
  <2> QED  BY <1>1, <2>1, <2>2, <2>4, <2>5 DEF SealInv, Sealing
<1>2. CASE ~trailer.magic
  <2>1. CASE Seal
    <3>1. pc' \notin {"appData", "trailer"} /\ trailer' = trailer
          /\ (pc' \in Sealing \ {"seal"} => pc' = "index")
      BY <2>1 DEF Seal, Return, Sealing
    <3> QED  BY <1>2, <2>1, <3>1, SealLaysOut DEF SealInv
  <2>2. CASE WriteIndex
    BY <1>2, <2>2, LaidOutSame DEF WriteIndex, FileOp, SealInv, Sealing
  <2>3. CASE WriteAppData \/ Sync
    BY <1>2, <2>3, LaidOutSame DEF WriteAppData, Sync, FileOp, SealInv, Sealing
  <2>4. CASE WriteTrailer
    <3>1. /\ LaidOut(offsets, digests) /\ index = offsets /\ workState = "nil"
          /\ UNCHANGED <<total, file, offsets, digests, index, workState>> /\ pc' = "sync"
      BY <2>4 DEF WriteTrailer, FileOp, SealInv, Sealing, ControlInv
    <3>2. LaidOut(offsets, digests)'
      BY <3>1, LaidOutSame
    <3>3. /\ trailer'.totalItems = total /\ trailer'.recordCount = Len(offsets) - 1
          /\ ContentHash => trailer'.contentHash = digests
      BY <2>4, <3>1, TrailerCounts
    <3>4. LaidOut(index, trailer.contentHash)'
      BY <3>1, <3>2, <3>3 DEF LaidOut
    <3> QED  BY <3>1, <3>2, <3>3, <3>4 DEF SealInv, Settled
  <2>5. CASE (Call \/ CallStep)
               /\ ~(Seal \/ WriteIndex \/ WriteAppData \/ Sync \/ WriteTrailer)
    <3>1. pc' \notin Sealing \ {"seal"} /\ trailer' = trailer
      BY <2>5 DEF Call, Refuse, AppendBuffered, AppendSerial, AppendPipelined, FlushPipelined,
           FinishSerial, FinishFlush, FinishDrain, CloseAgain, CloseBegin, CallStep, AppendSend,
           FinishSend, FinishJoin, FileClose, SealFails, CloseJoin, CloseFile, Return, Sealing
    <3> QED  BY <1>2, <3>1 DEF SealInv, Sealing
  <2>6. CASE (\E w \in Workers : BlockWorker(w) \/ HashBlock(w)) \/ UNCHANGED vars
    BY <1>2, <2>6, BehindCaller, LaidOutSame DEF SealInv
  <2>7. CASE RunWriter
    <3>1. UNCHANGED <<pc, total, index, trailer>>
      BY <2>7, BehindWriter
    <3>2. pc \in Sealing => UNCHANGED <<file, offsets, digests>>
      BY <2>7 DEF RunWriter, WriterRecv, WriterWrite, WriterDrain, WriterExit, StopInv, Stopped,
                  ControlInv
    <3> QED  BY <1>2, <3>1, <3>2, LaidOutSame DEF SealInv, Sealing
  <2> QED  BY <2>1, <2>2, <2>3, <2>4, <2>5, <2>6, <2>7 DEF Next
<1> QED  BY <1>1, <1>2

LEMMA InitSeal == Init => SerialInv /\ ReadyInv /\ SealInv
<1>1. Init => SerialInv
  BY BaseZero, WriterAssumption DEF Init, SerialInv, Located, Digested
<1>2. Init => ReadyInv /\ SealInv
  BY DEF Init, ReadyInv, SealInv, Sealing, NoTrailer
<1> QED  BY <1>1, <1>2

\* Everything the two theorems and the refinement rest on.
WriterInv ==
    /\ TypeOK /\ ControlInv /\ OrderInv /\ EndInv /\ StopInv /\ ErrorInv /\ HashInv
    /\ IdleInv /\ FlowInv /\ ShapeInv /\ WrittenInv /\ SerialInv /\ ReadyInv /\ SealInv

LEMMA WriterInvariant == Spec => []WriterInv
<1>1. Init => WriterInv
  BY InitType, InitControl, InitOrder, InitEnd, InitError, InitHash, InitFlow, InitShape,
     InitWritten, InitSeal DEF WriterInv
<1>2. WriterInv /\ TypeOK' /\ [Next]_vars => WriterInv'
  BY ControlStep, OrderStep, EndStep, StopStep, ErrorStep, HashStep, IdleStep, FlowStep, ShapeStep,
     WrittenStep, SerialStep, ReadyStep, SealStep DEF WriterInv
<1> QED  BY <1>1, <1>2, TypeCorrect, PTL DEF Spec

LEMMA SealedIsComplete ==
  ASSUME TypeOK, OrderInv, SealInv
  PROVE  SealedComplete
<1> SUFFICES ASSUME trailer.magic PROVE SealedComplete
  BY DEF SealedComplete
<1>1. /\ LaidOut(index, trailer.contentHash)
      /\ trailer.totalItems = total /\ trailer.recordCount = Len(index) - 1
      /\ Consecutive(file, 0)
  BY DEF SealInv, OrderInv, PrefixInOrder
<1>2. file \in Seq(Nat) /\ Len(file) = total /\ total \in Nat /\ Len(index) \in Nat /\ Len(index) > 0
  BY <1>1 DEF TypeOK, FileType, CallerType, LaidOut, Ends
<1>3. ASSUME NEW r \in 0 .. Len(index) - 2
      PROVE  SubSeq(file, index[r + 1] + 1, index[r + 2]) = RecordItems(r, total)
  <2>1. /\ r \in Nat /\ r + 1 \in 1 .. Len(index) - 1
        /\ r + 1 - 1 = r /\ r + 2 - 1 = r + 1 /\ Len(index) - 1 \in Nat /\ Len(index) - 1 > 0
        /\ r + 2 \in 1 .. Len(index) - 1 \/ (r + 2 = Len(index) /\ Len(index) - 1 = r + 1)
    BY <1>2
  <2>2. index[r + 1] = Base(r)
    BY <1>1, <2>1 DEF LaidOut
  <2>3. total <= Base(Len(index) - 1) /\ Base(Len(index) - 1 - 1) < total
    BY <1>1, <2>1 DEF LaidOut, Ends
  <2>4. /\ Base(r) \in Nat /\ Base(r + 1) \in Nat /\ Base(Len(index) - 1 - 1) \in Nat
        /\ Len(index) - 1 - 1 \in Nat
        /\ Base(r) <= Base(Len(index) - 1 - 1)
        /\ r + 1 <= Len(index) - 1 - 1 => Base(r + 1) <= Base(Len(index) - 1 - 1)
    <3>1. r \in Nat /\ r + 1 \in Nat /\ Len(index) - 1 - 1 \in Nat /\ r <= Len(index) - 1 - 1
      BY <1>2, <2>1
    <3> QED  BY <3>1, BaseOrder
  <2>5. index[r + 2] = IF Base(r + 1) < total THEN Base(r + 1) ELSE total
    <3>1. CASE r + 2 \in 1 .. Len(index) - 1
      <4>1. index[r + 2] = Base(r + 1) /\ Base(r + 1) < total
        BY <1>1, <1>2, <2>1, <2>3, <2>4, <3>1 DEF LaidOut
      <4> QED  BY <4>1
    <3>2. CASE r + 2 = Len(index) /\ Len(index) - 1 = r + 1
      <4>1. index[r + 2] = total /\ total <= Base(r + 1)
        BY <1>1, <2>3, <3>2 DEF LaidOut
      <4> QED  BY <1>2, <2>4, <4>1
    <3> QED  BY <2>1, <3>1, <3>2
  <2>6. Base(r) < total
    BY <1>2, <2>3, <2>4
  <2> QED  BY <1>1, <1>2, <2>1, <2>2, <2>5, <2>6, RecordInFile
<1>4. index[Len(index)] = total
  BY <1>1 DEF LaidOut
<1> QED  BY <1>1, <1>2, <1>3, <1>4 DEF SealedComplete

LEMMA SealedIsHashed ==
  ASSUME TypeOK, SealInv
  PROVE  SealedHash
<1> SUFFICES ASSUME trailer.magic, ContentHash PROVE SealedHash
  BY DEF SealedHash
<1>1. Digested(trailer.contentHash, Len(index) - 1, total)
  BY DEF SealInv, LaidOut
<1>2. trailer.contentHash \in Seq(Seq(Nat))
  BY DEF TypeOK, FileType, Trailer
<1>3. \A c \in Seq(Seq(Nat)) : c = [r \in 1 .. Len(c) |-> c[r]]
  OBVIOUS
<1>4. trailer.contentHash = [r \in 1 .. Len(index) - 1 |-> trailer.contentHash[r]]
  BY <1>1, <1>2, <1>3 DEF Digested
<1>5. \A r \in 1 .. Len(index) - 1 : trailer.contentHash[r] = RecordItems(r - 1, total)
  BY <1>1 DEF Digested
<1> QED  BY <1>4, <1>5 DEF SealedHash

\* Finish writes a trailer only over a complete file: every accepted item is in the
\* record area, the counts are the true ones at their width, and the index cuts the
\* file into exactly the records, however the workers were scheduled.
THEOREM SealedFilesComplete == Spec => []SealedComplete
<1>1. WriterInv => SealedComplete
  BY SealedIsComplete DEF WriterInv
<1> QED  BY <1>1, WriterInvariant, PTL

\* The content hash in a trailer is that of the chunks in the order of their items,
\* whichever worker hashed which chunk out of whichever slice.
THEOREM SealedFilesHashed == Spec => []SealedHash
<1>1. WriterInv => SealedHash
  BY SealedIsHashed DEF WriterInv
<1> QED  BY <1>1, WriterInvariant, PTL

-----------------------------------------------------------------------------
(***************************************************************************)
(* The writer implements ItemFile.                                          *)
(***************************************************************************)
LEMMA FileOfItems ==
  ASSUME NEW s \in Seq(Nat), Consecutive(s, 0)
  PROVE  s = Abstract!Items(Len(s))
<1>1. s = [i \in 1 .. Len(s) |-> s[i]] /\ \A i \in 1 .. Len(s) : s[i] = i
  BY DEF Consecutive
<1> QED  BY <1>1 DEF Abstract!Items

\* What a step may do to the items while the file is being written, and that it does
\* nothing to them once the file is complete or gone.
LEMMA ItemsStep ==
  ASSUME WriterInv, WriterInv', [Next]_vars
  PROVE  /\ Len(file) <= Len(file') /\ Len(file') <= total + 1
         /\ total' \in {total, total + 1}
         /\ fileClosed \/ ~exists => UNCHANGED <<total, file>>
         /\ fileClosed' # fileClosed \/ exists' # exists => UNCHANGED <<total, file>>
<1>1. /\ file \in Seq(Nat) /\ Len(file) \in Nat /\ file' \in Seq(Nat) /\ total \in Nat
      /\ Len(file) <= total + 1 /\ Len(file') <= total' + 1
      /\ Pipelined => Len(file) <= total
      /\ Pipelined => Len(file') <= total'
  BY DEF WriterInv, TypeOK, CallerType, FileType, OrderInv, PrefixInOrder
<1>2. fileClosed \/ ~exists => closed /\ pc = "idle" /\ Stopped
  BY DEF WriterInv, EndInv, StopInv
<1>3. ASSUME NEW data \in Seq(Nat), WriteBlockOK(data) \/ WriteBlockFails(data)
      PROVE  Len(file) <= Len(file')
  <2>1. ASSUME NEW t \in Seq(Nat) PROVE Len(file \o t) = Len(file) + Len(t) /\ Len(t) \in Nat
    BY <1>1, ConcatProperties
  <2>2. ASSUME NEW n \in 0 .. Len(data) PROVE SubSeq(data, 1, n) \in Seq(Nat)
    <3>1. \A i \in 1 .. n : data[i] \in Nat
      OBVIOUS
    <3> QED  BY <3>1, SubSeqProperties
  <2>3. PICK t \in Seq(Nat) : file' = file \o t
    <3>1. CASE WriteBlockOK(data)
      BY <3>1 DEF WriteBlockOK
    <3>2. CASE WriteBlockFails(data)
      <4>1. PICK n \in 0 .. Len(data) : file' = file \o SubSeq(data, 1, n)
        BY <3>2 DEF WriteBlockFails
      <4> QED  BY <2>2, <4>1
    <3> QED  BY <1>3, <3>1, <3>2
  <2> QED  BY <1>1, <2>1, <2>3
<1>4. CASE UNCHANGED <<file, total>>
  BY <1>1, <1>4
<1>5. CASE AppendBuffered \/ AppendSend
  BY <1>1, <1>2, <1>5 DEF AppendBuffered, AppendSend, Admitted
<1>6. CASE AppendSerial
  <2>1. Append(buf, total + 1) \in Seq(Nat) /\ Len(Append(buf, total + 1)) = Len(buf) + 1
        /\ Len(buf) \in Nat
    BY DEF WriterInv, TypeOK, CallerType
  <2>2. Len(file) <= Len(file') \/ file' = file
    BY <1>3, <1>6, <2>1 DEF AppendSerial, FlushSerialOK, FlushSerialFails
  <2>3. /\ ~Pipelined /\ err = NoErr /\ ~closed /\ pc = "idle"
        /\ total = Len(file) + Len(buf) /\ Consecutive(buf, Len(file))
    BY <1>6, AdmittedState DEF AppendSerial, Admitted, WriterInv, OrderInv, BufferInv
  <2>4. Len(file') <= total + 1
    <3>1. Consecutive(Append(buf, total + 1), Len(file)) /\ Consecutive(file, 0) /\ FileType
      <4>1. total + 1 = Len(file) + Len(buf) + 1
        BY <1>1, <2>1, <2>3
      <4>2. buf \in Seq(Nat) /\ Consecutive(file, 0) /\ FileType
        BY DEF WriterInv, OrderInv, PrefixInOrder, TypeOK, CallerType
      <4>3. Consecutive(Append(buf, Len(file) + Len(buf) + 1), Len(file))
        BY <1>1, <2>3, <4>2, ConsecutiveAppend
      <4> QED  BY <4>1, <4>2, <4>3
    <3> DEFINE items == Append(buf, total + 1)
    <3>2. /\ items \in Seq(Nat) /\ Len(items) = Len(buf) + 1 /\ Consecutive(items, Len(file))
          /\ WriteBlockOK(items) \/ WriteBlockFails(items) \/ file' = file
      BY <1>6, <2>1, <3>1 DEF AppendSerial, FlushSerialOK, FlushSerialFails
    <3> HIDE DEF items
    <3>3. WriteBlockOK(items) \/ WriteBlockFails(items) => Len(file') <= Len(file) + Len(items)
      BY <3>1, <3>2, WriteInOrder
    <3> QED  BY <1>1, <2>1, <2>3, <3>2, <3>3
  <2>5. total' \in {total, total + 1} /\ UNCHANGED <<exists, fileClosed>>
    BY <1>6 DEF AppendSerial
  <2> QED  BY <1>1, <1>2, <2>2, <2>3, <2>4, <2>5
<1>7. CASE FinishSerial
  <2>1. Len(file) <= Len(file') \/ file' = file
    BY <1>3, <1>7 DEF FinishSerial, FlushSerialOK, FlushSerialFails, WriterInv, TypeOK, CallerType
  <2> QED  BY <1>1, <1>2, <1>7, <2>1 DEF FinishSerial, Admitted
<1>8. CASE WriterWrite
  <2>1. \E b \in Due(pending, nextWrite) : WriteBlockOK(b.data) \/ WriteBlockFails(b.data)
    BY <1>8 DEF WriterWrite
  <2>2. \A b \in Due(pending, nextWrite) : b.data \in Seq(Nat)
    BY DEF Due, WriterInv, TypeOK, ChannelType, Block
  <2>3. total' = total /\ UNCHANGED <<exists, fileClosed>> /\ rpc = "write"
    BY <1>8 DEF WriterWrite
  <2> QED  BY <1>1, <1>2, <1>3, <2>1, <2>2, <2>3 DEF Stopped
<1>9. CASE (Call \/ CallStep) /\ ~(AppendBuffered \/ AppendSend \/ AppendSerial \/ FinishSerial)
  BY <1>4, <1>9 DEF Call, Refuse, AppendPipelined, FlushPipelined, FinishFlush, FinishDrain,
     CloseAgain, CloseBegin, CallStep, FinishSend, FinishJoin, Seal, WriteIndex, WriteAppData,
     WriteTrailer, Sync, FileClose, SealFails, CloseJoin, CloseFile, FileOp
<1>10. CASE (\E w \in Workers : BlockWorker(w) \/ HashBlock(w)) \/ UNCHANGED vars
  BY <1>4, <1>10, BehindCaller
<1>11. CASE RunWriter /\ ~WriterWrite
  BY <1>4, <1>11 DEF RunWriter, WriterRecv, WriterDrain, WriterExit
<1> QED  BY <1>5, <1>6, <1>7, <1>8, <1>9, <1>10, <1>11 DEF Next

\* How a step may end the file.
LEMMA StatusStep ==
  ASSUME WriterInv, [Next]_vars
  PROVE  /\ fileClosed' # fileClosed => ~fileClosed /\ exists /\ exists' /\ Len(file) = total
         /\ exists' # exists => ~fileClosed /\ ~fileClosed' /\ exists
<1>1. /\ fileClosed \/ ~exists => pc = "idle"
      /\ pc = "fileClose" => Len(file) = total
  BY DEF WriterInv, EndInv, SealInv, Sealing, LaidOut, Ends
<1>2. CASE FileClose
  BY <1>1, <1>2 DEF FileClose
<1>3. CASE CloseFile
  BY <1>1, <1>3 DEF CloseFile
<1>4. CASE (Call \/ CallStep) /\ ~(FileClose \/ CloseFile)
  BY <1>4 DEF Call, Refuse, AppendBuffered, AppendSerial, AppendPipelined, FlushPipelined,
     FinishSerial, FinishFlush, FinishDrain, CloseAgain, CloseBegin, CallStep, AppendSend,
     FinishSend, FinishJoin, Seal, WriteIndex, WriteAppData, WriteTrailer, Sync, SealFails,
     CloseJoin, FileOp
<1>5. CASE (\E w \in Workers : BlockWorker(w) \/ HashBlock(w)) \/ UNCHANGED vars
  BY <1>5, BehindCaller
<1>6. CASE RunWriter
  BY <1>6, BehindWriter
<1> QED  BY <1>2, <1>3, <1>4, <1>5, <1>6 DEF Next

LEMMA ItemFileStep ==
  ASSUME WriterInv, WriterInv', [Next]_vars
  PROVE  [Abstract!ItemNext]_(Abstract!itemVars)
<1>1. /\ file = Abstract!Items(Len(file)) /\ file' = Abstract!Items(Len(file'))
      /\ Len(file) \in Nat /\ Len(file') \in Nat /\ total \in Nat
  BY FileOfItems DEF WriterInv, TypeOK, CallerType, FileType, OrderInv, PrefixInOrder
<1>2. CASE fileClosed' # fileClosed
  <2>1. Abstract!ItemSeal
    BY <1>1, <1>2, ItemsStep, StatusStep DEF Abstract!ItemSeal, WriterInv, TypeOK, CallerType
  <2> QED  BY <2>1 DEF Abstract!ItemNext
<1>3. CASE fileClosed' = fileClosed /\ exists' # exists
  <2>1. Abstract!Remove
    BY <1>3, ItemsStep, StatusStep DEF Abstract!Remove, WriterInv, TypeOK, FileType
  <2> QED  BY <2>1 DEF Abstract!ItemNext
<1>4. CASE UNCHANGED <<fileClosed, exists>> /\ (fileClosed \/ ~exists)
  BY <1>4, ItemsStep DEF Abstract!itemVars
<1>5. CASE UNCHANGED <<fileClosed, exists>> /\ ~fileClosed /\ exists
  <2>1. /\ Len(file') \in Len(file) .. total + 1 /\ total' \in {total, total + 1}
    BY <1>1, ItemsStep
  <2>2. Abstract!Store(Len(file'))
    BY <1>1, <1>5, <2>1 DEF Abstract!Store
  <2>3. Abstract!Accept \/ total' = total
    BY <1>5, <2>1 DEF Abstract!Accept
  <2>4. Abstract!Progress
    BY <2>1, <2>2, <2>3 DEF Abstract!Progress
  <2> QED  BY <2>4 DEF Abstract!ItemNext
<1> QED  BY <1>2, <1>3, <1>4, <1>5

\* The writer implements ItemFile: whatever the workers, the failures and the order of
\* calls, a completed file holds every accepted item and never changes again, and a
\* removed file is never written to or brought back.
THEOREM WriterImplementsItemFile == Spec => ImplementsItemFile
<1>1. Init => Abstract!ItemInit
  BY DEF Init, Abstract!ItemInit
<1>2. WriterInv /\ WriterInv' /\ [Next]_vars => [Abstract!ItemNext]_(Abstract!itemVars)
  BY ItemFileStep
<1> QED  BY <1>1, <1>2, WriterInvariant, PTL DEF Spec, ImplementsItemFile, Abstract!ItemSpec
===============================================================================
