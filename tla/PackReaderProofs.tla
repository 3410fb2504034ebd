---------------------------- MODULE PackReaderProofs ----------------------------
(***************************************************************************)
(* Theorems about PackReader, and about the event store's reader on top of  *)
(* it, for any number of callers and workers, any file, any positions and   *)
(* any faults, in two parts.                                                *)
(*   The packfile reader: what it holds, and what a read delivers and       *)
(* reports.                                                                 *)
(*   The event store's reader: what a caller is given, and its refinement   *)
(* of KeyedReader.                                                          *)
(***************************************************************************)
EXTENDS EventReader, FiniteSetTheorems, SequenceTheorems, WellFoundedInduction, TLAPS

CallPoints == {"idle", "close", "wait", "recv", "opened", "split", "run"}

(***************************************************************************)
(* Why Close leaks nothing.  A result in the channel, or received, means    *)
(* that the background open is over; an error means that it has closed its  *)
(* file; and whoever is past waitOpen knows that.                           *)
(***************************************************************************)
OpenKnown ==
    /\ openCh # "none" => opener = "done"
    /\ once = "done" => opener = "done"
    /\ openErr => opener = "done"
    /\ \A c \in Callers : cpc[c] = "opened" => opener = "done"

FailedIsShut ==
    /\ opener = "open" => file # "open"
    /\ openCh = "err" => file # "open"
    /\ openErr => file # "open"

LeakInv ==
    /\ cpc \in [Callers -> CallPoints]
    /\ OpenKnown
    /\ FailedIsShut
    /\ NotLeaked

\* It holds when Open returns.
LEMMA LeakInit == Init => LeakInv
  BY DEF Init, LeakInv, CallPoints, OpenKnown, FailedIsShut, NotLeaked

\* The background open keeps the invariant: before it ends there is no result yet.
LEMMA LeakOpener == LeakInv /\ Opener => LeakInv'
<1> SUFFICES ASSUME LeakInv, Opener PROVE LeakInv'
  OBVIOUS
<1> USE DEF LeakInv, OpenKnown, FailedIsShut, NotLeaked, OpenFrame, callVars
<1>1. CASE OpenFile
  BY <1>1 DEF OpenFile
<1>2. CASE CheckFile
  BY <1>2 DEF CheckFile, Cleanup
<1> QED
  BY <1>1, <1>2 DEF Opener

\* What a caller does to its own program counter only: it may go anywhere but past
\* waitOpen.
LEMMA LeakMoves ==
  ASSUME LeakInv, NEW c \in Callers, NEW where \in CallPoints,
         UNCHANGED <<opener, openCh, once, openErr, file, closeOnce>>,
         cpc' = [cpc EXCEPT ![c] = where],
         where = "opened" => opener = "done"
  PROVE  LeakInv'
  BY DEF LeakInv, OpenKnown, FailedIsShut, NotLeaked

\* A step that leaves the open, Close and the program counters alone keeps it.
LEMMA LeakSame ==
  ASSUME LeakInv, UNCHANGED <<opener, openCh, once, openErr, file, closeOnce, cpc>>
  PROVE  LeakInv'
  BY DEF LeakInv, OpenKnown, FailedIsShut, NotLeaked

\* The calls that do not touch the file keep the invariant.
LEMMA LeakCalls ==
  ASSUME LeakInv, NEW c \in Callers,
         Read(c) \/ CallClose(c) \/ CancelCtx(c) \/ Refused(c) \/ Split(c)
            \/ SplitNext(c) \/ Launch(c) \/ Join(c)
  PROVE  LeakInv'
<1>1. CASE Read(c) \/ CallClose(c)
  BY <1>1, LeakMoves DEF Read, CallClose, Begin, openVars, CallPoints
<1>2. CASE CancelCtx(c)
  BY <1>2, LeakSame DEF CancelCtx, openVars
<1>3. CASE Refused(c)
  BY <1>3, LeakMoves DEF Refused, Return, CallFrame, CallPoints
<1>4. CASE Split(c)
  BY <1>4, LeakMoves DEF Split, At, SplitFrame, openVars, CallPoints
<1>5. CASE SplitNext(c)
  BY <1>5, LeakSame DEF SplitNext, SplitFrame, openVars
<1>6. CASE Launch(c)
  BY <1>6, LeakMoves DEF Launch, At, Return, openVars, CallPoints
<1>7. CASE Join(c)
  BY <1>7, LeakMoves DEF Join, Return, CallFrame, CallPoints
<1> QED
  BY <1>1, <1>2, <1>3, <1>4, <1>5, <1>6, <1>7

\* The steps through closeOnce and waitOpen keep the invariant.
LEMMA LeakGates ==
  ASSUME LeakInv, NEW c \in Callers,
         EnterClose(c) \/ EnterWait(c) \/ RecvOpen(c) \/ CloseFile(c)
  PROVE  LeakInv'
<1> USE DEF LeakInv, OpenKnown, FailedIsShut, NotLeaked, CallFrame, Goto, At, CallPoints
<1>1. CASE EnterClose(c)
  BY <1>1 DEF EnterClose, Return
<1>2. CASE EnterWait(c)
  BY <1>2 DEF EnterWait
<1>3. CASE RecvOpen(c)
  BY <1>3 DEF RecvOpen
<1>4. CASE CloseFile(c)
  <2>1. opener = "done" /\ opener' = "done"
    BY <1>4 DEF CloseFile
  <2>2. file' # "open"
    BY <1>4 DEF CloseFile
  <2> QED
    BY <1>4, <2>1, <2>2 DEF CloseFile, Return
<1> QED
  BY <1>1, <1>2, <1>3, <1>4

\* No worker touches them.
LEMMA LeakWorkers ==
  ASSUME LeakInv, NEW w \in Workers, Worker(w)
  PROVE  LeakInv'
<1>1. UNCHANGED <<opener, openCh, once, openErr, file, closeOnce, cpc>>
  BY DEF Worker, WorkerStart, WorkerClaim, WorkerCheck, WorkerRead, WorkerDecode,
         WorkerFn, WorkerFrame, openVars
<1> QED
  BY <1>1, LeakSame

\* Every step keeps the invariant.
LEMMA LeakNext == LeakInv /\ [Next]_vars => LeakInv'
<1> SUFFICES ASSUME LeakInv, [Next]_vars PROVE LeakInv'
  OBVIOUS
<1>1. CASE Opener
  BY <1>1, LeakOpener
<1>2. ASSUME NEW c \in Callers,
             Read(c) \/ CallClose(c) \/ CancelCtx(c) \/ CallStep(c)
      PROVE  LeakInv'
  BY <1>2, LeakCalls, LeakGates DEF CallStep
<1>3. ASSUME NEW w \in Workers, Worker(w) PROVE LeakInv'
  BY <1>3, LeakWorkers
<1>4. CASE UNCHANGED vars
  BY <1>4, LeakSame DEF vars, openVars, callVars
<1> QED
  BY <1>1, <1>2, <1>3, <1>4 DEF Next

\* Once Close has returned, the background open is over and the file is not open:
\* closeOnce.Do waits for the open whoever received its result (reader.go, Close).
THEOREM NeverLeaked == Spec => []NotLeaked
<1>1. LeakInv => NotLeaked
  BY DEF LeakInv
<1> QED
  BY LeakInit, LeakNext, <1>1, PTL DEF Spec

(***************************************************************************)
(* Why no two workers share a decoder.  A worker holds one between its      *)
(* start and its exit only, a call waits for its workers, and a decoder is  *)
(* empty whenever it is in the pool.                                        *)
(***************************************************************************)
Holds(w, d) == d \in dec[w]

\* A decoder is in the pool or with one worker.
OneHolder ==
    \A d \in Decoders :
        /\ d \in pool => \A w \in Workers : ~Holds(w, d)
        /\ d \notin pool => \E w \in Workers : Holds(w, d)
        /\ \A w, v \in Workers : Holds(w, d) /\ Holds(v, d) => w = v

\* Who has not started, or is through, holds none; a call waits for its workers.
HeldInside ==
    \A w \in Workers :
        /\ wpc[w] \in {"start", "exited"} => dec[w] = {}
        /\ wpc[w] # "exited" => cpc[w[1]] = "run"

OwnInv ==
    /\ cpc \in [Callers -> CallPoints] /\ DOMAIN wpc = Workers
    /\ dec \in [Workers -> SUBSET Decoders]
    /\ pool \subseteq Decoders /\ DOMAIN decoded = Decoders
    /\ OneHolder
    /\ HeldInside
    /\ \A d \in pool : decoded[d] = NoRecord

\* It is the property: the holders of a decoder are a set of one, or none.
LEMMA OwnedOnce == OwnInv => DecodersOwned
<1> SUFFICES ASSUME OwnInv PROVE DecodersOwned
  OBVIOUS
<1>1. ASSUME NEW d \in Decoders
      PROVE  Cardinality({w \in Workers : d \in dec[w]}) = (IF d \in pool THEN 0 ELSE 1)
  <2>1. CASE d \in pool
    <3>1. {w \in Workers : d \in dec[w]} = {}
      BY <2>1 DEF OwnInv, OneHolder, Holds
    <3> QED
      BY <2>1, <3>1, FS_EmptySet
  <2>2. CASE d \notin pool
    <3>1. PICK w \in Workers : d \in dec[w]
      BY <2>2 DEF OwnInv, OneHolder, Holds
    <3>2. {v \in Workers : d \in dec[v]} = {w}
      BY <3>1 DEF OwnInv, OneHolder, Holds
    <3> QED
      BY <2>2, <3>2, FS_Singleton
  <2> QED
    BY <2>1, <2>2
<1>2. ASSUME NEW w \in Workers, cpc[w[1]] = "idle" PROVE dec[w] = {}
  BY <1>2 DEF OwnInv, HeldInside
<1> QED
  BY <1>1, <1>2 DEF DecodersOwned, OwnInv

\* The pool is full when Open returns.
LEMMA OwnInit == Init => OwnInv
  BY DEF Init, OwnInv, OneHolder, Holds, HeldInside, CallPoints

\* A step that leaves the workers, the pool and the program counters alone keeps it.
LEMMA OwnSame ==
  ASSUME OwnInv, UNCHANGED <<cpc, wpc, poolVars>>
  PROVE  OwnInv'
  BY DEF OwnInv, OneHolder, Holds, HeldInside, poolVars

\* So does a caller that goes somewhere else, unless it leaves workers behind.
LEMMA OwnMoves ==
  ASSUME OwnInv, NEW c \in Callers, NEW where \in CallPoints,
         UNCHANGED <<wpc, poolVars>>,
         cpc' = [cpc EXCEPT ![c] = where],
         \A w \in Workers : w[1] = c => wpc[w] = "exited"
  PROVE  OwnInv'
<1>1. OneHolder'
  BY DEF OwnInv, OneHolder, Holds, poolVars
<1>2. HeldInside'
  <2> SUFFICES ASSUME NEW w \in Workers
               PROVE  /\ wpc[w] \in {"start", "exited"} => dec[w] = {}
                      /\ wpc[w] # "exited" => cpc'[w[1]] = "run"
    BY DEF HeldInside, poolVars
  <2>1. w[1] \in Callers
    BY DEF Workers
  <2> QED
    BY <2>1 DEF OwnInv, HeldInside
<1> QED
  BY <1>1, <1>2 DEF OwnInv, poolVars

\* Workers whose call is not running have gone.
LEMMA NoneLeft ==
  ASSUME OwnInv, NEW c \in Callers, cpc[c] # "run"
  PROVE  \A w \in Workers : w[1] = c => wpc[w] = "exited"
  BY DEF OwnInv, HeldInside

\* The calls keep the invariant: Join alone leaves "run", and waits.
LEMMA OwnCalls ==
  ASSUME OwnInv, NEW c \in Callers,
         Read(c) \/ CallClose(c) \/ CancelCtx(c) \/ CallStep(c)
  PROVE  OwnInv'
<1>1. CASE Read(c) \/ CallClose(c)
  BY <1>1, OwnMoves, NoneLeft DEF Read, CallClose, Begin, workerVars, CallPoints
<1>2. CASE CancelCtx(c)
  BY <1>2, OwnSame DEF CancelCtx, workerVars
<1>3. CASE EnterClose(c) \/ EnterWait(c) \/ RecvOpen(c) \/ CloseFile(c) \/ Refused(c)
  BY <1>3, OwnMoves, NoneLeft
     DEF EnterClose, EnterWait, RecvOpen, CloseFile, Refused, Goto, At, Return, CallFrame,
         workerVars, CallPoints
<1>4. CASE Split(c)
  BY <1>4, OwnMoves, NoneLeft DEF Split, At, SplitFrame, workerVars, CallPoints
<1>5. CASE SplitNext(c)
  BY <1>5, OwnSame DEF SplitNext, SplitFrame, workerVars
<1>6. CASE Launch(c)
  <2>1. CASE UNCHANGED wpc
    BY <1>6, <2>1, OwnMoves, NoneLeft DEF Launch, At, Return, poolVars, CallPoints
  <2>2. CASE ~UNCHANGED wpc
    <3>1. /\ cpc' = [cpc EXCEPT ![c] = "run"] /\ UNCHANGED poolVars
          /\ wpc' = [w \in Workers |->
                IF w[1] = c /\ w[2] <= NumWorkers(c) THEN "start" ELSE wpc[w]]
      BY <1>6, <2>2 DEF Launch, At
    <3>2. \A w \in Workers : w[1] = c => wpc[w] = "exited"
      BY <1>6, NoneLeft DEF Launch
    <3>3. OneHolder'
      BY <3>1 DEF OwnInv, OneHolder, Holds, poolVars
    <3>4. HeldInside'
      <4> SUFFICES ASSUME NEW w \in Workers
                   PROVE  /\ wpc'[w] \in {"start", "exited"} => dec[w] = {}
                          /\ wpc'[w] # "exited" => cpc'[w[1]] = "run"
        BY <3>1 DEF HeldInside, poolVars
      <4>1. w[1] \in Callers
        BY DEF Workers
      <4>2. wpc'[w] = "start" \/ wpc'[w] = wpc[w]
        BY <3>1
      <4> QED
        BY <3>1, <3>2, <4>1, <4>2 DEF OwnInv, HeldInside
    <3> QED
      BY <3>1, <3>3, <3>4 DEF OwnInv, CallPoints, poolVars
  <2> QED
    BY <2>1, <2>2
<1>7. CASE Join(c)
  <2>1. \A w \in Workers : w[1] = c => wpc[w] = "exited"
    BY <1>7 DEF Join, AllExited, Workers
  <2> QED
    BY <1>7, <2>1, OwnMoves DEF Join, Return, CallFrame, workerVars, CallPoints
<1> QED
  BY <1>1, <1>2, <1>3, <1>4, <1>5, <1>6, <1>7 DEF CallStep

\* A worker that exits gives its decoder back, empty.
LEMMA OwnExit ==
  ASSUME OwnInv, NEW w \in Workers, Exit(w), UNCHANGED cpc
  PROVE  OwnInv'
<1> USE DEF OwnInv, Exit, Step
<1>1. OneHolder'
  BY DEF OneHolder, Holds
<1>2. HeldInside'
  BY DEF HeldInside
<1>3. \A d \in pool' : decoded'[d] = NoRecord
  OBVIOUS
<1> QED
  BY <1>1, <1>2, <1>3

\* A worker that goes on without touching a decoder keeps what it has.
LEMMA OwnGoesOn ==
  ASSUME OwnInv, NEW w \in Workers, NEW where, Step(w, where),
         wpc[w] \notin {"start", "exited"}, where \notin {"start", "exited"},
         UNCHANGED <<cpc, dec, pool>>, DOMAIN decoded' = Decoders,
         \A d \in pool : decoded'[d] = NoRecord
  PROVE  OwnInv'
<1>1. OneHolder'
  BY DEF OwnInv, OneHolder, Holds
<1>2. HeldInside'
  BY DEF OwnInv, HeldInside, Step
<1> QED
  BY <1>1, <1>2 DEF OwnInv, Step

\* A worker takes a decoder of the pool, which no other has.
LEMMA OwnStarts ==
  ASSUME OwnInv, NEW w \in Workers, WorkerStart(w)
  PROVE  OwnInv'
<1>1. PICK d \in pool : dec' = [dec EXCEPT ![w] = {d}] /\ pool' = pool \ {d}
  BY DEF WorkerStart
<1>2. dec[w] = {} /\ UNCHANGED <<cpc, decoded>> /\ wpc' = [wpc EXCEPT ![w] = "claim"]
  BY DEF WorkerStart, WorkerFrame, Step, OwnInv, HeldInside
<1>3. OneHolder'
  BY <1>1, <1>2 DEF OwnInv, OneHolder, Holds
<1>4. HeldInside'
  BY <1>1, <1>2 DEF OwnInv, HeldInside, WorkerStart
<1> QED
  BY <1>1, <1>2, <1>3, <1>4 DEF OwnInv

\* The workers keep the invariant.
LEMMA OwnWorkers ==
  ASSUME OwnInv, NEW w \in Workers, Worker(w)
  PROVE  OwnInv'
<1> USE DEF WorkerFrame, poolVars
<1>0. \A d \in pool : decoded[d] = NoRecord /\ DOMAIN decoded = Decoders
  BY DEF OwnInv
<1>1. CASE WorkerStart(w)
  BY <1>1, OwnStarts
<1>2. CASE WorkerClaim(w)
  BY <1>2, <1>0, OwnGoesOn DEF WorkerClaim, OwnInv
<1>3. CASE WorkerCheck(w)
  BY <1>3, <1>0, OwnGoesOn, OwnExit DEF WorkerCheck, Fail, OwnInv
<1>4. CASE WorkerRead(w)
  BY <1>4, <1>0, OwnGoesOn, OwnExit DEF WorkerRead, Fail, OwnInv
<1>5. CASE WorkerDecode(w)
  <2>1. CASE Decoded(w, Rec(w[1], local[w].k)) /\ Step(w, "fn") /\ UNCHANGED dec
    <3>1. DOMAIN decoded' = Decoders /\ \A d \in pool : decoded'[d] = NoRecord
      BY <2>1 DEF Decoded, OwnInv, OneHolder, Holds
    <3> QED
      BY <1>5, <2>1, <3>1, OwnGoesOn DEF WorkerDecode, Decoded
  <2>2. CASE Step(w, "fn") /\ UNCHANGED poolVars
    BY <1>5, <2>2, OwnGoesOn DEF WorkerDecode, OwnInv
  <2>3. CASE Exit(w)
    BY <1>5, <2>3, OwnExit DEF WorkerDecode
  <2> QED
    BY <1>5, <2>1, <2>2, <2>3 DEF WorkerDecode, Fail
<1>6. CASE WorkerFn(w)
  <2>1. CASE Exit(w)
    BY <1>6, <2>1, OwnExit DEF WorkerFn
  <2>2. CASE UNCHANGED poolVars /\ (Step(w, "claim") \/ Step(w, "decode"))
    BY <1>6, <2>2, OwnGoesOn DEF WorkerFn, OwnInv
  <2> QED
    BY <1>6, <2>1, <2>2 DEF WorkerFn, Fail
<1> QED
  BY <1>1, <1>2, <1>3, <1>4, <1>5, <1>6 DEF Worker

\* Every step keeps the invariant.
LEMMA OwnNext == OwnInv /\ [Next]_vars => OwnInv'
<1> SUFFICES ASSUME OwnInv, [Next]_vars PROVE OwnInv'
  OBVIOUS
<1>1. CASE Opener
  BY <1>1, OwnSame DEF Opener, OpenFile, CheckFile, OpenFrame, callVars, workerVars
<1>2. ASSUME NEW c \in Callers,
             Read(c) \/ CallClose(c) \/ CancelCtx(c) \/ CallStep(c)
      PROVE  OwnInv'
  BY <1>2, OwnCalls
<1>3. ASSUME NEW w \in Workers, Worker(w) PROVE OwnInv'
  BY <1>3, OwnWorkers
<1>4. CASE UNCHANGED vars
  BY <1>4, OwnSame DEF vars, callVars, workerVars
<1> QED
  BY <1>1, <1>2, <1>3, <1>4 DEF Next

\* No two workers ever hold one decoder, of one call or of several, none that is in the
\* pool is in use, and a call that has returned holds none (getDecoder, putDecoder, and
\* the wait of ReadItems for its workers).
THEOREM NeverShared == Spec => []DecodersOwned
  BY OwnInit, OwnNext, OwnedOnce, PTL DEF Spec

-----------------------------------------------------------------------------
(***************************************************************************)
(* What a read delivers and reports.                                        *)
(***************************************************************************)
Busy      == {"check", "read", "decode", "fn"}
Reading   == {"read", "decode", "fn"}
Equipped  == {"claim"} \cup Busy

Positions(c) == req[c].positions

(***************************************************************************)
(* What a call asks for: it is checked before the partition.                *)
(***************************************************************************)
AskedInv ==
    \A c \in Callers :
        /\ DOMAIN got[c] = DOMAIN Positions(c)
        /\ cpc[c] = "close" => req[c] = Close
        /\ cpc[c] \in {"split", "run"} =>
              /\ req[c] \in Requests
              /\ \A k \in DOMAIN Positions(c) : Positions(c)[k] \in 0 .. TotalItems - 1

(***************************************************************************)
(* The partition.  A batch is an interval of the indices whose records lie  *)
(* between its first and its last; the batches come one after the other and *)
(* leave no index out.                                                      *)
(***************************************************************************)
Fits(c, b) ==
    /\ 1 <= b.from /\ b.from <= b.to /\ b.to <= Len(Positions(c))
    /\ b.first <= b.last /\ b.first \in Records /\ b.last \in Records
    /\ \A k \in b.from .. b.to : b.first <= Rec(c, k) /\ Rec(c, k) <= b.last

Partition(c, bs, n) ==
    /\ \A i \in 1 .. Len(bs) : Fits(c, bs[i]) /\ bs[i].to <= n
    /\ \A i, j \in 1 .. Len(bs) : i < j => bs[i].to < bs[j].from
    /\ \A k \in 1 .. n : \E i \in 1 .. Len(bs) : k \in bs[i].from .. bs[i].to

SplitOf(c) ==
    /\ cut[c].next >= 1
    /\ cpc[c] = "split" =>
          /\ Fits(c, CurrentBatch(c))
          /\ Partition(c, batches[c], cut[c].start - 1)
    /\ cpc[c] = "run" => Partition(c, batches[c], Len(Positions(c)))
    /\ cpc[c] \notin {"split", "run"} => batches[c] = <<>>
    /\ cpc[c] # "run" => nextBatch[c] = 0 /\ ~cancelled[c] /\ firstErr[c] = "none"

SplitInv == \A c \in Callers : SplitOf(c)

(***************************************************************************)
(* The workers.  No two hold one batch, the buffer holds the records of the *)
(* batch, and the decoder the record of the previous position.              *)
(***************************************************************************)
WorkerOf(w) ==
    /\ wpc[w] \in Equipped => \E d \in Decoders : dec[w] = {d}
    /\ wpc[w] \in Busy => 1 <= local[w].batch /\ local[w].batch <= nextBatch[w[1]]
    /\ wpc[w] \in Reading =>
          /\ local[w].batch <= Len(batches[w[1]])
          /\ Batch(w).from <= local[w].k /\ local[w].k <= Batch(w).to
    /\ wpc[w] = "read" => local[w].k = Batch(w).from /\ local[w].prevRec = NoRecord
    /\ wpc[w] \in {"decode", "fn"} =>
          /\ local[w].buf = Interval(Batch(w))
          /\ local[w].prevRec # NoRecord => \A d \in dec[w] : decoded[d] = local[w].prevRec
    /\ wpc[w] = "fn" => local[w].prevRec = Rec(w[1], local[w].k)

\* Two workers of one call have two batches.
ClaimedOnce ==
    \A w, v \in Workers :
        w[1] = v[1] /\ wpc[w] \in Busy /\ wpc[v] \in Busy /\ local[w].batch = local[v].batch
            => w = v

WorkerInv == ClaimedOnce /\ \A w \in Workers : WorkerOf(w)

(***************************************************************************)
(* What has been delivered.                                                 *)
(***************************************************************************)
\* Batch i of the call of c is with worker w.
HasBatch(w, c, i) == w[1] = c /\ wpc[w] \in Busy /\ local[w].batch = i

\* The worker has gone past index k.
Past(w, k) == wpc[w] \in {"decode", "fn"} /\ k < local[w].k

\* An index of batch i is untouched until the batch is claimed, delivered when its worker
\* is past it, and delivered when no worker has the batch any more, unless one failed.
IndexDone(c, i, k) ==
    /\ i > nextBatch[c] => got[c][k] = <<>>
    /\ \A w \in Workers : HasBatch(w, c, i) => (got[c][k] # <<>> <=> Past(w, k))
    /\ \/ i > nextBatch[c] \/ firstErr[c] # "none" \/ got[c][k] # <<>>
       \/ \E w \in Workers : HasBatch(w, c, i)

GotOf(c) ==
    /\ \A k \in DOMAIN Positions(c) : got[c][k] \in {<<>>, <<Positions(c)[k]>>}
    /\ cpc[c] \in {"wait", "recv", "opened", "split"} =>
          \A k \in DOMAIN Positions(c) : got[c][k] = <<>>
    /\ cancelled[c] => firstErr[c] # "none"
    /\ cpc[c] = "run" =>
          /\ \A i \in 1 .. Len(batches[c]) :
                \A k \in batches[c][i].from .. batches[c][i].to : IndexDone(c, i, k)
          /\ \/ wpc[<<c, 1>>] # "exited" \/ firstErr[c] # "none"
             \/ nextBatch[c] > Len(batches[c])

GotInv == \A c \in Callers : GotOf(c)

(***************************************************************************)
(* What has been returned.                                                  *)
(***************************************************************************)
OpenInv ==
    /\ opener = "open" => file = "none"
    /\ opener = "check" => file # "none"
    /\ openErr => once = "done"
    /\ openCh = "ok" \/ (once = "done" /\ ~openErr) => file # "none"
    /\ \A c \in Callers :
          /\ cpc[c] = "recv" => once = "busy" /\ \A e \in Callers : cpc[e] = "recv" => e = c
          /\ cpc[c] \in {"opened", "split", "run"} => once = "done"
          /\ cpc[c] \in {"split", "run"} => ~openErr

Cause(c, e) ==
    /\ e = "open" => openErr
    /\ e = "range" => req[c].positions[1] \notin 0 .. TotalItems - 1
    /\ e = "ctx" => ctxDone[c]
    /\ e = "corrupt" => \E k \in DOMAIN req[c].positions : Rec(c, k) \in corrupt
    /\ e = "read" => file = "closed" \/ "read" \in Faults
    /\ e = "fn" => "fn" \in Faults
    /\ e # "panic"

ReturnOf(c) ==
    /\ ret[c] # "none" => cpc[c] = "idle"
    /\ firstErr[c] # "ok"
    /\ Cause(c, ret[c]) /\ Cause(c, firstErr[c])
    /\ ret[c] = "ok" => \A k \in DOMAIN got[c] : got[c][k] # <<>>

ReturnInv == \A c \in Callers : ReturnOf(c)

ReadInv == /\ TypeOK /\ OwnInv /\ AskedInv /\ SplitInv /\ WorkerInv
           /\ GotInv /\ OpenInv /\ ReturnInv

-----------------------------------------------------------------------------
(***************************************************************************)
(* Arithmetic.                                                              *)
(***************************************************************************)
\* Quotient and remainder.
LEMMA DivMod ==
  ASSUME NEW a \in Int, NEW n \in Nat \ {0}
  PROVE  /\ a \div n \in Int /\ a % n \in 0 .. n - 1
         /\ ((a \div n) * n) + (a % n) = a
  OBVIOUS

\* A position of the file is in one of its records.
LEMMA RecordOfPosition ==
  ASSUME NEW p \in 0 .. TotalItems - 1
  PROVE  p \div ItemsPerRecord \in Records
<1>1. ItemsPerRecord \in Nat \ {0} /\ TotalItems \in Nat
  BY ReaderAssumption
<1>2. p \div ItemsPerRecord >= 0 /\ p \div ItemsPerRecord \in Int
  BY <1>1
<1>3. (p + ItemsPerRecord) \div ItemsPerRecord = (p \div ItemsPerRecord) + 1
  BY <1>1
<1>4. (p + ItemsPerRecord) \div ItemsPerRecord
         <= (TotalItems + ItemsPerRecord - 1) \div ItemsPerRecord
  BY <1>1
<1> QED
  BY <1>1, <1>2, <1>3, <1>4 DEF Records, RecordCount

\* A set of numbers that is not empty has a least one.
LEMMA LeastNumber ==
  ASSUME NEW T \in SUBSET Nat, T # {}
  PROVE  \E x \in T : \A y \in T : x <= y
<1>1. PICK x \in T : \A y \in T : ~(<<y, x>> \in OpToRel(<, Nat))
  BY WFMin, NatLessThanWellFounded
<1>2. \A y \in T : ~(y < x)
  BY <1>1 DEF OpToRel
<1> QED
  BY <1>2

\* The offsets never go down, however far apart the records are: the first record
\* that started below another before it would start below its neighbour.
LEMMA OffsetsUp ==
  ASSUME NEW r \in Records, NEW s \in 0 .. RecordCount, r <= s
  PROVE  Offsets[r] <= Offsets[s]
<1> DEFINE Bad == {x \in r .. RecordCount : Offsets[x] < Offsets[r]}
<1>0. RecordCount \in Int /\ Offsets \in [0 .. RecordCount -> Nat] /\ r \in 0 .. RecordCount
  BY ReaderAssumption DEF Records, RecordCount
<1>1. SUFFICES ASSUME Bad # {} PROVE FALSE
  BY <1>0 DEF Records
<1>2. Bad \in SUBSET Nat
  BY <1>0
<1>3. PICK x \in Bad : \A y \in Bad : x <= y
  BY <1>1, <1>2, LeastNumber
<1>4. x # r /\ x \in Nat /\ x - 1 \in r .. RecordCount - 1
  BY <1>0, <1>3 DEF Records
<1>5. Offsets[x - 1] <= Offsets[(x - 1) + 1]
  BY <1>0, <1>4, ReaderAssumption DEF Records
<1>6. x - 1 \in Bad
  BY <1>0, <1>3, <1>4, <1>5 DEF Records
<1> QED
  BY <1>3, <1>4, <1>6

\* The sizes of the records are numbers, and so are the bounds of an interval of them.
LEMMA SizeOfRecord ==
  ASSUME NEW r \in Records
  PROVE  Size(r) \in Nat /\ r \in Nat /\ Offsets[r] \in Nat /\ Offsets[r + 1] \in Nat
<1>1. RecordCount \in Int /\ Offsets \in [0 .. RecordCount -> Nat]
  BY ReaderAssumption DEF Records, RecordCount
<1>2. Offsets[r] <= Offsets[r + 1]
  BY ReaderAssumption
<1> QED
  BY <1>1, <1>2 DEF Size, Records

-----------------------------------------------------------------------------
(***************************************************************************)
(* What the invariant says of one call and of one worker.                   *)
(***************************************************************************)
BatchSet == [from: Nat, to: Nat, first: Records, last: Records]

\* A request is a list of positions that is not empty, and is not Close.
LEMMA RequestIs ==
  ASSUME NEW q \in Requests
  PROVE  /\ q \in Request /\ q # Close /\ q.op \in {"item", "items", "range"}
         /\ q.positions \in Seq(Int) /\ Len(q.positions) \in Nat \ {0}
         /\ DOMAIN q.positions = 1 .. Len(q.positions)
<1>1. q \in Request /\ q.positions # <<>>
  BY ReaderAssumption
<1>2. q.positions \in Seq(Int) /\ q.op \in {"item", "items", "range"}
  BY <1>1 DEF Request
<1> QED
  BY <1>1, <1>2 DEF Close

\* A call that has got past the checks asks for positions of the file.
LEMMA AskedOf ==
  ASSUME AskedInv, NEW c \in Callers, cpc[c] \in {"split", "run"}
  PROVE  /\ Positions(c) \in Seq(Int) /\ Len(Positions(c)) \in Nat \ {0}
         /\ req[c] \in Requests /\ req[c] # Close
         /\ \A k \in 1 .. Len(Positions(c)) :
               /\ Positions(c)[k] \in 0 .. TotalItems - 1
               /\ Rec(c, k) \in Records /\ Rec(c, k) \in Nat
<1>1. req[c] \in Requests /\ \A k \in DOMAIN Positions(c) : Positions(c)[k] \in 0 .. TotalItems - 1
  BY DEF AskedInv
<1>2. /\ Positions(c) \in Seq(Int) /\ Len(Positions(c)) \in Nat \ {0} /\ req[c] # Close
      /\ DOMAIN Positions(c) = 1 .. Len(Positions(c))
  BY <1>1, RequestIs DEF Positions
<1>3. ASSUME NEW k \in 1 .. Len(Positions(c))
      PROVE  Rec(c, k) \in Records /\ Rec(c, k) \in Nat
  BY <1>1, <1>2, <1>3, RecordOfPosition, SizeOfRecord DEF Rec, Positions
<1> QED
  BY <1>1, <1>2, <1>3

\* The batch a worker reads is one of its call's, and the worker is inside it.
LEMMA BatchOf ==
  ASSUME TypeOK, OwnInv, AskedInv, SplitInv, WorkerInv, NEW w \in Workers, wpc[w] \in Reading
  PROVE  /\ w[1] \in Callers /\ cpc[w[1]] = "run"
         /\ Batch(w) \in BatchSet /\ Fits(w[1], Batch(w))
         /\ local[w].batch \in 1 .. Len(batches[w[1]])
         /\ local[w].k \in 1 .. Len(Positions(w[1]))
         /\ local[w].k \in Batch(w).from .. Batch(w).to
         /\ Rec(w[1], local[w].k) \in Batch(w).first .. Batch(w).last
         /\ Rec(w[1], local[w].k) \in Records
<1>1. w[1] \in Callers /\ cpc[w[1]] = "run"
  BY DEF Workers, OwnInv, HeldInside, Reading
<1>2. local[w].batch \in Nat /\ local[w].k \in Nat /\ batches[w[1]] \in Seq(BatchSet)
  BY <1>1 DEF TypeOK, CallType, WorkerType, BatchSet
<1>3. local[w].batch \in 1 .. Len(batches[w[1]])
  BY <1>2 DEF WorkerInv, WorkerOf, Reading, Busy
<1>4. Batch(w) \in BatchSet
  BY <1>2, <1>3 DEF Batch
<1>5. Fits(w[1], Batch(w))
  BY <1>1, <1>3 DEF SplitInv, SplitOf, Partition, Batch
<1>6. Batch(w).from <= local[w].k /\ local[w].k <= Batch(w).to
  BY DEF WorkerInv, WorkerOf
<1>7. Len(Positions(w[1])) \in Nat
  BY <1>1, AskedOf
<1>8. Batch(w).from \in Nat /\ Batch(w).to \in Nat
  BY <1>4 DEF BatchSet
<1>9. local[w].k \in Batch(w).from .. Batch(w).to /\ local[w].k \in 1 .. Len(Positions(w[1]))
  BY <1>2, <1>5, <1>6, <1>7, <1>8 DEF Fits
<1>10. Rec(w[1], local[w].k) \in Records /\ Rec(w[1], local[w].k) \in Nat
  BY <1>1, <1>9, AskedOf
<1>11. Batch(w).first \in Nat /\ Batch(w).last \in Nat
  BY <1>5, SizeOfRecord DEF Fits
<1>12. Rec(w[1], local[w].k) \in Batch(w).first .. Batch(w).last
  BY <1>5, <1>9, <1>10, <1>11 DEF Fits
<1> QED
  BY <1>1, <1>3, <1>4, <1>5, <1>9, <1>10, <1>12

\* So the records of its batch are in its buffer: no slice of it is out of range.
LEMMA AlwaysInBuffer ==
  ASSUME TypeOK, OwnInv, AskedInv, SplitInv, WorkerInv, NEW w \in Workers, wpc[w] = "decode"
  PROVE  InBuffer(w, Rec(w[1], local[w].k))
<1> DEFINE rec == Rec(w[1], local[w].k)
           b   == Batch(w)
<1>1. b.first \in Records /\ b.last \in Records /\ rec \in Records /\ b.first <= rec /\ rec <= b.last
  <2>1. rec \in b.first .. b.last /\ rec \in Records /\ Fits(w[1], b)
    BY BatchOf DEF Reading
  <2> QED
    BY <2>1, SizeOfRecord DEF Fits
<1>2. local[w].buf = <<Offsets[b.first], Offsets[b.last + 1]>>
  BY DEF WorkerInv, WorkerOf, Interval
<1> HIDE DEF rec, b
<1>3. rec \in 0 .. RecordCount /\ rec + 1 \in 0 .. RecordCount
      /\ b.last + 1 \in 0 .. RecordCount /\ RecordCount \in Int
  BY <1>1, ReaderAssumption DEF Records, RecordCount
<1>4. Offsets[b.first] <= Offsets[rec]
  BY <1>1, <1>3, OffsetsUp
<1>5. Offsets[rec + 1] <= Offsets[b.last + 1]
  <2>1. CASE rec = b.last
    BY <2>1, <1>1, SizeOfRecord
  <2>2. CASE rec # b.last
    <3>1. rec + 1 \in Records /\ rec + 1 <= b.last + 1
      BY <2>2, <1>1, <1>3 DEF Records
    <3> QED
      BY <3>1, <1>3, OffsetsUp
  <2> QED
    BY <2>1, <2>2
<1> QED
  BY <1>2, <1>4, <1>5 DEF InBuffer, rec

\* A worker that runs fn holds one decoder, with the record of its position, so fn is
\* given the item the position asks for.
LEMMA ItemIsAsked ==
  ASSUME TypeOK, OwnInv, AskedInv, SplitInv, WorkerInv, NEW w \in Workers, wpc[w] = "fn"
  PROVE  ItemAt(w) = Positions(w[1])[local[w].k] /\ ItemAt(w) \in Int
<1> DEFINE rec == Rec(w[1], local[w].k)
           p   == Positions(w[1])[local[w].k]
<1>1. PICK d \in Decoders : dec[w] = {d}
  BY DEF WorkerInv, WorkerOf, Equipped, Busy
<1>2. rec \in Records /\ local[w].k \in 1 .. Len(Positions(w[1])) /\ w[1] \in Callers
      /\ cpc[w[1]] = "run"
  BY BatchOf DEF Reading
<1>3. local[w].prevRec = rec
  BY DEF WorkerInv, WorkerOf
<1>4. rec # NoRecord
  BY <1>2 DEF Records, NoRecord
<1>5. decoded[d] = rec
  BY <1>1, <1>3, <1>4 DEF WorkerInv, WorkerOf
<1>6. {decoded[e] : e \in dec[w]} = {rec}
  BY <1>1, <1>5
<1>7. p \in Int /\ ItemsPerRecord \in Nat \ {0}
  BY <1>2, AskedOf, ReaderAssumption
<1>8. rec = p \div ItemsPerRecord
  BY DEF Rec, Positions
<1>9. ItemAt(w) = rec * ItemsPerRecord + (p % ItemsPerRecord)
  BY <1>6 DEF ItemAt, Positions
<1> QED
  BY <1>7, <1>8, <1>9, DivMod

-----------------------------------------------------------------------------
(***************************************************************************)
(* Types.                                                                   *)
(***************************************************************************)
CutSet   == [next: Nat, start: Nat, first: Records \cup {0}, last: Records \cup {0}, bytes: Nat]
LocalSet == [batch: Nat, k: Nat, prevRec: Records \cup {NoRecord}, buf: Nat \X Nat]

\* Nothing has been asked for when Open returns.
LEMMA TypeInit == Init => TypeOK
<1> SUFFICES ASSUME Init PROVE TypeOK
  OBVIOUS
<1>1. OpenType
  BY DEF Init, OpenType
<1>2. CallType
  BY DEF Init, CallType, NoCut
<1>3. WorkerType
  BY DEF Init, WorkerType, NoLocal
<1> QED
  BY <1>1, <1>2, <1>3 DEF TypeOK

\* The background open.
LEMMA TypeOpener == TypeOK /\ Opener => TypeOK'
<1> SUFFICES ASSUME TypeOK, Opener PROVE TypeOK'
  OBVIOUS
<1>1. UNCHANGED <<once, openErr, closeOnce, corrupt, callVars, splitVars, sharedVars, workerVars>>
  BY DEF Opener, OpenFile, CheckFile, OpenFrame
<1>2. OpenType'
  BY <1>1 DEF TypeOK, OpenType, Opener, OpenFile, CheckFile, Cleanup
<1>3. CallType'
  BY <1>1 DEF TypeOK, CallType, callVars, splitVars, sharedVars
<1>4. WorkerType'
  BY <1>1 DEF TypeOK, WorkerType, workerVars, poolVars
<1> QED
  BY <1>2, <1>3, <1>4 DEF TypeOK

\* What a return leaves behind.
LEMMA TypeReturn ==
  ASSUME CallType, NEW c \in Callers, NEW res \in {"none", "ok"} \cup Causes, Return(c, res),
         UNCHANGED <<req, ctxDone, got>>
  PROVE  CallType'
<1> USE DEF CallType, Return
<1>1. /\ cpc' \in [Callers -> CallPoints] /\ ret' \in [Callers -> {"none", "ok"} \cup Causes]
      /\ nextBatch' \in [Callers -> Nat] /\ cancelled' \in [Callers -> BOOLEAN]
      /\ firstErr' \in [Callers -> {"none"} \cup Causes]
  BY DEF CallPoints
<1>2. cut' \in [Callers -> CutSet]
  BY DEF CutSet, NoCut
<1>3. batches' \in [Callers -> Seq(BatchSet)]
  <2>1. batches \in [Callers -> Seq(BatchSet)]
    BY DEF BatchSet
  <2>2. <<>> \in Seq(BatchSet)
    OBVIOUS
  <2> QED
    BY <2>1, <2>2
<1> QED
  BY <1>1, <1>2, <1>3 DEF CallPoints, CutSet, BatchSet

\* A call begins.
LEMMA TypeBegin ==
  ASSUME TypeOK, NEW c \in Callers, NEW q \in Requests \cup {Close},
         NEW where \in CallPoints, Begin(c, q, where)
  PROVE  TypeOK'
<1> USE DEF Begin
<1>1. OpenType' /\ WorkerType'
  BY DEF TypeOK, OpenType, WorkerType, openVars, workerVars, poolVars
<1>2. [i \in DOMAIN q.positions |-> <<>>] \in Seq(Seq(Int))
  <2>1. DOMAIN q.positions = 1 .. Len(q.positions) /\ Len(q.positions) \in Nat
    <3>1. CASE q = Close
      BY <3>1 DEF Close
    <3>2. CASE q \in Requests
      BY <3>2, RequestIs
    <3> QED
      BY <3>1, <3>2
  <2>2. <<>> \in Seq(Int)
    OBVIOUS
  <2> QED
    BY <2>1, <2>2
<1> HIDE DEF Begin
<1>3. got' \in [Callers -> Seq(Seq(Int))]
  <2> DEFINE g == [i \in DOMAIN q.positions |-> <<>>]
  <2>1. got' = [got EXCEPT ![c] = g] /\ got \in [Callers -> Seq(Seq(Int))] /\ g \in Seq(Seq(Int))
    BY <1>2 DEF Begin, TypeOK, CallType
  <2> HIDE DEF g
  <2> QED
    BY <2>1
<1>4. CallType'
  BY <1>3 DEF Begin, TypeOK, CallType, CallPoints, splitVars, sharedVars
<1> QED
  BY <1>1, <1>4 DEF TypeOK

\* The calls that do not touch the partition.
LEMMA TypeCalls ==
  ASSUME TypeOK, ReturnInv, NEW c \in Callers,
         Read(c) \/ CallClose(c) \/ CancelCtx(c) \/ EnterClose(c) \/ EnterWait(c)
            \/ RecvOpen(c) \/ CloseFile(c) \/ Refused(c) \/ Join(c)
  PROVE  TypeOK'
<1>1. CASE Read(c) \/ CallClose(c)
  BY <1>1, TypeBegin DEF Read, CallClose, CallPoints
<1>2. CASE CancelCtx(c)
  <2>1. OpenType' /\ WorkerType'
    BY <1>2 DEF CancelCtx, TypeOK, OpenType, WorkerType, openVars, workerVars, poolVars
  <2>2. CallType'
    BY <1>2 DEF CancelCtx, TypeOK, CallType, splitVars, sharedVars
  <2> QED
    BY <2>1, <2>2 DEF TypeOK
<1>3. CASE EnterClose(c) \/ EnterWait(c) \/ RecvOpen(c) \/ CloseFile(c) \/ Refused(c) \/ Join(c)
  <2> USE <1>3
  <2> USE DEF EnterClose, EnterWait, RecvOpen, CloseFile, Refused, Join, CallFrame
  <2>1. OpenType'
    BY DEF TypeOK, OpenType
  <2>2. WorkerType'
    BY DEF TypeOK, WorkerType, workerVars, poolVars
  <2>3. CallType
    BY DEF TypeOK
  <2>4. CallType'
    <3>1. ASSUME NEW where \in CallPoints, Goto(c, where), UNCHANGED <<req, ctxDone, got>>
          PROVE  CallType'
      BY <2>3, <3>1 DEF Goto, At, CallType, CallPoints, splitVars, sharedVars
    <3>2. (IF firstErr[c] = "none" THEN "ok" ELSE firstErr[c]) \in {"none", "ok"} \cup Causes
      BY <2>3 DEF CallType
    <3>3. CASE EnterClose(c) \/ EnterWait(c) \/ RecvOpen(c)
      BY <2>3, <3>1, <3>3, TypeReturn DEF CallPoints
    <3>4. CASE CloseFile(c) \/ Refused(c) \/ Join(c)
      BY <2>3, <3>2, <3>4, TypeReturn DEF Causes
    <3> QED
      BY <3>3, <3>4
  <2> QED
    BY <2>1, <2>2, <2>4 DEF TypeOK
<1> QED
  BY <1>1, <1>2, <1>3

\* The loop variables of the partition, when a batch starts at index k.
LEMMA TypeStart ==
  ASSUME CallType, AskedInv, NEW c \in Callers, NEW k \in Nat, StartBatch(c, k),
         Rec(c, k) \in Records
  PROVE  cut' \in [Callers -> CutSet]
<1>1. Size(Rec(c, k)) \in Nat /\ k + 1 \in Nat
  BY SizeOfRecord
<1>2. [next |-> k + 1, start |-> k, first |-> Rec(c, k), last |-> Rec(c, k),
       bytes |-> Size(Rec(c, k))] \in CutSet
  BY <1>1 DEF CutSet
<1>3. cut \in [Callers -> CutSet]
  BY DEF CallType, CutSet
<1> QED
  BY <1>2, <1>3 DEF StartBatch

\* The batch being cut is a batch.
LEMMA TypeCurrent ==
  ASSUME TypeOK, AskedInv, SplitInv, NEW c \in Callers, cpc[c] = "split"
  PROVE  CurrentBatch(c) \in BatchSet /\ AllBatches(c) \in Seq(BatchSet)
<1>1. cut[c].start \in Nat /\ cut[c].next \in Nat
  BY DEF TypeOK, CallType
<1>2. Fits(c, CurrentBatch(c))
  BY DEF SplitInv, SplitOf
<1>3. CurrentBatch(c) \in BatchSet
  BY <1>1, <1>2 DEF Fits, CurrentBatch, BatchSet
<1>4. batches[c] \in Seq(BatchSet)
  BY DEF TypeOK, CallType, BatchSet
<1> QED
  BY <1>3, <1>4 DEF AllBatches

\* The partition.
LEMMA TypeSplit ==
  ASSUME TypeOK, AskedInv, SplitInv, NEW c \in Callers, Split(c) \/ SplitNext(c)
  PROVE  TypeOK'
<1>1. OpenType' /\ WorkerType'
  BY DEF Split, SplitNext, SplitFrame, TypeOK, OpenType, WorkerType, openVars, workerVars, poolVars
<1>2. CallType
  BY DEF TypeOK
<1>3. /\ req' \in [Callers -> Requests \cup {Close}] /\ cpc' \in [Callers -> CallPoints]
      /\ ret' \in [Callers -> {"none", "ok"} \cup Causes]
      /\ ctxDone' \in [Callers -> BOOLEAN] /\ cancelled' \in [Callers -> BOOLEAN]
      /\ nextBatch' \in [Callers -> Nat] /\ firstErr' \in [Callers -> {"none"} \cup Causes]
      /\ got' \in [Callers -> Seq(Seq(Int))]
  BY <1>2 DEF CallType, Split, SplitNext, SplitFrame, At, sharedVars, CallPoints
<1>4. cut \in [Callers -> CutSet] /\ batches \in [Callers -> Seq(BatchSet)]
  BY <1>2 DEF CallType, CutSet, BatchSet
<1>5. cut' \in [Callers -> CutSet] /\ batches' \in [Callers -> Seq(BatchSet)]
  <2>1. CASE Split(c)
    <3>1. req[c] \in Requests /\ Rec(c, 1) \in Records
      <4>1. req[c] \in Requests
        BY <2>1, <1>2 DEF Split, CallType
      <4>2. Positions(c)[1] \in 0 .. TotalItems - 1
        BY <2>1 DEF Split, Positions
      <4> QED
        BY <4>1, <4>2, RecordOfPosition DEF Rec, Positions
    <3> QED
      BY <1>2, <1>4, <2>1, <3>1, TypeStart DEF Split
  <2>2. CASE SplitNext(c)
    <3> DEFINE rec == Rec(c, cut[c].next)
    <3>1. cut[c].next \in Nat /\ cut[c] \in CutSet /\ cut[c].next + 1 \in Nat
      BY <1>4 DEF CutSet
    <3>2. cut[c].next \in 1 .. Len(Positions(c)) /\ cpc[c] = "split"
      BY <2>2, <3>1, AskedOf DEF SplitNext, SplitInv, SplitOf, Positions
    <3>3. rec \in Records
      BY <3>2, AskedOf
    <3>4. CASE cut' = [cut EXCEPT ![c].next = cut[c].next + 1] /\ UNCHANGED batches
      BY <1>4, <3>1, <3>4 DEF CutSet
    <3>5. CASE cut' = [cut EXCEPT ![c] = Extended(c, rec)] /\ UNCHANGED batches
      <4>1. Size(rec) \in Nat
        BY <3>3, SizeOfRecord
      <4>2. Extended(c, rec) \in CutSet
        <5>1. cut[c].bytes + Size(rec) \in Nat
          BY <3>1, <4>1 DEF CutSet
        <5>2. Extended(c, rec) = [cut[c] EXCEPT !.next = cut[c].next + 1, !.last = rec,
                                                !.bytes = cut[c].bytes + Size(rec)]
          BY DEF Extended
        <5> HIDE DEF rec
        <5> QED
          BY <3>1, <3>3, <5>1, <5>2 DEF CutSet
      <4> QED
        BY <1>4, <3>5, <4>2
    <3>6. CASE batches' = [batches EXCEPT ![c] = Append(@, CurrentBatch(c))]
               /\ StartBatch(c, cut[c].next)
      <4>1. cut' \in [Callers -> CutSet]
        BY <1>2, <3>1, <3>3, <3>6, TypeStart
      <4>2. batches' = [batches EXCEPT ![c] = AllBatches(c)]
        BY <3>6, <1>4 DEF AllBatches
      <4> QED
        BY <1>4, <3>2, <4>1, <4>2, TypeCurrent
    <3> QED
      BY <2>2, <3>4, <3>5, <3>6 DEF SplitNext
  <2> QED
    BY <2>1, <2>2
<1>6. CallType'
  BY <1>3, <1>5 DEF CallType, CutSet, BatchSet, CallPoints
<1> QED
  BY <1>1, <1>6 DEF TypeOK

\* The launch of the workers.
LEMMA TypeLaunch ==
  ASSUME TypeOK, AskedInv, SplitInv, NEW c \in Callers, Launch(c)
  PROVE  TypeOK'
<1>1. OpenType'
  BY DEF Launch, TypeOK, OpenType, openVars
<1>2. WorkerType'
  <2>1. wpc' \in [Workers -> {"start", "claim", "check", "read", "decode", "fn", "exited"}]
    BY DEF Launch, TypeOK, WorkerType
  <2> QED
    BY <2>1 DEF Launch, TypeOK, WorkerType, poolVars
<1>3. CallType
  BY DEF TypeOK
<1>4. CASE Return(c, "ctx")
  BY <1>1, <1>2, <1>3, <1>4, TypeReturn DEF Launch, Causes, TypeOK
<1>5. CASE batches' = [batches EXCEPT ![c] = AllBatches(c)] /\ At(c, "run")
           /\ UNCHANGED <<cut, sharedVars>>
  <2>1. batches \in [Callers -> Seq(BatchSet)]
    BY <1>3 DEF CallType, BatchSet
  <2>2. AllBatches(c) \in Seq(BatchSet)
    BY TypeCurrent DEF Launch
  <2>3. batches' \in [Callers -> Seq(BatchSet)]
    BY <1>5, <2>1, <2>2
  <2>4. CallType'
    BY <1>3, <1>5, <2>3 DEF Launch, CallType, At, BatchSet, sharedVars
  <2> QED
    BY <1>1, <1>2, <2>4 DEF TypeOK
<1> QED
  BY <1>4, <1>5 DEF Launch

\* A worker that exits.
LEMMA TypeExit ==
  ASSUME WorkerType, NEW w \in Workers, Exit(w)
  PROVE  WorkerType'
<1>1. NoLocal \in LocalSet
  BY DEF NoLocal, LocalSet
<1>2. local \in [Workers -> LocalSet]
  BY DEF WorkerType, LocalSet
<1>3. local' \in [Workers -> LocalSet]
  BY <1>1, <1>2 DEF Exit
<1> QED
  BY <1>3 DEF WorkerType, LocalSet, Exit, Step

\* What the workers write of their call.
LEMMA TypeShared ==
  ASSUME TypeOK, NEW w \in Workers, WorkerFrame,
         nextBatch' \in [Callers -> Nat], cancelled' \in [Callers -> BOOLEAN],
         firstErr' \in [Callers -> {"none"} \cup Causes], got' \in [Callers -> Seq(Seq(Int))],
         WorkerType'
  PROVE  TypeOK'
<1>1. OpenType'
  BY DEF TypeOK, OpenType, WorkerFrame, openVars
<1>2. CallType'
  BY DEF TypeOK, CallType, WorkerFrame, splitVars
<1> QED
  BY <1>1, <1>2 DEF TypeOK

\* A failure of worker w: it exits, and its call has an error.
LEMMA TypeFail ==
  ASSUME TypeOK, NEW w \in Workers, NEW e \in Causes, Fail(w, e), WorkerFrame,
         UNCHANGED nextBatch, got' \in [Callers -> Seq(Seq(Int))]
  PROVE  TypeOK'
<1>1. w[1] \in Callers
  BY DEF Workers
<1>2. /\ nextBatch' \in [Callers -> Nat] /\ cancelled' \in [Callers -> BOOLEAN]
      /\ firstErr' \in [Callers -> {"none"} \cup Causes]
  BY <1>1 DEF Fail, TypeOK, CallType
<1>3. WorkerType'
  BY TypeExit DEF Fail, TypeOK
<1> QED
  BY <1>2, <1>3, TypeShared

\* A worker that goes on.
LEMMA TypeGoesOn ==
  ASSUME TypeOK, NEW w \in Workers, NEW l \in LocalSet, NEW where \in Equipped,
         Step(w, where), local' = [local EXCEPT ![w] = l], WorkerFrame,
         UNCHANGED <<cancelled, firstErr>>, nextBatch' \in [Callers -> Nat],
         got' \in [Callers -> Seq(Seq(Int))],
         dec' \in [Workers -> SUBSET Decoders], pool' \subseteq Decoders,
         decoded' \in [Decoders -> Records \cup {NoRecord}]
  PROVE  TypeOK'
<1>1. local' \in [Workers -> LocalSet]
  BY DEF TypeOK, WorkerType, LocalSet
<1>2. wpc' \in [Workers -> {"start", "claim", "check", "read", "decode", "fn", "exited"}]
  BY DEF TypeOK, WorkerType, Step, Equipped, Busy
<1>3. WorkerType'
  BY <1>1, <1>2 DEF WorkerType, LocalSet
<1>4. cancelled' \in [Callers -> BOOLEAN] /\ firstErr' \in [Callers -> {"none"} \cup Causes]
  BY DEF TypeOK, CallType
<1> QED
  BY <1>3, <1>4, TypeShared

\* What fn receives keeps the type: an item, at an index of the request.
LEMMA TypeGot ==
  ASSUME TypeOK, OwnInv, AskedInv, SplitInv, WorkerInv, NEW w \in Workers, wpc[w] = "fn",
         got' = [got EXCEPT ![w[1]][local[w].k] = Append(@, ItemAt(w))]
  PROVE  got' \in [Callers -> Seq(Seq(Int))]
<1> DEFINE c == w[1]
           k == local[w].k
           g == got[c]
<1>1. c \in Callers /\ k \in 1 .. Len(Positions(c)) /\ cpc[c] = "run"
  BY BatchOf DEF Reading
<1>2. DOMAIN g = 1 .. Len(Positions(c)) /\ g \in Seq(Seq(Int)) /\ got \in [Callers -> Seq(Seq(Int))]
  <2>1. DOMAIN Positions(c) = 1 .. Len(Positions(c))
    BY <1>1, AskedOf
  <2> QED
    BY <1>1, <2>1 DEF AskedInv, TypeOK, CallType
<1>3. ItemAt(w) \in Int
  BY ItemIsAsked
<1> DEFINE x == Append(g[k], ItemAt(w))
<1>4. k \in DOMAIN g /\ x \in Seq(Int)
  BY <1>1, <1>2, <1>3
<1>5. got' = [got EXCEPT ![c] = [g EXCEPT ![k] = x]]
  OBVIOUS
<1> HIDE DEF c, k, g, x
<1>6. [g EXCEPT ![k] = x] \in Seq(Seq(Int))
  BY <1>2, <1>4
<1> DEFINE h == [g EXCEPT ![k] = x]
<1> HIDE DEF h
<1> QED
  BY <1>1, <1>2, <1>5, <1>6 DEF h

\* The workers.
LEMMA TypeWorkers ==
  ASSUME TypeOK, OwnInv, AskedInv, SplitInv, WorkerInv, NEW w \in Workers, Worker(w)
  PROVE  TypeOK'
<1> DEFINE c == w[1]
<1>1. /\ nextBatch \in [Callers -> Nat] /\ cancelled \in [Callers -> BOOLEAN]
      /\ firstErr \in [Callers -> {"none"} \cup Causes] /\ got \in [Callers -> Seq(Seq(Int))]
      /\ c \in Callers
  BY DEF TypeOK, CallType, Workers
<1>2. /\ local \in [Workers -> LocalSet] /\ dec \in [Workers -> SUBSET Decoders]
      /\ pool \subseteq Decoders /\ decoded \in [Decoders -> Records \cup {NoRecord}]
      /\ WorkerType
  BY DEF TypeOK, WorkerType, LocalSet
<1>3. local[w] \in LocalSet /\ local[w].batch \in Nat /\ local[w].k \in Nat
      /\ local = [local EXCEPT ![w] = local[w]]
  BY <1>2 DEF LocalSet
<1>4. CASE WorkerStart(w)
  <2>1. dec' \in [Workers -> SUBSET Decoders] /\ pool' \subseteq Decoders
    BY <1>2, <1>4 DEF WorkerStart
  <2> QED
    BY <1>1, <1>2, <1>3, <1>4, <2>1, TypeGoesOn DEF WorkerStart, Equipped, Busy, sharedVars
<1>5. CASE WorkerClaim(w)
  <2>1. nextBatch' \in [Callers -> Nat] /\ nextBatch[c] + 1 \in Nat
    BY <1>1, <1>5 DEF WorkerClaim, Claimed
  <2> DEFINE l == [local[w] EXCEPT !.batch = nextBatch[c] + 1]
  <2>2. l \in LocalSet /\ local' = [local EXCEPT ![w] = l]
    BY <1>2, <1>3, <1>5, <2>1 DEF WorkerClaim, LocalSet
  <2> HIDE DEF l
  <2> QED
    BY <1>1, <1>2, <1>5, <2>1, <2>2, TypeGoesOn DEF WorkerClaim, Equipped, Busy, poolVars
<1>6. CASE WorkerCheck(w)
  <2>1. CASE Exit(w) /\ UNCHANGED <<firstErr, cancelled>>
    <3>1. WorkerType'
      BY <1>2, <2>1, TypeExit
    <3> QED
      BY <1>1, <1>6, <2>1, <3>1, TypeShared DEF WorkerCheck
  <2>2. CASE Fail(w, "ctx")
    BY <1>1, <1>6, <2>2, TypeFail DEF WorkerCheck, Causes
  <2>3. CASE /\ local' = [local EXCEPT ![w].k = Batch(w).from, ![w].prevRec = NoRecord]
             /\ ~(local[w].batch > Len(batches[c]))
             /\ Step(w, "read") /\ UNCHANGED <<firstErr, cancelled, poolVars>>
    <3>1. Batch(w) \in BatchSet
      <4>1. 1 <= local[w].batch /\ batches[c] \in Seq(BatchSet)
        BY <1>1, <1>6 DEF WorkerCheck, WorkerInv, WorkerOf, Busy, TypeOK, CallType, BatchSet
      <4>2. local[w].batch \in 1 .. Len(batches[c])
        BY <1>3, <2>3, <4>1
      <4> QED
        BY <4>1, <4>2 DEF Batch
    <3> DEFINE l == [local[w] EXCEPT !.k = Batch(w).from, !.prevRec = NoRecord]
    <3>2. l \in LocalSet /\ local' = [local EXCEPT ![w] = l]
      BY <1>2, <1>3, <2>3, <3>1 DEF LocalSet, BatchSet
    <3> HIDE DEF l
    <3> QED
      BY <1>1, <1>2, <1>6, <2>3, <3>2, TypeGoesOn DEF WorkerCheck, Equipped, Busy, poolVars
  <2> QED
    BY <1>6, <2>1, <2>2, <2>3 DEF WorkerCheck
<1>7. CASE WorkerRead(w)
  <2>1. CASE Fail(w, "read")
    BY <1>1, <1>7, <2>1, TypeFail DEF WorkerRead, Causes
  <2>2. CASE /\ local' = [local EXCEPT ![w].buf = Interval(Batch(w))]
             /\ Step(w, "decode") /\ UNCHANGED <<firstErr, cancelled, poolVars>>
    <3>1. Interval(Batch(w)) \in Nat \X Nat
      <4>1. Fits(c, Batch(w))
        BY <1>7, BatchOf DEF WorkerRead, Reading
      <4> QED
        BY <4>1, SizeOfRecord DEF Fits, Interval
    <3> DEFINE l == [local[w] EXCEPT !.buf = Interval(Batch(w))]
    <3>2. l \in LocalSet /\ local' = [local EXCEPT ![w] = l]
      BY <1>2, <1>3, <2>2, <3>1 DEF LocalSet
    <3> HIDE DEF l
    <3> QED
      BY <1>1, <1>2, <1>7, <2>2, <3>2, TypeGoesOn DEF WorkerRead, Equipped, Busy, poolVars
  <2> QED
    BY <1>7, <2>1, <2>2 DEF WorkerRead
<1>8. CASE WorkerDecode(w)
  <2> DEFINE rec == Rec(c, local[w].k)
  <2>1. CASE Step(w, "fn") /\ UNCHANGED <<firstErr, cancelled, local, poolVars>>
    BY <1>1, <1>2, <1>3, <1>8, <2>1, TypeGoesOn DEF WorkerDecode, Equipped, Busy, poolVars
  <2>2. CASE Decoded(w, rec) /\ local' = [local EXCEPT ![w].prevRec = rec] /\ Step(w, "fn")
             /\ UNCHANGED <<firstErr, cancelled, dec>>
    <3>1. rec \in Records
      BY <1>8, BatchOf DEF WorkerDecode, Reading
    <3> HIDE DEF rec
    <3>2. decoded' \in [Decoders -> Records \cup {NoRecord}] /\ pool' \subseteq Decoders
      BY <1>2, <2>2, <3>1 DEF Decoded
    <3> DEFINE l == [local[w] EXCEPT !.prevRec = rec]
    <3>3. l \in LocalSet /\ local' = [local EXCEPT ![w] = l]
      BY <1>2, <1>3, <2>2, <3>1 DEF LocalSet
    <3> HIDE DEF l
    <3> QED
      BY <1>1, <1>2, <1>8, <2>2, <3>2, <3>3, TypeGoesOn DEF WorkerDecode, Equipped, Busy
  <2>3. ASSUME NEW e \in {"corrupt", "panic"}, Fail(w, e) PROVE TypeOK'
    BY <1>1, <1>8, <2>3, TypeFail DEF WorkerDecode, Causes
  <2> QED
    BY <1>8, <2>1, <2>2, <2>3 DEF WorkerDecode
<1>9. CASE WorkerFn(w)
  <2>1. got' \in [Callers -> Seq(Seq(Int))]
    BY <1>9, TypeGot DEF WorkerFn
  <2>2. CASE Fail(w, "fn")
    BY <1>9, <2>1, <2>2, TypeFail DEF WorkerFn, Causes
  <2>3. ASSUME NEW where \in {"claim", "decode"}, Step(w, where),
               local' = [local EXCEPT ![w].k = @ + 1],
               UNCHANGED <<firstErr, cancelled, poolVars>>
        PROVE  TypeOK'
    <3> DEFINE l == [local[w] EXCEPT !.k = local[w].k + 1]
    <3>0. local[w].k + 1 \in Nat
      BY <1>3
    <3>1. l \in LocalSet /\ local' = [local EXCEPT ![w] = l]
      <4>1. l \in LocalSet
        BY <1>3, <3>0 DEF LocalSet
      <4>2. local' = [local EXCEPT ![w].k = local[w].k + 1]
        BY <2>3
      <4> QED
        BY <1>2, <4>1, <4>2
    <3> HIDE DEF l
    <3> QED
      BY <1>1, <1>2, <1>9, <2>1, <2>3, <3>1, TypeGoesOn DEF WorkerFn, Equipped, Busy, poolVars
  <2> QED
    BY <1>9, <2>2, <2>3 DEF WorkerFn
<1> QED
  BY <1>4, <1>5, <1>6, <1>7, <1>8, <1>9 DEF Worker

\* Nothing moves.
LEMMA TypeStutter == TypeOK /\ UNCHANGED vars => TypeOK'
<1> SUFFICES ASSUME TypeOK, UNCHANGED vars PROVE TypeOK'
  OBVIOUS
<1>1. OpenType'
  BY DEF vars, openVars, TypeOK, OpenType
<1>2. CallType'
  BY DEF vars, callVars, splitVars, sharedVars, TypeOK, CallType
<1>3. WorkerType'
  BY DEF vars, workerVars, poolVars, TypeOK, WorkerType
<1> QED
  BY <1>1, <1>2, <1>3 DEF TypeOK

\* Every step keeps the types, as long as the batches, the buffers and the decoders are
\* what the invariant says.
LEMMA TypeNext == ReadInv /\ [Next]_vars => TypeOK'
<1> SUFFICES ASSUME ReadInv, [Next]_vars PROVE TypeOK'
  OBVIOUS
<1>0. TypeOK /\ OwnInv /\ AskedInv /\ SplitInv /\ WorkerInv /\ ReturnInv
  BY DEF ReadInv
<1>1. CASE Opener
  BY <1>0, <1>1, TypeOpener
<1>2. ASSUME NEW c \in Callers,
             Read(c) \/ CallClose(c) \/ CancelCtx(c) \/ CallStep(c)
      PROVE  TypeOK'
  BY <1>0, <1>2, TypeCalls, TypeSplit, TypeLaunch DEF CallStep
<1>3. ASSUME NEW w \in Workers, Worker(w) PROVE TypeOK'
  BY <1>0, <1>3, TypeWorkers
<1>4. CASE UNCHANGED vars
  BY <1>0, <1>4, TypeStutter
<1> QED
  BY <1>1, <1>2, <1>3, <1>4 DEF Next

-----------------------------------------------------------------------------
(***************************************************************************)
(* What is asked for, and the open.                                         *)
(***************************************************************************)
\* Who cannot move the call of a caller: the open, the other callers and the workers.
LEMMA WorkersKeepCalls ==
  ASSUME NEW w \in Workers, Worker(w)
  PROVE  /\ UNCHANGED <<openVars, cpc, req, ret, ctxDone, splitVars>>
         /\ got' = got \/ (wpc[w] = "fn"
                            /\ got' = [got EXCEPT ![w[1]][local[w].k] = Append(@, ItemAt(w))])
  BY DEF Worker, WorkerStart, WorkerClaim, WorkerCheck, WorkerRead, WorkerDecode, WorkerFn,
         WorkerFrame

\* A step of a caller that asks for nothing new.
LEMMA AskedMoves ==
  ASSUME TypeOK, AskedInv, NEW c \in Callers, NEW where \in CallPoints,
         UNCHANGED <<req, got>>, cpc' = [cpc EXCEPT ![c] = where],
         where = "close" => req[c] = Close,
         where \in {"split", "run"} =>
            /\ req[c] \in Requests
            /\ \A k \in DOMAIN Positions(c) : Positions(c)[k] \in 0 .. TotalItems - 1
  PROVE  AskedInv'
  BY DEF AskedInv, Positions, TypeOK, CallType

\* The calls.  The positions of ReadItems and ReadRange are checked before the call
\* begins, the one of ReadItem before the partition.
LEMMA AskedCalls ==
  ASSUME TypeOK, AskedInv, NEW c \in Callers,
         Read(c) \/ CallClose(c) \/ CancelCtx(c) \/ CallStep(c)
  PROVE  AskedInv'
<1>0. cpc \in [Callers -> CallPoints] /\ req \in [Callers -> Requests \cup {Close}]
      /\ got \in [Callers -> Seq(Seq(Int))]
  BY DEF TypeOK, CallType, CallPoints
<1>1. CASE Read(c) \/ CallClose(c)
  <2>1. PICK q \in Requests \cup {Close}, where \in {"wait", "close"} :
           Begin(c, q, where) /\ (where = "close" => q = Close)
    BY <1>1 DEF Read, CallClose
  <2>2. /\ req' = [req EXCEPT ![c] = q] /\ cpc' = [cpc EXCEPT ![c] = where]
        /\ got' = [got EXCEPT ![c] = [i \in DOMAIN q.positions |-> <<>>]]
    BY <2>1 DEF Begin
  <2> QED
    BY <1>0, <2>1, <2>2 DEF AskedInv, Positions
<1>2. CASE CancelCtx(c) \/ SplitNext(c)
  BY <1>2 DEF CancelCtx, SplitNext, SplitFrame, AskedInv, Positions
<1>3. CASE EnterClose(c) \/ EnterWait(c) \/ RecvOpen(c) \/ CloseFile(c) \/ Refused(c) \/ Join(c)
  BY <1>3, AskedMoves
     DEF EnterClose, EnterWait, RecvOpen, CloseFile, Refused, Join, Goto, At, Return,
         CallFrame, CallPoints
<1>4. CASE Split(c)
  <2>1. req[c] \in Requests /\ req[c].positions[1] \in 0 .. TotalItems - 1
    BY <1>0, <1>4 DEF Split
  <2>2. \A k \in DOMAIN Positions(c) : Positions(c)[k] \in 0 .. TotalItems - 1
    <3>1. CASE req[c].op = "item"
      <4>1. Len(req[c].positions) = 1 /\ DOMAIN req[c].positions = 1 .. 1
        BY <2>1, <3>1, ReaderAssumption, RequestIs
      <4> QED
        BY <2>1, <4>1 DEF Positions
    <3>2. CASE req[c].op # "item"
      BY <2>1, <3>2, ReaderAssumption DEF Positions
    <3> QED
      BY <3>1, <3>2
  <2> QED
    BY <1>4, <2>1, <2>2, AskedMoves DEF Split, SplitFrame, At, CallPoints
<1>5. CASE Launch(c)
  <2>1. cpc[c] = "split"
    BY <1>5 DEF Launch
  <2> QED
    BY <1>5, <2>1, AskedMoves DEF Launch, At, Return, CallPoints, AskedInv
<1> QED
  BY <1>1, <1>2, <1>3, <1>4, <1>5 DEF CallStep

\* Every step keeps what is asked for.
LEMMA AskedNext == ReadInv /\ [Next]_vars => AskedInv'
<1> SUFFICES ASSUME ReadInv, [Next]_vars PROVE AskedInv'
  OBVIOUS
<1>0. TypeOK /\ AskedInv /\ TypeOK'
  BY TypeNext DEF ReadInv
<1>1. CASE Opener
  BY <1>0, <1>1 DEF Opener, OpenFile, CheckFile, OpenFrame, callVars, AskedInv, Positions
<1>2. ASSUME NEW c \in Callers,
             Read(c) \/ CallClose(c) \/ CancelCtx(c) \/ CallStep(c)
      PROVE  AskedInv'
  BY <1>0, <1>2, AskedCalls
<1>3. ASSUME NEW w \in Workers, Worker(w) PROVE AskedInv'
  <2>1. UNCHANGED <<cpc, req>>
    BY <1>3, WorkersKeepCalls
  <2>2. \A c \in Callers : DOMAIN got'[c] = DOMAIN got[c]
    <3>1. got \in [Callers -> Seq(Seq(Int))]
      BY <1>0 DEF TypeOK, CallType
    <3>2. CASE got' = [got EXCEPT ![w[1]][local[w].k] = Append(@, ItemAt(w))]
      BY <3>1, <3>2
    <3> QED
      BY <1>3, <3>2, WorkersKeepCalls
  <2> QED
    BY <1>0, <2>1, <2>2 DEF AskedInv, Positions
<1>4. CASE UNCHANGED vars
  BY <1>0, <1>4 DEF vars, callVars, AskedInv, Positions
<1> QED
  BY <1>1, <1>2, <1>3, <1>4 DEF Next

\* Every step keeps what is known of the open: one caller at a time waits for its
\* result, which is final, and a handle never comes back.
LEMMA OpenNext == ReadInv /\ [Next]_vars => OpenInv'
<1> SUFFICES ASSUME ReadInv, [Next]_vars PROVE OpenInv'
  OBVIOUS
<1>0. OpenInv /\ cpc \in [Callers -> CallPoints]
  BY DEF ReadInv, TypeOK, CallType, CallPoints
<1>1. CASE Opener
  BY <1>0, <1>1 DEF Opener, OpenFile, CheckFile, Cleanup, OpenFrame, callVars, OpenInv
<1>2. ASSUME NEW c \in Callers, NEW where \in CallPoints, cpc' = [cpc EXCEPT ![c] = where],
             UNCHANGED <<opener, openCh, openErr, file, once>>,
             where \notin {"recv", "opened", "split", "run"} \/ cpc[c] \in {"opened", "split", "run"},
             where # "recv", where \in {"split", "run"} => ~openErr
      PROVE  OpenInv'
  BY <1>0, <1>2 DEF OpenInv
<1>3. ASSUME UNCHANGED <<opener, openCh, openErr, file, once, cpc>> PROVE OpenInv'
  BY <1>0, <1>3 DEF OpenInv
<1>4. ASSUME NEW c \in Callers,
             Read(c) \/ CallClose(c) \/ CancelCtx(c) \/ CallStep(c)
      PROVE  OpenInv'
  <2>1. CASE Read(c) \/ CallClose(c)
    BY <1>2, <2>1 DEF Read, CallClose, Begin, openVars, CallPoints
  <2>2. CASE CancelCtx(c) \/ SplitNext(c)
    BY <1>3, <2>2 DEF CancelCtx, SplitNext, SplitFrame, openVars
  <2>3. CASE EnterClose(c) \/ Refused(c) \/ Join(c)
    BY <1>2, <2>3 DEF EnterClose, Refused, Join, Goto, At, Return, CallFrame, CallPoints
  <2>4. CASE EnterWait(c)
    BY <1>0, <2>4 DEF EnterWait, Goto, At, CallFrame, OpenInv
  <2>5. CASE RecvOpen(c)
    <3>1. openCh \in {"none", "ok", "err"}
      BY DEF ReadInv, TypeOK, OpenType
    <3> QED
      BY <1>0, <2>5, <3>1 DEF RecvOpen, Goto, At, OpenInv
  <2>6. CASE CloseFile(c)
    <3>1. UNCHANGED <<opener, openCh, openErr, once>> /\ cpc' = [cpc EXCEPT ![c] = "idle"]
      BY <2>6 DEF CloseFile, Return, CallFrame
    <3>2. CASE openErr
      <4>1. file' = file
        BY <2>6, <3>2 DEF CloseFile
      <4> QED
        BY <1>2, <3>1, <4>1 DEF CallPoints
    <3>3. CASE ~openErr
      <4>1. file' = "closed" /\ file # "none"
        BY <1>0, <2>6, <3>3 DEF CloseFile, OpenInv
      <4> QED
        BY <1>0, <3>1, <3>3, <4>1 DEF OpenInv
    <3> QED
      BY <3>2, <3>3
  <2>7. CASE Split(c)
    BY <1>2, <2>7 DEF Split, At, SplitFrame, openVars, CallPoints
  <2>8. CASE Launch(c)
    <3>1. ~openErr
      BY <1>0, <2>8 DEF Launch, OpenInv
    <3> QED
      BY <1>2, <2>8, <3>1 DEF Launch, At, Return, openVars, CallPoints
  <2> QED
    BY <1>4, <2>1, <2>2, <2>3, <2>4, <2>5, <2>6, <2>7, <2>8 DEF CallStep
<1>5. ASSUME NEW w \in Workers, Worker(w) PROVE OpenInv'
  BY <1>3, <1>5, WorkersKeepCalls DEF openVars
<1>6. CASE UNCHANGED vars
  BY <1>3, <1>6 DEF vars, openVars, callVars
<1> QED
  BY <1>1, <1>4, <1>5, <1>6 DEF Next

-----------------------------------------------------------------------------
(***************************************************************************)
(* The partition.                                                           *)
(***************************************************************************)
\* A batch that starts where a partition ends makes it longer.
LEMMA PartitionGrows ==
  ASSUME NEW c, NEW bs \in Seq(BatchSet), NEW b \in BatchSet, NEW n \in Nat,
         Partition(c, bs, n), Fits(c, b), b.from = n + 1
  PROVE  Partition(c, Append(bs, b), b.to)
<1> DEFINE new == Append(bs, b)
<1>1. /\ new \in Seq(BatchSet) /\ Len(new) = Len(bs) + 1 /\ Len(bs) \in Nat
      /\ \A i \in 1 .. Len(bs) : new[i] = bs[i]
      /\ new[Len(bs) + 1] = b
  BY AppendProperties
<1>2. /\ \A i \in 1 .. Len(bs) : bs[i].to \in Nat
      /\ b.from \in Nat /\ b.to \in Nat /\ b.from <= b.to
  <2>1. \A x \in BatchSet : x.from \in Nat /\ x.to \in Nat
    BY DEF BatchSet
  <2>2. \A i \in 1 .. Len(bs) : bs[i] \in BatchSet
    OBVIOUS
  <2> QED
    BY <2>1, <2>2 DEF Fits
<1> HIDE DEF new
<1>3. ASSUME NEW i \in 1 .. Len(new) PROVE Fits(c, new[i]) /\ new[i].to <= b.to
  <2>1. CASE i = Len(bs) + 1
    BY <1>1, <1>2, <2>1
  <2>2. CASE i \in 1 .. Len(bs)
    <3>1. Fits(c, bs[i]) /\ bs[i].to <= n /\ bs[i].to \in Nat
      BY <1>2, <2>2 DEF Partition
    <3> QED
      BY <1>1, <1>2, <2>2, <3>1
  <2> QED
    BY <1>1, <2>1, <2>2
<1>4. ASSUME NEW i \in 1 .. Len(new), NEW j \in 1 .. Len(new), i < j
      PROVE  new[i].to < new[j].from
  <2>1. i \in 1 .. Len(bs) /\ bs[i].to <= n /\ bs[i].to \in Nat
    BY <1>1, <1>2, <1>4 DEF Partition
  <2>2. CASE j = Len(bs) + 1
    BY <1>1, <1>2, <2>1, <2>2
  <2>3. CASE j \in 1 .. Len(bs)
    BY <1>1, <1>4, <2>1, <2>3 DEF Partition
  <2> QED
    BY <1>1, <2>2, <2>3
<1>5. ASSUME NEW k \in 1 .. b.to
      PROVE  \E i \in 1 .. Len(new) : k \in new[i].from .. new[i].to
  <2>1. CASE k \in 1 .. n
    <3>1. PICK i \in 1 .. Len(bs) : k \in bs[i].from .. bs[i].to
      BY <2>1 DEF Partition
    <3> QED
      BY <1>1, <3>1
  <2>2. CASE k \in b.from .. b.to
    BY <1>1, <2>2
  <2> QED
    BY <1>2, <2>1, <2>2
<1> QED
  BY <1>3, <1>4, <1>5 DEF Partition, new

\* A call that stays where it is keeps its partition, whatever its workers do.
LEMMA SplitSame ==
  ASSUME NEW c \in Callers, SplitOf(c), cpc'[c] = cpc[c], req'[c] = req[c], cut'[c] = cut[c],
         batches'[c] = batches[c],
         cpc[c] # "run" => UNCHANGED <<nextBatch[c], cancelled[c], firstErr[c]>>
  PROVE  SplitOf(c)'
  BY DEF SplitOf, Fits, Partition, Rec, Positions, CurrentBatch

\* So does every call but the one that moves.
LEMMA SplitOthers ==
  ASSUME TypeOK, NEW c \in Callers, Read(c) \/ CallClose(c) \/ CancelCtx(c) \/ CallStep(c),
         NEW d \in Callers, d # c
  PROVE  /\ UNCHANGED <<cpc[d], req[d], ret[d], ctxDone[d], got[d], cut[d], batches[d],
                        nextBatch[d], cancelled[d], firstErr[d]>>
         /\ \A w \in Workers : w[1] = d => wpc'[w] = wpc[w]
         /\ UNCHANGED <<corrupt, local, poolVars>>
<1> USE DEF TypeOK, CallType, WorkerType, openVars, sharedVars, splitVars, workerVars
<1>1. CASE Read(c) \/ CallClose(c)
  BY <1>1 DEF Read, CallClose, Begin
<1>2. CASE CancelCtx(c)
  BY <1>2 DEF CancelCtx
<1>3. CASE EnterClose(c) \/ EnterWait(c) \/ RecvOpen(c) \/ CloseFile(c) \/ Refused(c) \/ Join(c)
  BY <1>3 DEF EnterClose, EnterWait, RecvOpen, CloseFile, Refused, Join, Goto, At, Return, CallFrame
<1>4. CASE Split(c)
  BY <1>4 DEF Split, StartBatch, At, SplitFrame
<1>5. CASE SplitNext(c)
  <2>1. cpc' = cpc /\ ret' = ret /\ SplitFrame
    BY <1>5 DEF SplitNext
  <2>2. \/ batches' = batches
        \/ batches' = [batches EXCEPT ![c] = Append(@, CurrentBatch(c))]
    BY <1>5 DEF SplitNext
  <2>3. \E new : cut' = [cut EXCEPT ![c] = new]
    BY <1>5 DEF SplitNext, StartBatch
  <2>4. UNCHANGED <<nextBatch, cancelled, firstErr>>
    BY <1>5 DEF SplitNext, StartBatch, SplitFrame
  <2>5. batches'[d] = batches[d] /\ cut'[d] = cut[d]
    BY <2>2, <2>3
  <2> QED
    BY <2>1, <2>4, <2>5 DEF SplitFrame
<1>6. CASE Launch(c)
  <2>1. UNCHANGED <<openVars, req, ctxDone, got, local, poolVars>>
    BY <1>6 DEF Launch
  <2>2. CASE ctxDone[c]
    <3>1. Return(c, "ctx") /\ UNCHANGED wpc
      BY <1>6, <2>2 DEF Launch
    <3>2. UNCHANGED <<cpc[d], ret[d], cut[d], batches[d], nextBatch[d], cancelled[d], firstErr[d]>>
      BY <3>1 DEF Return
    <3> QED
      BY <2>1, <3>1, <3>2
  <2>3. CASE ~ctxDone[c]
    <3>1. At(c, "run") /\ UNCHANGED <<cut, sharedVars>>
      BY <1>6, <2>3 DEF Launch
    <3>2. batches' = [batches EXCEPT ![c] = AllBatches(c)]
      BY <1>6, <2>3 DEF Launch
    <3>3. \A w \in Workers : w[1] # c => wpc'[w] = wpc[w]
      BY <1>6, <2>3 DEF Launch
    <3>4. cpc'[d] = cpc[d] /\ ret' = ret
      BY <3>1 DEF At
    <3>5. batches'[d] = batches[d]
      BY <3>2
    <3> QED
      BY <2>1, <3>1, <3>3, <3>4, <3>5
  <2> QED
    BY <2>2, <2>3
<1> QED
  BY <1>1, <1>2, <1>3, <1>4, <1>5, <1>6 DEF CallStep

\* A return leaves no partition behind.
LEMMA SplitReturn ==
  ASSUME TypeOK, NEW c \in Callers, NEW res, Return(c, res)
  PROVE  SplitOf(c)'
  BY DEF TypeOK, CallType, Return, SplitOf, NoCut

\* A batch of the records of one position.
LEMMA FitsOne ==
  ASSUME AskedInv, NEW c \in Callers, cpc[c] \in {"split", "run"}, NEW k \in 1 .. Len(Positions(c))
  PROVE  Fits(c, [from |-> k, to |-> k, first |-> Rec(c, k), last |-> Rec(c, k)])
<1>1. Rec(c, k) \in Records /\ Rec(c, k) \in Nat /\ Len(Positions(c)) \in Nat
  BY AskedOf
<1> QED
  BY <1>1 DEF Fits

\* A batch that takes in the next position, whose record is its last or the one after.
LEMMA FitsMore ==
  ASSUME AskedInv, NEW c \in Callers, cpc[c] \in {"split", "run"}, NEW b \in BatchSet, Fits(c, b),
         b.to + 1 <= Len(Positions(c)), NEW r \in Records, r = Rec(c, b.to + 1),
         r = b.last \/ r = b.last + 1
  PROVE  Fits(c, [from |-> b.from, to |-> b.to + 1, first |-> b.first, last |-> r])
<1>1. /\ b.from \in Nat /\ b.to \in Nat /\ b.first \in Records /\ b.last \in Records
      /\ b.first \in Nat /\ b.last \in Nat /\ r \in Nat /\ Len(Positions(c)) \in Nat
  BY SizeOfRecord, AskedOf DEF BatchSet
<1>2. b.first <= b.last /\ 1 <= b.from /\ b.from <= b.to
  BY DEF Fits
<1>3. ASSUME NEW k \in b.from .. b.to + 1 PROVE b.first <= Rec(c, k) /\ Rec(c, k) <= r
  <2>1. CASE k = b.to + 1
    BY <1>1, <1>2, <2>1
  <2>2. CASE k \in b.from .. b.to
    <3>1. b.first <= Rec(c, k) /\ Rec(c, k) <= b.last
      BY <2>2 DEF Fits
    <3>2. k \in 1 .. Len(Positions(c))
      BY <1>1, <1>2, <2>2
    <3>3. Rec(c, k) \in Nat
      BY <3>2, AskedOf
    <3> QED
      BY <1>1, <3>1, <3>3
  <2> QED
    BY <1>1, <2>1, <2>2
<1> QED
  BY <1>1, <1>2, <1>3 DEF Fits

\* One turn of the loop: the position joins the batch, or the batch is over and the
\* position starts another.
LEMMA SplitTurn ==
  ASSUME TypeOK, AskedInv, SplitInv, NEW c \in Callers, SplitNext(c)
  PROVE  SplitOf(c)'
<1> DEFINE n == cut[c]
           b == CurrentBatch(c)
           r == Rec(c, n.next)
<1>0. /\ cpc[c] = "split" /\ Fits(c, b) /\ Partition(c, batches[c], n.start - 1)
      /\ n.next <= Len(Positions(c)) /\ SplitOf(c)
      /\ UNCHANGED <<cpc, req, nextBatch, cancelled, firstErr>>
  BY DEF SplitNext, SplitFrame, sharedVars, SplitInv, SplitOf, Positions
<1>1. /\ cut \in [Callers -> CutSet] /\ batches \in [Callers -> Seq(BatchSet)]
      /\ n.next \in Nat /\ n.start \in Nat /\ Len(Positions(c)) \in Nat
  BY <1>0, AskedOf DEF TypeOK, CallType, CutSet, BatchSet
<1>2. b \in BatchSet /\ b.to = n.next - 1 /\ b.from = n.start /\ b.first = n.first /\ b.last = n.last
  BY <1>0, TypeCurrent DEF CurrentBatch
<1>3. n.next \in 1 .. Len(Positions(c)) /\ 1 <= n.start /\ n.start <= n.next - 1
  BY <1>0, <1>1, <1>2 DEF Fits
<1>4. r \in Records /\ b.to + 1 = n.next
  BY <1>0, <1>1, <1>2, <1>3, AskedOf
<1>5. \A bs, m : Partition(c, bs, m) => Partition(c, bs, m)'
  BY <1>0 DEF Partition, Fits, Rec, Positions
<1>6. \A x : Fits(c, x) => Fits(c, x)'
  BY <1>0 DEF Fits, Rec, Positions
<1>7. ASSUME cut'[c].start = n.start, cut'[c].next = n.next + 1, cut'[c].first = n.first,
             cut'[c].last = r, r = n.last \/ r = n.last + 1, batches' = batches
      PROVE  SplitOf(c)'
  <2>1. Fits(c, [from |-> b.from, to |-> b.to + 1, first |-> b.first, last |-> r])
    BY <1>0, <1>1, <1>2, <1>3, <1>4, <1>7, FitsMore
  <2>2. CurrentBatch(c)' = [from |-> b.from, to |-> b.to + 1, first |-> b.first, last |-> r]
    BY <1>1, <1>2, <1>7 DEF CurrentBatch
  <2>3. Fits(c, CurrentBatch(c))'
    BY <1>6, <2>1, <2>2
  <2>4. Partition(c, batches[c], cut[c].start - 1)'
    BY <1>0, <1>5, <1>7
  <2> QED
    BY <1>0, <1>1, <1>7, <2>3, <2>4 DEF SplitOf
<1>8. CASE r = n.last /\ cut' = [cut EXCEPT ![c].next = n.next + 1] /\ UNCHANGED batches
  BY <1>1, <1>7, <1>8 DEF CutSet
<1>9. CASE Joins(c, r) /\ cut' = [cut EXCEPT ![c] = Extended(c, r)] /\ UNCHANGED batches
  <2>1. /\ cut'[c].start = n.start /\ cut'[c].next = n.next + 1 /\ cut'[c].first = n.first
        /\ cut'[c].last = r
    BY <1>1, <1>9 DEF CutSet, Extended
  <2> QED
    BY <1>7, <1>9, <2>1 DEF Joins
<1>10. CASE batches' = [batches EXCEPT ![c] = Append(@, b)] /\ StartBatch(c, n.next)
  <2>1. /\ cut'[c].start = n.next /\ cut'[c].next = n.next + 1 /\ cut'[c].first = r
        /\ cut'[c].last = r
    BY <1>1, <1>10 DEF StartBatch
  <2>2. Fits(c, [from |-> n.next, to |-> n.next, first |-> r, last |-> r])
    BY <1>0, <1>3, FitsOne
  <2>3. CurrentBatch(c)' = [from |-> n.next, to |-> n.next, first |-> r, last |-> r]
    BY <1>1, <2>1 DEF CurrentBatch
  <2>4. Fits(c, CurrentBatch(c))'
    BY <1>6, <2>2, <2>3
  <2>5. Partition(c, Append(batches[c], b), b.to)
    <3>1. batches[c] \in Seq(BatchSet) /\ n.start - 1 \in Nat /\ b.from = (n.start - 1) + 1
      BY <1>1, <1>2, <1>3
    <3> HIDE DEF b, n
    <3> QED
      BY <1>0, <1>2, <3>1, PartitionGrows
  <2>6. batches'[c] = Append(batches[c], b) /\ cut'[c].start - 1 = b.to
    BY <1>1, <1>2, <1>10, <2>1
  <2>7. Partition(c, batches[c], cut[c].start - 1)'
    BY <1>5, <2>5, <2>6
  <2> QED
    BY <1>0, <1>1, <2>1, <2>4, <2>7 DEF SplitOf
<1> QED
  BY <1>8, <1>9, <1>10 DEF SplitNext

\* The loop starts with the first position.
LEMMA SplitStarts ==
  ASSUME TypeOK, SplitInv, NEW c \in Callers, Split(c), AskedInv'
  PROVE  SplitOf(c)'
<1>1. SplitOf(c) /\ cpc[c] = "opened" /\ cut \in [Callers -> CutSet]
  BY DEF SplitInv, Split, TypeOK, CallType, CutSet
<1>2. /\ cpc'[c] = "split" /\ batches'[c] = <<>> /\ cut'[c].start = 1 /\ cut'[c].next = 2
      /\ cut'[c].first = Rec(c, 1) /\ cut'[c].last = Rec(c, 1) /\ req' = req
  BY <1>1 DEF Split, At, StartBatch, SplitFrame, SplitOf, TypeOK, CallType
<1>3. CurrentBatch(c)' = [from |-> 1, to |-> 1, first |-> Rec(c, 1), last |-> Rec(c, 1)]
  BY <1>2 DEF CurrentBatch
<1>4. req[c] \in Requests /\ Positions(c)[1] \in 0 .. TotalItems - 1
  BY DEF Split, TypeOK, CallType, Positions
<1>5. Rec(c, 1) \in Records /\ Rec(c, 1) \in Nat /\ Len(Positions(c)) \in Nat \ {0}
  BY <1>4, RequestIs, RecordOfPosition, SizeOfRecord DEF Rec, Positions
<1>6. Fits(c, CurrentBatch(c))'
  BY <1>2, <1>3, <1>5 DEF Fits, Rec, Positions
<1>7. Partition(c, batches[c], cut[c].start - 1)'
  BY <1>2 DEF Partition
<1>8. UNCHANGED <<nextBatch, cancelled, firstErr>>
  BY DEF Split, SplitFrame, sharedVars
<1> QED
  BY <1>1, <1>2, <1>6, <1>7, <1>8 DEF SplitOf

\* The last batch ends with the last position.
LEMMA SplitEnds ==
  ASSUME TypeOK, AskedInv, SplitInv, NEW c \in Callers, Launch(c)
  PROVE  SplitOf(c)'
<1>1. CASE Return(c, "ctx")
  BY <1>1, SplitReturn
<1>2. CASE batches' = [batches EXCEPT ![c] = AllBatches(c)] /\ At(c, "run")
           /\ UNCHANGED <<cut, sharedVars>>
  <2> DEFINE b == CurrentBatch(c)
             n == cut[c]
  <2>1. /\ cpc[c] = "split" /\ n.next > Len(Positions(c)) /\ SplitOf(c) /\ Fits(c, b)
        /\ Partition(c, batches[c], n.start - 1) /\ req' = req
    BY DEF Launch, SplitInv, SplitOf, Positions
  <2>2. /\ n.start \in Nat /\ n.next \in Nat /\ batches \in [Callers -> Seq(BatchSet)]
        /\ Len(Positions(c)) \in Nat /\ b \in BatchSet
    BY <2>1, TypeCurrent, AskedOf DEF TypeOK, CallType, BatchSet
  <2>3. b.from = n.start /\ b.to = n.next - 1
    BY DEF CurrentBatch
  <2>4. b.to = Len(Positions(c)) /\ n.start - 1 \in Nat /\ b.from = (n.start - 1) + 1
    BY <2>1, <2>2, <2>3 DEF Fits
  <2> HIDE DEF b, n
  <2>5. batches[c] \in Seq(BatchSet)
    BY <2>2
  <2>6. Partition(c, Append(batches[c], b), Len(Positions(c)))
    BY <2>1, <2>2, <2>4, <2>5, PartitionGrows
  <2>7. batches'[c] = Append(batches[c], b) /\ cpc'[c] = "run"
    BY <1>2, <2>2 DEF AllBatches, At, b, TypeOK, CallType
  <2>8. Partition(c, batches[c], Len(Positions(c)))'
    BY <2>1, <2>6, <2>7 DEF Partition, Fits, Rec, Positions
  <2>9. cut'[c].next >= 1
    BY <1>2, <2>1 DEF SplitOf
  <2> QED
    BY <2>7, <2>8, <2>9 DEF SplitOf
<1> QED
  BY <1>1, <1>2 DEF Launch

\* The steps of a call outside the partition.
LEMMA SplitElsewhere ==
  ASSUME TypeOK, SplitInv, NEW c \in Callers,
         Read(c) \/ CallClose(c) \/ CancelCtx(c) \/ EnterClose(c) \/ EnterWait(c)
            \/ RecvOpen(c) \/ CloseFile(c) \/ Refused(c) \/ Join(c)
  PROVE  SplitOf(c)'
<1>0. SplitOf(c) /\ cpc \in [Callers -> CallPoints]
  BY DEF SplitInv, TypeOK, CallType, CallPoints
<1>1. ASSUME NEW where \in {"wait", "close", "recv", "opened"},
             cpc' = [cpc EXCEPT ![c] = where], cpc[c] \notin {"split", "run"},
             UNCHANGED <<splitVars, sharedVars>>
      PROVE  SplitOf(c)'
  BY <1>0, <1>1 DEF SplitOf, splitVars, sharedVars
<1>2. CASE Read(c) \/ CallClose(c)
  BY <1>1, <1>2 DEF Read, CallClose, Begin
<1>3. CASE CancelCtx(c)
  BY <1>0, <1>3, SplitSame DEF CancelCtx, splitVars, sharedVars
<1>4. CASE EnterClose(c) \/ EnterWait(c) \/ RecvOpen(c)
  BY <1>1, <1>4, SplitReturn DEF EnterClose, EnterWait, RecvOpen, Goto, At
<1>5. CASE CloseFile(c) \/ Refused(c) \/ Join(c)
  BY <1>5, SplitReturn DEF CloseFile, Refused, Join
<1> QED
  BY <1>2, <1>3, <1>4, <1>5

\* What a worker writes of the calls is its own call's.
LEMMA WorkersKeepOthers ==
  ASSUME TypeOK, NEW w \in Workers, Worker(w), NEW c \in Callers, c # w[1]
  PROVE  UNCHANGED <<nextBatch[c], cancelled[c], firstErr[c], got[c]>>
<1>1. /\ nextBatch \in [Callers -> Nat] /\ cancelled \in [Callers -> BOOLEAN]
      /\ DOMAIN firstErr = Callers /\ DOMAIN got = Callers
  BY DEF TypeOK, CallType
<1>2. ASSUME NEW e, Fail(w, e) PROVE UNCHANGED <<cancelled[c], firstErr[c]>>
  BY <1>1, <1>2 DEF Fail
<1>3. got' = got \/ got' = [got EXCEPT ![w[1]][local[w].k] = Append(@, ItemAt(w))]
  BY WorkersKeepCalls
<1>4. CASE WorkerStart(w)
  BY <1>4 DEF WorkerStart, sharedVars
<1>5. CASE WorkerClaim(w)
  BY <1>1, <1>5 DEF WorkerClaim, Claimed
<1>6. CASE WorkerCheck(w) \/ WorkerRead(w)
  BY <1>2, <1>6 DEF WorkerCheck, WorkerRead
<1>7. CASE WorkerDecode(w) \/ WorkerFn(w)
  BY <1>1, <1>2, <1>3, <1>7 DEF WorkerDecode, WorkerFn
<1> QED
  BY <1>4, <1>5, <1>6, <1>7 DEF Worker

\* Every step keeps the partitions.
LEMMA PartitionNext == ReadInv /\ [Next]_vars => SplitInv'
<1> SUFFICES ASSUME ReadInv, [Next]_vars PROVE SplitInv'
  OBVIOUS
<1>0. TypeOK /\ OwnInv /\ AskedInv /\ SplitInv /\ AskedInv'
  BY AskedNext DEF ReadInv
<1>1. CASE UNCHANGED vars \/ Opener
  <2>1. UNCHANGED <<callVars, splitVars, sharedVars>>
    BY <1>1 DEF vars, Opener, OpenFile, CheckFile, OpenFrame
  <2> QED
    BY <1>0, <2>1, SplitSame DEF SplitInv, callVars, splitVars, sharedVars
<1>2. ASSUME NEW c \in Callers,
             Read(c) \/ CallClose(c) \/ CancelCtx(c) \/ CallStep(c)
      PROVE  SplitInv'
  <2>1. SplitOf(c)'
    BY <1>0, <1>2, SplitTurn, SplitStarts, SplitEnds, SplitElsewhere DEF CallStep
  <2>2. ASSUME NEW d \in Callers, d # c PROVE SplitOf(d)'
    <3>1. UNCHANGED <<cpc[d], req[d], cut[d], batches[d], nextBatch[d], cancelled[d], firstErr[d]>>
      BY <1>0, <1>2, <2>2, SplitOthers
    <3>2. SplitOf(d)
      BY <1>0 DEF SplitInv
    <3> QED
      BY <3>1, <3>2, SplitSame
  <2> QED
    BY <2>1, <2>2 DEF SplitInv
<1>3. ASSUME NEW w \in Workers, Worker(w) PROVE SplitInv'
  <2> SUFFICES ASSUME NEW c \in Callers PROVE SplitOf(c)'
    BY DEF SplitInv
  <2>1. UNCHANGED <<cpc, req, cut, batches>>
    BY <1>3, WorkersKeepCalls DEF splitVars
  <2>2. cpc[w[1]] = "run" /\ w[1] \in Callers
    BY <1>0, <1>3 DEF OwnInv, HeldInside, Worker, WorkerStart, WorkerClaim, WorkerCheck,
                      WorkerRead, WorkerDecode, WorkerFn, Workers
  <2>3. c # w[1] => UNCHANGED <<nextBatch[c], cancelled[c], firstErr[c]>>
    BY <1>0, <1>3, WorkersKeepOthers
  <2>4. SplitOf(c)
    BY <1>0 DEF SplitInv
  <2> QED
    BY <2>1, <2>2, <2>3, <2>4, SplitSame
<1> QED
  BY <1>1, <1>2, <1>3 DEF Next

-----------------------------------------------------------------------------
(***************************************************************************)
(* The workers.                                                             *)
(***************************************************************************)
\* A worker that does not move keeps what it has, as long as its decoder, its batches
\* and its positions are left alone and the counter does not go back.
LEMMA WorkerSame ==
  ASSUME TypeOK, NEW w \in Workers, WorkerOf(w), wpc'[w] = wpc[w],
         wpc[w] \notin {"start", "exited"} =>
            /\ UNCHANGED <<local[w], dec[w], batches[w[1]], req[w[1]]>>
            /\ nextBatch[w[1]] <= nextBatch'[w[1]] /\ nextBatch'[w[1]] \in Nat
            /\ \A d \in dec[w] : decoded'[d] = decoded[d]
  PROVE  WorkerOf(w)'
<1>1. w[1] \in Callers
  BY DEF Workers
<1>2. nextBatch[w[1]] \in Nat /\ local[w].batch \in Nat
  BY <1>1 DEF TypeOK, CallType, WorkerType
<1>3. CASE wpc[w] \in {"start", "exited"}
  BY <1>3 DEF WorkerOf, Equipped, Busy, Reading
<1>4. CASE wpc[w] \notin {"start", "exited"}
  <2>1. Batch(w)' = Batch(w)
    BY <1>4 DEF Batch
  <2>2. \A k : Rec(w[1], k)' = Rec(w[1], k)
    BY <1>4 DEF Rec
  <2>3. wpc[w] \in Busy => local'[w].batch <= nextBatch'[w[1]]
    BY <1>2, <1>4 DEF WorkerOf
  <2> QED
    BY <1>4, <2>1, <2>2, <2>3 DEF WorkerOf, Interval
<1> QED
  BY <1>3, <1>4

\* Workers that stay where they are keep their claims apart, and one that leaves its
\* batch takes none from the others.
LEMMA ClaimsSame ==
  ASSUME ClaimedOnce,
         \A w \in Workers : wpc'[w] \in Busy =>
            wpc[w] \in Busy /\ local'[w].batch = local[w].batch
  PROVE  ClaimedOnce'
  BY DEF ClaimedOnce

\* A call that moves has no workers under way, or leaves them alone.
LEMMA CallsKeepWorkers ==
  ASSUME TypeOK, OwnInv, WorkerInv, NEW c \in Callers,
         Read(c) \/ CallClose(c) \/ CancelCtx(c) \/ CallStep(c)
  PROVE  WorkerInv'
<1>1. UNCHANGED <<local, poolVars>>
  BY DEF Read, CallClose, CancelCtx, CallStep, Begin, EnterClose, EnterWait, RecvOpen,
         CloseFile, Refused, Join, Split, SplitNext, Launch, CallFrame, SplitFrame, workerVars
<1>2. ASSUME NEW w \in Workers
      PROVE  /\ wpc'[w] = wpc[w] \/ wpc'[w] = "start"
             /\ wpc[w] \notin {"start", "exited"} =>
                   UNCHANGED <<batches[w[1]], req[w[1]], nextBatch[w[1]], wpc[w]>>
  <2>0. w[1] \in Callers
    BY DEF Workers
  <2>1. CASE w[1] # c
    BY <2>0, <2>1, SplitOthers
  <2>2. CASE w[1] = c /\ Launch(c)
    <3>1. wpc[w] = "exited"
      BY <2>2, NoneLeft DEF Launch
    <3> QED
      BY <2>2, <3>1 DEF Launch
  <2>3. CASE w[1] = c /\ Join(c)
    BY <2>3 DEF Join, AllExited, Workers, CallFrame, workerVars
  <2>4. CASE w[1] = c /\ CancelCtx(c)
    BY <2>4 DEF CancelCtx, splitVars, sharedVars, workerVars
  <2>5. CASE w[1] = c /\ ~Launch(c) /\ ~Join(c) /\ ~CancelCtx(c)
    <3>1. cpc[c] # "run" /\ UNCHANGED wpc
      BY <2>5 DEF Read, CallClose, CallStep, Begin, EnterClose, EnterWait, RecvOpen,
         CloseFile, Refused, Split, SplitNext, CallFrame, SplitFrame, workerVars
    <3> QED
      BY <2>5, <3>1, NoneLeft
  <2> QED
    BY <2>1, <2>2, <2>3, <2>4, <2>5
<1>3. ASSUME NEW w \in Workers PROVE WorkerOf(w)'
  <2>0. w[1] \in Callers /\ WorkerOf(w)
    BY DEF Workers, WorkerInv
  <2>1. CASE wpc'[w] = "start"
    BY <2>1 DEF WorkerOf, Equipped, Busy, Reading
  <2>2. CASE wpc'[w] = wpc[w]
    <3>1. nextBatch[w[1]] \in Nat
      BY <2>0 DEF TypeOK, CallType
    <3> QED
      BY <1>1, <1>2, <2>0, <2>2, <3>1, WorkerSame DEF poolVars
  <2> QED
    BY <1>2, <2>1, <2>2
<1>4. ClaimedOnce'
  BY <1>1, <1>2, ClaimsSame DEF WorkerInv, Busy
<1> QED
  BY <1>3, <1>4 DEF WorkerInv

\* A step of worker w: no other moves, and no other's decoder changes.
LEMMA OthersKeep ==
  ASSUME TypeOK, OwnInv, WorkerInv, NEW w \in Workers, Worker(w), NEW v \in Workers, v # w
  PROVE  WorkerOf(v)' /\ UNCHANGED <<wpc[v], local[v], dec[v]>>
<1>0. v[1] \in Callers /\ w[1] \in Callers /\ WorkerOf(v)
  BY DEF Workers, WorkerInv
<1>1. /\ DOMAIN wpc = Workers /\ DOMAIN local = Workers /\ DOMAIN dec = Workers
      /\ nextBatch \in [Callers -> Nat] /\ DOMAIN decoded = Decoders
      /\ dec[v] \subseteq Decoders
  BY DEF TypeOK, CallType, WorkerType
<1>2. UNCHANGED <<wpc[v], local[v], dec[v]>>
  BY <1>1 DEF Worker, WorkerStart, WorkerClaim, WorkerCheck, WorkerRead, WorkerDecode, WorkerFn,
              Fail, Exit, Step, Decoded, poolVars
<1>3. nextBatch'[v[1]] \in Nat /\ nextBatch[v[1]] <= nextBatch'[v[1]]
  BY <1>0, <1>1 DEF Worker, WorkerStart, WorkerClaim, WorkerCheck, WorkerRead, WorkerDecode,
              WorkerFn, Claimed, sharedVars
<1>4. \A d \in dec[v] : decoded'[d] = decoded[d]
  <2> SUFFICES ASSUME NEW d \in dec[v] PROVE decoded'[d] = decoded[d]
    OBVIOUS
  <2>1. d \notin dec[w] /\ d \in Decoders
    BY <1>1 DEF OwnInv, OneHolder, Holds
  <2> QED
    BY <2>1 DEF Worker, WorkerStart, WorkerClaim, WorkerCheck, WorkerRead, WorkerDecode, WorkerFn,
              Fail, Exit, Decoded, poolVars
<1>5. UNCHANGED <<batches, req>>
  BY WorkersKeepCalls DEF splitVars
<1> QED
  BY <1>0, <1>2, <1>3, <1>4, <1>5, WorkerSame

\* A step of worker w itself.
LEMMA WorkerMoves ==
  ASSUME TypeOK, OwnInv, AskedInv, SplitInv, WorkerInv, NEW w \in Workers, Worker(w)
  PROVE  WorkerOf(w)'
<1> DEFINE c == w[1]
<1>0. /\ c \in Callers /\ WorkerOf(w) /\ UNCHANGED <<batches, req>>
      /\ DOMAIN wpc = Workers /\ local \in [Workers -> LocalSet] /\ DOMAIN dec = Workers
      /\ nextBatch[c] \in Nat /\ nextBatch \in [Callers -> Nat]
  BY WorkersKeepCalls DEF TypeOK, CallType, WorkerType, LocalSet, splitVars, Workers, WorkerInv
<1>1. \A k : Rec(c, k)' = Rec(c, k)
  BY <1>0 DEF Rec
<1>2. ASSUME Exit(w) PROVE WorkerOf(w)'
  <2>1. wpc'[w] = "exited"
    BY <1>0, <1>2 DEF Exit, Step
  <2> QED
    BY <2>1 DEF WorkerOf, Equipped, Busy, Reading
<1>3. CASE WorkerStart(w)
  <2>1. wpc'[w] = "claim" /\ \E d \in Decoders : dec'[w] = {d}
    BY <1>0, <1>3 DEF WorkerStart, Step, TypeOK, WorkerType
  <2> QED
    BY <2>1 DEF WorkerOf, Equipped, Busy, Reading
<1>4. CASE WorkerClaim(w)
  <2>1. wpc'[w] = "check" /\ UNCHANGED dec /\ nextBatch'[c] = nextBatch[c] + 1
        /\ local'[w].batch = nextBatch[c] + 1
    BY <1>0, <1>4 DEF WorkerClaim, Step, Claimed, poolVars, LocalSet
  <2>2. \E d \in Decoders : dec[w] = {d}
    BY <1>0, <1>4 DEF WorkerClaim, WorkerOf, Equipped
  <2> QED
    BY <1>0, <2>1, <2>2 DEF WorkerOf, Equipped, Busy, Reading
<1>5. CASE WorkerCheck(w)
  <2>1. CASE Exit(w)
    BY <1>2, <2>1
  <2>2. CASE /\ local' = [local EXCEPT ![w].k = Batch(w).from, ![w].prevRec = NoRecord]
             /\ ~(local[w].batch > Len(batches[c]))
             /\ Step(w, "read") /\ UNCHANGED <<firstErr, cancelled, poolVars>>
    <3>1. /\ wpc'[w] = "read" /\ UNCHANGED <<dec, nextBatch>> /\ wpc[w] = "check"
      BY <1>0, <1>5, <2>2 DEF WorkerCheck, Step, poolVars
    <3>2. /\ local'[w].batch = local[w].batch /\ local'[w].k = Batch(w).from
          /\ local'[w].prevRec = NoRecord
      <4>1. local' = [local EXCEPT ![w] = [local[w] EXCEPT !.k = Batch(w).from,
                                                           !.prevRec = NoRecord]]
        BY <1>0, <2>2
      <4>2. local[w] \in LocalSet
        BY <1>0
      <4> QED
        BY <1>0, <4>1, <4>2 DEF LocalSet
    <3>3. (\E d \in Decoders : dec[w] = {d}) /\ 1 <= local[w].batch /\ local[w].batch <= nextBatch[c]
      BY <1>0, <3>1 DEF WorkerOf, Equipped, Busy
    <3>4. local[w].batch \in Nat /\ batches[c] \in Seq(BatchSet) /\ Len(batches[c]) \in Nat
      <4>1. local[w].batch \in Nat
        BY <1>0 DEF LocalSet
      <4>2. batches[c] \in Seq(BatchSet)
        BY <1>0 DEF TypeOK, CallType, BatchSet
      <4> QED
        BY <4>1, <4>2
    <3>5. local[w].batch \in 1 .. Len(batches[c])
      BY <2>2, <3>3, <3>4
    <3>6. Batch(w) \in BatchSet /\ Batch(w)' = Batch(w)
      BY <1>0, <3>2, <3>4, <3>5 DEF Batch
    <3>7. cpc[c] = "run"
      BY <3>1 DEF OwnInv, HeldInside
    <3>8. Fits(c, Batch(w))
      BY <1>0, <3>5, <3>7 DEF SplitInv, SplitOf, Partition, Batch
    <3>9. Batch(w).from \in Nat /\ Batch(w).from <= Batch(w).to
      BY <3>6, <3>8 DEF Fits, BatchSet
    <3> QED
      BY <1>0, <3>1, <3>2, <3>3, <3>5, <3>6, <3>9 DEF WorkerOf, Equipped, Busy, Reading
  <2> QED
    BY <1>5, <2>1, <2>2 DEF WorkerCheck, Fail
<1>6. CASE WorkerRead(w)
  <2>1. CASE Exit(w)
    BY <1>2, <2>1
  <2>2. CASE /\ local' = [local EXCEPT ![w].buf = Interval(Batch(w))]
             /\ Step(w, "decode") /\ UNCHANGED <<firstErr, cancelled, poolVars>>
    <3>1. wpc'[w] = "decode" /\ UNCHANGED <<dec, nextBatch>> /\ wpc[w] = "read"
      BY <1>0, <1>6, <2>2 DEF WorkerRead, Step, poolVars
    <3>2. /\ local'[w].batch = local[w].batch /\ local'[w].k = local[w].k
          /\ local'[w].prevRec = local[w].prevRec /\ local'[w].buf = Interval(Batch(w))
      BY <1>0, <2>2 DEF LocalSet
    <3>3. Batch(w)' = Batch(w)
      BY <1>0, <3>2 DEF Batch
    <3> QED
      BY <1>0, <3>1, <3>2, <3>3 DEF WorkerOf, Equipped, Busy, Reading, Interval
  <2> QED
    BY <1>6, <2>1, <2>2 DEF WorkerRead, Fail
<1>7. CASE WorkerDecode(w)
  <2> DEFINE rec == Rec(c, local[w].k)
  <2>0. wpc[w] = "decode" /\ UNCHANGED nextBatch
    BY <1>7 DEF WorkerDecode
  <2>1. CASE Exit(w)
    BY <1>2, <2>1
  <2>2. CASE rec = local[w].prevRec /\ Step(w, "fn") /\ UNCHANGED <<local, poolVars>>
    <3>1. wpc'[w] = "fn" /\ UNCHANGED <<dec, local, decoded>>
      BY <1>0, <2>2 DEF Step, poolVars
    <3>2. Batch(w)' = Batch(w)
      BY <1>0, <3>1 DEF Batch
    <3> QED
      BY <1>0, <1>1, <2>0, <2>2, <3>1, <3>2 DEF WorkerOf, Equipped, Busy, Reading, Interval
  <2>3. CASE Decoded(w, rec) /\ local' = [local EXCEPT ![w].prevRec = rec] /\ Step(w, "fn")
             /\ UNCHANGED <<firstErr, cancelled, dec>>
    <3>1. wpc'[w] = "fn" /\ UNCHANGED dec
      BY <1>0, <2>3 DEF Step
    <3>2. /\ local'[w].batch = local[w].batch /\ local'[w].k = local[w].k
          /\ local'[w].prevRec = rec /\ local'[w].buf = local[w].buf
      BY <1>0, <2>3 DEF LocalSet
    <3>3. Batch(w)' = Batch(w)
      BY <1>0, <3>2 DEF Batch
    <3>4. \A d \in dec[w] : decoded'[d] = rec
      BY <2>3 DEF Decoded, TypeOK, WorkerType
    <3> QED
      BY <1>0, <1>1, <2>0, <3>1, <3>2, <3>3, <3>4 DEF WorkerOf, Equipped, Busy, Reading, Interval
  <2> QED
    BY <1>7, <2>1, <2>2, <2>3 DEF WorkerDecode, Fail
<1>8. CASE WorkerFn(w)
  <2>1. CASE Exit(w)
    BY <1>2, <2>1
  <2>2. CASE /\ local' = [local EXCEPT ![w].k = @ + 1]
             /\ Step(w, IF local[w].k = Batch(w).to THEN "claim" ELSE "decode")
             /\ UNCHANGED <<firstErr, cancelled, poolVars>>
    <3>1. wpc[w] = "fn" /\ UNCHANGED <<dec, decoded, nextBatch>>
          /\ wpc'[w] = IF local[w].k = Batch(w).to THEN "claim" ELSE "decode"
      BY <1>0, <1>8, <2>2 DEF WorkerFn, Step, poolVars
    <3>2. /\ local'[w].batch = local[w].batch /\ local'[w].k = local[w].k + 1
          /\ local'[w].prevRec = local[w].prevRec /\ local'[w].buf = local[w].buf
      BY <1>0, <2>2 DEF LocalSet
    <3>3. Batch(w)' = Batch(w)
      BY <1>0, <3>2 DEF Batch
    <3>4. local[w].k \in Batch(w).from .. Batch(w).to /\ Batch(w) \in BatchSet
      BY <3>1, BatchOf DEF Reading
    <3>5. Batch(w).from \in Nat /\ Batch(w).to \in Nat /\ local[w].k \in Nat
      BY <1>0, <3>4 DEF BatchSet, LocalSet
    <3>6. local[w].k # Batch(w).to => Batch(w).from <= local[w].k + 1 /\ local[w].k + 1 <= Batch(w).to
      BY <3>4, <3>5
    <3> QED
      BY <1>0, <3>1, <3>2, <3>3, <3>6 DEF WorkerOf, Equipped, Busy, Reading, Interval
  <2> QED
    BY <1>8, <2>1, <2>2 DEF WorkerFn, Fail
<1> QED
  BY <1>3, <1>4, <1>5, <1>6, <1>7, <1>8 DEF Worker

\* A batch that is claimed was nobody's: those under way are below the counter.
LEMMA ClaimsStep ==
  ASSUME TypeOK, OwnInv, WorkerInv, NEW w \in Workers, Worker(w)
  PROVE  ClaimedOnce'
<1>0. /\ w[1] \in Callers /\ DOMAIN wpc = Workers /\ local \in [Workers -> LocalSet]
      /\ nextBatch \in [Callers -> Nat]
  BY DEF TypeOK, CallType, WorkerType, LocalSet, Workers
<1>1. \A v \in Workers : v # w => UNCHANGED <<wpc[v], local[v]>>
  BY OthersKeep
<1>2. CASE WorkerClaim(w)
  <2>1. local'[w].batch = nextBatch[w[1]] + 1 /\ nextBatch[w[1]] \in Nat
    BY <1>0, <1>2 DEF WorkerClaim, LocalSet
  <2>2. \A v \in Workers : v[1] = w[1] /\ wpc[v] \in Busy =>
           local[v].batch <= nextBatch[w[1]] /\ local[v].batch \in Nat
    BY <1>0 DEF WorkerInv, WorkerOf, LocalSet
  <2>3. \A v \in Workers : v # w /\ v[1] = w[1] /\ wpc'[v] \in Busy =>
           local'[v].batch # local'[w].batch
    BY <1>1, <2>1, <2>2
  <2> QED
    BY <1>1, <2>3 DEF ClaimedOnce, WorkerInv
<1>3. CASE ~WorkerClaim(w)
  <2>1. wpc'[w] \in Busy => wpc[w] \in Busy /\ local'[w].batch = local[w].batch
    BY <1>0, <1>3 DEF Worker, WorkerStart, WorkerCheck, WorkerRead, WorkerDecode, WorkerFn,
                      Fail, Exit, Step, Busy, LocalSet
  <2> QED
    BY <1>1, <2>1, ClaimsSame DEF WorkerInv
<1> QED
  BY <1>2, <1>3

\* Every step keeps the workers' invariant.
LEMMA WorkerNext == ReadInv /\ [Next]_vars => WorkerInv'
<1> SUFFICES ASSUME ReadInv, [Next]_vars PROVE WorkerInv'
  OBVIOUS
<1>0. TypeOK /\ OwnInv /\ AskedInv /\ SplitInv /\ WorkerInv
  BY DEF ReadInv
<1>1. CASE UNCHANGED vars \/ Opener
  <2>1. UNCHANGED <<req, batches, nextBatch, wpc, local, dec, decoded>>
    BY <1>1 DEF vars, callVars, splitVars, sharedVars, workerVars, poolVars, Opener, OpenFile,
                CheckFile, OpenFrame
  <2>2. ASSUME NEW w \in Workers PROVE WorkerOf(w)'
    <3>1. WorkerOf(w) /\ nextBatch[w[1]] \in Nat
      BY <1>0 DEF WorkerInv, TypeOK, CallType, Workers
    <3> QED
      BY <1>0, <2>1, <3>1, WorkerSame
  <2> QED
    BY <1>0, <2>1, <2>2, ClaimsSame DEF WorkerInv
<1>2. ASSUME NEW c \in Callers,
             Read(c) \/ CallClose(c) \/ CancelCtx(c) \/ CallStep(c)
      PROVE  WorkerInv'
  BY <1>0, <1>2, CallsKeepWorkers
<1>3. ASSUME NEW w \in Workers, Worker(w) PROVE WorkerInv'
  BY <1>0, <1>3, ClaimsStep, WorkerMoves, OthersKeep DEF WorkerInv
<1> QED
  BY <1>1, <1>2, <1>3 DEF Next

-----------------------------------------------------------------------------
(***************************************************************************)
(* What is delivered.                                                       *)
(***************************************************************************)
\* Worker 1 of a call is one of its workers.
LEMMA FirstWorker ==
  ASSUME NEW c \in Callers
  PROVE  <<c, 1>> \in Workers
  BY ReaderAssumption DEF Workers

\* A call that stays where it is, with its workers, has what it had.
LEMMA GotSame ==
  ASSUME NEW c \in Callers, GotOf(c),
         UNCHANGED <<cpc[c], req[c], got[c], cancelled[c], firstErr[c]>>,
         cpc[c] = "run" =>
            /\ UNCHANGED <<batches[c], nextBatch[c]>>
            /\ \A w \in Workers : w[1] = c => UNCHANGED <<wpc[w], local[w]>>
  PROVE  GotOf(c)'
<1>1. CASE cpc[c] # "run"
  BY <1>1 DEF GotOf, Positions
<1>2. CASE cpc[c] = "run"
  <2>1. ASSUME NEW w \in Workers, NEW i, NEW k
        PROVE  /\ HasBatch(w, c, i)' <=> HasBatch(w, c, i)
               /\ HasBatch(w, c, i) => (Past(w, k)' <=> Past(w, k))
    <3>1. w[1] = c => wpc'[w] = wpc[w] /\ local'[w] = local[w]
      BY <1>2
    <3> QED
      BY <3>1 DEF HasBatch, Past
  <2>2. ASSUME NEW i, NEW k, IndexDone(c, i, k) PROVE IndexDone(c, i, k)'
    <3>1. UNCHANGED <<nextBatch[c], firstErr[c], got[c]>>
      BY <1>2
    <3> QED
      BY <2>1, <2>2, <3>1 DEF IndexDone
  <2>3. wpc'[<<c, 1>>] = wpc[<<c, 1>>]
    BY <1>2, FirstWorker
  <2> QED
    BY <1>2, <2>2, <2>3 DEF GotOf, Positions
<1> QED
  BY <1>1, <1>2

\* A return leaves what was delivered as it is.
LEMMA GotReturn ==
  ASSUME TypeOK, NEW c \in Callers, NEW res, GotOf(c), Return(c, res), UNCHANGED <<req, got>>
  PROVE  GotOf(c)'
<1>1. cpc'[c] = "idle" /\ ~cancelled'[c]
  BY DEF Return, TypeOK, CallType
<1> QED
  BY <1>1 DEF GotOf, Positions

\* A call that has not come to its workers has delivered nothing.
LEMMA GotNothing ==
  ASSUME TypeOK, NEW c \in Callers, GotOf(c), SplitOf(c), AskedInv,
         NEW where \in {"wait", "recv", "opened", "split"}, cpc' = [cpc EXCEPT ![c] = where],
         cpc[c] \in {"close", "wait", "recv", "opened", "split"},
         UNCHANGED <<req, got, sharedVars>>
  PROVE  GotOf(c)'
<1>1. \A k \in DOMAIN Positions(c) : got[c][k] = <<>>
  <2>1. CASE cpc[c] = "close"
    BY <2>1 DEF AskedInv, Close, Positions
  <2>2. CASE cpc[c] # "close"
    BY <2>2 DEF GotOf
  <2> QED
    BY <2>1, <2>2
<1>2. cpc'[c] = where
  BY DEF TypeOK, CallType
<1> QED
  BY <1>1, <1>2 DEF GotOf, SplitOf, Positions, sharedVars

\* A call begins with nothing delivered.
LEMMA GotBegins ==
  ASSUME TypeOK, NEW c \in Callers, SplitOf(c), NEW q, NEW where \in {"wait", "close"},
         Begin(c, q, where)
  PROVE  GotOf(c)'
<1>1. /\ cpc'[c] = where /\ req'[c] = q /\ got'[c] = [i \in DOMAIN q.positions |-> <<>>]
      /\ UNCHANGED cancelled /\ ~cancelled[c]
  BY DEF Begin, sharedVars, SplitOf, TypeOK, CallType
<1> QED
  BY <1>1 DEF GotOf, Positions

\* The workers start with nothing delivered and no batch claimed.
LEMMA GotLaunch ==
  ASSUME TypeOK, OwnInv, AskedInv, NEW c \in Callers, GotOf(c), SplitOf(c), SplitOf(c)', Launch(c), TypeOK'
  PROVE  GotOf(c)'
<1>1. CASE Return(c, "ctx")
  BY <1>1, GotReturn DEF Launch
<1>2. CASE /\ wpc' = [w \in Workers |->
                IF w[1] = c /\ w[2] <= NumWorkers(c) THEN "start" ELSE wpc[w]]
           /\ At(c, "run") /\ UNCHANGED <<cut, sharedVars>>
  <2>1. /\ cpc[c] = "split" /\ cpc'[c] = "run" /\ UNCHANGED <<req, got, sharedVars>>
        /\ nextBatch'[c] = 0 /\ ~cancelled'[c]
    BY <1>2 DEF Launch, At, SplitOf, sharedVars, TypeOK, CallType
  <2>2. \A w \in Workers : w[1] = c => wpc'[w] \notin Busy
    BY <1>2, <2>1, NoneLeft DEF Busy
  <2>3. wpc'[<<c, 1>>] # "exited"
    <3>1. NumWorkers(c) >= 1
      <4>1. batches[c] \in Seq([from: Nat, to: Nat, first: Records, last: Records])
        BY DEF TypeOK, CallType
      <4>2. Len(AllBatches(c)) >= 1 /\ Len(AllBatches(c)) \in Nat
        BY <4>1 DEF AllBatches
      <4> QED
        BY <4>2, ReaderAssumption DEF NumWorkers
    <3>2. <<c, 1>>[1] = c /\ <<c, 1>>[2] = 1
      OBVIOUS
    <3> QED
      BY <1>2, <3>1, <3>2, FirstWorker
  <2>4. \A k \in DOMAIN Positions(c) : got[c][k] = <<>>
    BY <2>1 DEF GotOf
  <2>5. ASSUME NEW i \in 1 .. Len(batches'[c]), NEW k \in batches'[c][i].from .. batches'[c][i].to
        PROVE  IndexDone(c, i, k)'
    <3>1. Fits(c, batches[c][i])'
      BY <2>1, <2>5 DEF SplitOf, Partition
    <3>2. /\ Positions(c)' = Positions(c) /\ Len(Positions(c)) \in Nat
          /\ DOMAIN Positions(c) = 1 .. Len(Positions(c))
      BY <2>1, AskedOf DEF Positions
    <3>3. 1 <= batches'[c][i].from /\ batches'[c][i].to <= Len(Positions(c))
      BY <3>1, <3>2 DEF Fits
    <3>4. batches'[c][i].from \in Int /\ batches'[c][i].to \in Int
      <4>1. batches'[c] \in Seq(BatchSet)
        BY DEF TypeOK, CallType, BatchSet
      <4>2. batches'[c][i] \in BatchSet
        BY <2>5, <4>1
      <4> QED
        BY <4>2 DEF BatchSet
    <3>5. k \in DOMAIN Positions(c)
      BY <2>5, <3>2, <3>3, <3>4
    <3> QED
      BY <2>1, <2>2, <2>4, <2>5, <3>5 DEF IndexDone, HasBatch
  <2> QED
    BY <2>1, <2>3, <2>4, <2>5 DEF GotOf, Positions
<1> QED
  BY <1>1, <1>2 DEF Launch

\* The indices of a batch are indices of the call, and of no other batch.
LEMMA BatchesApart ==
  ASSUME TypeOK, AskedInv, SplitInv, NEW c \in Callers, cpc[c] = "run",
         NEW i \in 1 .. Len(batches[c]), NEW k \in batches[c][i].from .. batches[c][i].to
  PROVE  /\ k \in 1 .. Len(Positions(c)) /\ k \in DOMAIN Positions(c)
         /\ \A j \in 1 .. Len(batches[c]) :
               k \in batches[c][j].from .. batches[c][j].to => i = j
<1>1. batches[c] \in Seq(BatchSet) /\ Partition(c, batches[c], Len(Positions(c)))
  BY DEF TypeOK, CallType, BatchSet, SplitInv, SplitOf
<1>2. \A j \in 1 .. Len(batches[c]) : batches[c][j].from \in Nat /\ batches[c][j].to \in Nat
  <2>1. \A x \in BatchSet : x.from \in Nat /\ x.to \in Nat
    BY DEF BatchSet
  <2>2. \A j \in 1 .. Len(batches[c]) : batches[c][j] \in BatchSet
    BY <1>1
  <2> QED
    BY <2>1, <2>2
<1>3. Len(Positions(c)) \in Nat /\ DOMAIN Positions(c) = 1 .. Len(Positions(c))
  BY AskedOf
<1>4. k \in 1 .. Len(Positions(c))
  BY <1>1, <1>2, <1>3 DEF Partition, Fits
<1>5. ASSUME NEW j \in 1 .. Len(batches[c]), k \in batches[c][j].from .. batches[c][j].to, i # j
      PROVE  FALSE
  <2>1. i < j \/ j < i
    BY <1>5
  <2> QED
    BY <1>1, <1>2, <1>5, <2>1 DEF Partition
<1> QED
  BY <1>3, <1>4, <1>5

\* What a step of worker w leaves alone.
LEMMA GotFrame ==
  ASSUME TypeOK, OwnInv, WorkerInv, NEW w \in Workers, Worker(w)
  PROVE  /\ w[1] \in Callers /\ cpc[w[1]] = "run" /\ UNCHANGED <<cpc, req, batches>>
         /\ \A v \in Workers : v # w => UNCHANGED <<wpc[v], local[v]>>
         /\ \A v \in Workers : v # w => \A i : HasBatch(v, w[1], i)' <=> HasBatch(v, w[1], i)
         /\ \A v \in Workers : v # w => \A k : Past(v, k)' <=> Past(v, k)
<1>1. UNCHANGED <<cpc, req, batches>> /\ w[1] \in Callers
  BY WorkersKeepCalls DEF splitVars, Workers
<1>2. cpc[w[1]] = "run"
  BY DEF OwnInv, HeldInside, Worker, WorkerStart, WorkerClaim, WorkerCheck, WorkerRead,
         WorkerDecode, WorkerFn
<1>3. \A v \in Workers : v # w => UNCHANGED <<wpc[v], local[v]>>
  BY OthersKeep
<1>4. ASSUME NEW v \in Workers, v # w
      PROVE  /\ \A i : HasBatch(v, w[1], i)' <=> HasBatch(v, w[1], i)
             /\ \A k : Past(v, k)' <=> Past(v, k)
  <2>1. wpc'[v] = wpc[v] /\ local'[v] = local[v]
    BY <1>3, <1>4
  <2> QED
    BY <2>1 DEF HasBatch, Past
<1> QED
  BY <1>1, <1>2, <1>3, <1>4

\* A worker that keeps the batch it has, or has none, and calls no fn.
LEMMA GotGoesOn ==
  ASSUME TypeOK, OwnInv, WorkerInv, NEW w \in Workers, Worker(w), GotOf(w[1]),
         UNCHANGED <<got, nextBatch, firstErr, cancelled>>, wpc'[w] # "exited",
         \A i : HasBatch(w, w[1], i)' <=> HasBatch(w, w[1], i),
         \A i \in 1 .. Len(batches[w[1]]) :
            \A k \in batches[w[1]][i].from .. batches[w[1]][i].to :
               HasBatch(w, w[1], i) => (Past(w, k)' <=> Past(w, k))
  PROVE  GotOf(w[1])'
<1> DEFINE c == w[1]
<1>0. c \in Callers /\ cpc[c] = "run" /\ UNCHANGED <<cpc, req, batches>>
  BY GotFrame
<1>1. ASSUME NEW i \in 1 .. Len(batches[c]), NEW k \in batches[c][i].from .. batches[c][i].to
      PROVE  IndexDone(c, i, k)'
  <2>1. IndexDone(c, i, k)
    BY <1>0, <1>1 DEF GotOf
  <2>2. \A v \in Workers : HasBatch(v, c, i)' <=> HasBatch(v, c, i)
    BY GotFrame
  <2>3. \A v \in Workers : HasBatch(v, c, i) => (Past(v, k)' <=> Past(v, k))
    BY <1>1, GotFrame
  <2> QED
    BY <2>1, <2>2, <2>3 DEF IndexDone
<1>2. wpc'[<<c, 1>>] # "exited" \/ firstErr'[c] # "none" \/ nextBatch'[c] > Len(batches'[c])
  <2>1. CASE w = <<c, 1>>
    BY <2>1
  <2>2. CASE w # <<c, 1>>
    <3>1. wpc'[<<c, 1>>] = wpc[<<c, 1>>]
      BY <1>0, <2>2, GotFrame, FirstWorker
    <3> QED
      BY <1>0, <3>1 DEF GotOf
  <2> QED
    BY <2>1, <2>2
<1> QED
  BY <1>0, <1>1, <1>2 DEF GotOf, Positions

\* A worker that exits without a call of fn: there is an error, or no batch for it.
LEMMA GotExits ==
  ASSUME TypeOK, OwnInv, WorkerInv, NEW w \in Workers, Worker(w), GotOf(w[1]),
         UNCHANGED <<got, nextBatch>>, Exit(w),
         \/ firstErr'[w[1]] # "none"
         \/ /\ wpc[w] = "check" /\ local[w].batch > Len(batches[w[1]])
            /\ UNCHANGED <<firstErr, cancelled>>
  PROVE  GotOf(w[1])'
<1> DEFINE c == w[1]
<1>0. c \in Callers /\ cpc[c] = "run" /\ UNCHANGED <<cpc, req, batches>>
  BY GotFrame
<1>1. /\ nextBatch[c] \in Nat /\ local[w].batch \in Nat /\ Len(batches[c]) \in Nat
      /\ wpc'[w] = "exited"
  <2>1. batches[c] \in Seq(BatchSet)
    BY <1>0 DEF TypeOK, CallType, BatchSet
  <2> QED
    BY <1>0, <2>1 DEF TypeOK, CallType, WorkerType, Exit, Step
<1>2. cancelled'[c] => firstErr'[c] # "none"
  BY <1>0 DEF GotOf
<1>3. ASSUME NEW i \in 1 .. Len(batches[c]), NEW k \in batches[c][i].from .. batches[c][i].to
      PROVE  IndexDone(c, i, k)'
  <2>1. IndexDone(c, i, k)
    BY <1>0, <1>3 DEF GotOf
  <2>2. ~HasBatch(w, c, i)'
    BY <1>1 DEF HasBatch, Busy
  <2>4. \/ i > nextBatch'[c] \/ firstErr'[c] # "none" \/ got'[c][k] # <<>>
        \/ \E v \in Workers : HasBatch(v, c, i)'
    <3>1. CASE firstErr'[c] # "none"
      BY <3>1
    <3>2. CASE firstErr'[c] = "none"
      <4>1. ~HasBatch(w, c, i) /\ firstErr'[c] = firstErr[c]
        BY <1>1, <1>3, <3>2 DEF HasBatch
      <4>2. \A v \in Workers : HasBatch(v, c, i) => v # w /\ HasBatch(v, c, i)'
        BY <4>1, GotFrame
      <4> QED
        BY <2>1, <3>2, <4>1, <4>2 DEF IndexDone
    <3> QED
      BY <3>1, <3>2
  <2>5. \A v \in Workers : HasBatch(v, c, i)' => (got'[c][k] # <<>> <=> Past(v, k)')
    <3> SUFFICES ASSUME NEW v \in Workers, HasBatch(v, c, i)'
                 PROVE  got'[c][k] # <<>> <=> Past(v, k)'
      OBVIOUS
    <3>1. v # w
      BY <2>2
    <3>2. HasBatch(v, c, i) /\ (Past(v, k)' <=> Past(v, k))
      BY <3>1, GotFrame
    <3> QED
      BY <2>1, <3>2 DEF IndexDone
  <2> QED
    BY <2>1, <2>4, <2>5 DEF IndexDone
<1>4. wpc'[<<c, 1>>] # "exited" \/ firstErr'[c] # "none" \/ nextBatch'[c] > Len(batches'[c])
  <2>1. CASE w = <<c, 1>> /\ firstErr'[c] = "none"
    <3>1. local[w].batch <= nextBatch[c] /\ local[w].batch > Len(batches[c])
      BY <2>1 DEF WorkerInv, WorkerOf, Busy
    <3> QED
      BY <1>0, <1>1, <3>1
  <2>2. CASE w # <<c, 1>> /\ firstErr'[c] = "none"
    <3>1. wpc'[<<c, 1>>] = wpc[<<c, 1>>] /\ firstErr'[c] = firstErr[c]
      BY <1>0, <2>2, GotFrame, FirstWorker
    <3> QED
      BY <1>0, <2>2, <3>1 DEF GotOf
  <2> QED
    BY <2>1, <2>2
<1> QED
  BY <1>0, <1>2, <1>3, <1>4 DEF GotOf, Positions

\* A worker that claims the next batch: nothing of it has been delivered.
LEMMA GotClaims ==
  ASSUME TypeOK, OwnInv, WorkerInv, NEW w \in Workers, WorkerClaim(w), GotOf(w[1])
  PROVE  GotOf(w[1])'
<1> DEFINE c == w[1]
<1>0. c \in Callers /\ cpc[c] = "run" /\ UNCHANGED <<cpc, req, batches>> /\ Worker(w)
  BY GotFrame DEF Worker
<1>1. /\ nextBatch[c] \in Nat /\ nextBatch'[c] = nextBatch[c] + 1 /\ wpc[w] = "claim"
      /\ wpc'[w] = "check" /\ local'[w].batch = nextBatch[c] + 1
      /\ UNCHANGED <<got, firstErr, cancelled>>
  BY <1>0 DEF WorkerClaim, Claimed, Step, TypeOK, CallType, WorkerType
<1>2. \A v \in Workers : v[1] = c /\ wpc[v] \in Busy =>
         local[v].batch <= nextBatch[c] /\ local[v].batch \in Nat
  BY DEF WorkerInv, WorkerOf, TypeOK, WorkerType
<1>3. ASSUME NEW i \in 1 .. Len(batches[c]), NEW k \in batches[c][i].from .. batches[c][i].to
      PROVE  IndexDone(c, i, k)'
  <2>1. IndexDone(c, i, k)
    BY <1>0, <1>3 DEF GotOf
  <2>2. HasBatch(w, c, i)' <=> i = nextBatch[c] + 1
    BY <1>1 DEF HasBatch, Busy
  <2>3. ~HasBatch(w, c, i) /\ ~Past(w, k)'
    BY <1>1 DEF HasBatch, Busy, Past
  <2>4. CASE i = nextBatch[c] + 1
    <3>1. got[c][k] = <<>>
      BY <1>1, <2>1, <2>4 DEF IndexDone
    <3>2. \A v \in Workers : v # w => ~HasBatch(v, c, i)'
      <4>1. \A v \in Workers : ~HasBatch(v, c, i)
        BY <1>1, <1>2, <2>4 DEF HasBatch
      <4> QED
        BY <1>0, <4>1, GotFrame
    <3>3. \A v \in Workers : HasBatch(v, c, i)' => (got'[c][k] # <<>> <=> Past(v, k)')
      BY <1>1, <2>3, <3>1, <3>2
    <3> QED
      BY <1>1, <2>2, <2>4, <3>1, <3>3 DEF IndexDone
  <2>5. CASE i # nextBatch[c] + 1
    <3>1. \A v \in Workers : HasBatch(v, c, i)' <=> HasBatch(v, c, i)
      BY <1>0, <2>2, <2>3, <2>5, GotFrame
    <3>2. \A v \in Workers : HasBatch(v, c, i) => (Past(v, k)' <=> Past(v, k))
      BY <1>0, <2>3, GotFrame
    <3>3. i > nextBatch'[c] <=> i > nextBatch[c]
      BY <1>1, <2>5
    <3> QED
      BY <1>1, <2>1, <3>1, <3>2, <3>3 DEF IndexDone
  <2> QED
    BY <2>4, <2>5
<1>4. wpc'[<<c, 1>>] # "exited" \/ firstErr'[c] # "none" \/ nextBatch'[c] > Len(batches'[c])
  <2>1. CASE w = <<c, 1>>
    BY <1>1, <2>1
  <2>2. CASE w # <<c, 1>>
    <3>1. wpc'[<<c, 1>>] = wpc[<<c, 1>>]
      BY <1>0, <2>2, GotFrame, FirstWorker
    <3>2. Len(batches[c]) \in Nat
      BY <1>0 DEF TypeOK, CallType
    <3> QED
      BY <1>0, <1>1, <3>1, <3>2 DEF GotOf
  <2> QED
    BY <2>1, <2>2
<1> QED
  BY <1>0, <1>1, <1>3, <1>4 DEF GotOf, Positions

\* fn takes the item of an index that nobody else has, and that has not been delivered.
LEMMA GotTakes ==
  ASSUME TypeOK, OwnInv, AskedInv, SplitInv, WorkerInv, NEW w \in Workers, WorkerFn(w),
         GotOf(w[1])
  PROVE  GotOf(w[1])'
<1> DEFINE c == w[1]
<1>b. PICK b, n : b = local[w].batch /\ n = local[w].k
  OBVIOUS
<1>0. c \in Callers /\ cpc[c] = "run" /\ UNCHANGED <<cpc, req, batches, nextBatch>> /\ Worker(w)
  BY GotFrame DEF Worker, WorkerFn
<1>1. wpc[w] = "fn" /\ got' = [got EXCEPT ![c][n] = Append(@, ItemAt(w))]
  BY <1>b DEF WorkerFn
<1>2. /\ b \in 1 .. Len(batches[c]) /\ n \in 1 .. Len(Positions(c)) /\ n \in Batch(w).from .. Batch(w).to
      /\ Batch(w) = batches[c][b] /\ Batch(w).to \in Nat /\ n \in Nat
  <2>1. wpc[w] \in Reading
    BY <1>1 DEF Reading
  <2>2. /\ Batch(w) \in BatchSet /\ local[w].batch \in 1 .. Len(batches[c])
        /\ local[w].k \in 1 .. Len(Positions(c)) /\ local[w].k \in Batch(w).from .. Batch(w).to
    BY <2>1, BatchOf
  <2>3. Batch(w) = batches[c][b] /\ n \in Nat
    BY <1>b, <2>2 DEF Batch
  <2>4. Batch(w).to \in Nat
    BY <2>2 DEF BatchSet
  <2> QED
    BY <1>b, <2>2, <2>3, <2>4
<1>3. /\ got \in [Callers -> Seq(Seq(Int))] /\ DOMAIN got[c] = DOMAIN Positions(c)
      /\ DOMAIN Positions(c) = 1 .. Len(Positions(c))
  BY <1>0, AskedOf DEF TypeOK, CallType, AskedInv
<1>4. HasBatch(w, c, b) /\ ~Past(w, n)
  BY <1>b, <1>1, <1>2 DEF HasBatch, Busy, Past
<1>5. got[c][n] = <<>>
  BY <1>0, <1>2, <1>4 DEF GotOf, IndexDone
<1>6. /\ got'[c][n] = <<Positions(c)[n]>>
      /\ \A k \in DOMAIN Positions(c) : k # n => got'[c][k] = got[c][k]
      /\ got'[c][n] # <<>>
  <2>1. Append(<<>>, ItemAt(w)) = <<Positions(c)[n]>>
    BY <1>b, <1>1, ItemIsAsked
  <2>2. got'[c] = [got[c] EXCEPT ![n] = Append(got[c][n], ItemAt(w))]
    BY <1>0, <1>1, <1>3
  <2> QED
    BY <1>2, <1>3, <1>5, <2>1, <2>2
<1>7. \A k \in DOMAIN Positions(c) : got'[c][k] \in {<<>>, <<Positions(c)[k]>>}
  BY <1>0, <1>6 DEF GotOf
<1>8. \/ Fail(w, "fn")
      \/ /\ local' = [local EXCEPT ![w].k = @ + 1]
         /\ Step(w, IF n = Batch(w).to THEN "claim" ELSE "decode")
         /\ UNCHANGED <<firstErr, cancelled, poolVars>>
  BY <1>b DEF WorkerFn
<1>9. /\ firstErr'[c] = "none" => firstErr[c] = "none" /\ ~Exit(w) /\ UNCHANGED <<firstErr, cancelled>>
      /\ cancelled'[c] => firstErr'[c] # "none"
  <2>1. CASE Fail(w, "fn")
    <3>1. firstErr'[c] = IF firstErr[c] = "none" THEN "fn" ELSE firstErr[c]
      BY <1>0, <2>1 DEF Fail, TypeOK, CallType
    <3> QED
      BY <3>1
  <2>2. CASE /\ Step(w, IF n = Batch(w).to THEN "claim" ELSE "decode")
             /\ UNCHANGED <<firstErr, cancelled, poolVars>>
    <3>1. ~Exit(w)
      BY <2>2 DEF Exit, Step, TypeOK, WorkerType
    <3> QED
      BY <1>0, <2>2, <3>1 DEF GotOf
  <2> QED
    BY <1>8, <2>1, <2>2
<1>10. /\ HasBatch(w, c, b)' => \A k \in batches[c][b].from .. batches[c][b].to :
             Past(w, k)' <=> k <= n
       /\ firstErr'[c] = "none" /\ ~HasBatch(w, c, b)' => n = batches[c][b].to
       /\ \A i : i # b => ~HasBatch(w, c, i)'
  <2>1. CASE Fail(w, "fn")
    <3>1. wpc'[w] = "exited" /\ firstErr'[c] # "none"
      BY <1>0, <1>9, <2>1 DEF Fail, Exit, Step, TypeOK, WorkerType
    <3> QED
      BY <3>1 DEF HasBatch, Busy
  <2>2. CASE /\ local' = [local EXCEPT ![w].k = @ + 1]
             /\ Step(w, IF n = Batch(w).to THEN "claim" ELSE "decode")
    <3>1. local'[w].k = n + 1 /\ local'[w].batch = b
      BY <1>b, <2>2 DEF TypeOK, WorkerType
    <3>2. wpc'[w] = IF n = Batch(w).to THEN "claim" ELSE "decode"
      BY <2>2 DEF Step, TypeOK, WorkerType
    <3>3. batches[c][b].from \in Int
      BY <1>1, <1>2, BatchOf DEF Reading, BatchSet
    <3> QED
      BY <1>2, <3>1, <3>2, <3>3 DEF HasBatch, Busy, Past
  <2> QED
    BY <1>8, <2>1, <2>2
<1>11. ASSUME NEW i \in 1 .. Len(batches[c]), NEW k \in batches[c][i].from .. batches[c][i].to
       PROVE  IndexDone(c, i, k)'
  <2>1. IndexDone(c, i, k) /\ k \in DOMAIN Positions(c)
    BY <1>0, <1>11, BatchesApart DEF GotOf
  <2>2. CASE i = b
    <3>0. b <= nextBatch[c] /\ ~(b > nextBatch[c])
      <4>1. b <= nextBatch[c]
        BY <1>b, <1>1 DEF WorkerInv, WorkerOf, Busy
      <4> QED
        BY <1>0, <1>2, <4>1 DEF TypeOK, CallType
    <3>1. \A v \in Workers : v # w => ~HasBatch(v, c, b)'
      <4>1. \A v \in Workers : v # w => ~HasBatch(v, c, b)
        BY <1>b, <1>4 DEF HasBatch, WorkerInv, ClaimedOnce
      <4> QED
        BY <1>0, <4>1, GotFrame
    <3>2. k \in Int /\ n \in Int
      BY <1>2, <1>3, <2>1
    <3>3. got'[c][k] # <<>> <=> k <= n
      <4>1. CASE k = n
        <5>1. got'[c][k] # <<>>
          BY <1>6, <4>1
        <5>2. k <= n
          BY <3>2, <4>1
        <5> QED
          BY <5>1, <5>2
      <4>2. CASE k # n
        <5>1. got[c][k] # <<>> <=> Past(w, k)
          BY <1>4, <2>1, <2>2 DEF IndexDone
        <5>2. Past(w, k) <=> k < n
          BY <1>b, <1>1 DEF Past
        <5> QED
          BY <1>6, <2>1, <3>2, <4>2, <5>1, <5>2
      <4> QED
        BY <4>1, <4>2
    <3>4. \A v \in Workers : HasBatch(v, c, b)' => (got'[c][k] # <<>> <=> Past(v, k)')
      BY <1>10, <1>11, <2>2, <3>1, <3>3
    <3>5. firstErr'[c] # "none" \/ got'[c][k] # <<>> \/ \E v \in Workers : HasBatch(v, c, b)'
      <4>1. CASE firstErr'[c] = "none" /\ ~HasBatch(w, c, b)'
        BY <1>2, <1>10, <1>11, <2>2, <3>2, <3>3, <4>1
      <4> QED
        BY <4>1
    <3> QED
      BY <1>0, <2>2, <3>0, <3>4, <3>5 DEF IndexDone
  <2>3. CASE i # b
    <3>1. k # n
      BY <1>0, <1>2, <1>11, <2>3, BatchesApart
    <3>2. got'[c][k] = got[c][k]
      BY <1>6, <2>1, <3>1
    <3>3. \A v \in Workers : HasBatch(v, c, i)' <=> HasBatch(v, c, i)
      <4>1. ~HasBatch(w, c, i) /\ ~HasBatch(w, c, i)'
        BY <1>b, <1>10, <2>3 DEF HasBatch
      <4> QED
        BY <1>0, <4>1, GotFrame
    <3>4. \A v \in Workers : HasBatch(v, c, i) => (Past(v, k)' <=> Past(v, k))
      <4>1. ~HasBatch(w, c, i)
        BY <1>b, <2>3 DEF HasBatch
      <4> QED
        BY <1>0, <4>1, GotFrame
    <3> QED
      BY <1>0, <1>9, <2>1, <3>2, <3>3, <3>4 DEF IndexDone
  <2> QED
    BY <2>2, <2>3
<1>12. wpc'[<<c, 1>>] # "exited" \/ firstErr'[c] # "none" \/ nextBatch'[c] > Len(batches'[c])
  <2>1. CASE w = <<c, 1>> /\ firstErr'[c] = "none"
    <3>1. ~Fail(w, "fn")
      BY <1>9, <2>1 DEF Fail
    <3>2. wpc'[w] # "exited"
      BY <1>8, <3>1 DEF Step, TypeOK, WorkerType
    <3> QED
      BY <2>1, <3>2
  <2>2. CASE w # <<c, 1>> /\ firstErr'[c] = "none"
    <3>1. wpc'[<<c, 1>>] = wpc[<<c, 1>>]
      BY <1>0, <2>2, GotFrame, FirstWorker
    <3> QED
      BY <1>0, <1>9, <2>2, <3>1 DEF GotOf
  <2> QED
    BY <2>1, <2>2
<1> QED
  BY <1>0, <1>7, <1>9, <1>11, <1>12 DEF GotOf, Positions

\* The steps of a worker keep what its call has delivered in order.
LEMMA GotWorkers ==
  ASSUME TypeOK, OwnInv, AskedInv, SplitInv, WorkerInv, NEW w \in Workers, Worker(w),
         GotOf(w[1])
  PROVE  GotOf(w[1])'
<1>0. /\ w[1] \in Callers /\ DOMAIN wpc = Workers /\ local \in [Workers -> LocalSet]
      /\ firstErr \in [Callers -> {"none"} \cup Causes]
  BY DEF TypeOK, CallType, WorkerType, LocalSet, Workers
<1>1. ASSUME NEW e \in Causes, Fail(w, e), UNCHANGED <<got, nextBatch>>
      PROVE  GotOf(w[1])'
  <2>1. firstErr'[w[1]] # "none" /\ Exit(w)
    BY <1>0, <1>1 DEF Fail, Causes
  <2> QED
    BY <1>1, <2>1, GotExits
<1>2. CASE WorkerStart(w)
  <2>1. wpc[w] = "start" /\ wpc'[w] = "claim" /\ UNCHANGED <<got, nextBatch, firstErr, cancelled>>
    BY <1>0, <1>2 DEF WorkerStart, Step, sharedVars
  <2> QED
    BY <2>1, GotGoesOn DEF HasBatch, Busy
<1>3. CASE WorkerClaim(w)
  BY <1>3, GotClaims
<1>4. CASE WorkerCheck(w)
  <2>0. wpc[w] = "check" /\ UNCHANGED <<got, nextBatch>>
    BY <1>4 DEF WorkerCheck
  <2>1. CASE /\ Exit(w) /\ UNCHANGED <<firstErr, cancelled>>
             /\ local[w].batch > Len(batches[w[1]]) \/ cancelled[w[1]]
    <3>1. cancelled[w[1]] => firstErr'[w[1]] # "none"
      BY <2>1 DEF GotOf
    <3> QED
      BY <2>0, <2>1, <3>1, GotExits
  <2>2. CASE Fail(w, "ctx")
    BY <1>1, <2>0, <2>2 DEF Causes
  <2>3. CASE /\ local' = [local EXCEPT ![w].k = Batch(w).from, ![w].prevRec = NoRecord]
             /\ Step(w, "read") /\ UNCHANGED <<firstErr, cancelled, poolVars>>
    <3>1. wpc'[w] = "read" /\ local'[w].batch = local[w].batch
      <4>1. local' = [local EXCEPT ![w] = [local[w] EXCEPT !.k = Batch(w).from,
                                                           !.prevRec = NoRecord]]
        BY <1>0, <2>3
      <4> QED
        BY <1>0, <2>3, <4>1 DEF Step, LocalSet
    <3>2. \A k : ~Past(w, k) /\ ~Past(w, k)'
      BY <2>0, <3>1 DEF Past
    <3>3. \A i : HasBatch(w, w[1], i)' <=> HasBatch(w, w[1], i)
      BY <2>0, <3>1 DEF HasBatch, Busy
    <3> QED
      BY <2>0, <2>3, <3>1, <3>2, <3>3, GotGoesOn
  <2> QED
    BY <1>4, <2>1, <2>2, <2>3 DEF WorkerCheck
<1>5. CASE WorkerRead(w)
  <2>0. wpc[w] = "read" /\ UNCHANGED <<got, nextBatch>>
    BY <1>5 DEF WorkerRead
  <2>1. CASE Fail(w, "read")
    BY <1>1, <2>0, <2>1 DEF Causes
  <2>2. CASE /\ local' = [local EXCEPT ![w].buf = Interval(Batch(w))]
             /\ Step(w, "decode") /\ UNCHANGED <<firstErr, cancelled, poolVars>>
    <3>1. wpc'[w] = "decode" /\ local'[w].batch = local[w].batch /\ local'[w].k = local[w].k
      BY <1>0, <2>2 DEF Step, LocalSet
    <3>2. \A i : HasBatch(w, w[1], i)' <=> HasBatch(w, w[1], i)
      BY <2>0, <3>1 DEF HasBatch, Busy
    <3>3. ASSUME NEW i \in 1 .. Len(batches[w[1]]),
                 NEW k \in batches[w[1]][i].from .. batches[w[1]][i].to, HasBatch(w, w[1], i)
          PROVE  Past(w, k)' <=> Past(w, k)
      <4>1. Batch(w) = batches[w[1]][i] /\ local[w].k = Batch(w).from
        BY <2>0, <3>3 DEF HasBatch, Batch, WorkerInv, WorkerOf
      <4>2. Batch(w) \in BatchSet
        BY <2>0, BatchOf DEF Reading
      <4>3. ~(k < local[w].k)
        BY <3>3, <4>1, <4>2 DEF BatchSet
      <4> QED
        BY <3>1, <4>3 DEF Past
    <3> QED
      BY <2>0, <2>2, <3>1, <3>2, <3>3, GotGoesOn
  <2> QED
    BY <1>5, <2>1, <2>2 DEF WorkerRead
<1>6. CASE WorkerDecode(w)
  <2>0. wpc[w] = "decode" /\ UNCHANGED <<got, nextBatch>>
    BY <1>6 DEF WorkerDecode
  <2>1. ASSUME NEW e \in {"corrupt", "panic"}, Fail(w, e) PROVE GotOf(w[1])'
    BY <1>1, <2>0, <2>1 DEF Causes
  <2>2. CASE /\ local'[w].batch = local[w].batch /\ local'[w].k = local[w].k
             /\ Step(w, "fn") /\ UNCHANGED <<firstErr, cancelled>>
    <3>1. wpc'[w] = "fn"
      BY <1>0, <2>2 DEF Step
    <3>2. \A i : HasBatch(w, w[1], i)' <=> HasBatch(w, w[1], i)
      BY <2>0, <2>2, <3>1 DEF HasBatch, Busy
    <3>3. \A k : Past(w, k)' <=> Past(w, k)
      BY <2>0, <2>2, <3>1 DEF Past
    <3> QED
      BY <2>0, <2>2, <3>1, <3>2, <3>3, GotGoesOn
  <2>3. ASSUME NEW r, local' = [local EXCEPT ![w].prevRec = r]
        PROVE  local'[w].batch = local[w].batch /\ local'[w].k = local[w].k
    BY <1>0, <2>3 DEF LocalSet
  <2> QED
    BY <1>6, <2>1, <2>2, <2>3 DEF WorkerDecode
<1>7. CASE WorkerFn(w)
  BY <1>7, GotTakes
<1> QED
  BY <1>2, <1>3, <1>4, <1>5, <1>6, <1>7 DEF Worker

\* The steps of a call keep what it has delivered in order.
LEMMA GotCalls ==
  ASSUME TypeOK, TypeOK', OwnInv, AskedInv, NEW c \in Callers, GotOf(c), SplitOf(c), SplitOf(c)',
         Read(c) \/ CallClose(c) \/ CancelCtx(c) \/ CallStep(c)
  PROVE  GotOf(c)'
<1>1. CASE Read(c) \/ CallClose(c)
  BY <1>1, GotBegins DEF Read, CallClose
<1>2. CASE CancelCtx(c)
  BY <1>2, GotSame DEF CancelCtx, splitVars, sharedVars, workerVars
<1>3. CASE EnterClose(c) \/ EnterWait(c) \/ RecvOpen(c) \/ Split(c)
  BY <1>3, GotNothing, GotReturn
     DEF EnterClose, EnterWait, RecvOpen, Split, Goto, At, CallFrame, SplitFrame
<1>4. CASE SplitNext(c)
  BY <1>4, GotSame DEF SplitNext, SplitFrame, sharedVars, workerVars
<1>5. CASE CloseFile(c) \/ Refused(c) \/ Join(c)
  BY <1>5, GotReturn DEF CloseFile, Refused, Join, CallFrame
<1>6. CASE Launch(c)
  BY <1>6, GotLaunch
<1> QED
  BY <1>1, <1>2, <1>3, <1>4, <1>5, <1>6 DEF CallStep

\* Every step keeps what is delivered in order.
LEMMA GotNext == ReadInv /\ [Next]_vars => GotInv'
<1> SUFFICES ASSUME ReadInv, [Next]_vars PROVE GotInv'
  OBVIOUS
<1>0. /\ TypeOK /\ TypeOK' /\ OwnInv /\ AskedInv /\ SplitInv /\ SplitInv' /\ WorkerInv /\ GotInv
  BY TypeNext, PartitionNext DEF ReadInv
<1>1. CASE UNCHANGED vars \/ Opener
  <2>1. UNCHANGED <<callVars, splitVars, sharedVars, wpc, local>>
    BY <1>1 DEF vars, workerVars, Opener, OpenFile, CheckFile, OpenFrame
  <2> QED
    BY <1>0, <2>1, GotSame DEF GotInv, callVars, splitVars, sharedVars
<1>2. ASSUME NEW c \in Callers,
             Read(c) \/ CallClose(c) \/ CancelCtx(c) \/ CallStep(c)
      PROVE  GotInv'
  <2>1. GotOf(c)'
    <3>1. GotOf(c) /\ SplitOf(c) /\ SplitOf(c)'
      BY <1>0 DEF GotInv, SplitInv
    <3> QED
      BY <1>0, <1>2, <3>1, GotCalls
  <2>2. ASSUME NEW d \in Callers, d # c PROVE GotOf(d)'
    <3>1. /\ UNCHANGED <<cpc[d], req[d], got[d], cancelled[d], firstErr[d], batches[d], nextBatch[d]>>
          /\ \A w \in Workers : w[1] = d => UNCHANGED <<wpc[w], local[w]>>
      BY <1>0, <1>2, <2>2, SplitOthers
    <3>2. GotOf(d)
      BY <1>0 DEF GotInv
    <3> QED
      BY <3>1, <3>2, GotSame
  <2> QED
    BY <2>1, <2>2 DEF GotInv
<1>3. ASSUME NEW w \in Workers, Worker(w) PROVE GotInv'
  <2>1. ASSUME NEW c \in Callers, c # w[1] PROVE GotOf(c)'
    <3>1. UNCHANGED <<got[c], nextBatch[c], cancelled[c], firstErr[c]>>
      BY <1>0, <1>3, <2>1, WorkersKeepOthers
    <3>2. UNCHANGED <<cpc, req, batches>>
      BY <1>3, WorkersKeepCalls DEF splitVars
    <3>3. \A v \in Workers : v[1] = c => UNCHANGED <<wpc[v], local[v]>>
      BY <1>0, <1>3, <2>1, OthersKeep
    <3>4. GotOf(c)
      BY <1>0 DEF GotInv
    <3> QED
      BY <3>1, <3>2, <3>3, <3>4, GotSame
  <2>2. GotOf(w[1])'
    <3>1. w[1] \in Callers /\ GotOf(w[1])
      BY <1>0 DEF GotInv, Workers
    <3> QED
      BY <1>0, <1>3, <3>1, GotWorkers
  <2> QED
    BY <2>1, <2>2 DEF GotInv
<1> QED
  BY <1>1, <1>2, <1>3 DEF Next

-----------------------------------------------------------------------------
(***************************************************************************)
(* What is returned.                                                        *)
(***************************************************************************)
\* A cause does not go away: a failed open stays failed, a closed file closed and a
\* record corrupt, and a context is not revived during a call.
LEMMA CauseStays ==
  ASSUME NEW c \in Callers, NEW e, Cause(c, e), req'[c] = req[c], corrupt' = corrupt,
         openErr => openErr', ctxDone[c] => ctxDone'[c], file = "closed" => file' = "closed"
  PROVE  Cause(c, e)'
<1>1. \A k : Rec(c, k)' = Rec(c, k)
  BY DEF Rec
<1> QED
  BY <1>1 DEF Cause

\* The open and the file of the next state.
LEMMA WorldStays == ReadInv /\ [Next]_vars =>
                       /\ corrupt' = corrupt /\ (openErr => openErr')
                       /\ file = "closed" => file' = "closed"
<1> SUFFICES ASSUME ReadInv, [Next]_vars
             PROVE  /\ corrupt' = corrupt /\ (openErr => openErr')
                    /\ file = "closed" => file' = "closed"
  OBVIOUS
<1>0. OpenInv
  BY DEF ReadInv
<1>1. CASE Opener
  BY <1>0, <1>1 DEF Opener, OpenFile, CheckFile, Cleanup, OpenFrame, OpenInv
<1>2. ASSUME NEW c \in Callers,
             Read(c) \/ CallClose(c) \/ CancelCtx(c) \/ CallStep(c)
      PROVE  /\ corrupt' = corrupt /\ (openErr => openErr')
             /\ file = "closed" => file' = "closed"
  <2>1. CASE RecvOpen(c)
    BY <1>0, <2>1 DEF RecvOpen, OpenInv
  <2>2. CASE CloseFile(c)
    BY <2>2 DEF CloseFile, CallFrame
  <2>3. CASE ~RecvOpen(c) /\ ~CloseFile(c)
    BY <1>2, <2>3 DEF Read, CallClose, CancelCtx, CallStep, Begin, EnterClose, EnterWait,
         Refused, Join, Split, SplitNext, Launch, CallFrame, SplitFrame, openVars
  <2> QED
    BY <2>1, <2>2, <2>3
<1>3. ASSUME NEW w \in Workers, Worker(w)
      PROVE  corrupt' = corrupt /\ openErr' = openErr /\ file' = file
  BY <1>3, WorkersKeepCalls DEF openVars
<1>4. CASE UNCHANGED vars
  BY <1>4 DEF vars, openVars
<1> QED
  BY <1>1, <1>2, <1>3, <1>4 DEF Next

\* A call that does not move keeps what it returned, and its reasons.
LEMMA ReturnSame ==
  ASSUME NEW c \in Callers, ReturnOf(c),
         UNCHANGED <<cpc[c], req[c], ret[c], firstErr[c], corrupt>>,
         got'[c] = got[c] \/ cpc[c] # "idle",
         openErr => openErr', ctxDone[c] => ctxDone'[c], file = "closed" => file' = "closed"
  PROVE  ReturnOf(c)'
<1>1. Cause(c, ret[c])'
  <2>1. Cause(c, ret[c])
    BY DEF ReturnOf
  <2>2. \A e : Cause(c, e) => Cause(c, e)'
    BY CauseStays
  <2> QED
    BY <2>1, <2>2 DEF Cause
<1>2. Cause(c, firstErr[c])'
  <2>1. Cause(c, firstErr[c])
    BY DEF ReturnOf
  <2>2. \A e : Cause(c, e) => Cause(c, e)'
    BY CauseStays
  <2> QED
    BY <2>1, <2>2 DEF Cause
<1>3. CASE got'[c] = got[c]
  BY <1>1, <1>2, <1>3 DEF ReturnOf
<1>4. CASE cpc[c] # "idle"
  BY <1>1, <1>2, <1>4 DEF ReturnOf
<1> QED
  BY <1>3, <1>4

\* When all workers of a call without an error are gone, every index has been delivered:
\* it is in a batch, which has been claimed and is nobody's any more.
LEMMA AllDelivered ==
  ASSUME TypeOK, AskedInv, SplitInv, GotInv, NEW c \in Callers, cpc[c] = "run",
         AllExited(c), firstErr[c] = "none"
  PROVE  \A k \in DOMAIN got[c] : got[c][k] # <<>>
<1> SUFFICES ASSUME NEW k \in DOMAIN got[c] PROVE got[c][k] # <<>>
  OBVIOUS
<1>0. SplitOf(c) /\ GotOf(c)
  BY DEF SplitInv, GotInv
<1>1. k \in 1 .. Len(Positions(c))
  BY AskedOf DEF AskedInv
<1>2. PICK i \in 1 .. Len(batches[c]) : k \in batches[c][i].from .. batches[c][i].to
  BY <1>0, <1>1 DEF SplitOf, Partition
<1>3. \A w \in Workers : ~HasBatch(w, c, i)
  BY DEF AllExited, Workers, HasBatch, Busy
<1>4. wpc[<<c, 1>>] = "exited"
  BY ReaderAssumption DEF AllExited
<1>5. nextBatch[c] \in Nat /\ Len(batches[c]) \in Nat
  BY DEF TypeOK, CallType
<1>6. nextBatch[c] > Len(batches[c])
  BY <1>0, <1>4 DEF GotOf
<1>7. IndexDone(c, i, k)
  BY <1>0, <1>2 DEF GotOf
<1> QED
  BY <1>2, <1>3, <1>5, <1>6, <1>7 DEF IndexDone

\* A call returns with a reason.
LEMMA ReturnWith ==
  ASSUME TypeOK, NEW c \in Callers, NEW res, Return(c, res), UNCHANGED <<req, got>>,
         Cause(c, res)', res = "ok" => \A k \in DOMAIN got[c] : got[c][k] # <<>>
  PROVE  ReturnOf(c)'
<1>1. cpc'[c] = "idle" /\ ret'[c] = res /\ firstErr'[c] = "none" /\ got' = got
  BY DEF Return, TypeOK, CallType
<1>2. Cause(c, ret[c])'
  BY <1>1 DEF Cause
<1>3. Cause(c, firstErr[c])'
  BY <1>1 DEF Cause
<1> QED
  BY <1>1, <1>2, <1>3 DEF ReturnOf

\* The steps of a call.
LEMMA ReturnCalls ==
  ASSUME ReadInv, [Next]_vars, NEW c \in Callers,
         Read(c) \/ CallClose(c) \/ CancelCtx(c) \/ CallStep(c)
  PROVE  ReturnOf(c)'
<1>0. /\ TypeOK /\ AskedInv /\ SplitInv /\ GotInv /\ ReturnOf(c) /\ SplitOf(c)
      /\ corrupt' = corrupt /\ (openErr => openErr') /\ (file = "closed" => file' = "closed")
  BY WorldStays DEF ReadInv, ReturnInv, SplitInv
<1>1. /\ DOMAIN cpc = Callers /\ DOMAIN ret = Callers /\ DOMAIN req = Callers
      /\ DOMAIN ctxDone = Callers /\ openErr \in BOOLEAN
  BY <1>0 DEF TypeOK, CallType, OpenType
<1>2. CASE Read(c) \/ CallClose(c)
  <2>1. ret'[c] = "none" /\ firstErr'[c] = "none"
    BY <1>0, <1>1, <1>2 DEF Read, CallClose, Begin, SplitOf, sharedVars
  <2> QED
    BY <2>1 DEF ReturnOf, Cause
<1>3. CASE CancelCtx(c) \/ SplitNext(c)
  <2>1. UNCHANGED <<cpc, req, ret, firstErr, got>> /\ (ctxDone[c] => ctxDone'[c])
    BY <1>1, <1>3 DEF CancelCtx, SplitNext, SplitFrame, sharedVars
  <2> QED
    BY <1>0, <2>1, ReturnSame
<1>4. ASSUME NEW where, At(c, where), cpc[c] # "idle",
             UNCHANGED <<req, ctxDone, got, firstErr>>
      PROVE  ReturnOf(c)'
  <2>1. ret[c] = "none" /\ ret'[c] = "none" /\ firstErr'[c] = firstErr[c]
    BY <1>0, <1>4 DEF At, ReturnOf
  <2>2. Cause(c, firstErr[c])'
    <3>1. Cause(c, firstErr[c])
      BY <1>0 DEF ReturnOf
    <3>2. \A e : Cause(c, e) => Cause(c, e)'
      BY <1>0, <1>4, CauseStays
    <3> QED
      BY <2>1, <3>1, <3>2 DEF Cause
  <2> QED
    BY <1>0, <2>1, <2>2 DEF ReturnOf, Cause
<1>5. CASE EnterClose(c)
  <2>1. CASE Goto(c, "wait")
    BY <1>4, <1>5, <2>1 DEF EnterClose, Goto, CallFrame, sharedVars
  <2>2. CASE Return(c, "ok")
    <3>1. DOMAIN got[c] = {}
      BY <1>0, <1>5 DEF EnterClose, AskedInv, Positions, Close
    <3>2. Cause(c, "ok")'
      BY DEF Cause
    <3> QED
      BY <1>0, <1>5, <2>2, <3>1, <3>2, ReturnWith DEF EnterClose, CallFrame
  <2> QED
    BY <1>5, <2>1, <2>2 DEF EnterClose
<1>6. CASE EnterWait(c) \/ RecvOpen(c)
  BY <1>4, <1>6 DEF EnterWait, RecvOpen, Goto, CallFrame, sharedVars
<1>7. CASE CloseFile(c)
  <2>1. DOMAIN got[c] = {}
    BY <1>0, <1>7 DEF CloseFile, AskedInv, Positions, Close
  <2>2. Cause(c, "ok")'
    BY DEF Cause
  <2> QED
    BY <1>0, <1>7, <2>1, <2>2, ReturnWith DEF CloseFile, CallFrame
<1>8. CASE Refused(c)
  <2>1. CASE openErr /\ Return(c, "open")
    <3>1. Cause(c, "open")'
      BY <1>0, <2>1 DEF Cause
    <3> QED
      BY <1>0, <1>8, <2>1, <3>1, ReturnWith DEF Refused, CallFrame
  <2>2. CASE Return(c, "range") /\ req[c].positions[1] \notin 0 .. TotalItems - 1
    <3>1. Cause(c, "range")'
      BY <1>8, <2>2 DEF Cause, Refused, CallFrame
    <3> QED
      BY <1>0, <1>8, <2>2, <3>1, ReturnWith DEF Refused, CallFrame
  <2> QED
    BY <1>8, <2>1, <2>2 DEF Refused
<1>9. CASE Split(c)
  BY <1>4, <1>9 DEF Split, SplitFrame, sharedVars
<1>10. CASE Launch(c)
  <2>1. CASE ctxDone[c] /\ Return(c, "ctx")
    <3>1. Cause(c, "ctx")'
      BY <1>10, <2>1 DEF Cause, Launch
    <3> QED
      BY <1>0, <1>10, <2>1, <3>1, ReturnWith DEF Launch
  <2>2. CASE At(c, "run") /\ UNCHANGED sharedVars
    BY <1>4, <1>10, <2>2 DEF Launch, sharedVars
  <2> QED
    BY <1>10, <2>1, <2>2 DEF Launch
<1>11. CASE Join(c)
  <2>1. cpc[c] = "run" /\ AllExited(c) /\ UNCHANGED <<req, ctxDone, got>>
    BY <1>11 DEF Join, CallFrame
  <2>2. CASE firstErr[c] = "none"
    <3>1. Cause(c, "ok")'
      BY DEF Cause
    <3>2. Return(c, "ok")
      BY <1>11, <2>2 DEF Join
    <3> QED
      BY <1>0, <2>1, <2>2, <3>1, <3>2, AllDelivered, ReturnWith
  <2>3. CASE firstErr[c] # "none"
    <3>1. PICK x : x = firstErr[c]
      OBVIOUS
    <3>2. Return(c, x) /\ x # "ok" /\ Cause(c, x)
      BY <1>0, <1>11, <2>3, <3>1 DEF Join, ReturnOf
    <3>3. Cause(c, x)'
      BY <1>0, <2>1, <3>2, CauseStays
    <3> QED
      BY <1>0, <2>1, <3>2, <3>3, ReturnWith
  <2> QED
    BY <2>2, <2>3
<1> QED
  BY <1>2, <1>3, <1>5, <1>6, <1>7, <1>8, <1>9, <1>10, <1>11 DEF CallStep

\* A worker that fails has a reason: in particular, no slice is out of range.
LEMMA FailsFor ==
  ASSUME ReadInv, NEW w \in Workers, Worker(w), NEW e, Fail(w, e)
  PROVE  \/ Cause(w[1], e) /\ e # "ok"
         \/ firstErr' = firstErr
<1> DEFINE c == w[1]
<1>0. /\ TypeOK /\ OwnInv /\ AskedInv /\ SplitInv /\ WorkerInv /\ OpenInv /\ c \in Callers
      /\ DOMAIN wpc = Workers
  BY DEF ReadInv, Workers, TypeOK, WorkerType
<1>1. wpc'[w] = "exited"
  BY <1>0 DEF Fail, Exit, Step
<1>2. \A d \in {"ctx", "read", "corrupt", "fn"} : d # "ok" /\ d # "panic" /\ d # "open" /\ d # "range"
  OBVIOUS
<1>3. CASE WorkerStart(w) \/ WorkerClaim(w)
  BY <1>0, <1>1, <1>3 DEF WorkerStart, WorkerClaim, Step
<1>4. CASE WorkerCheck(w)
  <2>1. firstErr' = firstErr \/ (ctxDone[c] /\ Fail(w, "ctx"))
    BY <1>4 DEF WorkerCheck
  <2>2. CASE ctxDone[c] /\ Fail(w, "ctx")
    <3>1. Cause(c, "ctx")
      BY <2>2 DEF Cause
    <3>2. e = "ctx" \/ firstErr' = firstErr
      BY <1>0, <2>2 DEF Fail, TypeOK, CallType
    <3> QED
      BY <3>1, <3>2
  <2> QED
    BY <2>1, <2>2
<1>5. CASE WorkerRead(w)
  <2>1. firstErr' = firstErr \/ ((file # "open" \/ "read" \in Faults) /\ Fail(w, "read"))
    BY <1>5 DEF WorkerRead
  <2>2. CASE (file # "open" \/ "read" \in Faults) /\ Fail(w, "read")
    <3>1. file # "none"
      <4>1. cpc[c] = "run"
        BY <1>0, <1>5 DEF WorkerRead, OwnInv, HeldInside
      <4> QED
        BY <1>0, <4>1 DEF OpenInv
    <3>2. Cause(c, "read")
      BY <1>0, <2>2, <3>1 DEF Cause, TypeOK, OpenType
    <3>3. e = "read" \/ firstErr' = firstErr
      BY <1>0, <2>2 DEF Fail, TypeOK, CallType
    <3> QED
      BY <3>2, <3>3
  <2> QED
    BY <2>1, <2>2
<1>6. CASE WorkerDecode(w)
  <2>1. InBuffer(w, Rec(c, local[w].k))
    BY <1>0, <1>6, AlwaysInBuffer DEF WorkerDecode
  <2>2. firstErr' = firstErr \/ (Rec(c, local[w].k) \in corrupt /\ Fail(w, "corrupt"))
    BY <1>6, <2>1 DEF WorkerDecode
  <2>3. CASE Rec(c, local[w].k) \in corrupt /\ Fail(w, "corrupt")
    <3>1. local[w].k \in DOMAIN req[c].positions
      <4>1. local[w].k \in 1 .. Len(Positions(c)) /\ cpc[c] = "run"
        BY <1>0, <1>6, BatchOf DEF WorkerDecode, Reading
      <4> QED
        BY <1>0, <4>1, AskedOf DEF Positions
    <3>2. Cause(c, "corrupt")
      BY <2>3, <3>1 DEF Cause
    <3>3. e = "corrupt" \/ firstErr' = firstErr
      BY <1>0, <2>3 DEF Fail, TypeOK, CallType
    <3> QED
      BY <3>2, <3>3
  <2> QED
    BY <2>2, <2>3
<1>7. CASE WorkerFn(w)
  <2>1. firstErr' = firstErr \/ ("fn" \in Faults /\ Fail(w, "fn"))
    BY <1>7 DEF WorkerFn
  <2>2. CASE "fn" \in Faults /\ Fail(w, "fn")
    <3>1. Cause(c, "fn")
      BY <2>2 DEF Cause
    <3>2. e = "fn" \/ firstErr' = firstErr
      BY <1>0, <2>2 DEF Fail, TypeOK, CallType
    <3> QED
      BY <3>1, <3>2
  <2> QED
    BY <2>1, <2>2
<1> QED
  BY <1>3, <1>4, <1>5, <1>6, <1>7 DEF Worker

\* The steps of a worker.
LEMMA ReturnWorkers ==
  ASSUME ReadInv, [Next]_vars, NEW w \in Workers, Worker(w), NEW c \in Callers
  PROVE  ReturnOf(c)'
<1>0. /\ ReturnOf(c) /\ TypeOK /\ OwnInv
      /\ corrupt' = corrupt /\ (openErr => openErr') /\ (file = "closed" => file' = "closed")
      /\ UNCHANGED <<cpc, req, ret, ctxDone>>
  BY WorldStays, WorkersKeepCalls DEF ReadInv, ReturnInv
<1>1. CASE c # w[1]
  <2>1. UNCHANGED <<firstErr[c], got[c]>>
    BY <1>0, <1>1, WorkersKeepOthers
  <2> QED
    BY <1>0, <2>1, ReturnSame
<1>2. CASE c = w[1]
  <2>1. cpc[c] = "run"
    BY <1>0, <1>2, GotFrame DEF ReadInv
  <2>2. CASE firstErr'[c] = firstErr[c]
    BY <1>0, <2>1, <2>2, ReturnSame
  <2>3. CASE firstErr'[c] # firstErr[c]
    <3>1. PICK e : Fail(w, e)
      BY <2>3 DEF Worker, WorkerStart, WorkerClaim, WorkerCheck, WorkerRead, WorkerDecode,
                  WorkerFn, sharedVars
    <3>2. Cause(c, e) /\ e # "ok" /\ firstErr'[c] = e
      <4>1. Cause(c, e) /\ e # "ok"
        BY <1>2, <2>3, <3>1, FailsFor
      <4>2. firstErr'[c] = e
        BY <1>0, <1>2, <2>3, <3>1 DEF Fail, TypeOK, CallType
      <4> QED
        BY <4>1, <4>2
    <3>3. Cause(c, e)'
      BY <1>0, <3>2, CauseStays
    <3>4. Cause(c, firstErr[c])'
      BY <3>2, <3>3 DEF Cause
    <3>5. ret[c] = "none" /\ ret'[c] = "none"
      BY <1>0, <2>1 DEF ReturnOf
    <3>6. Cause(c, ret[c])'
      BY <3>5 DEF Cause
    <3> QED
      BY <3>2, <3>4, <3>5, <3>6 DEF ReturnOf
  <2> QED
    BY <2>2, <2>3
<1> QED
  BY <1>1, <1>2

\* Every step keeps what is returned true.
LEMMA ReturnNext == ReadInv /\ [Next]_vars => ReturnInv'
<1> SUFFICES ASSUME ReadInv, [Next]_vars, NEW c \in Callers PROVE ReturnOf(c)'
  BY DEF ReturnInv
<1>0. /\ TypeOK /\ ReturnOf(c)
      /\ corrupt' = corrupt /\ (openErr => openErr') /\ (file = "closed" => file' = "closed")
  BY WorldStays DEF ReadInv, ReturnInv
<1>1. CASE UNCHANGED vars \/ Opener
  <2>1. UNCHANGED <<callVars, sharedVars>>
    BY <1>1 DEF vars, Opener, OpenFile, CheckFile, OpenFrame
  <2> QED
    BY <1>0, <2>1, ReturnSame DEF callVars, sharedVars
<1>2. ASSUME NEW d \in Callers,
             Read(d) \/ CallClose(d) \/ CancelCtx(d) \/ CallStep(d)
      PROVE  ReturnOf(c)'
  <2>1. CASE c = d
    BY <1>2, <2>1, ReturnCalls
  <2>2. CASE c # d
    <3>1. UNCHANGED <<cpc[c], req[c], ret[c], ctxDone[c], got[c], firstErr[c]>>
      BY <1>0, <1>2, <2>2, SplitOthers
    <3> QED
      BY <1>0, <3>1, ReturnSame
  <2> QED
    BY <2>1, <2>2
<1>3. ASSUME NEW w \in Workers, Worker(w) PROVE ReturnOf(c)'
  BY <1>3, ReturnWorkers
<1> QED
  BY <1>1, <1>2, <1>3 DEF Next

-----------------------------------------------------------------------------
(***************************************************************************)
(* The theorems.                                                            *)
(***************************************************************************)
\* When Open returns nothing has been asked for, delivered or returned.
LEMMA ReadInit == Init => ReadInv
<1> SUFFICES ASSUME Init PROVE ReadInv
  OBVIOUS
<1>1. TypeOK /\ OwnInv
  BY TypeInit, OwnInit
<1>2. AskedInv
  BY DEF Init, AskedInv, Positions, Close
<1>3. SplitInv
  BY DEF Init, SplitInv, SplitOf, NoCut
<1>4. WorkerInv
  BY DEF Init, WorkerInv, ClaimedOnce, WorkerOf, Equipped, Busy, Reading
<1>5. GotInv
  BY DEF Init, GotInv, GotOf, Positions, Close
<1>6. OpenInv
  BY DEF Init, OpenInv
<1>7. ReturnInv
  BY DEF Init, ReturnInv, ReturnOf, Cause
<1> QED
  BY <1>1, <1>2, <1>3, <1>4, <1>5, <1>6, <1>7 DEF ReadInv

\* Every step keeps the invariant of the reader.
LEMMA ReadNext == ReadInv /\ [Next]_vars => ReadInv'
<1> SUFFICES ASSUME ReadInv, [Next]_vars PROVE ReadInv'
  OBVIOUS
<1>1. OwnInv'
  BY OwnNext DEF ReadInv
<1> QED
  BY <1>1, TypeNext, AskedNext, PartitionNext, WorkerNext, GotNext, OpenNext, ReturnNext
     DEF ReadInv

\* The invariant of the reader.
LEMMA ReadInvariant == Spec => []ReadInv
  BY ReadInit, ReadNext, PTL DEF Spec

\* Every variable of the reader keeps its type: the batches lie inside the positions and
\* the records of the file, so the loops of readBatch index nothing that does not exist.
THEOREM ReaderTypes == Spec => []TypeOK
<1>1. ReadInv => TypeOK
  BY DEF ReadInv
<1> QED
  BY ReadInvariant, <1>1, PTL

\* No index is handed to fn twice, nor with another item than the one asked for, whatever
\* the workers share (ReadItems, ReadItem and ReadRange of reader.go).
THEOREM NothingTwice == Spec => []DeliveredOnce
<1>1. ReadInv => DeliveredOnce
  BY DEF ReadInv, AskedInv, GotInv, GotOf, DeliveredOnce, Positions
<1> QED
  BY ReadInvariant, <1>1, PTL

\* A read that returns nil has handed every index to fn: ReadItems waits for its workers,
\* and a worker gives a batch up only when there is an error to return.
THEOREM NothingMissing == Spec => []NilMeansAll
<1>1. ReadInv => NilMeansAll
  BY DEF ReadInv, ReturnInv, ReturnOf, NilMeansAll
<1> QED
  BY ReadInvariant, <1>1, PTL

\* A read reports an error only when there is one, and no goroutine of it panics on a slice
\* out of range: the bytes read for a batch cover each of its records.
THEOREM ErrorsAreReal == Spec => []ErrorHasCause
<1>1. ReadInv => ErrorHasCause
  BY DEF ReadInv, ReturnInv, ReturnOf, Cause, ErrorHasCause
<1> QED
  BY ReadInvariant, <1>1, PTL

-----------------------------------------------------------------------------
(***************************************************************************)
(* The event store's reader.                                                *)
(***************************************************************************)
SliceSet == [owner: {"caller", "nobody"} \cup Decoders, item: Int]

StoreTypes ==
    /\ stage \in [Callers -> {"idle", "call", "yield"}]
    /\ end \in [Callers -> {"none", "ok", "err", "stopped"}]
    /\ results \in [Callers -> Seq(SliceSet)] /\ held \in [Callers -> Seq(SliceSet)]

(***************************************************************************)
(* Where a call stands, in the store and in the packfile reader below it.   *)
(***************************************************************************)
StageOf(c) ==
    /\ stage[c] # "call" => cpc[c] = "idle"
    /\ stage[c] = "call" /\ cpc[c] = "idle" => ret[c] # "none"
    /\ stage[c] = "yield" => ret[c] = "ok" /\ req[c].op \in {"item", "items"}
    /\ req[c] = Close => ret[c] \in {"none", "ok"} /\ (ret[c] = "ok" => closeOnce # "new")

StageInv == \A c \in Callers : StageOf(c)

(***************************************************************************)
(* ReadItem and ReadRange run in the goroutine of the caller alone, and are *)
(* over when they fail.                                                     *)
(***************************************************************************)
LoneOf(c) ==
    cpc[c] = "run" /\ req[c].op # "items" =>
        /\ \A w \in Workers : w[1] = c /\ w[2] # 1 => wpc[w] = "exited"
        /\ firstErr[c] # "none" => wpc[<<c, 1>>] = "exited"

LoneInv == \A c \in Callers : LoneOf(c)

(***************************************************************************)
(* What the callbacks leave, and what the caller has been given.            *)
(***************************************************************************)
ResultsOf(c) ==
    /\ stage[c] = "idle" => results[c] = <<>>
    /\ stage[c] # "idle" => DOMAIN results[c] = DOMAIN Positions(c)
    /\ stage[c] # "idle" /\ req[c].op # "range" =>
          \A k \in DOMAIN Positions(c) :
              results[c][k] = IF got[c][k] = <<>> THEN Nil ELSE Copy(Positions(c)[k])

HeldOf(c) ==
    /\ Len(held[c]) <= Len(Positions(c))
    /\ \A i \in 1 .. Len(held[c]) : held[c][i] = Copy(Positions(c)[i])
    /\ stage[c] = "call" /\ req[c].op # "range" => held[c] = <<>>
    /\ stage[c] = "call" /\ req[c].op = "range" =>
          \A k \in DOMAIN Positions(c) : got[c][k] # <<>> <=> k <= Len(held[c])
    /\ Answered(c) => Len(held[c]) = Len(Positions(c)) /\ \A k \in DOMAIN Positions(c) : got[c][k] # <<>>
    /\ \A k \in DOMAIN Positions(c) : got[c][k] # <<>> => Positions(c)[k] \in 0 .. TotalItems - 1

AnswerInv == \A c \in Callers : ResultsOf(c) /\ HeldOf(c)

StoreInv == ReadInv /\ StoreTypes /\ StageInv /\ LoneInv /\ AnswerInv

-----------------------------------------------------------------------------
(***************************************************************************)
(* The steps of the store, as steps of the packfile reader.                 *)
(***************************************************************************)
\* Who can move what the store looks at.
LEMMA InsideKeeps ==
  ASSUME ReadInv, Inside
  PROVE  Next /\ UNCHANGED <<req, got, storeVars>>
<1>1. ASSUME NEW c \in Callers, CancelCtx(c) \/ CallStep(c) PROVE UNCHANGED <<req, got>>
  BY <1>1 DEF CancelCtx, CallStep, EnterClose, EnterWait, RecvOpen, CloseFile, Refused, Split,
              SplitNext, Launch, Join, CallFrame, SplitFrame
<1>2. ASSUME NEW w \in Workers,
             WorkerStart(w) \/ WorkerClaim(w) \/ WorkerCheck(w) \/ WorkerRead(w) \/ WorkerDecode(w)
      PROVE  UNCHANGED <<req, got>> /\ Worker(w)
  BY <1>2 DEF WorkerStart, WorkerClaim, WorkerCheck, WorkerRead, WorkerDecode, WorkerFrame, Worker
<1>3. Opener => UNCHANGED <<req, got>>
  BY DEF Opener, OpenFile, CheckFile, OpenFrame, callVars
<1> QED
  BY <1>1, <1>2, <1>3 DEF Inside, Next

\* Every step of the store is a step of the packfile reader, or leaves it alone.
LEMMA StoreStep == ReadInv /\ [StoreNext]_allVars => [Next]_vars
<1> SUFFICES ASSUME ReadInv, [StoreNext]_allVars PROVE [Next]_vars
  OBVIOUS
<1>1. CASE Inside
  BY <1>1, InsideKeeps
<1>2. ASSUME NEW w \in Workers, Callback(w) PROVE Next
  BY <1>2 DEF Callback, Worker, Next
<1>3. ASSUME NEW c \in Callers, BeginCall(c) PROVE Next
  BY <1>3 DEF BeginCall, BeginRead, BeginClose, Next
<1>4. ASSUME NEW c \in Callers, Returned(c) \/ Yield(c) PROVE UNCHANGED vars
  BY <1>4 DEF Returned, Yield
<1>5. CASE UNCHANGED allVars
  BY <1>5 DEF allVars
<1> QED
  BY <1>1, <1>2, <1>3, <1>4, <1>5 DEF StoreNext

\* A request of the store's caller is Close or one of the Requests.
LEMMA RequestOf ==
  ASSUME TypeOK, NEW c \in Callers
  PROVE  /\ req[c] \in Requests \cup {Close}
         /\ Positions(c) \in Seq(Int) /\ DOMAIN Positions(c) = 1 .. Len(Positions(c))
         /\ Len(Positions(c)) \in Nat
         /\ req[c].op = "close" <=> req[c] = Close
         /\ req[c] = Close => Positions(c) = <<>>
         /\ req[c] # Close => Positions(c) # <<>> /\ req[c].op \in {"item", "items", "range"}
<1>1. req[c] \in Requests \cup {Close}
  BY DEF TypeOK, CallType
<1>2. CASE req[c] = Close
  BY <1>1, <1>2 DEF Positions, Close
<1>3. CASE req[c] \in Requests
  BY <1>1, <1>3, RequestIs DEF Positions, Close
<1> QED
  BY <1>1, <1>2, <1>3

-----------------------------------------------------------------------------
(***************************************************************************)
(* Workers.                                                                 *)
(***************************************************************************)
\* A worker that fails is gone.
LEMMA LoneWorker ==
  ASSUME TypeOK, OwnInv, NEW w \in Workers, Worker(w), LoneOf(w[1]), SplitOf(w[1])
  PROVE  LoneOf(w[1])'
<1> DEFINE c == w[1]
<1>1. /\ c \in Callers /\ UNCHANGED <<cpc, req>> /\ wpc[w] # "exited"
      /\ DOMAIN wpc = Workers /\ DOMAIN firstErr = Callers
  BY WorkersKeepCalls DEF Workers, Worker, WorkerStart, WorkerClaim, WorkerCheck, WorkerRead,
     WorkerDecode, WorkerFn, TypeOK, CallType, WorkerType
<1>2. \A v \in Workers : v # w => wpc'[v] = wpc[v]
  BY <1>1 DEF Worker, WorkerStart, WorkerClaim, WorkerCheck, WorkerRead, WorkerDecode, WorkerFn,
              Fail, Exit, Step
<1>3. firstErr' = firstErr \/ wpc'[w] = "exited"
  BY <1>1 DEF Worker, WorkerStart, WorkerClaim, WorkerCheck, WorkerRead, WorkerDecode, WorkerFn,
              Fail, Exit, Step, sharedVars
<1>4. SUFFICES ASSUME cpc[c] = "run", req[c].op # "items"
      PROVE  /\ \A v \in Workers : v[1] = c /\ v[2] # 1 => wpc'[v] = "exited"
             /\ firstErr'[c] # "none" => wpc'[<<c, 1>>] = "exited"
  BY <1>1 DEF LoneOf
<1>5. w[2] = 1 /\ w = <<c, 1>>
  BY <1>1, <1>4 DEF LoneOf, Workers
<1> QED
  BY <1>1, <1>2, <1>3, <1>4, <1>5 DEF LoneOf

\* The calls start one worker for ReadItem and ReadRange.
LEMMA LoneCall ==
  ASSUME TypeOK, OwnInv, NEW c \in Callers, SplitOf(c), LoneOf(c),
         Read(c) \/ CallClose(c) \/ CancelCtx(c) \/ CallStep(c)
  PROVE  LoneOf(c)'
<1>1. /\ DOMAIN cpc = Callers /\ DOMAIN wpc = Workers
  BY DEF TypeOK, CallType, WorkerType
<1>2. CASE Launch(c) /\ ~ctxDone[c]
  <2>1. /\ firstErr'[c] = "none" /\ req' = req /\ firstErr[c] = "none"
        /\ wpc' = [w \in Workers |->
                     IF w[1] = c /\ w[2] <= NumWorkers(c) THEN "start" ELSE wpc[w]]
    BY <1>2 DEF Launch, SplitOf, sharedVars
  <2>2. ASSUME NEW w \in Workers, w[1] = c, w[2] # 1, req[c].op # "items"
        PROVE  wpc'[w] = "exited"
    <3>1. NumWorkers(c) = 1 /\ ~(w[2] <= 1)
      BY <2>2, ReaderAssumption DEF NumWorkers, Workers
    <3>2. wpc[w] = "exited"
      BY <1>2, <2>2 DEF Launch, OwnInv, HeldInside
    <3> QED
      BY <2>1, <3>1, <3>2
  <2> QED
    BY <2>1, <2>2 DEF LoneOf
<1>3. CASE CancelCtx(c)
  BY <1>3 DEF CancelCtx, LoneOf, sharedVars, workerVars
<1>4. CASE ~CancelCtx(c) /\ ~(Launch(c) /\ ~ctxDone[c])
  <2>1. cpc'[c] # "run"
    BY <1>1, <1>4 DEF Read, CallClose, Begin, CallStep, EnterClose, EnterWait, RecvOpen, CloseFile,
       Refused, Split, SplitNext, Launch, Join, Goto, At, Return
  <2> QED
    BY <2>1 DEF LoneOf
<1> QED
  BY <1>2, <1>3, <1>4

\* Every step keeps ReadItem and ReadRange alone.
LEMMA LoneNext == ReadInv /\ LoneInv /\ [Next]_vars => LoneInv'
<1> SUFFICES ASSUME ReadInv, LoneInv, [Next]_vars, NEW c \in Callers PROVE LoneOf(c)'
  BY DEF LoneInv
<1>0. TypeOK /\ OwnInv /\ WorkerInv /\ SplitOf(c) /\ LoneOf(c)
  BY DEF ReadInv, SplitInv, LoneInv
<1>1. CASE UNCHANGED vars \/ Opener
  <2>1. UNCHANGED <<cpc, req, wpc, firstErr>>
    BY <1>1 DEF vars, Opener, OpenFile, CheckFile, OpenFrame, callVars, sharedVars, workerVars
  <2> QED
    BY <1>0, <2>1 DEF LoneOf
<1>2. ASSUME NEW d \in Callers, Read(d) \/ CallClose(d) \/ CancelCtx(d) \/ CallStep(d)
      PROVE  LoneOf(c)'
  <2>1. CASE d = c
    BY <1>0, <1>2, <2>1, LoneCall
  <2>2. CASE d # c
    <3>1. /\ UNCHANGED <<cpc[c], req[c], firstErr[c]>>
          /\ \A w \in Workers : w[1] = c => wpc'[w] = wpc[w]
      BY <1>0, <1>2, <2>2, SplitOthers
    <3>2. <<c, 1>> \in Workers
      BY ReaderAssumption DEF Workers
    <3> QED
      BY <1>0, <3>1, <3>2 DEF LoneOf
  <2> QED
    BY <2>1, <2>2
<1>3. ASSUME NEW w \in Workers, Worker(w) PROVE LoneOf(c)'
  <2>1. CASE w[1] = c
    BY <1>0, <1>3, <2>1, LoneWorker
  <2>2. CASE w[1] # c
    <3>1. UNCHANGED <<cpc, req>> /\ firstErr'[c] = firstErr[c]
      BY <1>0, <1>3, <2>2, WorkersKeepCalls, WorkersKeepOthers
    <3>2. \A v \in Workers : v[1] = c => wpc'[v] = wpc[v]
      BY <1>0, <1>3, <2>2, OthersKeep
    <3>3. <<c, 1>> \in Workers
      BY ReaderAssumption DEF Workers
    <3> QED
      BY <1>0, <3>1, <3>2, <3>3 DEF LoneOf
  <2> QED
    BY <2>1, <2>2
<1> QED
  BY <1>1, <1>2, <1>3 DEF Next

-----------------------------------------------------------------------------
(***************************************************************************)
(* Calls.                                                                   *)
(***************************************************************************)
\* Close is never undone.
LEMMA ClosesOnce ==
  ASSUME TypeOK, [Next]_vars, closeOnce # "new"
  PROVE  closeOnce' # "new"
<1>1. ASSUME NEW w \in Workers, Worker(w) PROVE closeOnce' = closeOnce
  BY <1>1, WorkersKeepCalls DEF openVars
<1>2. ASSUME NEW c \in Callers, Read(c) \/ CallClose(c) \/ CancelCtx(c) \/ CallStep(c)
      PROVE  closeOnce' # "new"
  BY <1>2 DEF Read, CallClose, CancelCtx, Begin, CallStep, EnterClose, EnterWait, RecvOpen, CloseFile,
     Refused, Split, SplitNext, Launch, Join, CallFrame, SplitFrame, openVars
<1>3. CASE Opener \/ UNCHANGED vars
  BY <1>3 DEF Opener, OpenFile, CheckFile, OpenFrame, vars, openVars
<1> QED
  BY <1>1, <1>2, <1>3 DEF Next

\* A step inside a call keeps where it stands, and returns something.
LEMMA StageCall ==
  ASSUME ReadInv, [Next]_vars, NEW c \in Callers, CancelCtx(c) \/ CallStep(c),
         UNCHANGED storeVars, StageOf(c)
  PROVE  StageOf(c)'
<1>0. /\ TypeOK /\ DOMAIN cpc = Callers /\ DOMAIN ret = Callers /\ ReturnOf(c)
      /\ cpc[c] = "close" => req[c] = Close
  BY DEF ReadInv, TypeOK, CallType, ReturnInv, AskedInv
<1>1. cpc[c] # "idle" /\ stage[c] = "call" /\ ret[c] = "none"
  BY <1>0 DEF CancelCtx, CallStep, EnterClose, EnterWait, RecvOpen, CloseFile, Refused, Split,
              SplitNext, Launch, Join, StageOf, ReturnOf
<1>2. stage' = stage /\ req' = req
  BY DEF storeVars, CancelCtx, CallStep, EnterClose, EnterWait, RecvOpen, CloseFile, Refused, Split,
              SplitNext, Launch, Join, CallFrame, SplitFrame
<1>3. CASE CancelCtx(c) \/ Split(c) \/ SplitNext(c) \/ EnterWait(c) \/ RecvOpen(c)
           \/ (Launch(c) /\ ~ctxDone[c]) \/ (EnterClose(c) /\ closeOnce = "new")
  <2>1. ret' = ret /\ cpc'[c] # "idle"
    BY <1>0, <1>1, <1>3 DEF CancelCtx, Split, SplitNext, EnterWait, RecvOpen, Launch, EnterClose, Goto, At
  <2> QED
    BY <1>1, <1>2, <2>1 DEF StageOf
<1>4. CASE (EnterClose(c) /\ closeOnce = "done") \/ CloseFile(c)
  <2>1. ret'[c] = "ok" /\ closeOnce' = "done"
    BY <1>0, <1>4 DEF EnterClose, CloseFile, Return
  <2> QED
    BY <1>1, <1>2, <2>1 DEF StageOf
<1>5. CASE Refused(c) \/ (Launch(c) /\ ctxDone[c])
  <2>1. ret'[c] \in {"open", "range", "ctx"}
    BY <1>0, <1>5 DEF Refused, Launch, Return
  <2>2. req[c] # Close
    <3>1. cpc[c] \in {"split", "run"} => req[c] # Close
      BY AskedOf DEF ReadInv
    <3> QED
      BY <3>1, <1>5 DEF Refused, Launch
  <2> QED
    BY <1>1, <1>2, <2>1, <2>2 DEF StageOf
<1>6. CASE Join(c)
  <2>1. ret'[c] # "none"
    BY <1>0, <1>6 DEF Join, Return
  <2>2. req[c] # Close
    BY <1>6, AskedOf DEF ReadInv, Join
  <2> QED
    BY <1>1, <1>2, <2>1, <2>2 DEF StageOf
<1> QED
  BY <1>3, <1>4, <1>5, <1>6 DEF CallStep, EnterClose

\* A call that does not move stands where it stood.
LEMMA StageSame ==
  ASSUME NEW c \in Callers, StageOf(c), UNCHANGED <<stage[c], cpc[c], ret[c], req[c]>>,
         closeOnce # "new" => closeOnce' # "new"
  PROVE  StageOf(c)'
  BY DEF StageOf

\* Every step of the store keeps where the calls stand.
LEMMA StageNext == StoreInv /\ [StoreNext]_allVars => StageInv'
<1> SUFFICES ASSUME StoreInv, [StoreNext]_allVars, NEW c \in Callers PROVE StageOf(c)'
  BY DEF StageInv
<1>0. /\ ReadInv /\ TypeOK /\ StageOf(c) /\ [Next]_vars
      /\ closeOnce # "new" => closeOnce' # "new"
      /\ stage \in [Callers -> {"idle", "call", "yield"}]
  BY StoreStep, ClosesOnce DEF StoreInv, StageInv, ReadInv, StoreTypes
<1>f. /\ DOMAIN cpc = Callers /\ DOMAIN ret = Callers /\ DOMAIN req = Callers
  BY <1>0 DEF TypeOK, CallType
<1>1. CASE Inside
  <2>0. UNCHANGED <<req, storeVars, stage>>
    BY <1>0, <1>1, InsideKeeps DEF storeVars
  <2>1. CASE Opener
    <3>1. UNCHANGED callVars
      BY <2>1 DEF Opener, OpenFile, CheckFile, OpenFrame
    <3> QED
      BY <1>0, <2>0, <3>1, StageSame DEF callVars
  <2>2. ASSUME NEW d \in Callers, CancelCtx(d) \/ CallStep(d) PROVE StageOf(c)'
    <3>1. CASE c = d
      BY <1>0, <2>0, <2>2, <3>1, StageCall
    <3>2. CASE c # d
      <4>1. UNCHANGED <<cpc[c], req[c], ret[c]>>
        BY <1>0, <2>2, <3>2, SplitOthers
      <4> QED
        BY <1>0, <2>0, <4>1, StageSame
    <3> QED
      BY <3>1, <3>2
  <2>3. ASSUME NEW w \in Workers,
               WorkerStart(w) \/ WorkerClaim(w) \/ WorkerCheck(w) \/ WorkerRead(w) \/ WorkerDecode(w)
        PROVE  StageOf(c)'
    <3>1. UNCHANGED <<cpc, req, ret>>
      BY <2>3, WorkersKeepCalls DEF Worker
    <3> QED
      BY <1>0, <2>0, <3>1, StageSame
  <2> QED
    BY <1>1, <2>1, <2>2, <2>3 DEF Inside
<1>2. ASSUME NEW w \in Workers, Callback(w) PROVE StageOf(c)'
  <2>1. UNCHANGED <<cpc, req, ret, stage>>
    BY <1>2, WorkersKeepCalls DEF Callback, Worker
  <2> QED
    BY <1>0, <2>1, StageSame
<1>3. ASSUME NEW d \in Callers, BeginCall(d) PROVE StageOf(c)'
  <2>1. Read(d) \/ CallClose(d)
    BY <1>3 DEF BeginCall, BeginRead, BeginClose
  <2>2. CASE c = d
    <3>1. stage'[c] = "call" /\ cpc'[c] # "idle" /\ ret'[c] = "none"
      BY <1>0, <1>f, <1>3, <2>1, <2>2 DEF BeginCall, Read, CallClose, Begin
    <3> QED
      BY <3>1 DEF StageOf
  <2>3. CASE c # d
    <3>1. UNCHANGED <<cpc[c], req[c], ret[c]>>
      BY <1>0, <2>1, <2>3, SplitOthers
    <3>2. stage'[c] = stage[c]
      BY <1>0, <1>3, <2>3 DEF BeginCall
    <3> QED
      BY <1>0, <3>1, <3>2, StageSame
  <2> QED
    BY <2>2, <2>3
<1>4. ASSUME NEW d \in Callers, Returned(d) \/ Yield(d) PROVE StageOf(c)'
  <2>1. UNCHANGED <<cpc, req, ret, closeOnce>>
    BY <1>4 DEF Returned, Yield, vars, openVars, callVars
  <2>2. CASE c = d /\ stage'[c] # stage[c]
    <3>1. cpc[c] = "idle"
      BY <1>0, <1>4, <2>2 DEF Returned, Yield, StageOf
    <3>2. stage'[c] = "idle" \/ (stage'[c] = "yield" /\ ret[c] = "ok" /\ req[c].op \in {"item", "items"})
      BY <1>0, <1>4, <2>2 DEF Returned, Yield, Ended
    <3> QED
      BY <1>0, <2>1, <3>1, <3>2 DEF StageOf
  <2>3. CASE c # d \/ stage'[c] = stage[c]
    <3>1. stage'[c] = stage[c]
      BY <1>0, <1>4, <2>3 DEF Returned, Yield, Ended
    <3> QED
      BY <1>0, <2>1, <3>1, StageSame
  <2> QED
    BY <2>2, <2>3
<1>5. CASE UNCHANGED allVars
  BY <1>0, <1>5, StageSame DEF allVars, vars, callVars, openVars, storeVars
<1> QED
  BY <1>1, <1>2, <1>3, <1>4, <1>5 DEF StoreNext

-----------------------------------------------------------------------------
(***************************************************************************)
(* What the callers are given.                                              *)
(***************************************************************************)
\* A caller that the step does not concern keeps its answer.
LEMMA AnswerSame ==
  ASSUME NEW c \in Callers, ResultsOf(c), HeldOf(c),
         UNCHANGED <<stage[c], results[c], held[c], end[c], req[c], got[c]>>
  PROVE  ResultsOf(c)' /\ HeldOf(c)'
<1>1. ResultsOf(c)'
  BY DEF ResultsOf, Positions
<1>2. HeldOf(c)'
  BY DEF HeldOf, Answered, Positions
<1> QED
  BY <1>1, <1>2

\* A copy is a slice.
LEMMA CopyIs ==
  ASSUME NEW i \in Int
  PROVE  Copy(i) \in SliceSet /\ Nil \in SliceSet /\ Copy(i) # Nil
  BY DEF Copy, Nil, SliceSet

\* A call begins with nothing.
LEMMA AnswerBegins ==
  ASSUME TypeOK, TypeOK', StoreTypes, NEW c \in Callers, BeginCall(c)
  PROVE  /\ ResultsOf(c)' /\ HeldOf(c)'
         /\ results'[c] \in Seq(SliceSet) /\ held'[c] \in Seq(SliceSet)
<1>1. /\ stage'[c] = "call" /\ held'[c] = <<>> /\ end'[c] = "none"
      /\ results'[c] = [k \in DOMAIN req'[c].positions |-> Nil]
  BY DEF BeginCall, StoreTypes
<1>2. PICK q \in Requests \cup {Close} : Begin(c, q, "wait") \/ Begin(c, q, "close")
  BY DEF BeginCall, BeginRead, BeginClose, Read, CallClose
<1>3. req'[c] = q /\ got'[c] = [i \in DOMAIN q.positions |-> <<>>]
  BY <1>2 DEF Begin, TypeOK, CallType
<1>4. q.positions \in Seq(Int) /\ DOMAIN q.positions = 1 .. Len(q.positions) /\ Len(q.positions) \in Nat
  <2>1. CASE q = Close
    BY <2>1 DEF Close
  <2>2. CASE q \in Requests
    BY <2>2, RequestIs
  <2> QED
    BY <2>1, <2>2
<1>5. results'[c] \in Seq(SliceSet) /\ held'[c] \in Seq(SliceSet)
  <2>1. Nil \in SliceSet
    BY DEF Nil, SliceSet
  <2>2. results'[c] = [k \in 1 .. Len(q.positions) |-> Nil]
    BY <1>1, <1>3, <1>4
  <2> QED
    BY <1>1, <1>4, <2>1, <2>2
<1>6. ResultsOf(c)'
  <2>1. Positions(c)' = q.positions
    BY <1>3 DEF Positions
  <2> QED
    BY <1>1, <1>3, <2>1 DEF ResultsOf
<1>7. HeldOf(c)'
  <2>1. Positions(c)' = q.positions
    BY <1>3 DEF Positions
  <2>2. Len(held'[c]) = 0
    BY <1>1
  <2>3. ~Answered(c)'
    BY <1>1 DEF Answered
  <2> QED
    BY <1>1, <1>3, <1>4, <2>1, <2>2, <2>3 DEF HeldOf
<1> QED
  BY <1>5, <1>6, <1>7

\* ReadRange: when its one goroutine calls fn, all the indices before have been delivered.
LEMMA InOrder ==
  ASSUME ReadInv, LoneInv, NEW w \in Workers, wpc[w] = "fn", req[w[1]].op # "items",
         NEW j \in 1 .. local[w].k - 1
  PROVE  got[w[1]][j] # <<>>
<1> DEFINE c == w[1]
           k == local[w].k
           b == local[w].batch
<1>0. TypeOK /\ OwnInv /\ AskedInv /\ SplitInv /\ WorkerInv /\ GotInv
  BY DEF ReadInv
<1>1. /\ c \in Callers /\ cpc[c] = "run" /\ b \in 1 .. Len(batches[c]) /\ k \in 1 .. Len(Positions(c))
      /\ k \in batches[c][b].from .. batches[c][b].to
  BY <1>0, BatchOf DEF Reading, Batch
<1>2. LoneOf(c) /\ GotOf(c) /\ Partition(c, batches[c], Len(Positions(c)))
  BY <1>0, <1>1 DEF LoneInv, GotInv, SplitInv, SplitOf
<1>3. w = <<c, 1>> /\ firstErr[c] = "none"
  <2>1. w[2] = 1 /\ w = <<c, 1>>
    BY <1>1, <1>2 DEF LoneOf, Workers
  <2> QED
    BY <1>1, <1>2, <2>1 DEF LoneOf
<1>4. Len(Positions(c)) \in Nat /\ Len(batches[c]) \in Nat /\ nextBatch[c] \in Nat
  BY <1>0, <1>1, AskedOf DEF TypeOK, CallType
<1>5. PICK i \in 1 .. Len(batches[c]) : j \in batches[c][i].from .. batches[c][i].to
  <2>1. j \in 1 .. Len(Positions(c))
    BY <1>1, <1>4
  <2> QED
    BY <1>2, <2>1 DEF Partition
<1>6. IndexDone(c, i, j)
  BY <1>1, <1>2, <1>5 DEF GotOf
<1>7. CASE i = b
  <2>1. HasBatch(w, c, i) /\ Past(w, j)
    BY <1>1, <1>4, <1>7 DEF HasBatch, Past, Busy
  <2> QED
    BY <1>6, <2>1 DEF IndexDone
<1>8. CASE i # b
  <2>1. /\ batches[c] \in Seq(BatchSet)
    BY <1>0, <1>1 DEF TypeOK, CallType, BatchSet
  <2>2. batches[c][i] \in BatchSet /\ batches[c][b] \in BatchSet
    BY <1>1, <1>5, <2>1
  <2>3. /\ batches[c][i].from \in Nat /\ batches[c][i].to \in Nat
        /\ batches[c][b].from \in Nat /\ batches[c][b].to \in Nat
    BY <2>2 DEF BatchSet
  <2>4. ~(b < i)
    <3>1. b < i => batches[c][b].to < batches[c][i].from
      BY <1>1, <1>2, <1>5 DEF Partition
    <3>2. k <= batches[c][b].to /\ batches[c][i].from <= j /\ j < k /\ k \in Nat /\ j \in Nat
      BY <1>1, <1>4, <1>5, <2>3
    <3> HIDE DEF c, k, b
    <3> QED
      BY <2>3, <3>1, <3>2
  <2>5. b <= nextBatch[c]
    BY <1>0 DEF WorkerInv, WorkerOf, Busy
  <2>6. ~(i > nextBatch[c])
    BY <1>1, <1>4, <1>5, <1>8, <2>4, <2>5
  <2>7. ASSUME NEW v \in Workers, HasBatch(v, c, i) PROVE FALSE
    <3>1. v = w
      BY <1>1, <1>2, <1>3, <2>7 DEF HasBatch, LoneOf, Busy, Workers
    <3> QED
      BY <1>8, <2>7, <3>1 DEF HasBatch
  <2> QED
    BY <1>3, <1>6, <2>6, <2>7 DEF IndexDone
<1> QED
  BY <1>7, <1>8

\* fn puts the event where the position is.
LEMMA AnswerTakes ==
  ASSUME StoreInv, NEW w \in Workers, Callback(w)
  PROVE  /\ ResultsOf(w[1])' /\ HeldOf(w[1])'
         /\ results'[w[1]] \in Seq(SliceSet) /\ held'[w[1]] \in Seq(SliceSet)
<1> DEFINE c == w[1]
<1>k. PICK k : k = local[w].k
  OBVIOUS
<1>0. /\ TypeOK /\ OwnInv /\ AskedInv /\ SplitInv /\ WorkerInv /\ GotInv /\ c \in Callers
      /\ StageOf(c) /\ ResultsOf(c) /\ HeldOf(c) /\ StoreTypes /\ ReadInv /\ LoneInv
  BY DEF StoreInv, ReadInv, StageInv, AnswerInv, Workers
<1>1. /\ wpc[w] = "fn" /\ UNCHANGED <<req, stage, end>>
      /\ got' = [got EXCEPT ![c][k] = Append(@, ItemAt(w))]
  BY <1>k DEF Callback, WorkerFn, WorkerFrame
<1>2. /\ cpc[c] = "run" /\ k \in 1 .. Len(Positions(c)) /\ k \in batches[c][local[w].batch].from .. batches[c][local[w].batch].to
      /\ local[w].batch \in 1 .. Len(batches[c])
  BY <1>0, <1>1, <1>k, BatchOf DEF Reading, Batch
<1>3. stage[c] = "call"
  BY <1>0, <1>2 DEF StageOf
<1>4. /\ got[c] \in Seq(Seq(Int)) /\ DOMAIN got[c] = DOMAIN Positions(c)
      /\ DOMAIN Positions(c) = 1 .. Len(Positions(c)) /\ Len(Positions(c)) \in Nat
      /\ Positions(c) \in Seq(Int) /\ Positions(c)[k] \in 0 .. TotalItems - 1
  BY <1>0, <1>2, AskedOf DEF TypeOK, CallType, AskedInv
<1>n. k \in DOMAIN Positions(c) /\ k \in Nat /\ 1 <= k
  BY <1>2, <1>4
<1>5. ItemAt(w) = Positions(c)[k] /\ ItemAt(w) \in Int
  BY <1>0, <1>1, <1>k, ItemIsAsked
<1>6. got[c][k] = <<>>
  <2>1. HasBatch(w, c, local[w].batch) /\ ~Past(w, k)
    BY <1>1, <1>2, <1>k DEF HasBatch, Busy, Past
  <2>2. IndexDone(c, local[w].batch, k)
    BY <1>0, <1>2 DEF GotInv, GotOf
  <2> QED
    BY <2>1, <2>2 DEF IndexDone
<1>7. got'[c][k] # <<>> /\ \A i \in DOMAIN Positions(c) : i # k => got'[c][i] = got[c][i]
  <2>1. got'[c] = [got[c] EXCEPT ![k] = Append(got[c][k], ItemAt(w))]
    BY <1>0, <1>1 DEF TypeOK, CallType
  <2>2. Append(got[c][k], ItemAt(w)) # <<>>
    BY <1>5, <1>6
  <2> QED
    BY <1>2, <1>4, <2>1, <2>2
<1>8. Positions(c)' = Positions(c) /\ stage'[c] = "call" /\ ~Answered(c)'
  BY <1>1, <1>3 DEF Positions, Answered
<1>9. \A i \in DOMAIN Positions(c) : got'[c][i] # <<>> => Positions(c)[i] \in 0 .. TotalItems - 1
  BY <1>0, <1>4, <1>7 DEF HeldOf
<1>t. results[c] \in Seq(SliceSet) /\ held[c] \in Seq(SliceSet) /\ DOMAIN results = Callers /\ DOMAIN held = Callers
  BY <1>0 DEF StoreTypes
<1>c. Copy(ItemAt(w)) \in SliceSet /\ Copy(ItemAt(w)) # Nil
  BY <1>5, CopyIs
<1>10. CASE req[c].op = "range"
  <2>1. held'[c] = Append(held[c], Copy(Positions(c)[k])) /\ results' = results
    BY <1>0, <1>5, <1>10, <1>t DEF Callback
  <2>0. \A i \in DOMAIN Positions(c) : got[c][i] # <<>> <=> i <= Len(held[c])
    BY <1>0, <1>3, <1>10 DEF HeldOf
  <2>a. \A j \in 1 .. k - 1 : got[c][j] # <<>>
    <3>1. req[c].op # "items"
      BY <1>10
    <3> QED
      BY <1>0, <1>1, <1>k, <3>1, InOrder
  <2> HIDE DEF c
  <2>2. Len(held[c]) \in Nat /\ Len(held[c]) < k
    <3>1. ~(k <= Len(held[c]))
      BY <1>6, <1>n, <2>0
    <3> QED
      BY <1>n, <1>t, <3>1
  <2>3. k = Len(held[c]) + 1
    <3>1. ASSUME Len(held[c]) < k - 1 PROVE FALSE
      <4>1. got[c][k - 1] # <<>>
        BY <1>2, <1>4, <2>2, <2>a, <3>1
      <4>2. k - 1 <= Len(held[c])
        <5>1. k - 1 \in DOMAIN Positions(c)
          BY <1>2, <1>4, <2>2, <3>1
        <5> QED
          BY <2>0, <4>1, <5>1
      <4> QED
        BY <1>2, <1>4, <2>2, <3>1, <4>2
    <3> QED
      BY <1>2, <1>4, <2>2, <3>1
  <2>4. /\ held'[c] \in Seq(SliceSet) /\ Len(held'[c]) = k
        /\ held'[c][k] = Copy(Positions(c)[k])
        /\ \A i \in 1 .. Len(held[c]) : held'[c][i] = held[c][i]
    BY <1>5, <1>t, <1>c, <2>1, <2>2, <2>3
  <2>5. \A i \in 1 .. Len(held'[c]) : held'[c][i] = Copy(Positions(c)[i])
    <3>1. \A i \in 1 .. Len(held[c]) : held[c][i] = Copy(Positions(c)[i])
      BY <1>0 DEF HeldOf
    <3>2. \A i \in 1 .. Len(held'[c]) : i = k \/ i \in 1 .. Len(held[c])
      BY <1>2, <1>4, <2>2, <2>3, <2>4
    <3> QED
      BY <2>4, <3>1, <3>2
  <2>6. \A i \in DOMAIN Positions(c) : got'[c][i] # <<>> <=> i <= k
    <3>1. ASSUME NEW i \in DOMAIN Positions(c), i = k PROVE got'[c][i] # <<>> /\ i <= k
      BY <1>7, <1>n, <3>1
    <3>2. ASSUME NEW i \in DOMAIN Positions(c), i # k PROVE got'[c][i] # <<>> <=> i <= k
      <4>1. got'[c][i] # <<>> <=> i <= Len(held[c])
        BY <1>7, <2>0, <3>2
      <4>2. i \in Int
        BY <1>4, <3>2
      <4> QED
        BY <1>n, <2>2, <2>3, <3>2, <4>1, <4>2
    <3> QED
      BY <3>1, <3>2
  <2>7. HeldOf(c)'
    <3>1. Len(held'[c]) <= Len(Positions(c))
      BY <1>2, <1>4, <2>4
    <3>2. \A i \in DOMAIN Positions(c) : got'[c][i] # <<>> <=> i <= Len(held'[c])
      BY <2>4, <2>6
    <3>3. req'[c].op = "range"
      BY <1>1, <1>10
    <3> QED
      BY <1>8, <1>9, <2>5, <3>1, <3>2, <3>3 DEF HeldOf
  <2>8. ResultsOf(c)'
    BY <1>0, <1>1, <1>3, <1>8, <1>10, <2>1 DEF ResultsOf
  <2> QED
    BY <1>t, <2>1, <2>4, <2>7, <2>8 DEF c
<1>11. CASE req[c].op # "range"
  <2>1. /\ results'[c] = [results[c] EXCEPT ![k] = Copy(Positions(c)[k])] /\ held' = held
    BY <1>0, <1>5, <1>11, <1>k, <1>t DEF Callback, SlotOf, Cloned
  <2>2. DOMAIN results[c] = DOMAIN Positions(c)
    BY <1>0, <1>3 DEF ResultsOf
  <2>3. /\ results'[c] \in Seq(SliceSet) /\ DOMAIN results'[c] = DOMAIN Positions(c)
        /\ results'[c][k] = Copy(Positions(c)[k])
        /\ \A i \in DOMAIN Positions(c) : i # k => results'[c][i] = results[c][i]
    <3>1. Copy(Positions(c)[k]) \in SliceSet /\ k \in DOMAIN results[c]
      BY <1>2, <1>4, <1>5, <1>c, <2>2
    <3> HIDE DEF c
    <3> QED
      BY <1>t, <2>1, <2>2, <3>1
  <2>4. ResultsOf(c)'
    <3>1. \A i \in DOMAIN Positions(c) :
             results[c][i] = IF got[c][i] = <<>> THEN Nil ELSE Copy(Positions(c)[i])
      BY <1>0, <1>3, <1>11 DEF ResultsOf
    <3>2. \A i \in DOMAIN Positions(c) :
             results'[c][i] = IF got'[c][i] = <<>> THEN Nil ELSE Copy(Positions(c)[i])
      BY <1>7, <2>3, <3>1
    <3> QED
      BY <1>1, <1>8, <2>3, <3>2 DEF ResultsOf
  <2>5. HeldOf(c)'
    BY <1>0, <1>1, <1>3, <1>8, <1>9, <1>11, <2>1 DEF HeldOf
  <2> QED
    BY <1>t, <2>1, <2>3, <2>4, <2>5
<1> QED
  BY <1>10, <1>11

\* When the packfile reader has returned, or the events are being yielded.
LEMMA AnswerEnds ==
  ASSUME StoreInv, NEW c \in Callers, Returned(c) \/ Yield(c)
  PROVE  /\ ResultsOf(c)' /\ HeldOf(c)'
         /\ results'[c] \in Seq(SliceSet) /\ held'[c] \in Seq(SliceSet)
<1>0. /\ TypeOK /\ StageOf(c) /\ ReturnOf(c) /\ ResultsOf(c) /\ HeldOf(c)
      /\ DOMAIN stage = Callers /\ DOMAIN end = Callers /\ DOMAIN held = Callers
      /\ DOMAIN results = Callers
      /\ results[c] \in Seq(SliceSet) /\ held[c] \in Seq(SliceSet)
      /\ DOMAIN got[c] = DOMAIN Positions(c)
  BY DEF StoreInv, ReadInv, StageInv, ReturnInv, AskedInv, AnswerInv, StoreTypes
<1>1. /\ UNCHANGED <<req, got>> /\ Positions(c)' = Positions(c)
      /\ DOMAIN Positions(c) = 1 .. Len(Positions(c)) /\ Len(Positions(c)) \in Nat
      /\ Positions(c) \in Seq(Int) /\ (req[c].op = "close" => Positions(c) = <<>>)
  BY <1>0, RequestOf DEF Returned, Yield, vars, callVars, Positions
<1>2. ret[c] = "ok" => \A k \in DOMAIN Positions(c) : got[c][k] # <<>>
  BY <1>0 DEF ReturnOf
<1>t. results'[c] = results[c] \/ results'[c] = <<>>
  BY <1>0 DEF Returned, Yield, Ended
<1>u. results'[c] \in Seq(SliceSet)
  <2>1. <<>> \in Seq(SliceSet)
    OBVIOUS
  <2> QED
    BY <1>0, <1>t, <2>1
<1>3. ASSUME stage'[c] = "idle", results'[c] = <<>> PROVE ResultsOf(c)'
  BY <1>3 DEF ResultsOf
<1>4. ASSUME UNCHANGED held, stage'[c] # "call",
             Answered(c)' => Len(held[c]) = Len(Positions(c)) /\ ret[c] = "ok"
      PROVE  HeldOf(c)'
  <2>1. \A i \in 1 .. Len(held[c]) : held[c][i] = Copy(Positions(c)[i])
    BY <1>0 DEF HeldOf
  <2>2. Len(held[c]) <= Len(Positions(c)) /\ held'[c] = held[c]
    BY <1>0, <1>4 DEF HeldOf
  <2>3. \A k \in DOMAIN Positions(c) : got[c][k] # <<>> => Positions(c)[k] \in 0 .. TotalItems - 1
    BY <1>0 DEF HeldOf
  <2> QED
    BY <1>1, <1>2, <1>4, <2>1, <2>2, <2>3 DEF HeldOf
<1>5. CASE Returned(c)
  <2>1. UNCHANGED held /\ stage[c] = "call"
    BY <1>5 DEF Returned
  <2>2. CASE ret[c] = "ok" /\ req[c].op \in {"item", "items"}
    <3>1. stage'[c] = "yield" /\ UNCHANGED <<results, end>>
      BY <1>0, <1>5, <2>2 DEF Returned
    <3>2. ResultsOf(c)'
      BY <1>0, <1>1, <2>1, <3>1 DEF ResultsOf
    <3>3. HeldOf(c)'
      BY <1>4, <2>1, <3>1 DEF Answered
    <3> QED
      BY <1>0, <1>u, <2>1, <3>2, <3>3
  <2>3. CASE ~(ret[c] = "ok" /\ req[c].op \in {"item", "items"})
    <3>1. /\ stage'[c] = "idle" /\ results'[c] = <<>>
          /\ end'[c] = "ok" => ret[c] = "ok" /\ req[c].op \in {"range", "close"}
      BY <1>0, <1>5, <2>3 DEF Returned, Ended
    <3>2. ASSUME ret[c] = "ok", req[c].op \in {"range", "close"}
          PROVE  Len(held[c]) = Len(Positions(c))
      <4>1. CASE req[c].op = "close"
        <5>1. Len(held[c]) <= Len(Positions(c)) /\ Len(held[c]) \in Nat
          BY <1>0 DEF HeldOf
        <5>2. Len(Positions(c)) = 0
          BY <1>1, <4>1
        <5> QED
          BY <5>1, <5>2
      <4>2. CASE req[c].op = "range"
        <5>1. \A k \in DOMAIN Positions(c) : got[c][k] # <<>> <=> k <= Len(held[c])
          BY <1>0, <2>1, <4>2 DEF HeldOf
        <5>2. \A k \in DOMAIN Positions(c) : k <= Len(held[c])
          BY <1>2, <3>2, <5>1
        <5>3. Len(held[c]) \in Nat /\ Len(held[c]) <= Len(Positions(c))
          BY <1>0 DEF HeldOf
        <5>4. Len(Positions(c)) = 0 \/ Len(Positions(c)) \in DOMAIN Positions(c)
          BY <1>1
        <5> QED
          BY <1>1, <5>2, <5>3, <5>4
      <4> QED
        BY <3>2, <4>1, <4>2
    <3>3. HeldOf(c)'
      BY <1>4, <2>1, <3>1, <3>2 DEF Answered
    <3> QED
      BY <1>0, <1>3, <1>u, <2>1, <3>1, <3>3
  <2> QED
    BY <2>2, <2>3
<1>6. CASE Yield(c)
  <2>1. /\ stage[c] = "yield" /\ ret[c] = "ok" /\ req[c].op # "range"
        /\ DOMAIN results[c] = DOMAIN Positions(c) /\ Len(results[c]) = Len(Positions(c))
    <3>1. stage[c] = "yield" /\ ret[c] = "ok" /\ req[c].op # "range"
      BY <1>0, <1>6 DEF Yield, StageOf
    <3>2. DOMAIN results[c] = DOMAIN Positions(c)
      BY <1>0, <3>1 DEF ResultsOf
    <3> QED
      BY <1>0, <1>1, <3>1, <3>2
  <2>2. \A k \in DOMAIN Positions(c) : results[c][k] = Copy(Positions(c)[k])
    BY <1>0, <1>2, <2>1 DEF ResultsOf
  <2>3. CASE UNCHANGED held
    <3>1. /\ stage'[c] = "idle" /\ results'[c] = <<>>
          /\ end'[c] = "ok" => Len(held[c]) = Len(results[c])
      <4>1. Len(held[c]) < Len(results[c]) =>
               held' # [held EXCEPT ![c] = Append(@, results[c][Len(@) + 1])]
        <5>1. Len(Append(held[c], results[c][Len(held[c]) + 1])) = Len(held[c]) + 1
              \/ ~(Len(held[c]) < Len(results[c]))
          BY <1>0
        <5>2. Len(held[c]) # Len(held[c]) + 1
          BY <1>0
        <5> QED
          BY <1>0, <2>3, <5>1, <5>2
      <4> QED
        BY <1>0, <1>6, <4>1 DEF Yield, Ended
    <3>2. HeldOf(c)'
      BY <1>4, <2>1, <2>3, <3>1 DEF Answered
    <3> QED
      BY <1>0, <1>3, <1>u, <2>3, <3>1, <3>2
  <2>4. CASE /\ Len(held[c]) < Len(results[c])
             /\ held' = [held EXCEPT ![c] = Append(@, results[c][Len(@) + 1])]
             /\ UNCHANGED <<stage, results, end>>
    <3> DEFINE n == Len(held[c]) + 1
    <3>1. n \in 1 .. Len(Positions(c)) /\ n \in DOMAIN Positions(c) /\ n - 1 = Len(held[c])
      BY <1>0, <1>1, <2>1, <2>4
    <3>2. held'[c] = Append(held[c], Copy(Positions(c)[n])) /\ Copy(Positions(c)[n]) \in SliceSet
      BY <1>0, <1>1, <2>2, <2>4, <3>1, CopyIs
    <3> HIDE DEF n
    <3>3. /\ held'[c] \in Seq(SliceSet) /\ Len(held'[c]) = n
          /\ \A i \in 1 .. n : IF i = n THEN held'[c][i] = Copy(Positions(c)[n])
                               ELSE held'[c][i] = held[c][i] /\ i \in 1 .. Len(held[c])
      BY <1>0, <3>1, <3>2
    <3>4. \A i \in 1 .. Len(held'[c]) : held'[c][i] = Copy(Positions(c)[i])
      <4>1. \A i \in 1 .. Len(held[c]) : held[c][i] = Copy(Positions(c)[i])
        BY <1>0 DEF HeldOf
      <4> QED
        BY <3>3, <4>1
    <3>5. ResultsOf(c)'
      BY <1>0, <1>1, <2>4 DEF ResultsOf
    <3>6. HeldOf(c)'
      <4>1. Len(held'[c]) <= Len(Positions(c))
        BY <1>1, <3>1, <3>3
      <4>2. stage'[c] = "yield"
        BY <2>1, <2>4
      <4> QED
        BY <1>0, <1>1, <3>4, <4>1, <4>2 DEF HeldOf, Answered
    <3> QED
      BY <1>u, <3>3, <3>5, <3>6
  <2> QED
    BY <1>6, <2>3, <2>4 DEF Yield
<1> QED
  BY <1>5, <1>6

\* Every step of the store keeps the answers and the types.
LEMMA AnswerNext == StoreInv /\ [StoreNext]_allVars => AnswerInv' /\ StoreTypes'
<1> SUFFICES ASSUME StoreInv, [StoreNext]_allVars PROVE AnswerInv' /\ StoreTypes'
  OBVIOUS
<1>0. /\ ReadInv /\ TypeOK /\ StoreTypes /\ [Next]_vars
      /\ \A c \in Callers : ResultsOf(c) /\ HeldOf(c)
  BY StoreStep DEF StoreInv, AnswerInv, ReadInv
<1>1. CASE Inside \/ UNCHANGED allVars
  <2>1. UNCHANGED <<req, got, storeVars>>
    BY <1>0, <1>1, InsideKeeps DEF allVars, vars, callVars
  <2>2. UNCHANGED <<stage, results, held, end>>
    BY <2>1 DEF storeVars
  <2> QED
    BY <1>0, <2>1, <2>2, AnswerSame DEF AnswerInv, StoreTypes
<1>2. ASSUME NEW w \in Workers, Callback(w) PROVE AnswerInv' /\ StoreTypes'
  <2>1. w[1] \in Callers /\ Worker(w) /\ UNCHANGED <<req, stage, end>>
    BY <1>2 DEF Workers, Worker, Callback, WorkerFn, WorkerFrame
  <2>2. ASSUME NEW c \in Callers, c # w[1]
        PROVE  UNCHANGED <<results[c], held[c], got[c]>>
    <3>1. got'[c] = got[c]
      BY <1>0, <2>1, <2>2, WorkersKeepOthers
    <3>2. UNCHANGED <<results[c], held[c]>>
      BY <1>0, <1>2, <2>1, <2>2 DEF Callback, StoreTypes
    <3> QED
      BY <3>1, <3>2
  <2>3. /\ ResultsOf(w[1])' /\ HeldOf(w[1])'
        /\ results'[w[1]] \in Seq(SliceSet) /\ held'[w[1]] \in Seq(SliceSet)
    BY <1>2, AnswerTakes
  <2>4. AnswerInv'
    BY <1>0, <2>1, <2>2, <2>3, AnswerSame DEF AnswerInv
  <2>5. results' = [results EXCEPT ![w[1]] = results'[w[1]]] /\ held' = [held EXCEPT ![w[1]] = held'[w[1]]]
    BY <1>0, <1>2, <2>1 DEF Callback, StoreTypes
  <2>6. StoreTypes'
    BY <1>0, <2>1, <2>3, <2>5 DEF StoreTypes
  <2> QED
    BY <2>4, <2>6
<1>3. ASSUME NEW d \in Callers, BeginCall(d) PROVE AnswerInv' /\ StoreTypes'
  <2>1. Read(d) \/ CallClose(d)
    BY <1>3 DEF BeginCall, BeginRead, BeginClose
  <2>2. ASSUME NEW c \in Callers, c # d
        PROVE  UNCHANGED <<stage[c], end[c], results[c], held[c], req[c], got[c]>>
    <3>1. UNCHANGED <<req[c], got[c]>>
      BY <1>0, <2>1, <2>2, SplitOthers
    <3>2. UNCHANGED <<stage[c], end[c], results[c], held[c]>>
      BY <1>0, <1>3, <2>2 DEF BeginCall, StoreTypes
    <3> QED
      BY <3>1, <3>2
  <2>3. TypeOK'
    BY <1>0, TypeNext
  <2>4. /\ ResultsOf(d)' /\ HeldOf(d)'
        /\ results'[d] \in Seq(SliceSet) /\ held'[d] \in Seq(SliceSet)
    BY <1>0, <1>3, <2>3, AnswerBegins
  <2>5. AnswerInv'
    BY <1>0, <2>2, <2>4, AnswerSame DEF AnswerInv
  <2>6. results' = [results EXCEPT ![d] = results'[d]] /\ held' = [held EXCEPT ![d] = held'[d]]
    BY <1>0, <1>3 DEF BeginCall, StoreTypes
  <2>7. StoreTypes'
    BY <1>0, <1>3, <2>4, <2>6 DEF StoreTypes, BeginCall
  <2> QED
    BY <2>5, <2>7
<1>4. ASSUME NEW d \in Callers, Returned(d) \/ Yield(d) PROVE AnswerInv' /\ StoreTypes'
  <2>1. UNCHANGED <<req, got>>
    BY <1>4 DEF Returned, Yield, vars, callVars
  <2>2. ASSUME NEW c \in Callers, c # d PROVE UNCHANGED <<stage[c], end[c], results[c], held[c]>>
    BY <1>0, <1>4, <2>2 DEF Returned, Yield, Ended, StoreTypes
  <2>4. /\ ResultsOf(d)' /\ HeldOf(d)'
        /\ results'[d] \in Seq(SliceSet) /\ held'[d] \in Seq(SliceSet)
    BY <1>4, AnswerEnds
  <2>5. AnswerInv'
    BY <1>0, <2>1, <2>2, <2>4, AnswerSame DEF AnswerInv
  <2>6. results' = [results EXCEPT ![d] = results'[d]] /\ held' = [held EXCEPT ![d] = held'[d]]
    BY <1>0, <1>4 DEF Returned, Yield, Ended, StoreTypes
  <2>7. /\ stage' \in [Callers -> {"idle", "call", "yield"}]
        /\ end' \in [Callers -> {"none", "ok", "err", "stopped"}]
    BY <1>0, <1>4 DEF Returned, Yield, Ended, StoreTypes
  <2>8. StoreTypes'
    BY <1>0, <2>4, <2>6, <2>7 DEF StoreTypes
  <2> QED
    BY <2>5, <2>8
<1> QED
  BY <1>1, <1>2, <1>3, <1>4 DEF StoreNext

-----------------------------------------------------------------------------
(***************************************************************************)
(* The store as a KeyedReader.                                              *)
(***************************************************************************)
AskedNow  == [c \in Callers |-> IF stage[c] = "idle" \/ Closing(c) THEN <<>> ELSE req[c].positions]
AnswerNow == [c \in Callers |-> IF Answered(c) THEN [i \in DOMAIN held[c] |-> Value(held[c][i])]
                                               ELSE <<>>]
ClosedNow == closeOnce # "new" \/ \E c \in Callers : Closing(c)

\* What the caller was given, whatever it shows, is what it asked for.
AnswerShown == AnswerNow = [c \in Callers |-> IF Answered(c) THEN Positions(c) ELSE <<>>]

\* A copy shows its item, whatever the decoders hold.
LEMMA CopyShows ==
  ASSUME NEW i \in Int
  PROVE  Value(Copy(i)) = i
<1>1. Copy(i) # Nil /\ Copy(i).owner = "caller" /\ Copy(i).item = i
  BY DEF Copy, Nil
<1>2. Copy(i).owner \notin Decoders
  BY <1>1, OwnersDiffer
<1> QED
  BY <1>1, <1>2 DEF Value

\* A call that went through was answered with what it asked for.
LEMMA AnswerIs == StoreInv => AnswerShown
<1> SUFFICES ASSUME StoreInv, NEW c \in Callers, Answered(c)
             PROVE  [i \in DOMAIN held[c] |-> Value(held[c][i])] = Positions(c)
  BY DEF AnswerShown, AnswerNow
<1>1. Positions(c) \in Seq(Int) /\ DOMAIN Positions(c) = 1 .. Len(Positions(c))
  BY RequestOf DEF StoreInv, ReadInv
<1>2. held[c] \in Seq(SliceSet) /\ Len(held[c]) = Len(Positions(c))
      /\ \A i \in 1 .. Len(held[c]) : held[c][i] = Copy(Positions(c)[i])
  BY DEF StoreInv, StoreTypes, AnswerInv, HeldOf
<1>3. DOMAIN held[c] = DOMAIN Positions(c)
  BY <1>1, <1>2
<1>4. \A i \in DOMAIN held[c] : Value(held[c][i]) = Positions(c)[i]
  BY <1>1, <1>2, <1>3, CopyShows
<1>5. [i \in DOMAIN held[c] |-> Value(held[c][i])] = [i \in DOMAIN held[c] |-> Positions(c)[i]]
  BY <1>4, Zenon
<1> QED
  BY <1>1, <1>3, <1>5


\* Steps that answer nobody, ask nothing and close nothing.
LEMMA Unseen ==
  ASSUME AnswerShown, AnswerShown', UNCHANGED req,
         \A c \in Callers : (stage[c] = "idle" \/ Closing(c)) <=> (stage[c] = "idle" \/ Closing(c))',
         \A c \in Callers : Positions(c) # <<>> => (Answered(c) <=> Answered(c)'),
         ClosedNow <=> ClosedNow'
  PROVE  UNCHANGED <<AskedNow, AnswerNow, ClosedNow>>
<1>1. AskedNow' = AskedNow
  BY DEF AskedNow
<1>2. \A c \in Callers : Positions(c)' = Positions(c)
  BY DEF Positions
<1>3. AnswerNow' = AnswerNow
  BY <1>2 DEF AnswerShown
<1>4. ClosedNow' = ClosedNow
  BY DEF ClosedNow
<1> QED
  BY <1>1, <1>3, <1>4

\* The steps of the packfile reader and of the callbacks are not seen: closeOnce moves in
\* a call of Close, which the reader counts as closed when it begins.
LEMMA UnseenInside ==
  ASSUME StoreInv, AnswerShown, AnswerShown', Inside \/ \E w \in Workers : Callback(w)
  PROVE  UNCHANGED <<AskedNow, AnswerNow, ClosedNow>>
<1>0. ReadInv /\ TypeOK /\ StageInv /\ AskedInv
  BY DEF StoreInv, ReadInv
<1>1. UNCHANGED <<req, stage, end>>
  <2>1. CASE Inside
    BY <1>0, <2>1, InsideKeeps DEF storeVars
  <2>2. ASSUME NEW w \in Workers, Callback(w) PROVE UNCHANGED <<req, stage, end>>
    BY <2>2 DEF Callback, WorkerFn, WorkerFrame
  <2> QED
    BY <2>1, <2>2
<1>2. \A c \in Callers : /\ Closing(c)' <=> Closing(c)
                         /\ Answered(c)' <=> Answered(c)
  BY <1>1 DEF Closing, Answered
<1>3. closeOnce' = closeOnce \/ \E c \in Callers : Closing(c)
  <2>1. ASSUME NEW w \in Workers, Worker(w) PROVE closeOnce' = closeOnce
    BY <2>1, WorkersKeepCalls DEF openVars
  <2>2. ASSUME NEW c \in Callers, CancelCtx(c) \/ CallStep(c), closeOnce' # closeOnce
        PROVE  Closing(c)
    <3>1. cpc[c] # "idle" /\ (cpc[c] = "close" \/ req[c] = Close)
      BY <2>2 DEF CancelCtx, CallStep, EnterClose, EnterWait, RecvOpen, CloseFile, Refused, Split,
         SplitNext, Launch, Join, CallFrame, SplitFrame, openVars
    <3> QED
      BY <1>0, <3>1 DEF Closing, StageInv, StageOf, AskedInv
  <2>3. CASE Opener
    BY <2>3 DEF Opener, OpenFile, CheckFile, OpenFrame
  <2>4. \A w \in Workers : Callback(w) => Worker(w)
    BY DEF Callback, Worker
  <2> QED
    BY <2>1, <2>2, <2>3, <2>4 DEF Inside, Worker
<1>4. ClosedNow <=> ClosedNow'
  <2>1. CASE closeOnce' = closeOnce
    BY <1>2, <2>1 DEF ClosedNow
  <2>2. CASE \E c \in Callers : Closing(c)
    BY <1>2, <2>2 DEF ClosedNow
  <2> QED
    BY <1>3, <2>1, <2>2
<1> QED
  BY <1>1, <1>2, <1>4, Unseen

\* A call that begins, of a read or of Close.
LEMMA BeginSeen ==
  ASSUME StoreInv, AnswerShown, AnswerShown', NEW c \in Callers, BeginCall(c)
  PROVE  \/ /\ AskedNow[c] = <<>> /\ ~ClosedNow /\ ClosedNow' = ClosedNow
            /\ \E q \in Requests : AskedNow' = [AskedNow EXCEPT ![c] = q.positions]
            /\ AnswerNow' = [AnswerNow EXCEPT ![c] = <<>>]
         \/ /\ \A d \in Callers : AskedNow[d] = <<>>
            /\ ClosedNow' = TRUE /\ AskedNow' = AskedNow
            /\ AnswerNow' = [AnswerNow EXCEPT ![c] = <<>>]
<1>0. /\ TypeOK /\ StoreTypes /\ DOMAIN req = Callers /\ DOMAIN stage = Callers /\ DOMAIN end = Callers
  BY DEF StoreInv, ReadInv, StoreTypes, TypeOK, CallType
<1>1. /\ stage' = [stage EXCEPT ![c] = "call"] /\ end' = [end EXCEPT ![c] = "none"]
      /\ stage[c] = "idle"
  BY DEF BeginCall, BeginRead, BeginClose
<1>2. AnswerNow' = [AnswerNow EXCEPT ![c] = <<>>]
  <2>1. ASSUME NEW d \in Callers, d # c
        PROVE  (Answered(d)' <=> Answered(d)) /\ Positions(d)' = Positions(d)
    BY <1>0, <1>1, <2>1 DEF Answered, Positions, BeginCall, BeginRead, BeginClose, Read, CallClose, Begin
  <2>2. ~Answered(c)'
    BY <1>0, <1>1 DEF Answered
  <2> QED
    BY <2>1, <2>2 DEF AnswerShown
<1>3. CASE BeginRead(c)
  <2>1. PICK q \in Requests : req' = [req EXCEPT ![c] = q]
    BY <1>3 DEF BeginRead, Read, Begin
  <2>2. q # Close
    BY RequestIs
  <2>3. /\ closeOnce' = closeOnce /\ ~ClosedNow /\ \A d \in Callers : ~Closing(d)
    BY <1>3 DEF BeginRead, Read, Begin, openVars, ClosedNow
  <2>4. \A d \in Callers : ~Closing(d)'
    BY <1>0, <1>1, <2>1, <2>2, <2>3 DEF Closing
  <2>5. ClosedNow' = ClosedNow
    BY <2>3, <2>4 DEF ClosedNow
  <2>6. AskedNow' = [AskedNow EXCEPT ![c] = q.positions]
    BY <1>0, <1>1, <2>1, <2>3, <2>4 DEF AskedNow
  <2>7. AskedNow[c] = <<>>
    BY <1>1 DEF AskedNow
  <2> QED
    BY <1>2, <2>3, <2>5, <2>6, <2>7
<1>4. CASE BeginClose(c)
  <2>1. req' = [req EXCEPT ![c] = Close]
    BY <1>4 DEF BeginClose, CallClose, Begin
  <2>2. \A d \in Callers : stage[d] = "idle" \/ Closing(d)
    BY <1>4 DEF BeginClose
  <2>3. Closing(c)' /\ \A d \in Callers \ {c} : Closing(d)' <=> Closing(d)
    BY <1>0, <1>1, <2>1 DEF Closing
  <2>4. ClosedNow' = TRUE
    BY <2>3 DEF ClosedNow
  <2>5. AskedNow' = AskedNow /\ \A d \in Callers : AskedNow[d] = <<>>
    BY <1>0, <1>1, <2>1, <2>2, <2>3 DEF AskedNow
  <2> QED
    BY <1>2, <2>4, <2>5
<1> QED
  BY <1>3, <1>4 DEF BeginCall

\* A read that ends: nobody else is concerned, and nothing is closed.
LEMMA EndFrame ==
  ASSUME StoreInv, AnswerShown, AnswerShown', NEW c \in Callers, Returned(c) \/ Yield(c),
         stage'[c] = "idle", req[c] # Close
  PROVE  /\ AskedNow[c] = Positions(c) /\ AskedNow[c] # <<>>
         /\ AskedNow' = [AskedNow EXCEPT ![c] = <<>>] /\ ClosedNow' = ClosedNow
         /\ AnswerNow[c] = <<>>
         /\ AnswerNow'[c] = IF end'[c] = "ok" THEN Positions(c) ELSE <<>>
         /\ \A d \in Callers \ {c} : AnswerNow'[d] = AnswerNow[d]
<1>0. /\ TypeOK /\ DOMAIN stage = Callers /\ DOMAIN end = Callers /\ stage[c] \in {"call", "yield"}
      /\ UNCHANGED <<req, closeOnce>>
  BY DEF StoreInv, ReadInv, StoreTypes, Returned, Yield, vars, openVars, callVars
<1>1. \A d \in Callers : Positions(d)' = Positions(d)
  BY <1>0 DEF Positions
<1>2. ASSUME NEW d \in Callers, d # c
      PROVE  /\ stage'[d] = stage[d] /\ (Answered(d)' <=> Answered(d)) /\ (Closing(d)' <=> Closing(d))
  BY <1>0, <1>2 DEF Returned, Yield, Ended, Answered, Closing
<1>3. ~Closing(c) /\ ~Closing(c)' /\ ~Answered(c) /\ (Answered(c)' <=> end'[c] = "ok")
  BY <1>0 DEF Closing, Answered
<1>4. AskedNow' = [AskedNow EXCEPT ![c] = <<>>]
  BY <1>0, <1>2 DEF AskedNow
<1>5. AskedNow[c] = Positions(c) /\ Positions(c) # <<>>
  BY <1>0, <1>3, RequestOf DEF AskedNow, Positions
<1>6. ClosedNow' = ClosedNow
  BY <1>0, <1>2, <1>3 DEF ClosedNow
<1> QED
  BY <1>1, <1>2, <1>3, <1>4, <1>5, <1>6 DEF AnswerShown

\* The answer has the items that were asked for, which are items of the file.
LEMMA EndSeen ==
  ASSUME StoreInv, StoreInv', AnswerShown, AnswerShown', NEW c \in Callers, Returned(c) \/ Yield(c)
  PROVE  \/ UNCHANGED <<AskedNow, AnswerNow, ClosedNow>>
         \/ /\ AskedNow[c] # <<>>
            /\ AskedNow' = [AskedNow EXCEPT ![c] = <<>>] /\ ClosedNow' = ClosedNow
            /\ \/ AnswerNow' = AnswerNow
               \/ /\ DOMAIN AnswerNow'[c] = DOMAIN AskedNow[c]
                  /\ \A i \in DOMAIN AskedNow[c] :
                        AnswerNow'[c][i] = AskedNow[c][i] /\ AskedNow[c][i] \in 0 .. TotalItems - 1
                  /\ \A d \in Callers \ {c} : AnswerNow'[d] = AnswerNow[d]
<1>0. /\ TypeOK /\ DOMAIN stage = Callers /\ DOMAIN end = Callers /\ stage[c] \in {"call", "yield"}
      /\ UNCHANGED <<req, closeOnce, got>> /\ StageOf(c) /\ Positions(c)' = Positions(c)
  BY DEF StoreInv, ReadInv, StageInv, StoreTypes, Returned, Yield, vars, openVars, callVars, Positions
<1>1. \A d \in Callers \ {c} : stage'[d] = stage[d] /\ end'[d] = end[d]
  BY <1>0 DEF Returned, Yield, Ended
<1>2. CASE stage'[c] # "idle"
  <2>1. \A d \in Callers : /\ (stage[d] = "idle" \/ Closing(d)) <=> (stage[d] = "idle" \/ Closing(d))'
                           /\ Closing(d)' <=> Closing(d)
                           /\ Answered(d) <=> Answered(d)'
    BY <1>0, <1>1, <1>2 DEF Closing, Answered
  <2>2. ClosedNow <=> ClosedNow'
    BY <1>0, <2>1 DEF ClosedNow
  <2> QED
    BY <1>0, <2>1, <2>2, Unseen
<1>3. CASE stage'[c] = "idle" /\ req[c] = Close
  <2>1. stage[c] = "call" /\ cpc[c] = "idle" /\ closeOnce # "new" /\ Closing(c) /\ Positions(c) = <<>>
    BY <1>0, <1>3 DEF Returned, Yield, StageOf, Close, Closing, Positions
  <2>2. \A d \in Callers : (stage[d] = "idle" \/ Closing(d)) <=> (stage[d] = "idle" \/ Closing(d))'
    BY <1>0, <1>1, <1>3, <2>1 DEF Closing
  <2>3. \A d \in Callers : Positions(d) # <<>> => (Answered(d) <=> Answered(d)')
    BY <1>1, <2>1 DEF Answered
  <2>4. ClosedNow <=> ClosedNow'
    BY <1>0, <2>1 DEF ClosedNow
  <2> QED
    BY <1>0, <2>2, <2>3, <2>4, Unseen
<1>4. CASE stage'[c] = "idle" /\ req[c] # Close
  <2>1. CASE end'[c] = "ok"
    <3>1. HeldOf(c)' /\ Answered(c)'
      BY <1>4, <2>1 DEF StoreInv, AnswerInv, Answered
    <3>2. \A k \in DOMAIN Positions(c) : Positions(c)[k] \in 0 .. TotalItems - 1
      BY <1>0, <3>1 DEF HeldOf
    <3> QED
      BY <1>4, <2>1, <3>2, EndFrame
  <2>2. CASE end'[c] # "ok"
    <3>1. \A d \in Callers : AnswerNow'[d] = AnswerNow[d]
      BY <1>4, <2>2, EndFrame
    <3>2. AnswerNow' = AnswerNow
      BY <3>1 DEF AnswerNow
    <3> QED
      BY <1>4, <3>2, EndFrame
  <2> QED
    BY <2>1, <2>2
<1> QED
  BY <1>2, <1>3, <1>4

\* What is asked for is one of the keys.
LEMMA AskedKeys ==
  ASSUME TypeOK, NEW c \in Callers, NEW i \in DOMAIN AskedNow[c]
  PROVE  AskedNow[c][i] \in Asked
<1>1. stage[c] # "idle" /\ ~Closing(c) /\ AskedNow[c] = Positions(c)
  BY DEF AskedNow, Positions
<1>2. req[c] \in Requests
  BY <1>1, RequestOf DEF Closing
<1> QED
  BY <1>1, <1>2 DEF Asked, Positions

\* Every step of the store is a step of a KeyedReader, or nothing.
LEMMA KeyedStep ==
  ASSUME StoreInv, StoreInv', AnswerShown, AnswerShown', [StoreNext]_allVars
  PROVE  [Abstract!ReaderNext]_(Abstract!readerVars)
<1> USE DEF AskedNow, AnswerNow, ClosedNow
<1>1. CASE UNCHANGED <<AskedNow, AnswerNow, ClosedNow>>
  BY <1>1 DEF Abstract!readerVars
<1>2. CASE UNCHANGED allVars
  <2>1. UNCHANGED <<req, stage, end, closeOnce>>
    BY <1>2 DEF allVars, vars, openVars, callVars, storeVars
  <2>2. \A c \in Callers : (Closing(c)' <=> Closing(c)) /\ (Answered(c)' <=> Answered(c))
    BY <2>1 DEF Closing, Answered
  <2>3. UNCHANGED <<AskedNow, AnswerNow, ClosedNow>>
    BY <2>1, <2>2, Unseen
  <2> QED
    BY <1>1, <2>3
<1>3. ASSUME NEW c \in Callers, BeginCall(c) PROVE Abstract!ReaderNext
  <2>1. CASE /\ AskedNow[c] = <<>> /\ ~ClosedNow /\ ClosedNow' = ClosedNow
             /\ \E q \in Requests : AskedNow' = [AskedNow EXCEPT ![c] = q.positions]
             /\ AnswerNow' = [AnswerNow EXCEPT ![c] = <<>>]
    <3>1. \E q \in {r.positions : r \in Requests} : AskedNow' = [AskedNow EXCEPT ![c] = q]
      BY <2>1
    <3>2. Abstract!Ask(c)
      BY <2>1, <3>1 DEF Abstract!Ask
    <3> QED
      BY <3>2 DEF Abstract!ReaderNext
  <2>2. CASE /\ \A d \in Callers : AskedNow[d] = <<>>
             /\ ClosedNow' = TRUE /\ AskedNow' = AskedNow
             /\ AnswerNow' = [AnswerNow EXCEPT ![c] = <<>>]
    <3>1. Abstract!CloseReader
      BY <2>2 DEF Abstract!CloseReader
    <3> QED
      BY <3>1 DEF Abstract!ReaderNext
  <2> QED
    BY <1>3, <2>1, <2>2, BeginSeen
<1>4. ASSUME NEW c \in Callers, Returned(c) \/ Yield(c)
      PROVE  [Abstract!ReaderNext]_(Abstract!readerVars)
  <2>1. CASE UNCHANGED <<AskedNow, AnswerNow, ClosedNow>>
    BY <1>1, <2>1
  <2>2. CASE /\ AskedNow[c] # <<>>
             /\ AskedNow' = [AskedNow EXCEPT ![c] = <<>>] /\ ClosedNow' = ClosedNow
             /\ AnswerNow' = AnswerNow
    <3>1. Abstract!Fail(c)
      BY <2>2 DEF Abstract!Fail, Abstract!Finished
    <3> QED
      BY <3>1 DEF Abstract!ReaderNext
  <2>3. CASE /\ AskedNow[c] # <<>>
             /\ AskedNow' = [AskedNow EXCEPT ![c] = <<>>] /\ ClosedNow' = ClosedNow
             /\ DOMAIN AnswerNow'[c] = DOMAIN AskedNow[c]
             /\ \A i \in DOMAIN AskedNow[c] :
                   AnswerNow'[c][i] = AskedNow[c][i] /\ AskedNow[c][i] \in 0 .. TotalItems - 1
             /\ \A d \in Callers \ {c} : AnswerNow'[d] = AnswerNow[d]
    <3>1. \A i \in DOMAIN AskedNow[c] : AskedNow[c][i] \in Asked
      BY AskedKeys DEF StoreInv, ReadInv
    <3>2. \A i \in DOMAIN AskedNow[c] :
             AnswerNow'[c][i] \in [p \in Asked |-> {p} \cap (0 .. TotalItems - 1)][AskedNow[c][i]]
      BY <2>3, <3>1
    <3>3. Abstract!Reply(c)
      BY <2>3, <3>2 DEF Abstract!Reply, Abstract!Finished
    <3> QED
      BY <3>3 DEF Abstract!ReaderNext
  <2> QED
    BY <1>4, <2>1, <2>2, <2>3, EndSeen
<1> QED
  BY <1>1, <1>2, <1>3, <1>4, UnseenInside DEF StoreNext

-----------------------------------------------------------------------------
(***************************************************************************)
(* The theorems.                                                            *)
(***************************************************************************)
\* The invariant of the store.
LEMMA StoreInvariant == StoreSpec => []StoreInv
<1>1. StoreInit => StoreInv
  <2> SUFFICES ASSUME StoreInit PROVE StoreInv
    OBVIOUS
  <2>1. ReadInv
    BY ReadInit DEF StoreInit
  <2>2. StoreTypes
    BY DEF StoreInit, StoreTypes
  <2>3. StageInv /\ LoneInv
    BY DEF StoreInit, Init, StageInv, StageOf, LoneInv, LoneOf
  <2>4. ASSUME NEW c \in Callers PROVE ResultsOf(c) /\ HeldOf(c)
    <3>1. /\ stage[c] = "idle" /\ end[c] = "none" /\ results[c] = <<>> /\ held[c] = <<>>
          /\ Positions(c) = <<>>
      BY DEF StoreInit, Init, Positions, Close
    <3> QED
      BY <3>1 DEF ResultsOf, HeldOf, Answered
  <2> QED
    BY <2>1, <2>2, <2>3, <2>4 DEF StoreInv, AnswerInv
<1>2. StoreInv /\ [StoreNext]_allVars => StoreInv'
  BY StoreStep, ReadNext, StageNext, LoneNext, AnswerNext DEF StoreInv
<1> QED
  BY <1>1, <1>2, PTL DEF StoreSpec

\* The types of the store and of the reader below it: what a caller is given is its own,
\* and there is never more of it than was asked for.
THEOREM StoreTypesHold == StoreSpec => []StoreTypeOK
<1>1. StoreInv => StoreTypeOK
  <2> SUFFICES ASSUME StoreInv, NEW c \in Callers
               PROVE  /\ stage[c] \in {"idle", "call", "yield"} /\ end[c] \in {"none", "ok", "err", "stopped"}
                      /\ DOMAIN results[c] \in {{}, DOMAIN req[c].positions}
                      /\ Len(held[c]) <= Len(req[c].positions)
                      /\ \A i \in DOMAIN held[c] : held[c][i].owner \in {"caller"} \cup Decoders
    BY DEF StoreTypeOK, StoreInv, ReadInv
  <2>1. stage[c] \in {"idle", "call", "yield"} /\ end[c] \in {"none", "ok", "err", "stopped"}
    BY DEF StoreInv, StoreTypes
  <2>2. ResultsOf(c) /\ HeldOf(c) /\ held[c] \in Seq(SliceSet)
    BY DEF StoreInv, AnswerInv, StoreTypes
  <2>3. DOMAIN results[c] \in {{}, DOMAIN req[c].positions}
    BY <2>2 DEF ResultsOf, Positions
  <2>4. \A i \in DOMAIN held[c] : held[c][i].owner = "caller"
    <3>1. \A i \in 1 .. Len(held[c]) : held[c][i] = Copy(Positions(c)[i])
      BY <2>2 DEF HeldOf
    <3>2. DOMAIN held[c] = 1 .. Len(held[c])
      BY <2>2
    <3>3. \A x : Copy(x).owner = "caller"
      BY DEF Copy
    <3> QED
      BY <3>1, <3>2, <3>3
  <2> QED
    BY <2>1, <2>2, <2>3, <2>4 DEF HeldOf, Positions
<1> QED
  BY StoreInvariant, <1>1, PTL

\* The callbacks of one ReadEvents write to one slice without a lock (reader.go): no two
\* that run together write the same element, and none runs once the elements are yielded.
THEOREM CallbacksApart == StoreSpec => []NoRace
<1>1. StoreInv => NoRace
  <2> SUFFICES ASSUME StoreInv, NEW w \in Workers, wpc[w] = "fn"
               PROVE  /\ stage[w[1]] = "call"
                      /\ \A v \in Workers : v # w /\ v[1] = w[1] /\ wpc[v] = "fn" =>
                            local[v].k # local[w].k
    BY DEF NoRace, SlotOf
  <2>0. /\ TypeOK /\ OwnInv /\ AskedInv /\ SplitInv /\ WorkerInv /\ StageInv
    BY DEF StoreInv, ReadInv
  <2>1. w[1] \in Callers /\ cpc[w[1]] = "run"
    BY <2>0, BatchOf DEF Reading
  <2>2. stage[w[1]] = "call"
    BY <2>0, <2>1 DEF StageInv, StageOf
  <2>3. ASSUME NEW v \in Workers, v # w, v[1] = w[1], wpc[v] = "fn", local[v].k = local[w].k
        PROVE  FALSE
    <3>1. local[v].batch # local[w].batch
      BY <2>0, <2>3 DEF WorkerInv, ClaimedOnce, Busy
    <3>2. /\ local[w].batch \in 1 .. Len(batches[w[1]])
          /\ local[w].k \in batches[w[1]][local[w].batch].from .. batches[w[1]][local[w].batch].to
      BY <2>0, BatchOf DEF Reading, Batch
    <3>3. /\ local[v].batch \in 1 .. Len(batches[w[1]])
          /\ local[v].k \in batches[w[1]][local[v].batch].from .. batches[w[1]][local[v].batch].to
      BY <2>0, <2>3, BatchOf DEF Reading, Batch
    <3> QED
      BY <2>0, <2>1, <2>3, <3>1, <3>2, <3>3, BatchesApart
  <2> QED
    BY <2>2, <2>3
<1> QED
  BY StoreInvariant, <1>1, PTL

\* The event store on a packfile is a KeyedReader: whatever the workers, the failures and
\* the decoders that are used again, a call is answered position by position, in order,
\* with the events of the file, or fails; and no call begins on a closed reader.
THEOREM StoreImplementsReader == StoreSpec => ImplementsReader
<1>1. StoreInit => Abstract!ReaderInit
  BY DEF StoreInit, Init, Abstract!ReaderInit, Answered, Closing
<1>2. StoreInv /\ StoreInv' /\ AnswerShown /\ AnswerShown' /\ [StoreNext]_allVars
        => [Abstract!ReaderNext]_(Abstract!readerVars)
  BY KeyedStep
<1> QED
  BY <1>1, <1>2, AnswerIs, StoreInvariant, PTL
     DEF StoreSpec, ImplementsReader, Abstract!ReaderSpec
=============================================================================
