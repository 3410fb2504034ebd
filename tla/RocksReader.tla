------------------------------ MODULE RocksReader ------------------------------
(***************************************************************************)
(* The reader of the event store on RocksDB (eventstore/rocksdb/reader.go): *)
(* a database that opens in the background or in the first call that needs  *)
(* it, a count that is read once, ReadEvent, ReadEvents, ReadPositions with *)
(* its workers, and Close.                                                  *)
(*                                                                          *)
(* Data.  The event at a position is the position.  RocksDB is external:    *)
(* a get, a batch or a step of an iterator returns what is there, or fails. *)
(***************************************************************************)
EXTENDS Integers, Sequences, FiniteSets, FiniteSetsExt, SequencesExt

CONSTANTS
    Clients,      \* goroutines that use the Reader
    Concurrency,  \* r.concurrency
    Events,       \* how many events were written
    Missing,      \* positions a damaged database has lost
    Requests,     \* bound: the calls, [op: {"event", "events", "positions"}, at: Seq(Int)]
    Faults,       \* bound: "open", "count", "get", "ctx": what may go wrong
    OutOfRange,   \* ErrPositionOutOfRange
    NotThere      \* the error yielded for a position that is not in the database

Stored == 0 .. Events - 1

\* ReadEvents and ReadPositions panic unless the positions are in range and ascending.
RocksAssumption ==
    /\ Concurrency \in Nat \ {0} /\ Events \in Nat /\ Missing \subseteq Stored
    /\ \A q \in Requests :
          /\ q.at \in Seq(Int) /\ q.at # <<>>
          /\ q.op = "event" => Len(q.at) = 1
          /\ q.op # "event" => ToSet(q.at) \subseteq Stored
          /\ \A i \in DOMAIN q.at : i > 1 => q.at[i] > q.at[i - 1]
    /\ Faults \subseteq {"open", "count", "get", "ctx"}

Background == "background"     \* the goroutine of Open

VARIABLES
    once,       \* r.once: "new", who runs openDB, or "done"
    openErr,    \* r.openErr
    db,         \* r.db, r.ro and r.opts: "none", "open" or "closed"
    counted,    \* r.countOnce, and r.nEvents once it is done: -1 before
    closeOnce,  \* "new", "busy" or "done"
    pc, req,    \* per client: where its call stands, what it asked for
    shares,     \* the [lo, hi) of the workers that have not read yet
    firstErr,   \* a worker's error
    results,    \* the positions filled: results[i] is an event
    out, ret    \* what was yielded or returned; how the call ended

openVars == <<once, openErr, db, closeOnce>>
readVars == <<shares, firstErr, results>>
callVars == <<pc, req, out, ret>>
vars     == <<openVars, counted, readVars, callVars>>

Close == [op |-> "close", at |-> <<>>]
Empty == [i \in {} |-> 0]

\* Open has returned.
Init ==
    /\ once = "new" /\ openErr = FALSE /\ db = "none" /\ counted = -1 /\ closeOnce = "new"
    /\ pc = [c \in Clients |-> "idle"] /\ req = [c \in Clients |-> Close]
    /\ shares = [c \in Clients |-> {}] /\ firstErr = [c \in Clients |-> FALSE]
    /\ results = [c \in Clients |-> Empty]
    /\ out = [c \in Clients |-> <<>>] /\ ret = [c \in Clients |-> "none"]

-----------------------------------------------------------------------------
(***************************************************************************)
(* The open, by the background goroutine or by the first call.              *)
(***************************************************************************)
EnterOnce(who) == once = "new" /\ once' = who

\* Bug: an open that failed is tried again.
OpenAgain(who) ==
    /\ once = who
    /\ \/ once' = "done" /\ db' = "open" /\ UNCHANGED openErr
       \/ "open" \in Faults /\ once' = "new" /\ UNCHANGED <<db, openErr>>

OpenDB(who) ==
    /\ once = who /\ once' = "done"
    /\ \/ db' = "open" /\ UNCHANGED openErr
       \/ "open" \in Faults /\ openErr' = TRUE /\ UNCHANGED db

DoOpen == /\ \/ EnterOnce(Background) /\ UNCHANGED <<openErr, db>>
             \/ OpenDB(Background)
          /\ UNCHANGED <<closeOnce, counted, readVars, callVars>>

-----------------------------------------------------------------------------
(***************************************************************************)
(* Calls.                                                                   *)
(***************************************************************************)
Closing(c) == pc[c] # "idle" /\ req[c].op = "close"

\* A program closes after its last read, from one goroutine or several.
Start(c) ==
    /\ pc[c] = "idle"
    /\ \/ /\ closeOnce = "new" /\ \A d \in Clients : ~Closing(d)
          /\ \E q \in Requests : req' = [req EXCEPT ![c] = q]
          /\ pc' = [pc EXCEPT ![c] = "wait"]
       \/ /\ \A d \in Clients : pc[d] = "idle" \/ Closing(d)
          /\ req' = [req EXCEPT ![c] = Close] /\ pc' = [pc EXCEPT ![c] = "closeOnce"]
    /\ ret' = [ret EXCEPT ![c] = "none"] /\ out' = [out EXCEPT ![c] = <<>>]
    /\ UNCHANGED <<openVars, counted, readVars>>

Goto(c, where) == pc' = [pc EXCEPT ![c] = where] /\ UNCHANGED <<req, ret>>

Return(c, res) ==
    /\ pc' = [pc EXCEPT ![c] = "idle"] /\ ret' = [ret EXCEPT ![c] = res] /\ UNCHANGED req
    /\ results' = [results EXCEPT ![c] = Empty]
    /\ firstErr' = [firstErr EXCEPT ![c] = FALSE] /\ UNCHANGED shares

Yield(c, v) == out' = [out EXCEPT ![c] = Append(@, v)]

\* What waitOpen returns.
OpenFailed == openErr

\* waitOpen.
WaitOpen(c) ==
    /\ pc[c] = "wait"
    /\ \/ EnterOnce(c) /\ Goto(c, "wait") /\ UNCHANGED <<openErr, db, readVars>>
       \/ OpenDB(c) /\ Goto(c, "wait") /\ UNCHANGED readVars
       \/ /\ once = "done" /\ UNCHANGED <<once, openErr, db>>
          /\ IF req[c].op = "close" THEN Goto(c, "closing") /\ UNCHANGED readVars
             ELSE IF OpenFailed THEN Return(c, "err")
             ELSE Goto(c, "count") /\ UNCHANGED readVars
    /\ UNCHANGED <<closeOnce, counted, out>>

\* The number of events is read off the last key; an iterator that fails is not
\* valid, which is taken for an empty store.  The error for a last key that is not of 4
\* bytes is left out: the writer stores no other keys.
LastKey == IF Stored \ Missing = {} THEN 0 ELSE Max(Stored \ Missing) + 1

EventCount(c) ==
    /\ pc[c] = "count" /\ Goto(c, req[c].op)
    /\ \/ counted >= 0 /\ UNCHANGED counted
       \/ counted < 0 /\ counted' = LastKey
       \/ counted < 0 /\ "count" \in Faults /\ counted' = 0
    /\ UNCHANGED <<openVars, readVars, out>>

\* ReadEvent.
ReadEvent(c) ==
    /\ pc[c] = "event"
    /\ LET p == req[c].at[1]
       IN \/ /\ p < 0 \/ p >= counted \/ p \in Missing
             /\ Yield(c, OutOfRange) /\ Return(c, "ok")
          \/ /\ p \in 0 .. counted - 1 /\ p \notin Missing
             /\ Yield(c, p) /\ Return(c, "ok")
          \/ /\ p \in 0 .. counted - 1 /\ "get" \in Faults
             /\ Return(c, "err") /\ UNCHANGED out
    /\ UNCHANGED <<openVars, counted>>

\* ReadEvents and ReadPositions check their arguments against the count.
Panics(c) == \E i \in DOMAIN req[c].at : req[c].at[i] >= counted

Panic(c) == /\ pc[c] \in {"events", "positions"} /\ Panics(c)
            /\ Return(c, "panic") /\ UNCHANGED <<openVars, counted, out>>

\* ReadEvents: one step of the iterator, which does not look at the keys it passes;
\* the caller may stop at any event.
ReadEvents(c) ==
    /\ pc[c] = "events" /\ ~Panics(c)
    /\ LET ahead == {p \in Stored \ Missing : p >= req[c].at[1]}
           next == {p \in ahead : Cardinality({q \in ahead : q < p}) = Len(out[c])}
           all == Len(out[c]) = Len(req[c].at)
       IN \/ all /\ Return(c, "ok") /\ UNCHANGED out
          \/ ~all /\ \E p \in next : Yield(c, p) /\ Goto(c, "events") /\ UNCHANGED readVars
          \/ ~all /\ Return(c, "stopped") /\ UNCHANGED out
          \/ /\ (~all /\ next = {}) \/ "get" \in Faults
             /\ Return(c, "err") /\ UNCHANGED out
    /\ UNCHANGED <<openVars, counted>>

\* perWorker.
PerWorker(n) == (n + Min({Concurrency, n}) - 1) \div Min({Concurrency, n})

\* Where the shares begin; those that would be empty are left out.
ShareStarts(n) == {w * PerWorker(n) : w \in 0 .. Min({Concurrency, n}) - 1} \cap (0 .. n - 1)

ShareEnd(lo, n) == Min({lo + PerWorker(n), n})

\* ReadPositions starts its workers.
StartWorkers(c) ==
    /\ pc[c] = "positions" /\ ~Panics(c)
    /\ LET n == Len(req[c].at)
       IN shares' = [shares EXCEPT ![c] =
             {[lo |-> l, hi |-> ShareEnd(l, n)] : l \in ShareStarts(n)}]
    /\ Goto(c, "workers")
    /\ UNCHANGED <<openVars, counted, firstErr, results, out>>

\* A worker: one BatchedMultiGetCF, and its values copied to their places.
Worker(c, sh) ==
    /\ pc[c] = "workers" /\ sh \in shares[c]
    /\ shares' = [shares EXCEPT ![c] = @ \ {sh}]
    /\ \/ LET there == {i \in sh.lo .. sh.hi - 1 : req[c].at[i + 1] \notin Missing}
          IN results' = [results EXCEPT ![c] = [i \in there |-> req[c].at[i + 1]] @@ @]
             /\ UNCHANGED firstErr
       \/ "get" \in Faults /\ firstErr' = [firstErr EXCEPT ![c] = TRUE] /\ UNCHANGED results
    /\ UNCHANGED <<openVars, counted, callVars>>

\* Bug: the error of a worker is lost.
ErrorLost(c) == Goto(c, "yield") /\ UNCHANGED readVars

Joined(c) == IF firstErr[c] THEN Return(c, "err") ELSE Goto(c, "yield") /\ UNCHANGED readVars

Join(c) == /\ pc[c] = "workers" /\ shares[c] = {} /\ Joined(c)
           /\ UNCHANGED <<openVars, counted, out>>

\* The results are yielded in order; the caller may stop, and goes on after a
\* position that is missing, of which it is told.
YieldNext(c) ==
    /\ pc[c] = "yield"
    /\ LET i == Len(out[c])
       IN \/ "ctx" \in Faults /\ Return(c, "err") /\ UNCHANGED out
          \/ i = Len(req[c].at) /\ Return(c, "ok") /\ UNCHANGED out
          \/ i < Len(req[c].at) /\ Return(c, "stopped") /\ UNCHANGED out
          \/ /\ i < Len(req[c].at) /\ Goto(c, "yield") /\ UNCHANGED readVars
             /\ Yield(c, IF i \in DOMAIN results[c] THEN results[c][i] ELSE NotThere)
    /\ UNCHANGED <<openVars, counted>>

-----------------------------------------------------------------------------
(***************************************************************************)
(* Close.                                                                   *)
(***************************************************************************)
\* What the body of the once does first.
CloseFirst == "wait"

EnterClose(c) ==
    /\ pc[c] = "closeOnce"
    /\ \/ closeOnce = "new" /\ closeOnce' = "busy" /\ Goto(c, CloseFirst) /\ UNCHANGED readVars
       \/ closeOnce = "done" /\ Return(c, "ok") /\ UNCHANGED closeOnce
    /\ UNCHANGED <<once, openErr, db, counted, out>>

CloseDB(c) ==
    /\ pc[c] = "closing" /\ closeOnce' = "done"
    /\ db' = IF db = "open" THEN "closed" ELSE db
    /\ Return(c, "ok") /\ UNCHANGED <<once, openErr, counted, out>>

-----------------------------------------------------------------------------
ClientStep(c) ==
    \/ WaitOpen(c) \/ EventCount(c) \/ ReadEvent(c) \/ ReadEvents(c) \/ Panic(c)
    \/ StartWorkers(c) \/ Join(c) \/ YieldNext(c) \/ EnterClose(c) \/ CloseDB(c)
    \/ \E sh \in shares[c] : Worker(c, sh)

Next == DoOpen \/ \E c \in Clients : Start(c) \/ ClientStep(c)

Fairness == WF_vars(DoOpen) /\ \A c \in Clients : WF_vars(ClientStep(c))

Spec == Init /\ [][Next]_vars /\ Fairness

-----------------------------------------------------------------------------
(***************************************************************************)
(* Properties.                                                              *)
(***************************************************************************)
\* The types of the variables.
TypeOK ==
    /\ once \in {"new", "done", Background} \cup Clients /\ openErr \in BOOLEAN
    /\ db \in {"none", "open", "closed"} /\ counted \in -1 .. Events
    /\ closeOnce \in {"new", "busy", "done"}
    /\ \A c \in Clients :
          /\ req[c] \in Requests \cup {Close}
          /\ ret[c] \in {"none", "ok", "err", "stopped", "panic"}
          /\ \A sh \in shares[c] : 0 <= sh.lo /\ sh.lo < sh.hi /\ sh.hi <= Len(req[c].at)
          /\ DOMAIN results[c] \subseteq 0 .. Len(req[c].at) - 1

\* The store is a list: a read that goes through is answered position by position
\* with the events written there, in the order asked for, however the positions were
\* shared among the workers.  ReadEvent answers that a position is out of range, and
\* ReadPositions that an event is missing, exactly where that is so.
Answered(c) == pc[c] = "idle" /\ ret[c] = "ok"

Asked == UNION {ToSet(q.at) : q \in Requests}

Abstract == INSTANCE KeyedReader WITH
    Questions <- {q.at : q \in Requests},
    Answers <- [p \in Asked |-> IF p \notin Stored THEN {OutOfRange}
                                ELSE IF p \in Missing THEN {OutOfRange, NotThere} ELSE {p}],
    asked <- [c \in Clients |-> IF pc[c] = "idle" \/ Closing(c) THEN <<>> ELSE req[c].at],
    answer <- [c \in Clients |-> IF Answered(c) THEN out[c] ELSE <<>>],
    isClosed <- closeOnce # "new" \/ \E c \in Clients : Closing(c)

ImplementsReader == Abstract!ReaderSpec

\* eventstore/reader.go:12: "ErrPositionOutOfRange is returned when a position is out
\* of bounds", and by no read of a position that is in bounds and in the store.
OutOfRangeMeansOut ==
    \A c \in Clients : Answered(c) /\ out[c] = <<OutOfRange>> =>
        req[c].at[1] \notin Stored \/ req[c].at[1] \in Missing

\* When Close has returned the database is not open and no open is under way: not
\* the one in the background, nor one a call has begun.
Released == closeOnce = "done" => once = "done" /\ db # "open"

\* No read touches the database before it is open or after it is closed.
OpenWhenRead ==
    \A c \in Clients : pc[c] \in {"count", "event", "events", "positions", "workers"}
                       => once = "done" /\ ~openErr /\ db = "open"

\* Every call returns: none waits for an open that nobody runs, or for a worker.
CallsReturn == \A c \in Clients : pc[c] # "idle" ~> pc[c] = "idle"
=============================================================================
