------------------------------ MODULE MCLookups ------------------------------
(***************************************************************************)
(* IndexReader, with its properties, for TLC, and beside it the reader of   *)
(* the event store on RocksDB: in every behaviour a program uses one of     *)
(* them.  The scenario says which, and with which bounds; it is drawn in    *)
(* the initial state and stays.                                             *)
(***************************************************************************)
EXTENDS IndexReader, FiniteSetsExt

CONSTANTS
    c1, c2,        \* the callers
    OutOfRange,    \* ErrPositionOutOfRange
    NotThere,      \* the error for an event that is missing
    Scenarios,     \* those of the run
    ListFaults     \* what may go wrong in the scenario "event list"

VARIABLES
    scenario,
    opening, openErr, db, counted, closed,                    \* of RocksReader
    at, call, shares, firstErr, results, yielded, ended

rocksVars == <<opening, openErr, db, counted, closed, at, call, shares, firstErr, results,
               yielded, ended>>
allVars == <<scenario, vars, rocksVars>>

-----------------------------------------------------------------------------
(***************************************************************************)
(* The index: three indexed keys and an unknown one with the fingerprint of *)
(* k2.  One caller asks for every key alone and for every batch of up to    *)
(* three, repeated keys included, where bitmaps may not deserialize; two    *)
(* callers make a few calls while the files load, with every other fault.   *)
(***************************************************************************)
K == {"k1", "k2", "k3", "u"}

ThreeKeys    == <<"k1", "k2", "k3">>
Fingerprints == [k1 |-> 1, k2 |-> 2, k3 |-> 3, u |-> 2]

Batch(keys) == [op |-> "keys", keys |-> keys]

AllCalls == {[op |-> "lookup", keys |-> <<k>>] : k \in K}
            \cup {Batch(s) : s \in UNION {[1 .. n -> K] : n \in 1 .. 3}}

Few == {[op |-> "lookup", keys |-> <<k>>] : k \in {"k1", "u"}} \cup {Batch(<<"k1", "u", "k2">>)}

Users(s) == IF s = "index shared" THEN {c1, c2} ELSE {c1}

IndexInit ==
    /\ Init
    /\ scenario = "index batch" => faults = {}
    /\ scenario = "index shared" => damaged = {} /\ faults = Faults /\ query["k3"] = 2

Starts(c) ==
    /\ c \in Users(scenario) /\ Start(c)
    /\ scenario = "index shared" => req'[c] \in Few \cup {Close}

-----------------------------------------------------------------------------
(***************************************************************************)
(* The event store.                                                         *)
(***************************************************************************)
Ascending(S) == SetToSortSeq(S, <)

Positions(S) == [op |-> "positions", at |-> Ascending(S)]
Singles(n) == {[op |-> "event", at |-> <<p>>] : p \in -1 .. n}
Ranges(n)  == {[op |-> "events", at |-> Ascending(r)] :
                  r \in {a .. b : a, b \in 0 .. n - 1} \ {{}}}
Lists(n)   == {Positions(S) : S \in SUBSET (0 .. n - 1) \ {{}}}

\* One caller, three workers for up to five events: every list, range and position.  A
\* database that has lost two of its events, the last one among them.  Two callers while
\* the database opens, or does not; the count may fail.
Stores == [
    list   |-> [clients |-> {c1}, workers |-> 3, events |-> 5, missing |-> {},
                requests |-> Singles(5) \cup Ranges(5) \cup Lists(5), faults |-> ListFaults],
    lost   |-> [clients |-> {c1}, workers |-> 2, events |-> 4, missing |-> {1, 3},
                requests |-> Singles(4) \cup Lists(4), faults |-> {}],
    shared |-> [clients |-> {c1, c2}, workers |-> 2, events |-> 3, missing |-> {},
                requests |-> {Positions(0 .. 2), [op |-> "events", at |-> <<0, 1>>],
                              [op |-> "event", at |-> <<2>>]},
                faults |-> {"open", "get", "count"}]]

Store(s) == INSTANCE RocksReader WITH
    Clients <- Stores[s].clients, Concurrency <- Stores[s].workers,
    Events <- Stores[s].events, Missing <- Stores[s].missing,
    Requests <- Stores[s].requests, Faults <- Stores[s].faults,
    once <- opening, closeOnce <- closed, pc <- at, req <- call, out <- yielded, ret <- ended

InStore == scenario \in DOMAIN Stores

ASSUME StoresBounded == \A s \in DOMAIN Stores : Store(s)!RocksAssumption

-----------------------------------------------------------------------------
AllInit ==
    /\ scenario \in Scenarios
    /\ \/ InStore /\ Init /\ damaged = {} /\ faults = {} /\ query["k3"] = 2 /\ query["u"] = NotFound
          /\ \E s \in DOMAIN Stores : scenario = s /\ Store(s)!Init
       \/ ~InStore /\ IndexInit /\ Store("list")!Init

In(s) == scenario = s /\ UNCHANGED <<scenario, vars>>

OnIndex == ~InStore /\ UNCHANGED <<scenario, rocksVars>>

\* The goroutines that Open starts.
Load == \/ OnIndex /\ LoadMPHF
        \/ \E s \in DOMAIN Stores : In(s) /\ Store(s)!DoOpen

LoadData == OnIndex /\ OpenData

StartCall(c) == \/ OnIndex /\ Starts(c)
                \/ \E s \in DOMAIN Stores : c \in Stores[s].clients /\ In(s) /\ Store(s)!Start(c)

Step(c) == \/ OnIndex /\ ClientStep(c)
           \/ \E s \in DOMAIN Stores : c \in Stores[s].clients /\ In(s) /\ Store(s)!ClientStep(c)

AllNext == Load \/ LoadData \/ \E c \in Clients : StartCall(c) \/ Step(c)

\* What Open started runs, and so does every call that can.
LookupsSpec == /\ AllInit /\ [][AllNext]_allVars
               /\ WF_allVars(Load) /\ WF_allVars(LoadData)
               /\ \A c \in Clients : WF_allVars(Step(c))

-----------------------------------------------------------------------------
(***************************************************************************)
(* Properties, beside those of IndexReader.                                 *)
(***************************************************************************)
\* ReadEvent, ReadEvents and ReadPositions of eventstore/rocksdb/reader.go implement a
\* list of events, whatever share of the positions each worker reads: position by
\* position, in order; what is out of range or missing is said to be, and nothing else.
\* No read touches a database that is not open, and when Close has returned none is open.
EventAnswers ==
    [][\A s \in DOMAIN Stores : scenario = s =>
          /\ s # "shared" => [Store(s)!Abstract!ReaderNext]_(Store(s)!Abstract!readerVars)
          /\ Store(s)!OpenWhenRead' /\ Store(s)!Released']_allVars

\* Every call of either reader returns, Close included: none waits for the result of an
\* open that somebody else received, for an open nobody runs, or for a worker that is gone.
Calling(c) == pc[c] # "idle" \/ (c \in DOMAIN at /\ at[c] # "idle")

CallsReturn == \A c \in Clients : Calling(c) ~> ~Calling(c)

\* eventstore/reader.go:12: "ErrPositionOutOfRange is returned when a position is out of
\* bounds", and by no read of a position that is in bounds and in the store.
OutOfRangeMeansOut == scenario = "list" => Store("list")!OutOfRangeMeansOut
=============================================================================
