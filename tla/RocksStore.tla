------------------------------ MODULE RocksStore ------------------------------
(***************************************************************************)
(* The two stores on RocksDB, as they are written: eventstore/rocksdb's     *)
(* Writer, which streams events to an SST file, bitmapindex/rocksdb's       *)
(* Writer, which collects bitmaps and writes its SST file in Finish, and    *)
(* rocksdbutil's IngestSST.  Programs run one after the other; in each of   *)
(* them both stores of one directory are written at once, any step may      *)
(* fail, and the program may be killed between any two steps.               *)
(*                                                                          *)
(* Data.  entries[p][s] is what program p puts in store s: what each        *)
(* position, or composite key, maps to.  A database is Absent or a          *)
(* function; an SST file may also be Partial.  RocksDB is external: opening *)
(* with CreateIfMissing, and an ingest that is atomic and whose entries     *)
(* hide older ones of the same key.                                         *)
(***************************************************************************)
EXTENDS Integers, Sequences, FiniteSets

CONSTANTS
    Inputs,        \* bound: what the programs may write
    MaxCount,      \* math.MaxUint32 + 1, scaled down
    MaxPrograms,   \* bound: how many programs run one after the other
    Absent, Partial, Nil

Stores == {"events", "index"}

StoreAssumption ==
    /\ MaxPrograms \in Nat \ {0} /\ MaxCount \in Nat
    /\ \A i \in Inputs :
          /\ DOMAIN i = 1 .. MaxPrograms
          /\ \A p \in 1 .. MaxPrograms :
                /\ Len(i[p].events) \in Nat /\ DOMAIN i[p].events = 1 .. Len(i[p].events)
                /\ i[p].index = [k \in DOMAIN i[p].index |-> i[p].index[k]]

VARIABLES
    entries,  \* entries[p].events: a sequence; entries[p].index: a function
    program,  \* the number of the running program
    pc,       \* per store: where its writer stands
    count,    \* events: w.count
    closed,   \* events: w.closed
    bitmaps,  \* index: the entries collected, or Nil once Finish has taken them
    added,    \* what the SSTFileWriter has taken
    err,      \* per store: what the last Finish returned
    sst,      \* per store: the SST file, at a fixed name beside the databases
    db        \* per store: the database

vars == <<entries, program, pc, count, closed, bitmaps, added, err, sst, db>>

Empty == [k \in {} |-> {}]
Entry(k, v) == [x \in {k} |-> v]

\* The entries of f over those of g.
Over(f, g) == [k \in DOMAIN f \cup DOMAIN g |-> IF k \in DOMAIN f THEN f[k] ELSE g[k]]

Wanted(s) == IF s = "events"
             THEN [k \in 0 .. Len(entries[program].events) - 1 |-> entries[program].events[k + 1]]
             ELSE entries[program].index

NewWriters ==
    /\ pc' = [s \in Stores |-> IF s = "events" THEN "create" ELSE "adding"]
    /\ count' = 0 /\ closed' = FALSE /\ bitmaps' = Empty
    /\ added' = [s \in Stores |-> Empty] /\ err' = [s \in Stores |-> "none"]

Init ==
    /\ entries \in Inputs /\ program = 1
    /\ pc = [s \in Stores |-> IF s = "events" THEN "create" ELSE "adding"]
    /\ count = 0 /\ closed = FALSE /\ bitmaps = Empty
    /\ added = [s \in Stores |-> Empty] /\ err = [s \in Stores |-> "none"]
    /\ sst = [s \in Stores |-> Absent] /\ db = [s \in Stores |-> Absent]

Goto(s, where) == pc' = [pc EXCEPT ![s] = where]
SST(s, f) == sst' = [sst EXCEPT ![s] = f]
DB(s, f) == db' = [db EXCEPT ![s] = f]

Return(s, res) == Goto(s, "returned") /\ err' = [err EXCEPT ![s] = res]

-----------------------------------------------------------------------------
(***************************************************************************)
(* The event writer.                                                        *)
(***************************************************************************)
E == "events"

\* sfw.Open truncates the file.
OpenSST(s) == SST(s, Partial)

Create ==
    /\ pc[E] = "create"
    /\ \/ OpenSST(E) /\ Goto(E, "open") /\ UNCHANGED err
       \/ UNCHANGED sst /\ Return(E, "err")
    /\ UNCHANGED <<entries, program, count, closed, bitmaps, added, db>>

\* w.count moves only when Add has succeeded.
Counted(ok) == count' = IF ok THEN count + 1 ELSE count

\* Which event comes next is the program's business: the first it has no nil for.
NextEvent == Cardinality(DOMAIN added[E]) + 1

AppendEvent ==
    /\ pc[E] = "open" /\ ~closed /\ count < MaxCount
    /\ NextEvent <= Len(entries[program].events)
    /\ \E ok \in BOOLEAN :
          /\ added' = IF ok THEN [added EXCEPT ![E] = Over(Entry(count, entries[program].events[NextEvent]), @)]
                            ELSE added
          /\ Counted(ok)
    /\ UNCHANGED <<entries, program, pc, closed, bitmaps, err, sst, db>>

\* Finish, which a program calls when every event is in.
Finish ==
    /\ pc[E] = "open" /\ ~closed /\ NextEvent = Len(entries[program].events) + 1
    /\ closed' = TRUE
    /\ IF count = 0 THEN SST(E, Absent) /\ Goto(E, "empty") ELSE UNCHANGED sst /\ Goto(E, "sstFinish")
    /\ UNCHANGED <<entries, program, count, bitmaps, added, err, db>>

\* CreateEmptyDB: open, creating if missing, and close.
CreateEmptyDB ==
    /\ pc[E] = "empty"
    /\ \/ db[E] = Absent /\ DB(E, Empty) /\ Return(E, "nil")
       \/ db[E] # Absent /\ UNCHANGED db /\ Return(E, "nil")
       \/ UNCHANGED db /\ Return(E, "err")
    /\ UNCHANGED <<entries, program, count, closed, bitmaps, added, sst>>

\* What Close does with the SST file of a writer that has not finished.
DropSST == SST(E, Absent)

\* Close: the deferred one, after a Finish or in its place.
Close ==
    /\ pc[E] \in {"open", "returned"}
    /\ Goto(E, "ended") /\ closed' = TRUE
    /\ IF closed \/ pc[E] = "returned" THEN UNCHANGED sst ELSE DropSST
    /\ UNCHANGED <<entries, program, count, bitmaps, added, err, db>>

-----------------------------------------------------------------------------
(***************************************************************************)
(* The index writer.                                                        *)
(***************************************************************************)
I == "index"

\* Add: one key and the bitmap it ends with.  A key stands for a field (the contract or one
\* of four topics) and its bytes; which keys an event has is given with the bitmaps.
Add ==
    /\ pc[I] = "adding" /\ bitmaps # Nil
    /\ \E k \in DOMAIN entries[program].index \ DOMAIN bitmaps :
          bitmaps' = Over(Entry(k, entries[program].index[k]), bitmaps)
    /\ UNCHANGED <<entries, program, pc, count, closed, added, err, sst, db>>

\* Finish takes the entries; once more, it finds no keys.
IndexFinish ==
    /\ \/ pc[I] = "adding" /\ DOMAIN bitmaps = DOMAIN entries[program].index
       \/ pc[I] = "returned" /\ err[I] = "err"
    /\ IF bitmaps \in {Empty, Nil}
       THEN Return(I, "err") /\ UNCHANGED <<bitmaps, added>>
       ELSE Goto(I, "openSST") /\ bitmaps' = Nil /\ UNCHANGED err
            /\ added' = [added EXCEPT ![I] = bitmaps]
    /\ UNCHANGED <<entries, program, count, closed, sst, db>>

\* The deferred function removes the SST file unless it is finished.
IndexSST ==
    /\ pc[I] = "openSST"
    /\ \/ OpenSST(I) /\ Goto(I, "sstFinish") /\ UNCHANGED err
       \/ SST(I, Absent) /\ Return(I, "err")
    /\ UNCHANGED <<entries, program, count, closed, bitmaps, added, db>>

-----------------------------------------------------------------------------
(***************************************************************************)
(* What both do: finish the SST file and ingest it.                         *)
(***************************************************************************)
\* Serializing, adding and sfw.Finish.  The event writer leaves a file it could not
\* finish; the index writer's deferred function removes it.
FinishSST(s) ==
    /\ pc[s] = "sstFinish"
    /\ \/ Goto(s, "openDB") /\ SST(s, added[s]) /\ UNCHANGED err
       \/ Return(s, "err") /\ IF s = I THEN SST(s, Absent) ELSE UNCHANGED sst
    /\ UNCHANGED <<entries, program, count, closed, bitmaps, added, db>>

\* IngestSST: open the database, creating it if it is missing...
OpenDB(s) ==
    /\ pc[s] = "openDB"
    /\ \/ Goto(s, "ingest") /\ UNCHANGED err
          /\ DB(s, IF db[s] = Absent THEN Empty ELSE db[s])
       \/ Return(s, "err") /\ \E d \in {db[s], IF db[s] = Absent THEN Empty ELSE db[s]} : DB(s, d)
    /\ UNCHANGED <<entries, program, count, closed, bitmaps, added, sst>>

\* Bug: entries are put into the open database one by one.
PutOne(s) == \E k \in DOMAIN sst[s] : DB(s, Over(Entry(k, sst[s][k]), db[s]))

\* Bug: an older entry hides the new one of its key.
OldEntriesStay(s) == DB(s, Over(db[s], sst[s]))

\* The ingest is all or nothing.
IngestAll(s) == DB(s, Over(sst[s], db[s]))

\* ... then ingest the file, which moves it; when that fails the file stays.
Ingest(s) ==
    /\ pc[s] = "ingest"
    /\ \/ IngestAll(s) /\ Goto(s, "remove") /\ UNCHANGED err
       \/ UNCHANGED db /\ Return(s, "err")
    /\ UNCHANGED <<entries, program, count, closed, bitmaps, added, sst>>

\* The last step of IngestSST.
RemoveSST(s) ==
    /\ pc[s] = "remove" /\ Return(s, "nil") /\ SST(s, Absent)
    /\ UNCHANGED <<entries, program, count, closed, bitmaps, added, db>>

-----------------------------------------------------------------------------
\* The program is killed, or it is over; the next one writes to the same paths.
NextProgram ==
    /\ program < MaxPrograms /\ program' = program + 1
    /\ NewWriters /\ UNCHANGED <<entries, sst, db>>

Next == \/ Create \/ AppendEvent \/ Finish \/ CreateEmptyDB \/ Close
        \/ Add \/ IndexFinish \/ IndexSST
        \/ \E s \in Stores : FinishSST(s) \/ OpenDB(s) \/ Ingest(s) \/ RemoveSST(s)
        \/ NextProgram

Spec == Init /\ [][Next]_vars

-----------------------------------------------------------------------------
(***************************************************************************)
(* Properties.                                                              *)
(***************************************************************************)
\* The types of the variables; what is in a file, the invariants say.
TypeOK ==
    /\ entries \in Inputs /\ program \in 1 .. MaxPrograms
    /\ pc \in [Stores -> {"create", "open", "empty", "adding", "openSST", "sstFinish", "openDB",
                          "ingest", "remove", "returned", "ended"}]
    /\ count \in 0 .. MaxCount /\ closed \in BOOLEAN
    /\ err \in [Stores -> {"none", "nil", "err"}]
    /\ DOMAIN added = Stores /\ DOMAIN sst = Stores /\ DOMAIN db = Stores

\* Every program writes the same entries: the next one tries again.
Retried == \A p, q \in 1 .. MaxPrograms : entries[p] = entries[q]

\* Then a database that opens is empty or whole, whatever failed, was killed or left
\* behind.
EmptyOrWhole == Retried => \A s \in Stores : db[s] \in {Absent, Empty, Wanted(s)}

\* When Finish returns nil the store holds what was written to it, whatever is left there
\* of other programs, and no SST file stays; nor does one when Close takes its place.
FinishTrue ==
    /\ \A s \in Stores : err[s] = "nil" =>
          /\ sst[s] = Absent
          /\ \A k \in DOMAIN Wanted(s) : k \in DOMAIN db[s] /\ db[s][k] = Wanted(s)[k]
    /\ pc[E] = "ended" /\ err[E] = "none" => sst[E] = Absent
=============================================================================
