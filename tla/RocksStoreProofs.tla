-------------------------- MODULE RocksStoreProofs --------------------------
(***************************************************************************)
(* Proofs about RocksStore: for any entries, any number of programs and     *)
(* whatever fails or is killed, a database is empty or whole when programs  *)
(* try again, and holds all that a successful Finish was given.             *)
(***************************************************************************)
EXTENDS RocksStore, FiniteSetTheorems, TLAPS

\* Where a writer stands with its SST file finished.
Ingesting == {"openDB", "ingest", "remove"}

Events == entries[program].events

\* The event writer has taken the first count events, each at its position.
EventsInv ==
    /\ added[E] = [k \in 0 .. count - 1 |-> Events[k + 1]] /\ count \in 0 .. Len(Events)
    /\ pc[E] \in {"create", "open"} => ~closed
    /\ pc[E] = "empty" => Len(Events) = 0 /\ sst[E] = Absent
    /\ pc[E] \in {"sstFinish"} \cup Ingesting => count = Len(Events)
    /\ pc[E] = "ended" /\ err[E] = "none" => sst[E] = Absent
    /\ pc[E] \in {"create", "open", "empty", "sstFinish", "returned", "ended"} \cup Ingesting

\* The index writer has some of the bitmaps until Finish takes all of them.
IndexInv ==
    /\ pc[I] = "adding" => /\ bitmaps = [k \in DOMAIN bitmaps |-> Wanted(I)[k]]
                           /\ DOMAIN bitmaps \subseteq DOMAIN Wanted(I)
    /\ pc[I] # "adding" => bitmaps \in {Empty, Nil}
    /\ pc[I] \in {"openSST", "sstFinish"} \cup Ingesting => added[I] = Wanted(I)
    /\ pc[I] \in {"adding", "openSST", "sstFinish", "returned"} \cup Ingesting

Holds(s) == \A k \in DOMAIN Wanted(s) : k \in DOMAIN db[s] /\ db[s][k] = Wanted(s)[k]

\* What is ingested is whole, and what a Finish that returned nil wrote is there.
IngestInv(s) ==
    /\ pc[s] \in Ingesting => sst[s] = Wanted(s)
    /\ pc[s] = "remove" => Holds(s)
    /\ pc[s] = "returned" => err[s] # "none"
    /\ err[s] # "none" => pc[s] \in {"returned", "ended"}
    /\ err[s] = "nil" => sst[s] = Absent /\ Holds(s)
    /\ Retried => db[s] \in {Absent, Empty, Wanted(s)}
    /\ Retried /\ pc[s] = "ingest" => db[s] \in {Empty, Wanted(s)}

StoreInv == EventsInv /\ IndexInv /\ \A s \in Stores : IngestInv(s)
-----------------------------------------------------------------------------
(***************************************************************************)
(* What the programs write, and merges.                                     *)
(***************************************************************************)
LEMMA WantedFacts ==
    ASSUME StoreAssumption, TypeOK
    PROVE  /\ Len(Events) \in Nat /\ DOMAIN Wanted(E) = 0 .. Len(Events) - 1
           /\ \A k \in 0 .. Len(Events) - 1 : Wanted(E)[k] = Events[k + 1]
           /\ \A s \in Stores : Wanted(s) = [k \in DOMAIN Wanted(s) |-> Wanted(s)[k]]
<1>1. /\ Len(Events) \in Nat
      /\ entries[program].index = [k \in DOMAIN entries[program].index |-> entries[program].index[k]]
    BY StoreAssumption DEF StoreAssumption, TypeOK, Events
<1>2. Wanted(E) = [k \in 0 .. Len(Events) - 1 |-> Events[k + 1]] BY DEF Wanted, Events, E
<1>3. Wanted(I) = entries[program].index BY DEF Wanted, I
<1>4. Wanted(E) = [k \in DOMAIN Wanted(E) |-> Wanted(E)[k]] BY <1>2
<1> QED BY <1>1, <1>2, <1>3, <1>4 DEF Stores, E, I

\* An ingest into an empty database, or one that has the entries already.
LEMMA Merge ==
    ASSUME NEW f, NEW g
    PROVE  /\ DOMAIN Over(f, g) = DOMAIN f \cup DOMAIN g
           /\ \A k \in DOMAIN f : Over(f, g)[k] = f[k]
           /\ f = [k \in DOMAIN f |-> f[k]] /\ g \in {Empty, f} => Over(f, g) = f
<1>1. DOMAIN Over(f, g) = DOMAIN f \cup DOMAIN g BY DEF Over
<1>2. \A k \in DOMAIN f : Over(f, g)[k] = f[k] BY DEF Over
<1>3. ASSUME f = [k \in DOMAIN f |-> f[k]], g \in {Empty, f} PROVE Over(f, g) = f
    <2>1. DOMAIN f \cup DOMAIN g = DOMAIN f BY <1>3 DEF Empty
    <2>2. Over(f, g) = [k \in DOMAIN f |-> f[k]] BY <2>1 DEF Over
    <2> QED BY <1>3, <2>2
<1> QED BY <1>1, <1>2, <1>3

LEMMA AddOne ==
    ASSUME NEW n \in Nat, NEW e, NEW f, f = [k \in 0 .. n - 1 |-> Events[k + 1]], e = Events[n + 1]
    PROVE  Over(Entry(n, e), f) = [k \in 0 .. n |-> Events[k + 1]]
<1>1. Entry(n, e) = [k \in {n} |-> e] BY DEF Entry
<1>2. {n} \cup DOMAIN f = 0 .. n BY <1>1
<1>3. Over(Entry(n, e), f) = [k \in 0 .. n |-> IF k \in {n} THEN Entry(n, e)[k] ELSE f[k]]
    BY <1>1, <1>2 DEF Over
<1>4. \A k \in 0 .. n : (IF k \in {n} THEN Entry(n, e)[k] ELSE f[k]) = Events[k + 1]
    BY <1>1
<1> QED BY <1>3, <1>4
-----------------------------------------------------------------------------
(***************************************************************************)
(* Types and initial states.                                                *)
(***************************************************************************)
LEMMA StoreInit ==
    ASSUME StoreAssumption, Init
    PROVE  TypeOK /\ StoreInv
<1>1. TypeOK
    <2>1. program \in 1 .. MaxPrograms /\ count \in 0 .. MaxCount BY StoreAssumption DEF StoreAssumption, Init
    <2>2. pc \in [Stores -> {"create", "open", "empty", "adding", "openSST", "sstFinish", "openDB",
                             "ingest", "remove", "returned", "ended"}]
        BY DEF Init
    <2> QED BY <2>1, <2>2 DEF Init, TypeOK
<1>2. EventsInv
    <2>1. Empty = [k \in 0 .. count - 1 |-> Events[k + 1]] BY DEF Init, Empty
    <2>2. count \in 0 .. Len(Events) BY <1>1, WantedFacts DEF Init
    <2> QED BY <2>1, <2>2 DEF Init, EventsInv, Stores, E, Ingesting
<1>3. IndexInv BY DEF Init, IndexInv, Stores, I, Empty, Ingesting
<1>4. \A s \in Stores : IngestInv(s)
    BY DEF Init, IngestInv, Stores, Ingesting
<1> QED BY <1>1, <1>2, <1>3, <1>4 DEF StoreInv

EventStep == Create \/ AppendEvent \/ Finish \/ CreateEmptyDB \/ Close
IndexStep == Add \/ IndexFinish \/ IndexSST
IngestStep(s) == FinishSST(s) \/ OpenDB(s) \/ Ingest(s) \/ RemoveSST(s)

\* A step of one writer leaves the store of the other alone.
LEMMA OtherStore ==
    ASSUME NEW s \in Stores, IngestInv(s), UNCHANGED <<entries, program>>,
           pc'[s] = pc[s], err'[s] = err[s], sst'[s] = sst[s], db'[s] = db[s]
    PROVE  IngestInv(s)'
<1>1. Wanted(s)' = Wanted(s) /\ (Retried' <=> Retried) BY DEF Wanted, Retried
<1>2. Holds(s)' <=> Holds(s) BY <1>1 DEF Holds
<1> QED BY <1>1, <1>2 DEF IngestInv

LEMMA TypeStep ==
    ASSUME StoreAssumption, TypeOK, StoreInv, EventStep \/ IndexStep \/ \E s \in Stores : IngestStep(s)
    PROVE  TypeOK'
<1> USE DEF Goto, SST, DB, Return, E, I, Stores, Empty
<1>1. CASE Create BY <1>1 DEF Create, OpenSST, TypeOK
<1>2. CASE AppendEvent
    <2>1. /\ UNCHANGED <<entries, program, pc, closed, bitmaps, err, sst, db>> /\ count < MaxCount
          /\ count' = count \/ count' = count + 1
          /\ DOMAIN added' = DOMAIN added
        BY <1>2 DEF AppendEvent, Counted
    <2> QED BY <2>1, StoreAssumption DEF StoreAssumption, TypeOK
<1>3. CASE Finish BY <1>3 DEF Finish, TypeOK
<1>4. CASE CreateEmptyDB BY <1>4 DEF CreateEmptyDB, TypeOK
<1>5. CASE Close BY <1>5 DEF Close, DropSST, TypeOK
<1>6. CASE Add BY <1>6 DEF Add, TypeOK
<1>7. CASE IndexFinish BY <1>7 DEF IndexFinish, TypeOK
<1>8. CASE IndexSST BY <1>8 DEF IndexSST, OpenSST, TypeOK
<1>9. ASSUME NEW s \in Stores, IngestStep(s) PROVE TypeOK'
    <2>1. CASE FinishSST(s) BY <2>1 DEF FinishSST, TypeOK
    <2>2. CASE OpenDB(s) BY <2>2 DEF OpenDB, TypeOK
    <2>3. CASE Ingest(s) BY <2>3 DEF Ingest, IngestAll, TypeOK
    <2>4. CASE RemoveSST(s) BY <2>4 DEF RemoveSST, TypeOK
    <2> QED BY <1>9, <2>1, <2>2, <2>3, <2>4 DEF IngestStep
<1> QED BY <1>1, <1>2, <1>3, <1>4, <1>5, <1>6, <1>7, <1>8, <1>9 DEF EventStep, IndexStep
-----------------------------------------------------------------------------
(***************************************************************************)
(* The invariant, step by step.                                             *)
(***************************************************************************)
LEMMA EventKeeps ==
    ASSUME StoreAssumption, TypeOK, StoreInv, EventStep
    PROVE  StoreInv'
<1> USE DEF StoreInv, Goto, SST, DB, Return
<1>1. E \in Stores /\ I \in Stores /\ E # I BY DEF E, I, Stores
<1>2. /\ UNCHANGED <<entries, program, bitmaps>> /\ added'[I] = added[I]
      /\ pc'[I] = pc[I] /\ err'[I] = err[I] /\ sst'[I] = sst[I] /\ db'[I] = db[I]
    BY <1>1 DEF EventStep, Create, OpenSST, AppendEvent, Finish, CreateEmptyDB, Close, DropSST, TypeOK
<1>3. IngestInv(I)' BY <1>1, <1>2, OtherStore
<1>4. IndexInv'
    <2>1. Wanted(I)' = Wanted(I) BY <1>2 DEF Wanted
    <2> QED BY <1>2, <2>1 DEF IndexInv
<1>5. /\ Wanted(E)' = Wanted(E) /\ Events' = Events /\ (Retried' <=> Retried)
      /\ Len(Events) \in Nat /\ count \in Nat
    BY <1>2, WantedFacts DEF Wanted, Events, Retried, TypeOK
<1>6. IngestInv(E) BY <1>1
<1>7. NextEvent = count + 1
    <2>1. DOMAIN added[E] = 0 .. count - 1 BY DEF EventsInv
    <2>2. Cardinality(0 .. count - 1) = count BY <1>5, FS_Interval
    <2> QED BY <2>1, <2>2 DEF NextEvent
<1>8. EventsInv' /\ IngestInv(E)'
    <2>1. CASE Create
        <3>1. UNCHANGED <<count, closed, added, db>> BY <2>1 DEF Create
        <3>2. \/ pc'[E] = "open" /\ err'[E] = err[E] /\ pc[E] = "create"
              \/ pc'[E] = "returned" /\ err'[E] = "err"
            BY <1>1, <2>1 DEF Create, TypeOK
        <3>3. EventsInv' BY <1>5, <3>1, <3>2 DEF EventsInv, Ingesting
        <3> QED BY <1>5, <1>6, <3>1, <3>2, <3>3 DEF IngestInv, Ingesting
    <2>2. CASE AppendEvent
        <3>1. UNCHANGED <<pc, closed, err, sst, db>> /\ pc[E] = "open" BY <2>2 DEF AppendEvent
        <3>2. IngestInv(E)' BY <1>1, <1>2, <1>6, <3>1, OtherStore
        <3>3. \/ UNCHANGED <<added, count>>
              \/ /\ count' = count + 1 /\ count + 1 <= Len(Events)
                 /\ added'[E] = Over(Entry(count, Events[count + 1]), added[E])
            BY <1>1, <1>7, <2>2 DEF AppendEvent, Counted, Events, TypeOK
        <3>4. /\ added'[E] = [k \in 0 .. count' - 1 |-> Events[k + 1]]
              /\ count' \in 0 .. Len(Events)
            <4>1. CASE UNCHANGED <<added, count>> BY <4>1 DEF EventsInv
            <4>2. CASE /\ count' = count + 1 /\ count + 1 <= Len(Events)
                       /\ added'[E] = Over(Entry(count, Events[count + 1]), added[E])
                <5>1. added'[E] = [k \in 0 .. count |-> Events[k + 1]]
                    BY <1>5, <4>2, AddOne DEF EventsInv
                <5>2. count' - 1 = count BY <1>5, <4>2
                <5> QED BY <1>5, <4>2, <5>1, <5>2
            <4> QED BY <3>3, <4>1, <4>2
        <3>5. EventsInv' BY <1>5, <3>1, <3>4 DEF EventsInv, Ingesting
        <3> QED BY <3>2, <3>5
    <2>3. CASE Finish
        <3>1. UNCHANGED <<count, added, err, db>> /\ pc[E] = "open" /\ count = Len(Events)
            BY <1>5, <1>7, <2>3 DEF Finish, Events
        <3>2. \/ count = 0 /\ sst'[E] = Absent /\ pc'[E] = "empty"
              \/ sst' = sst /\ pc'[E] = "sstFinish"
            BY <1>1, <2>3 DEF Finish, TypeOK
        <3>3. EventsInv' BY <1>5, <3>1, <3>2 DEF EventsInv, Ingesting
        <3> QED BY <1>5, <1>6, <3>1, <3>2, <3>3 DEF IngestInv, Ingesting
    <2>4. CASE CreateEmptyDB
        <3>1. UNCHANGED <<count, closed, added, sst>> /\ pc[E] = "empty" BY <2>4 DEF CreateEmptyDB
        <3>2. /\ pc'[E] = "returned" /\ err'[E] \in {"nil", "err"}
              /\ db'[E] = db[E] \/ (db[E] = Absent /\ db'[E] = Empty)
            BY <1>1, <2>4 DEF CreateEmptyDB, TypeOK
        <3>3. EventsInv' BY <1>5, <3>1, <3>2 DEF EventsInv, Ingesting
        <3>4. DOMAIN Wanted(E) = {} /\ sst[E] = Absent
            BY <3>1, WantedFacts DEF EventsInv
        <3>5. Holds(E)' BY <1>5, <3>4 DEF Holds
        <3> QED BY <1>5, <1>6, <3>1, <3>2, <3>3, <3>4, <3>5 DEF IngestInv, Ingesting
    <2>5. CASE Close
        <3>1. UNCHANGED <<count, added, err, db>> /\ pc[E] \in {"open", "returned"} /\ pc'[E] = "ended"
            BY <1>1, <2>5 DEF Close, TypeOK
        <3>2. IF closed \/ pc[E] = "returned" THEN sst' = sst ELSE sst'[E] = Absent
            BY <1>1, <2>5 DEF Close, DropSST, TypeOK
        <3>3. EventsInv' BY <1>5, <1>6, <3>1, <3>2 DEF EventsInv, IngestInv, Ingesting
        <3>4. Holds(E)' <=> Holds(E) BY <1>5, <3>1 DEF Holds
        <3> QED BY <1>5, <1>6, <3>1, <3>2, <3>3, <3>4 DEF IngestInv, Ingesting
    <2> QED BY <2>1, <2>2, <2>3, <2>4, <2>5 DEF EventStep
<1> QED BY <1>3, <1>4, <1>8 DEF Stores, E, I

LEMMA IndexKeeps ==
    ASSUME StoreAssumption, TypeOK, StoreInv, IndexStep
    PROVE  StoreInv'
<1> USE DEF StoreInv, Goto, SST, DB, Return
<1>1. E \in Stores /\ I \in Stores /\ E # I BY DEF E, I, Stores
<1>2. /\ UNCHANGED <<entries, program, count, closed, db>> /\ added'[E] = added[E]
      /\ pc'[E] = pc[E] /\ err'[E] = err[E] /\ sst'[E] = sst[E] /\ db'[E] = db[E]
    BY <1>1 DEF IndexStep, Add, IndexFinish, IndexSST, OpenSST, TypeOK
<1>3. IngestInv(E)' BY <1>1, <1>2, OtherStore
<1>4. EventsInv'
    <2>1. Events' = Events BY <1>2 DEF Events
    <2> QED BY <1>2, <2>1 DEF EventsInv, Ingesting
<1>5. /\ Wanted(I)' = Wanted(I) /\ (Retried' <=> Retried) /\ Wanted(I) = entries[program].index
      /\ Wanted(I) = [k \in DOMAIN Wanted(I) |-> Wanted(I)[k]]
    BY <1>1, <1>2, WantedFacts DEF Wanted, Retried, I
<1>6. IngestInv(I) BY <1>1
<1>7. IndexInv' /\ IngestInv(I)'
    <2>1. CASE Add
        <3>1. UNCHANGED <<pc, added, err, sst, db>> /\ pc[I] = "adding" BY <2>1 DEF Add
        <3>2. IngestInv(I)' BY <1>1, <1>2, <1>6, <3>1, OtherStore
        <3>3. PICK k \in DOMAIN Wanted(I) : bitmaps' = Over(Entry(k, Wanted(I)[k]), bitmaps)
            BY <1>5, <2>1 DEF Add
        <3>4. DOMAIN Entry(k, Wanted(I)[k]) = {k} /\ Entry(k, Wanted(I)[k])[k] = Wanted(I)[k]
            BY DEF Entry
        <3>5. bitmaps' = [x \in {k} \cup DOMAIN bitmaps |->
                             IF x \in {k} THEN Entry(k, Wanted(I)[k])[x] ELSE bitmaps[x]]
            BY <3>3, <3>4 DEF Over
        <3>6. DOMAIN bitmaps' = {k} \cup DOMAIN bitmaps /\ DOMAIN bitmaps' \subseteq DOMAIN Wanted(I)
            BY <3>1, <3>5 DEF IndexInv
        <3>7. \A x \in DOMAIN bitmaps' : bitmaps'[x] = Wanted(I)[x]
            BY <3>1, <3>4, <3>5 DEF IndexInv
        <3>8. bitmaps' = [x \in DOMAIN bitmaps' |-> Wanted(I)[x]] BY <3>5, <3>7
        <3> QED BY <1>5, <3>1, <3>2, <3>6, <3>8 DEF IndexInv, Ingesting
    <2>2. CASE IndexFinish
        <3>1. CASE bitmaps \in {Empty, Nil}
            <4>1. UNCHANGED <<bitmaps, added, sst>> /\ pc'[I] = "returned" /\ err'[I] = "err"
                BY <1>1, <2>2, <3>1 DEF IndexFinish, TypeOK
            <4> QED BY <1>2, <1>5, <1>6, <3>1, <4>1 DEF IndexInv, IngestInv, Ingesting
        <3>2. CASE bitmaps \notin {Empty, Nil}
            <4>1. /\ pc[I] = "adding" /\ DOMAIN bitmaps = DOMAIN Wanted(I) /\ bitmaps' = Nil
                  /\ added'[I] = bitmaps /\ UNCHANGED <<err, sst>> /\ pc'[I] = "openSST"
                BY <1>1, <1>5, <2>2, <3>2 DEF IndexFinish, TypeOK, IndexInv
            <4>2. bitmaps = Wanted(I) BY <1>5, <4>1 DEF IndexInv
            <4> QED BY <1>2, <1>5, <1>6, <4>1, <4>2 DEF IndexInv, IngestInv, Ingesting
        <3> QED BY <3>1, <3>2
    <2>3. CASE IndexSST
        <3>1. UNCHANGED <<bitmaps, added>> /\ pc[I] = "openSST" BY <2>3 DEF IndexSST
        <3>2. \/ pc'[I] = "sstFinish" /\ err'[I] = err[I]
              \/ pc'[I] = "returned" /\ err'[I] = "err"
            BY <1>1, <2>3 DEF IndexSST, TypeOK
        <3>3. IndexInv' BY <1>5, <3>1, <3>2 DEF IndexInv, Ingesting
        <3> QED BY <1>2, <1>5, <1>6, <3>1, <3>2, <3>3 DEF IngestInv, Ingesting
    <2> QED BY <2>1, <2>2, <2>3 DEF IndexStep
<1> QED BY <1>3, <1>4, <1>7 DEF Stores, E, I

LEMMA IngestKeeps ==
    ASSUME StoreAssumption, TypeOK, StoreInv, NEW s \in Stores, IngestStep(s)
    PROVE  StoreInv'
<1> USE DEF StoreInv, Goto, SST, DB, Return
<1>1. UNCHANGED <<entries, program, count, closed, bitmaps, added>>
    BY DEF IngestStep, FinishSST, OpenDB, Ingest, RemoveSST
<1>2. ASSUME NEW t \in Stores, t # s
      PROVE  pc'[t] = pc[t] /\ err'[t] = err[t] /\ sst'[t] = sst[t] /\ db'[t] = db[t]
    BY <1>2 DEF IngestStep, FinishSST, OpenDB, Ingest, IngestAll, RemoveSST, TypeOK
<1>3. ASSUME NEW t \in Stores, t # s PROVE IngestInv(t)' BY <1>1, <1>2, <1>3, OtherStore
<1>4. /\ Wanted(s)' = Wanted(s) /\ Wanted(I)' = Wanted(I) /\ Events' = Events
      /\ (Retried' <=> Retried)
    BY <1>1 DEF Wanted, Events, Retried
<1>5. /\ pc[s] \in {"sstFinish", "openDB", "ingest", "remove"}
      /\ \/ pc'[s] \in {"openDB", "ingest", "remove"} /\ err'[s] = err[s]
         \/ pc'[s] = "returned" /\ err'[s] \in {"nil", "err"}
    BY DEF IngestStep, FinishSST, OpenDB, Ingest, RemoveSST, TypeOK
<1>6. EventsInv'
    <2>1. CASE s = E
        BY <1>1, <1>4, <1>5, <2>1 DEF EventsInv, Ingesting
    <2>2. CASE s # E
        <3>1. E \in Stores BY DEF E, Stores
        <3> QED BY <1>1, <1>2, <1>4, <2>2, <3>1 DEF EventsInv, Ingesting
    <2> QED BY <2>1, <2>2
<1>7. IndexInv'
    <2>1. CASE s = I
        BY <1>1, <1>4, <1>5, <2>1 DEF IndexInv, Ingesting
    <2>2. CASE s # I
        <3>1. I \in Stores BY DEF I, Stores
        <3> QED BY <1>1, <1>2, <1>4, <2>2, <3>1 DEF IndexInv, Ingesting
    <2> QED BY <2>1, <2>2
<1>8. IngestInv(s)'
    <2>1. CASE FinishSST(s)
        <3>1. db' = db BY <2>1 DEF FinishSST
        <3>2. \/ pc'[s] = "openDB" /\ sst'[s] = added[s] /\ err'[s] = err[s]
              \/ pc'[s] = "returned" /\ err'[s] = "err"
            BY <2>1 DEF FinishSST, TypeOK
        <3>3. added[s] = Wanted(s) /\ err[s] = "none"
            <4>1. pc[s] = "sstFinish" /\ err[s] \in {"none", "nil", "err"} BY <2>1 DEF FinishSST, TypeOK
            <4>2. err[s] = "none" BY <4>1 DEF IngestInv
            <4>3. CASE s = E
                <5>1. count = Len(Events) BY <4>1, <4>3 DEF EventsInv
                <5>2. Wanted(E) = [k \in 0 .. Len(Events) - 1 |-> Events[k + 1]]
                    BY DEF Wanted, Events, E
                <5> QED BY <4>2, <4>3, <5>1, <5>2 DEF EventsInv
            <4>4. CASE s = I BY <4>1, <4>2, <4>4 DEF IndexInv
            <4> QED BY <4>3, <4>4 DEF Stores, E, I
        <3> QED BY <1>4, <3>1, <3>2, <3>3 DEF IngestInv, Ingesting
    <2>2. CASE OpenDB(s)
        <3>1. /\ pc[s] = "openDB" /\ sst' = sst
              /\ db'[s] = db[s] \/ (db[s] = Absent /\ db'[s] = Empty)
              /\ \/ pc'[s] = "ingest" /\ err'[s] = err[s] /\ (db[s] = Absent => db'[s] = Empty)
                 \/ pc'[s] = "returned" /\ err'[s] = "err"
            BY <2>2 DEF OpenDB, TypeOK
        <3> QED BY <1>4, <3>1 DEF IngestInv, Ingesting
    <2>3. CASE Ingest(s)
        <3>1. /\ pc[s] = "ingest" /\ sst' = sst /\ sst[s] = Wanted(s)
              /\ \/ pc'[s] = "remove" /\ err'[s] = err[s] /\ db'[s] = Over(sst[s], db[s])
                 \/ pc'[s] = "returned" /\ err'[s] = "err" /\ db' = db
            BY <2>3 DEF Ingest, IngestAll, TypeOK, IngestInv, Ingesting
        <3>2. LET both == Over(sst[s], db[s])
              IN /\ DOMAIN both = DOMAIN sst[s] \cup DOMAIN db[s]
                 /\ \A k \in DOMAIN sst[s] : both[k] = sst[s][k]
                 /\ sst[s] = [k \in DOMAIN sst[s] |-> sst[s][k]] /\ db[s] \in {Empty, sst[s]} =>
                       both = sst[s]
            BY Merge
        <3>3. pc'[s] = "remove" => Holds(s)' BY <1>4, <3>1, <3>2 DEF Holds
        <3>4. Wanted(s) = [k \in DOMAIN Wanted(s) |-> Wanted(s)[k]] BY WantedFacts
        <3>5. Retried /\ pc'[s] = "remove" => db'[s] = Wanted(s)
            BY <3>1, <3>2, <3>4 DEF IngestInv
        <3> QED BY <1>4, <3>1, <3>3, <3>5 DEF IngestInv, Ingesting
    <2>4. CASE RemoveSST(s)
        <3>1. /\ pc[s] = "remove" /\ pc'[s] = "returned" /\ err'[s] = "nil" /\ sst'[s] = Absent
              /\ db' = db
            BY <2>4 DEF RemoveSST, TypeOK
        <3>2. Holds(s)' BY <1>4, <3>1 DEF IngestInv, Holds
        <3> QED BY <1>4, <3>1, <3>2 DEF IngestInv, Ingesting
    <2> QED BY <2>1, <2>2, <2>3, <2>4 DEF IngestStep
<1> QED BY <1>3, <1>6, <1>7, <1>8

LEMMA NextProgramKeeps ==
    ASSUME StoreAssumption, TypeOK, StoreInv, NextProgram
    PROVE  TypeOK' /\ StoreInv'
<1>1. /\ program' = program + 1 /\ program < MaxPrograms /\ UNCHANGED <<entries, sst, db>>
      /\ pc' = [s \in Stores |-> IF s = "events" THEN "create" ELSE "adding"]
      /\ count' = 0 /\ closed' = FALSE /\ bitmaps' = Empty
      /\ added' = [s \in Stores |-> Empty] /\ err' = [s \in Stores |-> "none"]
    BY DEF NextProgram, NewWriters
<1>2. TypeOK'
    <2>1. program' \in 1 .. MaxPrograms /\ count' \in 0 .. MaxCount
        BY <1>1, StoreAssumption DEF StoreAssumption, TypeOK
    <2>2. pc' \in [Stores -> {"create", "open", "empty", "adding", "openSST", "sstFinish", "openDB",
                              "ingest", "remove", "returned", "ended"}]
        BY <1>1
    <2> QED BY <1>1, <2>1, <2>2 DEF TypeOK
<1>3. Len(Events)' \in Nat
    <2>1. entries \in Inputs /\ program + 1 \in 1 .. MaxPrograms BY <1>1, <1>2 DEF TypeOK
    <2> QED BY <1>1, <2>1, StoreAssumption DEF StoreAssumption, Events
<1>4. EventsInv'
    <2>1. Empty = [k \in 0 .. 0 - 1 |-> Events'[k + 1]] BY DEF Empty
    <2> QED BY <1>1, <1>3, <2>1 DEF EventsInv, Stores, E, Ingesting
<1>5. IndexInv' BY <1>1 DEF IndexInv, Stores, I, Empty, Ingesting
<1>6. ASSUME NEW s \in Stores PROVE IngestInv(s)'
    <2>1. Retried' <=> Retried BY <1>1 DEF Retried
    <2>2. Retried => Wanted(s)' = Wanted(s)
        <3>1. program \in 1 .. MaxPrograms /\ program + 1 \in 1 .. MaxPrograms
            BY <1>1, <1>2 DEF TypeOK
        <3>2. Retried => entries[program] = entries[program + 1] BY <3>1 DEF Retried
        <3> QED BY <1>1, <3>2 DEF Wanted
    <2> QED BY <1>1, <2>1, <2>2 DEF StoreInv, IngestInv, Ingesting, Stores
<1> QED BY <1>2, <1>4, <1>5, <1>6 DEF StoreInv

LEMMA StoreInvNext ==
    ASSUME StoreAssumption, TypeOK, StoreInv, [Next]_vars
    PROVE  TypeOK' /\ StoreInv'
<1>1. CASE UNCHANGED vars
    <2>1. TypeOK' BY <1>1 DEF vars, TypeOK
    <2>2. \A s \in Stores : IngestInv(s)' BY <1>1, OtherStore DEF vars, StoreInv
    <2>3. EventsInv' BY <1>1 DEF vars, StoreInv, EventsInv, Events
    <2>4. IndexInv' BY <1>1 DEF vars, StoreInv, IndexInv, Wanted
    <2> QED BY <2>1, <2>2, <2>3, <2>4 DEF StoreInv
<1>2. CASE EventStep BY <1>2, TypeStep, EventKeeps
<1>3. CASE IndexStep BY <1>3, TypeStep, IndexKeeps
<1>4. CASE \E s \in Stores : IngestStep(s) BY <1>4, TypeStep, IngestKeeps
<1>5. CASE NextProgram BY <1>5, NextProgramKeeps
<1> QED BY <1>1, <1>2, <1>3, <1>4, <1>5 DEF Next, EventStep, IndexStep, IngestStep

LEMMA StoreInvariant ==
    ASSUME StoreAssumption
    PROVE  Spec => [](TypeOK /\ StoreInv)
<1>1. Init => TypeOK /\ StoreInv BY StoreInit
<1>2. TypeOK /\ StoreInv /\ [Next]_vars => (TypeOK /\ StoreInv)' BY StoreInvNext
<1> QED BY <1>1, <1>2, PTL DEF Spec
-----------------------------------------------------------------------------
(***************************************************************************)
(* The theorems.                                                            *)
(***************************************************************************)
\* Every variable of the two writers keeps its type.
THEOREM StoreTypes == StoreAssumption => (Spec => []TypeOK)
<1> SUFFICES ASSUME StoreAssumption PROVE Spec => []TypeOK OBVIOUS
<1>1. Spec => [](TypeOK /\ StoreInv) BY StoreInvariant
<1> QED BY <1>1, PTL

\* Programs that try again leave a database empty or whole: what an earlier one left, in
\* the SST file or the database, never shows in part.
THEOREM RetriesEmptyOrWhole == StoreAssumption => (Spec => []EmptyOrWhole)
<1> SUFFICES ASSUME StoreAssumption PROVE Spec => []EmptyOrWhole OBVIOUS
<1>1. TypeOK /\ StoreInv => EmptyOrWhole BY DEF StoreInv, IngestInv, EmptyOrWhole
<1>2. Spec => [](TypeOK /\ StoreInv) BY StoreInvariant
<1> QED BY <1>1, <1>2, PTL

\* A Finish that returns nil has put all it was given in the database, whatever was there.
THEOREM FinishKeepsItsWord == StoreAssumption => (Spec => []FinishTrue)
<1> SUFFICES ASSUME StoreAssumption PROVE Spec => []FinishTrue OBVIOUS
<1>1. TypeOK /\ StoreInv => FinishTrue
    BY DEF StoreInv, EventsInv, IngestInv, Holds, FinishTrue
<1>2. Spec => [](TypeOK /\ StoreInv) BY StoreInvariant
<1> QED BY <1>1, <1>2, PTL
=============================================================================
