------------------------------- MODULE MCCrashes -------------------------------
(***************************************************************************)
(* What programs leave that fail, are killed, or lose the machine, and what *)
(* the next ones make of it, for TLC: in every behaviour one thing is       *)
(* written, packfiles at one path, an index of two files, or the two stores *)
(* on RocksDB; the others stay as they are.                                 *)
(***************************************************************************)
EXTENDS PackFileSystem, TLC

CONSTANTS
    w1, w2, w3,
    Absent, Partial, Nil,   \* of RocksStore
    NoContract              \* of IndexWriter

VARIABLES
    scenario,
    program, ipc, iadded, ibitmaps, prepared, ierr, mphf, mphfOf, data, dataOf,  \* the index
    sprogram, spc, entries, count, closed, bitmaps, added, err, sst, db          \* the stores

indexVars == <<program, ipc, iadded, ibitmaps, prepared, ierr, mphf, mphfOf, data, dataOf>>
storeVars == <<sprogram, spc, entries, count, closed, bitmaps, added, err, sst, db>>

-----------------------------------------------------------------------------
\* A packfile of two records with checksums, one of one record without, and one by a
\* program that overwrites what it finds.
Lengths == w1 :> 2 @@ w2 :> 1 @@ w3 :> 1

\* The same key in several fields, no contract, and a fifth topic, which is not indexed.
IndexBuild == INSTANCE IndexWriter WITH
    Stream <- <<[contractID |-> NoContract, topics |-> <<"a", "a", "b", "a", "b">>],
                [contractID |-> "a", topics |-> <<"a">>]>>,
    Keys <- {"a", "b", "c"}, MaxPrograms <- 4,
    pc <- ipc, added <- iadded, bitmaps <- ibitmaps, err <- ierr

\* What the programs write to the stores: a store of the largest size, one event more,
\* no event, or another program something else.
ThreeEvents == [events |-> <<"e0", "e1", "e2">>, index |-> [a |-> {0, 2}, b |-> {1}]]
FourEvents  == [events |-> <<"e0", "e1", "e2", "e3">>, index |-> [a |-> {0, 2}, b |-> {1}]]
NoEvents    == [events |-> <<>>, index |-> [k \in {} |-> {}]]
OtherEvents == [events |-> <<"f0">>, index |-> [b |-> {0}]]

StoreBuild == INSTANCE RocksStore WITH
    Inputs <- {[p \in 1 .. 3 |-> e] : e \in {ThreeEvents, FourEvents, NoEvents}}
                  \cup {<<OtherEvents, ThreeEvents, OtherEvents>>},
    MaxCount <- 3, MaxPrograms <- 3, program <- sprogram, pc <- spc

ASSUME Bounds == IndexBuild!IndexWriterAssumption /\ StoreBuild!StoreAssumption

CrashesInit ==
    /\ scenario \in {"packfiles", "index", "stores"}
    /\ Init /\ IndexBuild!Init
    /\ StoreBuild!Init /\ (scenario # "stores" => entries[1] = NoEvents)

CrashesNext ==
    /\ UNCHANGED scenario
    /\ \/ scenario = "packfiles" /\ Next /\ UNCHANGED <<indexVars, storeVars>>
       \/ scenario = "index" /\ IndexBuild!Next /\ UNCHANGED <<vars, storeVars>>
       \/ scenario = "stores" /\ StoreBuild!Next /\ UNCHANGED <<vars, indexVars>>

CrashesSpec == CrashesInit /\ [][CrashesNext]_<<scenario, vars, indexVars, storeVars>>

-----------------------------------------------------------------------------
(***************************************************************************)
(* Properties, beside those of PackFileSystem.                              *)
(***************************************************************************)
\* Whatever step of bitmapindex/writer.go failed, was killed or tried again: two files
\* that open are the index of the stream, every field and key with exactly its ordinals;
\* Finish returns nil for such files only and leaves no complete one when it fails; and a
\* packfile another program completed is neither changed nor removed.
IndexWhole == IndexBuild!IndexWhole

\* While every program writes the same entries to the stores, a database that opens is
\* empty or whole, whatever step of the writers and of IngestSST failed, was killed or left
\* something behind.
EmptyOrWhole == StoreBuild!EmptyOrWhole

\* When Finish of a store returns nil the store holds what was written to it, whatever is
\* left there of other programs, and no SST file stays; nor does one when Close takes the
\* place of Finish.
FinishTrue == StoreBuild!FinishTrue
=============================================================================
