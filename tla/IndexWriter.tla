----------------------------- MODULE IndexWriter -----------------------------
(***************************************************************************)
(* The bitmap index writer of bitmapindex/writer.go and the two files it    *)
(* leaves: programs that build the index of one stream of events, one after *)
(* the other, each of which may fail at any step or be killed, after which  *)
(* the next one tries again at the same paths.                              *)
(*                                                                          *)
(* Data.  A hash is the field and key it was computed from; a bitmap is a   *)
(* set of ordinals.  A file is absent, partial or whole.  The MPHF is       *)
(* external: a builder given the same keys builds the same ranks.           *)
(***************************************************************************)
EXTENDS Integers, Sequences, FiniteSets, SequencesExt

CONSTANTS
    Stream,       \* the events, [contractID, topics], in the order of their ordinals
    Keys,         \* the contracts and topics there are, and others to look up
    NoContract,   \* a nil ContractID
    MaxPrograms   \* bound: how many programs run one after the other

IndexWriterAssumption ==
    /\ Stream \in Seq([contractID: Keys \cup {NoContract}, topics: Seq(Keys)])
    /\ NoContract \notin Keys /\ MaxPrograms \in Nat \ {0}

Fields == <<"ContractID", "Topic0", "Topic1", "Topic2", "Topic3">>

VARIABLES
    program,     \* the number of the running program
    pc,          \* where it stands: "adding", a step of Finish, "returned" or "killed"
    added,       \* how many events it has added
    bitmaps,     \* w.bitmaps: hash -> set of ordinals
    prepared,    \* the entries in the order of their ranks
    err,         \* what its Finish returned
    mphf,        \* the file at mphfPath, the MPHF: hash -> rank
    data,        \* the file at dataPath, a packfile: a sequence of entries
    mphfOf,      \* the program that created the MPHF's file
    dataOf       \* the program that created the packfile

vars == <<program, pc, added, bitmaps, prepared, err, mphf, mphfOf, data, dataOf>>

NoBitmaps == [h \in {} |-> {}]

\* What is at a path.
NoFile   == [is |-> "absent", holds |-> <<>>]
HalfFile == [is |-> "partial", holds |-> <<>>]
Whole(content) == [is |-> "whole", holds |-> content]

Complete(file) == file.is = "whole"

\* NewWriter; the directory is empty.
Init ==
    /\ program = 1 /\ pc = "adding" /\ added = 0
    /\ bitmaps = NoBitmaps /\ prepared = <<>> /\ err = "none"
    /\ mphf = NoFile /\ data = NoFile /\ mphfOf = 0 /\ dataOf = 0

-----------------------------------------------------------------------------
(***************************************************************************)
(* Add.                                                                     *)
(***************************************************************************)
\* composeKey and PreHashInPlace.
Hash(f, key) == <<f, key>>

\* The keys Add indexes: the contract, if there is one, and four topics at most.
Hashes(ev) ==
    (IF ev.contractID = NoContract THEN {} ELSE {Hash(Fields[1], ev.contractID)})
    \cup {Hash(Fields[i + 1], ev.topics[i]) :
             i \in {j \in DOMAIN ev.topics : j < Len(Fields)}}

\* The ordinal the caller passes with the event.
Ordinal == added

Add ==
    /\ pc = "adding" /\ added < Len(Stream)
    /\ LET hs == Hashes(Stream[added + 1])
       IN bitmaps' = [h \in DOMAIN bitmaps \cup hs |->
                         (IF h \in DOMAIN bitmaps THEN bitmaps[h] ELSE {})
                         \cup (IF h \in hs THEN {Ordinal} ELSE {})]
    /\ added' = added + 1
    /\ UNCHANGED <<program, pc, prepared, err, mphf, mphfOf, data, dataOf>>

-----------------------------------------------------------------------------
(***************************************************************************)
(* Finish.                                                                  *)
(***************************************************************************)
Goto(where) == pc' = where /\ UNCHANGED <<program, added, err>>

Return(res) == pc' = "returned" /\ err' = res /\ UNCHANGED <<program, added>>

\* Bug: the MPHF stays when a later step fails.
KeepMPHF == UNCHANGED mphf

\* The deferred function, when Finish returns an error.
RemoveMPHF == mphf' = NoFile

\* No keys: an error before anything is written, also for a second Finish, which
\* finds the map gone.  A program that fails gives up or finishes once more.
Finish ==
    /\ \/ pc = "adding" /\ added = Len(Stream)
       \/ pc = "returned" /\ err = "err"
    /\ IF bitmaps = NoBitmaps THEN Return("err") ELSE Goto("builder")
    /\ UNCHANGED <<bitmaps, prepared, mphf, mphfOf, data, dataOf>>

\* NewBuilder; when it fails Finish removes nothing.
NewBuilder ==
    /\ pc = "builder"
    /\ \/ Goto("building") /\ mphf' = HalfFile /\ mphfOf' = program
       \/ Return("err") /\ mphf' = HalfFile /\ mphfOf' = program
       \/ Return("err") /\ UNCHANGED <<mphf, mphfOf>>
    /\ UNCHANGED <<bitmaps, prepared, data, dataOf>>

RanksOf(hashes) ==
    LET ranks == SetToSeq(hashes)
    IN [h \in hashes |-> CHOOSE r \in DOMAIN ranks : ranks[r] = h]

\* AddKey for every key, and the builder's Finish.
Build ==
    /\ pc = "building"
    /\ \/ Goto("ranking") /\ mphf' = Whole(RanksOf(DOMAIN bitmaps))
       \/ Return("err") /\ RemoveMPHF
    /\ UNCHANGED <<bitmaps, prepared, mphfOf, data, dataOf>>

\* The entry of each rank.
Ranked == [r \in 1 .. Cardinality(DOMAIN bitmaps) |->
              LET h == CHOOSE g \in DOMAIN bitmaps : mphf.holds[g] = r
              IN [fp |-> h, ids |-> bitmaps[h]]]

\* Open the MPHF, query each key's rank, drop the map, serialize.
Rank ==
    /\ pc = "ranking"
    /\ \/ Goto("create") /\ prepared' = Ranked /\ bitmaps' = NoBitmaps /\ UNCHANGED mphf
       \/ Return("err") /\ RemoveMPHF /\ bitmaps' \in {bitmaps, NoBitmaps} /\ UNCHANGED prepared
    /\ UNCHANGED <<mphfOf, data, dataOf>>

\* packfile.Create without Overwrite: O_EXCL.
CreateExcl == data = NoFile /\ data' = HalfFile /\ dataOf' = program

Create ==
    /\ pc = "create"
    /\ \/ Goto("append") /\ CreateExcl /\ UNCHANGED mphf
       \/ Return("err") /\ RemoveMPHF /\ UNCHANGED <<data, dataOf>>
    /\ UNCHANGED <<bitmaps, prepared, mphfOf>>

\* pw.Close after a failed AppendItem or Finish.
RemoveData == data' = NoFile

\* AppendItem for every entry, and pw.Finish up to the trailer (see PackWriter).
AppendAll ==
    /\ pc = "append"
    /\ \/ Goto("sync") /\ data' = Whole(prepared) /\ UNCHANGED mphf
       \/ Return("err") /\ RemoveMPHF /\ RemoveData
    /\ UNCHANGED <<bitmaps, prepared, mphfOf, dataOf>>

\* The last steps of pw.Finish: sync and close.
Sync ==
    /\ pc = "sync"
    /\ \/ Return("nil") /\ UNCHANGED <<mphf, data>>
       \/ Return("err") /\ RemoveMPHF /\ RemoveData
    /\ UNCHANGED <<bitmaps, prepared, mphfOf, dataOf>>

-----------------------------------------------------------------------------
(***************************************************************************)
(* The program is killed; the next one starts with an empty map.            *)
(***************************************************************************)
Kill ==
    /\ pc \notin {"returned", "killed"} /\ pc' = "killed"
    /\ UNCHANGED <<program, added, bitmaps, prepared, err, mphf, mphfOf, data, dataOf>>

NewProgram ==
    /\ pc \in {"returned", "killed"} /\ program < MaxPrograms
    /\ program' = program + 1 /\ pc' = "adding" /\ added' = 0
    /\ bitmaps' = NoBitmaps /\ prepared' = <<>> /\ err' = "none"
    /\ UNCHANGED <<mphf, mphfOf, data, dataOf>>

Next == \/ Add \/ Finish \/ NewBuilder \/ Build \/ Rank \/ Create \/ AppendAll \/ Sync
        \/ Kill \/ NewProgram

Spec == Init /\ [][Next]_vars

-----------------------------------------------------------------------------
(***************************************************************************)
(* Properties.                                                              *)
(***************************************************************************)
\* What the index must say of a field and a key: who has it there.
Occurs(f, key, ev) == IF f = "ContractID" THEN ev.contractID = key
                      ELSE \E i \in DOMAIN ev.topics : /\ i < Len(Fields) /\ Fields[i + 1] = f
                                                       /\ ev.topics[i] = key

Ordinals(f, key) == {i - 1 : i \in {j \in DOMAIN Stream : Occurs(f, key, Stream[j])}}

Opens == Complete(mphf) /\ Complete(data)

\* The types of the variables.
TypeOK ==
    /\ program \in 1 .. MaxPrograms /\ added \in 0 .. Len(Stream)
    /\ pc \in {"adding", "builder", "building", "ranking", "create", "append", "sync",
               "returned", "killed"}
    /\ err \in {"none", "nil", "err"} /\ {mphfOf, dataOf} \subseteq 0 .. program
    /\ \A h \in DOMAIN bitmaps : bitmaps[h] \subseteq 0 .. added - 1 /\ bitmaps[h] # {}
    /\ mphf \in {NoFile, HalfFile} \/ (Complete(mphf) /\ IsInjective(mphf.holds))
    /\ data \in {NoFile, HalfFile} \/ Complete(data)

\* Whatever failed, was killed or tried again: two files that open answer for every
\* field and key with exactly the ordinals of the events that have it, each through its
\* own rank, with its own fingerprint, and have no other key.
WholeIndex ==
    Opens => \A i \in DOMAIN Fields, key \in Keys :
        LET h == Hash(Fields[i], key)
        IN IF Ordinals(Fields[i], key) = {} THEN h \notin DOMAIN mphf.holds
           ELSE /\ h \in DOMAIN mphf.holds /\ mphf.holds[h] \in DOMAIN data.holds
                /\ data.holds[mphf.holds[h]] = [fp |-> h, ids |-> Ordinals(Fields[i], key)]

\* A Finish that succeeded has left an index that opens; one that failed, at
\* whatever step, has left no complete file of its own, neither the MPHF it may have
\* finished nor the packfile.
FinishSays ==
    pc = "returned" => /\ err = "nil" => Opens /\ dataOf = program /\ mphfOf = program
                       /\ err = "err" => /\ Complete(mphf) => mphfOf # program
                                         /\ Complete(data) => dataOf # program

\* A packfile another program completed is neither changed nor removed.
DataKeptStep == Complete(data) /\ dataOf # program => data' = data

\* All of it, at every step.
IndexWhole == [][TypeOK' /\ WholeIndex' /\ FinishSays' /\ DataKeptStep]_vars
=============================================================================
