--------------------------- MODULE IndexWriterProofs ---------------------------
(***************************************************************************)
(* Proofs about IndexWriter: for any stream of events and any number of     *)
(* programs, whichever of their steps fail or are cut short, the two files  *)
(* are the index of the stream or do not open.                              *)
(***************************************************************************)
EXTENDS IndexWriter, FiniteSetTheorems, TLAPS

\* The bitmaps of the first n events, and of all.
With(h, n) == {j \in 1 .. n : h \in Hashes(Stream[j])}

Indexed(n) == [h \in UNION {Hashes(Stream[j]) : j \in 1 .. n} |-> {j - 1 : j \in With(h, n)}]

All == Indexed(Len(Stream))

\* The entries are those of All, each at the rank of its hash.
AllRanked(entries) == \A h \in DOMAIN All :
    LET r == RanksOf(DOMAIN All)[h]
    IN r \in DOMAIN entries /\ entries[r] = [fp |-> h, ids |-> All[h]]

\* What a program has in memory.
MemoryInv ==
    /\ IsFiniteSet(DOMAIN bitmaps)
    /\ pc = "adding" => bitmaps = Indexed(added)
    /\ pc \in {"builder", "building", "ranking"} => bitmaps = All
    /\ pc \in {"create", "append", "sync"} => bitmaps = NoBitmaps
    /\ pc = "returned" => bitmaps \in {All, NoBitmaps}
    /\ pc \in {"create", "append"} => AllRanked(prepared)

\* Every program that gets so far writes the same two files; which of them are its own
\* depends on where it stands.
FilesInv ==
    /\ Complete(mphf) => mphf.holds = RanksOf(DOMAIN All)
    /\ Complete(data) => AllRanked(data.holds)
    /\ pc \in {"adding", "builder"} /\ Complete(mphf) => mphfOf # program
    /\ pc \in {"adding", "builder", "building", "ranking", "create"} /\ Complete(data) =>
           dataOf # program
    /\ pc \in {"building", "ranking", "create", "append", "sync"} => mphfOf = program
    /\ pc \in {"ranking", "create", "append", "sync"} => Complete(mphf)
    /\ pc \in {"append", "sync"} => dataOf = program
    /\ pc = "sync" => Complete(data)
    /\ FinishSays

BuildInv == TypeOK /\ MemoryInv /\ FilesInv
-----------------------------------------------------------------------------
(***************************************************************************)
(* What Add collects.                                                       *)
(***************************************************************************)
LEMMA EventFacts ==
  ASSUME IndexWriterAssumption, NEW j \in 1 .. Len(Stream)
  PROVE  /\ Stream[j].topics \in Seq(Keys) /\ Stream[j].contractID \in Keys \cup {NoContract}
         /\ DOMAIN Stream[j].topics = 1 .. Len(Stream[j].topics) /\ Len(Stream[j].topics) \in Nat
<1> DEFINE Event == [contractID: Keys \cup {NoContract}, topics: Seq(Keys)]
<1>1. Stream[j] \in Event
  <2>1. Stream \in Seq(Event)
    BY DEF IndexWriterAssumption
  <2> HIDE DEF Event
  <2> QED
    BY <2>1
<1>2. Stream[j].topics \in Seq(Keys)
  BY <1>1
<1> HIDE DEF IndexWriterAssumption
<1> QED
  BY <1>1, <1>2

\* Add hashes a field and key exactly if the event has the key there.
LEMMA HashedIfThere ==
  ASSUME IndexWriterAssumption, NEW j \in 1 .. Len(Stream), NEW i \in DOMAIN Fields, NEW key \in Keys
  PROVE  Hash(Fields[i], key) \in Hashes(Stream[j]) <=> Occurs(Fields[i], key, Stream[j])
<1> DEFINE ev == Stream[j]
<1>1. /\ DOMAIN Fields = 1 .. 5 /\ Len(Fields) = 5
      /\ \A m, n \in 1 .. 5 : Fields[m] = Fields[n] => m = n
      /\ Fields[1] = "ContractID"
  BY DEF Fields
<1>2. key # NoContract
  BY DEF IndexWriterAssumption
<1>3. DOMAIN ev.topics \subseteq Nat \ {0} /\ ev.topics \in Seq(Keys)
  BY EventFacts
<1> HIDE DEF ev
<1>4. Hash(Fields[i], key) \in Hashes(ev) <=>
          \/ ev.contractID # NoContract /\ Fields[i] = Fields[1] /\ key = ev.contractID
          \/ \E m \in DOMAIN ev.topics : m < 5 /\ Fields[i] = Fields[m + 1] /\ key = ev.topics[m]
  BY <1>1 DEF Hashes, Hash
<1>5. CASE i = 1
  <2>1. \A m \in DOMAIN ev.topics : m < 5 => Fields[i] # Fields[m + 1]
    BY <1>1, <1>3, <1>5
  <2> QED
    BY <1>1, <1>2, <1>4, <1>5, <2>1 DEF Occurs, ev
<1>6. CASE i # 1
  <2>1. Fields[i] # "ContractID" /\ Fields[i] # Fields[1]
    BY <1>1, <1>6
  <2> QED
    BY <1>1, <1>4, <2>1 DEF Occurs, ev
<1> QED
  BY <1>5, <1>6

LEMMA HashesFinite ==
  ASSUME IndexWriterAssumption, NEW j \in 1 .. Len(Stream)
  PROVE  IsFiniteSet(Hashes(Stream[j]))
<1> DEFINE ev == Stream[j]
           D  == {m \in DOMAIN ev.topics : m < Len(Fields)}
           f  == [m \in D |-> Hash(Fields[m + 1], ev.topics[m])]
           T  == {Hash(Fields[m + 1], ev.topics[m]) : m \in D}
           C  == IF ev.contractID = NoContract THEN {} ELSE {Hash(Fields[1], ev.contractID)}
<1>1. DOMAIN ev.topics = 1 .. Len(ev.topics) /\ Len(ev.topics) \in Nat
  BY EventFacts
<1>2. IsFiniteSet(D)
  <2>1. IsFiniteSet(1 .. Len(ev.topics))
    <3>1. 1 \in Int /\ Len(ev.topics) \in Int
      BY <1>1
    <3> HIDE DEF ev
    <3> QED
      BY <3>1, FS_Interval
  <2> QED
    BY <1>1, <2>1, FS_Subset
<1>3. IsFiniteSet(T)
  <2>1. f \in Surjection(D, T)
    BY DEF Surjection
  <2> HIDE DEF f, T, D
  <2> QED
    BY <1>2, <2>1, FS_Surjection
<1>4. IsFiniteSet(C)
  BY FS_EmptySet, FS_Singleton
<1>5. Hashes(ev) = C \cup T
  BY DEF Hashes
<1> HIDE DEF C, T, ev
<1>6. IsFiniteSet(Hashes(ev))
  BY <1>3, <1>4, <1>5, FS_Union
<1> QED
  BY <1>6 DEF ev

\* Add turns the bitmaps of n events into those of one more.
LEMMA OneMore ==
  ASSUME IndexWriterAssumption, NEW n \in 0 .. Len(Stream) - 1
  PROVE  Indexed(n + 1) =
             [h \in DOMAIN Indexed(n) \cup Hashes(Stream[n + 1]) |->
                 (IF h \in DOMAIN Indexed(n) THEN Indexed(n)[h] ELSE {})
                 \cup (IF h \in Hashes(Stream[n + 1]) THEN {n} ELSE {})]
<1>1. 1 .. n + 1 = (1 .. n) \cup {n + 1} /\ n \in Nat /\ (n + 1) - 1 = n
  OBVIOUS
<1>2. DOMAIN Indexed(n + 1) = DOMAIN Indexed(n) \cup Hashes(Stream[n + 1])
  BY <1>1 DEF Indexed
<1>3. ASSUME NEW h \in DOMAIN Indexed(n + 1)
      PROVE  Indexed(n + 1)[h] = (IF h \in DOMAIN Indexed(n) THEN Indexed(n)[h] ELSE {})
                                 \cup (IF h \in Hashes(Stream[n + 1]) THEN {n} ELSE {})
  <2>1. With(h, n + 1) = With(h, n) \cup (IF h \in Hashes(Stream[n + 1]) THEN {n + 1} ELSE {})
    BY <1>1 DEF With
  <2>2. {j - 1 : j \in With(h, n + 1)} =
            {j - 1 : j \in With(h, n)} \cup (IF h \in Hashes(Stream[n + 1]) THEN {n} ELSE {})
    BY <1>1, <2>1
  <2>3. h \notin DOMAIN Indexed(n) => With(h, n) = {}
    BY DEF Indexed, With
  <2>4. h \in DOMAIN Indexed(n) => Indexed(n)[h] = {j - 1 : j \in With(h, n)}
    BY DEF Indexed
  <2>5. Indexed(n + 1)[h] = {j - 1 : j \in With(h, n + 1)}
    BY <1>3 DEF Indexed
  <2> QED
    BY <2>2, <2>3, <2>4, <2>5
<1>4. Indexed(n + 1) = [h \in DOMAIN Indexed(n + 1) |-> Indexed(n + 1)[h]]
  BY DEF Indexed
<1> QED
  BY <1>2, <1>3, <1>4

\* The bitmaps say of each field and key what they must.
LEMMA AllRight ==
  ASSUME IndexWriterAssumption, NEW i \in DOMAIN Fields, NEW key \in Keys
  PROVE  LET h == Hash(Fields[i], key)
         IN IF Ordinals(Fields[i], key) = {} THEN h \notin DOMAIN All
            ELSE h \in DOMAIN All /\ All[h] = Ordinals(Fields[i], key)
<1> DEFINE h == Hash(Fields[i], key)
           n == Len(Stream)
<1>1. DOMAIN Stream = 1 .. n /\ n \in Nat
  BY DEF IndexWriterAssumption
<1>2. With(h, n) = {j \in DOMAIN Stream : Occurs(Fields[i], key, Stream[j])}
  BY <1>1, HashedIfThere DEF With
<1>3. Ordinals(Fields[i], key) = {j - 1 : j \in With(h, n)}
  BY <1>2 DEF Ordinals
<1>4. h \in DOMAIN All <=> With(h, n) # {}
  BY DEF All, Indexed, With
<1>5. h \in DOMAIN All => All[h] = {j - 1 : j \in With(h, n)}
  BY DEF All, Indexed
<1> HIDE DEF h, n
<1>6. Ordinals(Fields[i], key) = {} <=> With(h, n) = {}
  BY <1>3
<1> QED
  BY <1>3, <1>4, <1>5, <1>6 DEF h

\* Ranks are one to one.
LEMMA RanksApart ==
  ASSUME NEW S, IsFiniteSet(S)
  PROVE  /\ DOMAIN RanksOf(S) = S
         /\ \A h \in S : RanksOf(S)[h] \in 1 .. Cardinality(S)
         /\ IsInjective(RanksOf(S))
<1> DEFINE ranks == SetToSeq(S)
<1>1. PICK g \in Bijection(1 .. Cardinality(S), S) : TRUE
  BY FS_CardinalityType DEF ExistsBijection
<1>2. g \in [1 .. Cardinality(S) -> S] /\ IsInjective(g) /\ \A h \in S : \E r \in 1 .. Cardinality(S) : g[r] = h
  BY <1>1 DEF Bijection, Injection, Surjection
<1>3. ranks \in [1 .. Cardinality(S) -> S] /\ IsInjective(ranks)
  BY <1>2 DEF SetToSeq
<1>4. ranks \in Injection(1 .. Cardinality(S), S)
  BY <1>3 DEF Injection
<1>5. Cardinality(S) \in Nat
  BY FS_CardinalityType
<1>6. IsFiniteSet(1 .. Cardinality(S)) /\ Cardinality(1 .. Cardinality(S)) = Cardinality(S)
  BY <1>5, FS_Interval
<1> HIDE DEF ranks
<1>7. ranks \in Surjection(1 .. Cardinality(S), S)
  BY <1>4, <1>6, FS_Injection
<1>8. \A h \in S : \E r \in DOMAIN ranks : ranks[r] = h
  BY <1>3, <1>7 DEF Surjection
<1>9. RanksOf(S) = [h \in S |-> CHOOSE r \in DOMAIN ranks : ranks[r] = h]
  BY DEF RanksOf, ranks
<1>10. \A h \in S : RanksOf(S)[h] \in DOMAIN ranks /\ ranks[RanksOf(S)[h]] = h
  BY <1>8, <1>9
<1> QED
  BY <1>3, <1>9, <1>10 DEF IsInjective

\* So the entries made from them are one for each hash.
LEMMA RankedRight ==
  ASSUME bitmaps = All, IsFiniteSet(DOMAIN bitmaps), mphf.holds = RanksOf(DOMAIN All)
  PROVE  AllRanked(Ranked)
<1> DEFINE S == DOMAIN All
           f == RanksOf(S)
<1>1. DOMAIN f = S /\ IsInjective(f) /\ \A h \in S : f[h] \in 1 .. Cardinality(S)
  BY RanksApart
<1> HIDE DEF f
<1>2. SUFFICES ASSUME NEW h \in S
               PROVE  f[h] \in DOMAIN Ranked /\ Ranked[f[h]] = [fp |-> h, ids |-> All[h]]
  BY DEF AllRanked, f
<1>3. (CHOOSE g \in S : f[g] = f[h]) = h
  BY <1>1 DEF IsInjective
<1>4. Ranked = [r \in 1 .. Cardinality(S) |->
                   [fp |-> CHOOSE g \in S : f[g] = r, ids |-> All[CHOOSE g \in S : f[g] = r]]]
  BY DEF Ranked, f
<1> QED
  BY <1>1, <1>3, <1>4
-----------------------------------------------------------------------------
(***************************************************************************)
(* The invariant.                                                           *)
(***************************************************************************)
Held == <<bitmaps, prepared>>
Files == <<mphf, mphfOf, data, dataOf>>

LEMMA BuildInit ==
  ASSUME IndexWriterAssumption, Init
  PROVE  BuildInv
<1>1. Len(Stream) \in Nat /\ 1 \in 1 .. MaxPrograms
  BY DEF IndexWriterAssumption
<1>2. DOMAIN NoBitmaps = {} /\ IsFiniteSet({})
  BY FS_EmptySet DEF NoBitmaps
<1>3. Indexed(0) = NoBitmaps
  <2>1. 1 .. 0 = {}
    OBVIOUS
  <2>2. UNION {Hashes(Stream[j]) : j \in 1 .. 0} = {}
    BY <2>1
  <2> QED
    BY <2>2 DEF Indexed, NoBitmaps
<1>4. ~Complete(NoFile)
  BY DEF Complete, NoFile
<1>5. TypeOK
  BY <1>1, <1>2 DEF Init, TypeOK
<1>6. MemoryInv /\ FilesInv
  BY <1>2, <1>3, <1>4 DEF Init, MemoryInv, FilesInv, FinishSays
<1> QED
  BY <1>5, <1>6 DEF BuildInv

LEMMA AddKeeps ==
  ASSUME IndexWriterAssumption, BuildInv, Add
  PROVE  BuildInv'
<1> DEFINE hs == Hashes(Stream[added + 1])
<1>1. /\ pc = "adding" /\ pc' = pc /\ added \in 0 .. Len(Stream) - 1 /\ added' = added + 1
      /\ UNCHANGED <<program, prepared, err>> /\ UNCHANGED Files
      /\ bitmaps = Indexed(added) /\ IsFiniteSet(DOMAIN bitmaps) /\ Len(Stream) \in Nat
  BY DEF Add, BuildInv, TypeOK, MemoryInv, Files, IndexWriterAssumption
<1>2. bitmaps' = [h \in DOMAIN bitmaps \cup hs |-> (IF h \in DOMAIN bitmaps THEN bitmaps[h] ELSE {})
                                                   \cup (IF h \in hs THEN {added} ELSE {})]
  BY DEF Add, Ordinal
<1>3. bitmaps' = Indexed(added')
  BY <1>1, <1>2, OneMore
<1>4. IsFiniteSet(DOMAIN bitmaps')
  <2>1. added + 1 \in 1 .. Len(Stream)
    BY <1>1
  <2>2. IsFiniteSet(hs)
    BY <2>1, HashesFinite
  <2>3. DOMAIN bitmaps' = DOMAIN bitmaps \cup hs
    BY <1>2
  <2> HIDE DEF hs
  <2> QED
    BY <1>1, <2>2, <2>3, FS_Union
<1>5. \A h \in DOMAIN bitmaps' : bitmaps'[h] \subseteq 0 .. added' - 1 /\ bitmaps'[h] # {}
  <2>1. \A h \in DOMAIN bitmaps : bitmaps[h] \subseteq 0 .. added - 1 /\ bitmaps[h] # {}
    BY DEF BuildInv, TypeOK
  <2>2. 0 .. added' - 1 = (0 .. added - 1) \cup {added}
    BY <1>1
  <2> HIDE DEF hs
  <2> QED
    BY <1>2, <2>1, <2>2
<1>6. TypeOK'
  BY <1>1, <1>5 DEF BuildInv, TypeOK, Files, Complete, NoFile, HalfFile
<1>7. MemoryInv'
  BY <1>1, <1>3, <1>4 DEF MemoryInv
<1>8. FilesInv'
  BY <1>1 DEF BuildInv, FilesInv, FinishSays, Files, Complete, Opens
<1> QED
  BY <1>6, <1>7, <1>8 DEF BuildInv

\* What Finish does while no file is changed.
LEMMA FinishKeeps ==
  ASSUME IndexWriterAssumption, BuildInv, Finish
  PROVE  BuildInv'
<1>1. /\ UNCHANGED <<program, added>> /\ UNCHANGED Held /\ UNCHANGED Files
      /\ pc \in {"adding", "returned"} /\ (pc = "returned" => err = "err")
      /\ bitmaps \in {All, NoBitmaps} /\ pc' \in {"returned", "builder"} /\ err' \in {err, "err"}
      /\ pc' = "returned" => err' = "err"
      /\ pc' = "builder" => bitmaps # NoBitmaps
  BY DEF Finish, Return, Goto, BuildInv, MemoryInv, Held, Files, All
<1>2. TypeOK'
  BY <1>1 DEF BuildInv, TypeOK, Held, Files, Complete, NoFile, HalfFile
<1>3. MemoryInv'
  BY <1>1 DEF BuildInv, MemoryInv, Held
<1>4. FilesInv'
  BY <1>1 DEF BuildInv, FilesInv, FinishSays, Files, Complete, Opens
<1> QED
  BY <1>2, <1>3, <1>4 DEF BuildInv

LEMMA NewBuilderKeeps ==
  ASSUME IndexWriterAssumption, BuildInv, NewBuilder
  PROVE  BuildInv'
<1>1. /\ UNCHANGED <<program, added, data, dataOf>> /\ UNCHANGED Held /\ pc = "builder"
      /\ \/ pc' = "building" /\ mphf' = HalfFile /\ mphfOf' = program
         \/ pc' = "returned" /\ err' = "err" /\ mphf' = HalfFile /\ mphfOf' = program
         \/ pc' = "returned" /\ err' = "err" /\ UNCHANGED <<mphf, mphfOf>>
      /\ err' \in {err, "err"}
  BY DEF NewBuilder, Return, Goto, Held
<1>2. ~Complete(HalfFile)
  BY DEF Complete, HalfFile
<1>3. TypeOK'
  BY <1>1 DEF BuildInv, TypeOK, Held, Complete, NoFile, HalfFile
<1>4. MemoryInv'
  BY <1>1 DEF BuildInv, MemoryInv, Held
<1>5. FilesInv'
  BY <1>1, <1>2 DEF BuildInv, FilesInv, FinishSays, Complete, Opens
<1> QED
  BY <1>3, <1>4, <1>5 DEF BuildInv

LEMMA BuildKeeps ==
  ASSUME IndexWriterAssumption, BuildInv, Build
  PROVE  BuildInv'
<1>1. /\ UNCHANGED <<program, added, data, dataOf, mphfOf>> /\ UNCHANGED Held /\ pc = "building"
      /\ \/ pc' = "ranking" /\ err' = err /\ mphf' = Whole(RanksOf(DOMAIN bitmaps))
         \/ pc' = "returned" /\ err' = "err" /\ mphf' = NoFile
  BY DEF Build, Return, Goto, RemoveMPHF, Held
<1>2. bitmaps = All /\ IsFiniteSet(DOMAIN bitmaps) /\ IsInjective(RanksOf(DOMAIN bitmaps))
  BY <1>1, RanksApart DEF BuildInv, MemoryInv
<1>3. ~Complete(NoFile) /\ \A x : Complete(Whole(x)) /\ Whole(x).holds = x
  BY DEF Complete, NoFile, Whole
<1>4. TypeOK'
  BY <1>1, <1>2, <1>3 DEF BuildInv, TypeOK, Held, Complete
<1>5. MemoryInv'
  BY <1>1 DEF BuildInv, MemoryInv, Held
<1>6. FilesInv'
  BY <1>1, <1>2, <1>3 DEF BuildInv, FilesInv, FinishSays, Complete, Opens
<1> QED
  BY <1>4, <1>5, <1>6 DEF BuildInv

\* The map is dropped; the entries are there instead.
LEMMA RankKeeps ==
  ASSUME IndexWriterAssumption, BuildInv, Rank
  PROVE  BuildInv'
<1>1. /\ UNCHANGED <<program, added, data, dataOf, mphfOf>> /\ pc = "ranking"
      /\ \/ /\ pc' = "create" /\ err' = err /\ mphf' = mphf
            /\ prepared' = Ranked /\ bitmaps' = NoBitmaps
         \/ /\ pc' = "returned" /\ err' = "err" /\ mphf' = NoFile /\ prepared' = prepared
            /\ bitmaps' \in {bitmaps, NoBitmaps}
  BY DEF Rank, Return, Goto, RemoveMPHF
<1>2. bitmaps = All /\ IsFiniteSet(DOMAIN bitmaps) /\ mphf.holds = RanksOf(DOMAIN All)
  BY <1>1 DEF BuildInv, MemoryInv, FilesInv
<1>3. AllRanked(Ranked)
  BY <1>2, RankedRight
<1>4. ~Complete(NoFile) /\ DOMAIN NoBitmaps = {} /\ IsFiniteSet({})
  BY FS_EmptySet DEF Complete, NoFile, NoBitmaps
<1>5. TypeOK'
  BY <1>1, <1>4 DEF BuildInv, TypeOK, Complete
<1>6. MemoryInv'
  BY <1>1, <1>2, <1>3, <1>4 DEF BuildInv, MemoryInv, AllRanked
<1>7. FilesInv'
  BY <1>1, <1>4 DEF BuildInv, FilesInv, FinishSays, Complete, Opens
<1> QED
  BY <1>5, <1>6, <1>7 DEF BuildInv

\* Create fails on a packfile that is there, so the one it makes is the program's own.
LEMMA CreateKeeps ==
  ASSUME IndexWriterAssumption, BuildInv, Create
  PROVE  BuildInv'
<1>1. /\ UNCHANGED <<program, added, mphfOf>> /\ UNCHANGED Held /\ pc = "create"
      /\ \/ pc' = "append" /\ err' = err /\ mphf' = mphf /\ data' = HalfFile /\ dataOf' = program
         \/ pc' = "returned" /\ err' = "err" /\ mphf' = NoFile /\ UNCHANGED <<data, dataOf>>
  BY DEF Create, CreateExcl, Return, Goto, RemoveMPHF, Held
<1>2. ~Complete(NoFile) /\ ~Complete(HalfFile)
  BY DEF Complete, NoFile, HalfFile
<1>3. TypeOK'
  BY <1>1 DEF BuildInv, TypeOK, Held, Complete
<1>4. MemoryInv'
  BY <1>1 DEF BuildInv, MemoryInv, Held
<1>5. FilesInv'
  BY <1>1, <1>2 DEF BuildInv, FilesInv, FinishSays, Complete, Opens
<1> QED
  BY <1>3, <1>4, <1>5 DEF BuildInv

LEMMA WriteKeeps ==
  ASSUME IndexWriterAssumption, BuildInv, AppendAll \/ Sync
  PROVE  BuildInv'
<1>1. /\ UNCHANGED <<program, added, mphfOf, dataOf>> /\ UNCHANGED Held /\ pc \in {"append", "sync"}
      /\ \/ pc = "append" /\ pc' = "sync" /\ err' = err /\ mphf' = mphf /\ data' = Whole(prepared)
         \/ pc = "sync" /\ pc' = "returned" /\ err' = "nil" /\ UNCHANGED <<mphf, data>>
         \/ pc' = "returned" /\ err' = "err" /\ mphf' = NoFile /\ data' = NoFile
  BY DEF AppendAll, Sync, Return, Goto, RemoveMPHF, RemoveData, Held
<1>2. ~Complete(NoFile) /\ \A x : Complete(Whole(x)) /\ Whole(x).holds = x
  BY DEF Complete, NoFile, Whole
<1>3. TypeOK'
  BY <1>1, <1>2 DEF BuildInv, TypeOK, Held, Complete
<1>4. MemoryInv'
  BY <1>1 DEF BuildInv, MemoryInv, Held
<1>5. FilesInv'
  BY <1>1, <1>2 DEF BuildInv, MemoryInv, FilesInv, FinishSays, Complete, Opens
<1> QED
  BY <1>3, <1>4, <1>5 DEF BuildInv

\* A killed program leaves the files as they are, and to the next one they are another's.
LEMMA NextProgramKeeps ==
  ASSUME IndexWriterAssumption, BuildInv, Kill \/ NewProgram
  PROVE  BuildInv'
<1>1. DOMAIN NoBitmaps = {} /\ IsFiniteSet({}) /\ Indexed(0) = NoBitmaps
  <2>1. UNION {Hashes(Stream[j]) : j \in 1 .. 0} = {}
    OBVIOUS
  <2> QED
    BY <2>1, FS_EmptySet DEF NoBitmaps, Indexed
<1>2. CASE Kill
  <2>1. UNCHANGED <<program, added, err>> /\ UNCHANGED Held /\ UNCHANGED Files /\ pc' = "killed"
    BY <1>2 DEF Kill, Held, Files
  <2>2. TypeOK'
    BY <2>1 DEF BuildInv, TypeOK, Held, Files, Complete
  <2>3. MemoryInv' /\ FilesInv'
    BY <2>1 DEF BuildInv, MemoryInv, FilesInv, FinishSays, Held, Files, Complete
  <2> QED
    BY <2>2, <2>3 DEF BuildInv
<1>3. CASE NewProgram
  <2>1. /\ program' = program + 1 /\ program < MaxPrograms /\ pc' = "adding" /\ added' = 0
        /\ bitmaps' = NoBitmaps /\ err' = "none" /\ UNCHANGED Files
    BY <1>3 DEF NewProgram, Files
  <2>2. /\ program \in 1 .. MaxPrograms /\ MaxPrograms \in Nat /\ Len(Stream) \in Nat
        /\ mphfOf \in 0 .. program /\ dataOf \in 0 .. program
    BY DEF BuildInv, TypeOK, IndexWriterAssumption
  <2>3. TypeOK'
    BY <1>1, <2>1, <2>2 DEF BuildInv, TypeOK, Files, Complete
  <2>4. MemoryInv'
    BY <1>1, <2>1 DEF MemoryInv
  <2>5. mphfOf' # program' /\ dataOf' # program'
    BY <2>1, <2>2 DEF Files
  <2>6. FilesInv'
    BY <2>1, <2>5 DEF BuildInv, FilesInv, FinishSays, Files, Complete
  <2> QED
    BY <2>3, <2>4, <2>6 DEF BuildInv
<1> QED
  BY <1>2, <1>3

LEMMA BuildNext ==
  ASSUME IndexWriterAssumption, BuildInv, [Next]_vars
  PROVE  BuildInv'
<1>1. CASE UNCHANGED vars
  <2>1. TypeOK'
    BY <1>1 DEF BuildInv, TypeOK, vars, Complete
  <2>2. MemoryInv' /\ FilesInv'
    BY <1>1 DEF BuildInv, MemoryInv, FilesInv, FinishSays, vars, Complete, Opens
  <2> QED
    BY <2>1, <2>2 DEF BuildInv
<1> QED
  BY <1>1, AddKeeps, FinishKeeps, NewBuilderKeeps, BuildKeeps, RankKeeps, CreateKeeps, WriteKeeps,
     NextProgramKeeps DEF Next

LEMMA BuildInvariant ==
  ASSUME IndexWriterAssumption
  PROVE  Spec => []BuildInv
<1>1. Init => BuildInv
  BY BuildInit
<1>2. BuildInv /\ [Next]_vars => BuildInv'
  BY BuildNext
<1> QED
  BY <1>1, <1>2, PTL DEF Spec

-----------------------------------------------------------------------------
(***************************************************************************)
(* The theorems.                                                            *)
(***************************************************************************)
LEMMA WholeByInv ==
  ASSUME IndexWriterAssumption, BuildInv
  PROVE  WholeIndex
<1> SUFFICES ASSUME Opens, NEW i \in DOMAIN Fields, NEW key \in Keys
             PROVE  LET h == Hash(Fields[i], key)
                    IN IF Ordinals(Fields[i], key) = {} THEN h \notin DOMAIN mphf.holds
                       ELSE /\ h \in DOMAIN mphf.holds /\ mphf.holds[h] \in DOMAIN data.holds
                            /\ data.holds[mphf.holds[h]] = [fp |-> h, ids |-> Ordinals(Fields[i], key)]
  BY DEF WholeIndex
<1>1. mphf.holds = RanksOf(DOMAIN All) /\ AllRanked(data.holds)
  BY DEF BuildInv, FilesInv, Opens
<1>2. DOMAIN RanksOf(DOMAIN All) = DOMAIN All
  BY DEF RanksOf
<1> QED
  BY <1>1, <1>2, AllRight DEF AllRanked

\* The types of the writer's variables and of the two files.
THEOREM IndexFilesTyped == IndexWriterAssumption => (Spec => []TypeOK)
<1> SUFFICES ASSUME IndexWriterAssumption PROVE Spec => []TypeOK
  OBVIOUS
<1>1. BuildInv => TypeOK
  BY DEF BuildInv
<1> QED
  BY <1>1, BuildInvariant, PTL

\* However many programs fail, are killed and try again at the same paths, the two files
\* that open are the index of the whole stream; Finish says the truth about what it
\* leaves; and a packfile another program completed stays as it is.
THEOREM IndexIsWhole == IndexWriterAssumption => (Spec => IndexWhole)
<1> SUFFICES ASSUME IndexWriterAssumption PROVE Spec => IndexWhole
  OBVIOUS
<1>1. BuildInv => TypeOK /\ WholeIndex /\ FinishSays
  BY WholeByInv DEF BuildInv, FilesInv
<1>2. BuildInv /\ [Next]_vars => DataKeptStep
  <2> SUFFICES ASSUME BuildInv, [Next]_vars, Complete(data), dataOf # program PROVE data' = data
    BY DEF DataKeptStep
  <2>1. pc \notin {"append", "sync"} /\ data # NoFile
    BY DEF BuildInv, FilesInv, Complete, NoFile
  <2> QED
    BY <2>1 DEF Next, Add, Finish, NewBuilder, Build, Rank, Create, CreateExcl, AppendAll, Sync,
                Kill, NewProgram, vars
<1>3. (TypeOK /\ WholeIndex /\ FinishSays)' /\ DataKeptStep =>
          [TypeOK' /\ WholeIndex' /\ FinishSays' /\ DataKeptStep]_vars
  OBVIOUS
<1> QED
  BY <1>1, <1>2, <1>3, BuildInvariant, PTL DEF Spec, IndexWhole
=============================================================================
