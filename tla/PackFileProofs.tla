--------------------------- MODULE PackFileProofs ---------------------------
(***************************************************************************)
(* Proofs about PackFileSystem: whatever is killed and whenever the machine *)
(* crashes, a packfile that Finish reported is whole and stays, and readers *)
(* get the records of their file.                                           *)
(***************************************************************************)
EXTENDS PackFileSystem, FunctionTheorems, SequenceTheorems, TLAPS

Size(w) == RecordCount[w] + 2

\* Nothing of the inode is there before its writer makes it.
Unmade(w) ==
    /\ fd[w] = None /\ written[w] = 0 /\ w \notin names /\ promised[w] = None /\ file[w] = <<>>
    /\ \A v \in Writers : fd[v] # w

\* What a crash cannot change.
Durable(i) ==
    /\ disk[i] = [k \in DOMAIN file[i] |-> {file[i][k]}]
    /\ sizes[i] = {Len(file[i])}

\* A program that writes has the file at the path, alone, and has written its cells in
\* order; when it closes the file, all of it is on disk.
WriterOK(w) ==
    /\ pc[w] = "new" => Unmade(w)
    /\ Running(w) => name # None /\ fd[w] = name /\ promised[name] = None
    /\ Running(w) => \A v \in Writers : Running(v) => v = w
    /\ pc[w] \in {"writing", "syncing", "closing"} =>
          /\ written[w] <= Size(w) /\ Len(file[fd[w]]) = written[w]
          /\ \A k \in 1 .. written[w] : file[fd[w]][k] = Whole(w)[k]
    /\ pc[w] = "writing" => written[w] < Size(w)
    /\ pc[w] \in {"syncing", "closing"} => written[w] = Size(w)
    /\ pc[w] = "closing" => Durable(fd[w])

WriterInv == \A w \in Writers : WriterOK(w)

\* What Finish has reported is whole and on disk, wherever the name may be after a
\* crash; and without a crash the name is there.
PromiseInv == \A i \in Writers : promised[i] # None =>
    /\ i \in names => Durable(i) /\ file[i] = Whole(promised[i]) /\ promised[i] \in Writers
    /\ crashes = 0 => name = i

\* A file that no other program has opened to overwrite it holds nothing but its own
\* cells, each at its place, and so will what a crash leaves of it.
OwnCells == \A i \in Writers : ~Replaced(i) =>
    /\ \A k \in DOMAIN file[i] : k <= Size(i) /\ file[i][k] \in {Hole, Whole(i)[k]}
    /\ \A k \in DOMAIN disk[i] : k <= Size(i) /\ disk[i][k] \subseteq {Hole, Whole(i)[k]}
    /\ \A n \in sizes[i] : n <= Size(i)

\* How far the Verify of r has come, or has got.
Checks(r) == IF verdict[r] = "nil" THEN RecordCount[open[r]] ELSE hashed[r]

\* A reader that has opened such a file has the trailer of its writer, who writes no
\* more; what Verify has hashed is still there.
ReadsRight(r) ==
    /\ sees[r] = open[r] /\ pc[open[r]] \notin {"new", "writing"}
    /\ Len(file[open[r]]) = Size(open[r])
    /\ file[open[r]][Size(open[r])] = Trailer(open[r])
    /\ file[open[r]][Size(open[r]) - 1] = Index(open[r])
    /\ hashed[r] < RecordCount[open[r]]
    /\ \A k \in 1 .. Checks(r) : file[open[r]][k] = Record(open[r], k)
    /\ got[r].at # 0 /\ open[r] \in Checked => got[r].cell = Record(open[r], got[r].at)

ReaderInv == \A r \in Readers : open[r] # None /\ ~Replaced(open[r]) => ReadsRight(r)

\* A closed reader has nothing.
ShutInv == \A r \in Readers :
    open[r] = None => got[r].at = 0 /\ verdict[r] = "none" /\ hashed[r] = 0

CrashInv == WriterInv /\ PromiseInv /\ OwnCells /\ ReaderInv /\ ShutInv
-----------------------------------------------------------------------------
(***************************************************************************)
(* The operators.                                                           *)
(***************************************************************************)
\* The cells of a packfile, one by one.
LEMMA WholeCells ==
    ASSUME NEW w \in Writers
    PROVE  /\ Size(w) \in Nat /\ RecordCount[w] \in Nat \ {0}
           /\ Whole(w) \in Seq(Cell) /\ Len(Whole(w)) = Size(w)
           /\ \A k \in 1 .. RecordCount[w] : Whole(w)[k] = Record(w, k)
           /\ Whole(w)[Size(w) - 1] = Index(w) /\ Whole(w)[Size(w)] = Trailer(w)
           /\ Record(w, 1) \in Cell
<1> DEFINE n == RecordCount[w]
<1>1. n \in Nat \ {0} /\ Size(w) \in Nat BY FileAssumption DEF Size
<1>2. \A k \in 1 .. n : Record(w, k) \in Cell BY DEF Cell
<1>3. Index(w) \in Cell /\ Trailer(w) \in Cell BY DEF Cell
<1>4. Records(w) \in Seq(Cell) /\ Len(Records(w)) = n
    BY <1>1, <1>2 DEF Records
<1>5. <<Index(w), Trailer(w)>> \in Seq(Cell) /\ Len(<<Index(w), Trailer(w)>>) = 2
    BY <1>3
<1>6. /\ Whole(w) \in Seq(Cell) /\ Len(Whole(w)) = n + 2
      /\ \A k \in 1 .. n + 2 : Whole(w)[k] = IF k <= n THEN Records(w)[k]
                                             ELSE <<Index(w), Trailer(w)>>[k - n]
    BY <1>4, <1>5, ConcatProperties DEF Whole
<1>7. \A k \in 1 .. n : Whole(w)[k] = Record(w, k)
    <2>1. \A k \in 1 .. n : Records(w)[k] = Record(w, k) BY DEF Records
    <2>2. \A k \in 1 .. n : k \in 1 .. n + 2 /\ k <= n BY <1>1
    <2> QED BY <1>6, <2>1, <2>2
<1>8. Whole(w)[n + 1] = Index(w) /\ Whole(w)[n + 2] = Trailer(w)
    <2>1. /\ n + 1 \in 1 .. n + 2 /\ n + 2 \in 1 .. n + 2 /\ ~(n + 1 <= n) /\ ~(n + 2 <= n)
          /\ (n + 1) - n = 1 /\ (n + 2) - n = 2
        BY <1>1
    <2>2. /\ Whole(w)[n + 1] = <<Index(w), Trailer(w)>>[(n + 1) - n]
          /\ Whole(w)[n + 2] = <<Index(w), Trailer(w)>>[(n + 2) - n]
        BY <1>6, <2>1
    <2> QED BY <2>1, <2>2
<1>9. Size(w) = n + 2 /\ Size(w) - 1 = n + 1 BY <1>1 DEF Size
<1>10. Record(w, 1) \in Cell BY <1>1, <1>2
<1> QED BY <1>1, <1>6, <1>7, <1>8, <1>9, <1>10

LEMMA MaxOfTwo ==
    ASSUME NEW a \in Nat, NEW b \in Nat
    PROVE  Max({a, b}) = IF a >= b THEN a ELSE b
<1> DEFINE m == IF a >= b THEN a ELSE b
<1>1. m \in {a, b} /\ \A y \in {a, b} : m >= y OBVIOUS
<1>2. \A x \in {a, b} : (\A y \in {a, b} : x >= y) => x = m OBVIOUS
<1> QED BY <1>1, <1>2 DEF Max

\* A cell written right behind the others.
LEMMA WriteNext ==
    ASSUME TypeOK, NEW i \in Writers, NEW k \in Nat, k = Len(file[i]) + 1, NEW cell \in Cell,
           WriteCell(i, k, cell)
    PROVE  /\ file' \in [Writers -> Seq(Cell)] /\ sizes' \in [Writers -> SUBSET Nat]
           /\ DOMAIN disk' = Writers
           /\ \A v \in Writers \ {i} : file'[v] = file[v] /\ disk'[v] = disk[v] /\ sizes'[v] = sizes[v]
           /\ Len(file'[i]) = k /\ file'[i][k] = cell
           /\ \A j \in 1 .. k - 1 : file'[i][j] = file[i][j]
           /\ sizes'[i] = sizes[i] \cup {k}
           /\ DOMAIN disk'[i] = DOMAIN disk[i] \cup {k}
           /\ \A j \in DOMAIN disk[i] \ {k} : disk'[i][j] = disk[i][j]
           /\ disk'[i][k] = (IF k \in DOMAIN disk[i] THEN disk[i][k] ELSE {Hole}) \cup {cell}
           /\ disk'[i] \in [DOMAIN disk'[i] -> SUBSET Cell] /\ DOMAIN disk'[i] \subseteq Nat
<1> DEFINE s == file[i]
           t == [j \in 1 .. k |-> IF j = k THEN cell ELSE IF j <= Len(s) THEN s[j] ELSE Hole]
           d == [j \in DOMAIN disk[i] \cup {k} |->
                   IF j = k THEN (IF j \in DOMAIN disk[i] THEN disk[i][j] ELSE {Hole}) \cup {cell}
                   ELSE disk[i][j]]
<1>1. s \in Seq(Cell) /\ Len(s) \in Nat BY DEF TypeOK
<1>2. Max({k, Len(s)}) = k BY <1>1, MaxOfTwo
<1>3. /\ file' = [file EXCEPT ![i] = t] /\ sizes' = [sizes EXCEPT ![i] = @ \cup {k}]
      /\ disk' = [disk EXCEPT ![i] = d]
    BY <1>2 DEF WriteCell
<1>4. \A j \in 1 .. k : t[j] \in Cell BY <1>1, ElementOfSeq
<1>5. t \in Seq(Cell) /\ Len(t) = k
    <2>1. t \in [1 .. k -> Cell] BY <1>4
    <2> HIDE DEF t
    <2> QED BY <2>1
<1>6. file'[i] = t /\ sizes'[i] = sizes[i] \cup {k} /\ disk'[i] = d BY <1>3 DEF TypeOK
<1>7. Hole \in Cell BY DEF Cell
<1>8. d \in [DOMAIN disk[i] \cup {k} -> SUBSET Cell] BY <1>7 DEF TypeOK
<1>9. DOMAIN d = DOMAIN disk[i] \cup {k} OBVIOUS
<1>10. \A j \in 1 .. k - 1 : t[j] = s[j] BY <1>1
<1>11. t[k] = cell OBVIOUS
<1>12. \A v \in Writers \ {i} : file'[v] = file[v] /\ disk'[v] = disk[v] /\ sizes'[v] = sizes[v]
    BY <1>3 DEF TypeOK
<1>13. file' \in [Writers -> Seq(Cell)] /\ sizes' \in [Writers -> SUBSET Nat] /\ DOMAIN disk' = Writers
    BY <1>3, <1>5 DEF TypeOK
<1>14. DOMAIN disk[i] \cup {k} \subseteq Nat BY DEF TypeOK
<1> HIDE DEF t, d
<1> QED BY <1>5, <1>6, <1>8, <1>9, <1>10, <1>11, <1>12, <1>13, <1>14 DEF d

\* A crash leaves a file of which every cell had been written, or is a hole.
LEMMA SurvivorCells ==
    ASSUME TypeOK, NEW i \in Writers, NEW cells \in Survivors(i)
    PROVE  /\ cells \in Seq(Cell) /\ Len(cells) \in sizes[i]
           /\ \A k \in 1 .. Len(cells) : cells[k] \in AtRest(i, k)
<1>1. PICK n \in sizes[i] : /\ cells \in [1 .. n -> UNION {AtRest(i, k) : k \in 1 .. n}]
                            /\ \A k \in 1 .. n : cells[k] \in AtRest(i, k)
    BY DEF Survivors
<1>2. n \in Nat BY <1>1 DEF TypeOK
<1>3. \A k \in 1 .. n : AtRest(i, k) \subseteq Cell BY DEF AtRest, TypeOK, Cell
<1>4. \A k \in 1 .. n : cells[k] \in Cell BY <1>1, <1>3
<1>5. cells = [k \in 1 .. n |-> cells[k]] BY <1>1
<1>6. cells \in Seq(Cell) /\ Len(cells) = n BY <1>2, <1>4, <1>5
<1> QED BY <1>1, <1>6

\* What survives of a file that is durable is the file.
LEMMA DurableSurvives ==
    ASSUME TypeOK, NEW i \in Writers, Durable(i), NEW cells \in Survivors(i)
    PROVE  cells = file[i]
<1>1. cells \in Seq(Cell) /\ Len(cells) = Len(file[i]) BY SurvivorCells DEF Durable
<1>2. file[i] \in Seq(Cell) /\ DOMAIN file[i] = 1 .. Len(file[i]) BY DEF TypeOK
<1>3. \A k \in 1 .. Len(cells) : AtRest(i, k) = {file[i][k]}
    BY <1>1, <1>2 DEF Durable, AtRest
<1>4. \A k \in 1 .. Len(cells) : cells[k] = file[i][k] BY <1>3, SurvivorCells
<1> QED BY <1>1, <1>2, <1>4, SeqEqual
-----------------------------------------------------------------------------
(***************************************************************************)
(* Types.                                                                   *)
(***************************************************************************)
WriterStep(w) == Create(w) \/ Write(w) \/ Sync(w) \/ CloseFile(w) \/ Close(w) \/ Kill(w)
ReaderStep(r) == OpenReader(r) \/ CloseReader(r) \/ Read(r) \/ Verify(r)

LEMMA TypeInit == Init => TypeOK
<1> SUFFICES ASSUME Init PROVE TypeOK OBVIOUS
<1> USE FileAssumption DEF Init, NoCells, NotRead
<1>1. \A i \in Writers : disk[i] \in [DOMAIN disk[i] -> SUBSET Cell] /\ DOMAIN disk[i] = {}
    OBVIOUS
<1>2. file \in [Writers -> Seq(Cell)] OBVIOUS
<1>3. got \in [Readers -> [at : Nat, cell : Cell \cup {None}]] OBVIOUS
<1>4. /\ sizes \in [Writers -> SUBSET Nat] /\ written \in [Writers -> Nat] /\ hashed \in [Readers -> Nat]
      /\ crashes \in 0 .. MaxCrashes
    OBVIOUS
<1>5. /\ fd \in [Writers -> Inode] /\ promised \in [Writers -> Inode]
      /\ open \in [Readers -> Inode] /\ sees \in [Readers -> Inode] /\ names \subseteq Inode
    BY DEF Inode
<1> QED BY <1>1, <1>2, <1>3, <1>4, <1>5 DEF TypeOK

\* What a program writes next, whole or torn.
LEMMA WriteCells ==
    ASSUME TypeOK, WriterInv, NEW w \in Writers, Write(w)
    PROVE  LET k == written[w] + 1
           IN /\ name \in Writers /\ fd[w] = name /\ promised[name] = None /\ pc[w] = "writing"
              /\ k \in 1 .. Size(w) /\ k = Len(file[name]) + 1 /\ Whole(w)[k] \in Cell /\ Hole \in Cell
              /\ \/ /\ WriteCell(name, k, Whole(w)[k]) /\ written' = [written EXCEPT ![w] = k]
                    /\ pc' = [pc EXCEPT ![w] = IF k = Size(w) THEN "syncing" ELSE "writing"]
                 \/ /\ WriteCell(name, k, Hole)
                    /\ pc' = [pc EXCEPT ![w] = "failed"] /\ UNCHANGED written
                 \/ pc' = [pc EXCEPT ![w] = "failed"] /\ UNCHANGED <<file, disk, sizes, written>>
<1>1. pc[w] = "writing" /\ Running(w) BY DEF Write, Running
<1>2. name \in Writers /\ fd[w] = name /\ promised[name] = None
    BY <1>1 DEF WriterInv, WriterOK, TypeOK, Inode
<1>3. written[w] \in Nat /\ Len(file[name]) = written[w] /\ written[w] < Size(w)
    BY <1>1, <1>2 DEF WriterInv, WriterOK, TypeOK
<1>4. Whole(w)[written[w] + 1] \in Cell /\ Len(Whole(w)) = Size(w) /\ Size(w) \in Nat
    BY <1>3, WholeCells, ElementOfSeq
<1> QED BY <1>1, <1>2, <1>3, <1>4 DEF Write, Goto, Cell

LEMMA TypeWriter ==
    ASSUME TypeOK, WriterInv, NEW w \in Writers, WriterStep(w)
    PROVE  TypeOK'
<1>1. CASE Create(w)
    <2>1. \A i \in Writers : disk'[i] \in [DOMAIN disk'[i] -> SUBSET Cell] /\ DOMAIN disk'[i] \subseteq Nat
        <3>1. disk' = disk BY <1>1 DEF Create, fileVars
        <3> QED BY <3>1 DEF TypeOK
    <2>2. file' \in [Writers -> Seq(Cell)]
        <3>1. file' = file \/ file' = [file EXCEPT ![name] = <<>>] BY <1>1 DEF Create, fileVars
        <3>2. file \in [Writers -> Seq(Cell)] /\ <<>> \in Seq(Cell) BY DEF TypeOK
        <3> QED BY <3>1, <3>2
    <2>3. sizes' \in [Writers -> SUBSET Nat] /\ DOMAIN disk' = Writers
        BY <1>1 DEF Create, TypeOK, fileVars
    <2>4. /\ name' \in names' /\ names' \subseteq Inode
        BY <1>1 DEF Create, TypeOK, MayName, Inode, dirVars
    <2>5. /\ fd' \in [Writers -> Inode] /\ promised' \in [Writers -> Inode]
          /\ pc' \in [Writers -> {"new", "writing", "syncing", "closing", "failed", "finished",
                                  "closed", "killed"}]
        <3>1. /\ fd' = fd \/ fd' = [fd EXCEPT ![w] = w] \/ (name # None /\ fd' = [fd EXCEPT ![w] = name])
              /\ promised' = promised \/ promised' = [promised EXCEPT ![name] = None]
              /\ \E a \in {"writing", "closed"} : pc' = [pc EXCEPT ![w] = a]
            BY <1>1 DEF Create, Goto, fileVars
        <3>2. /\ fd \in [Writers -> Inode] /\ promised \in [Writers -> Inode]
              /\ w \in Inode /\ None \in Inode /\ name \in Inode
            BY DEF TypeOK, Inode
        <3>3. pc' \in [Writers -> {"new", "writing", "syncing", "closing", "failed", "finished",
                                   "closed", "killed"}]
            BY <3>1 DEF TypeOK
        <3> QED BY <3>1, <3>2, <3>3
    <2> QED BY <1>1, <2>1, <2>2, <2>3, <2>4, <2>5 DEF Create, TypeOK, readerVars
<1>2. CASE Write(w)
    <2> DEFINE k == written[w] + 1
    <2>1. /\ name \in Writers /\ k \in Nat /\ k = Len(file[name]) + 1
          /\ Whole(w)[k] \in Cell /\ Hole \in Cell
          /\ \/ \E cell \in Cell : WriteCell(name, k, cell)
             \/ UNCHANGED <<file, disk, sizes>>
          /\ written' = [written EXCEPT ![w] = k] \/ written' = written
          /\ \E a \in {"writing", "syncing", "failed"} : pc' = [pc EXCEPT ![w] = a]
        BY <1>2, WriteCells
    <2>2. /\ file' \in [Writers -> Seq(Cell)] /\ sizes' \in [Writers -> SUBSET Nat]
          /\ DOMAIN disk' = Writers
          /\ \A i \in Writers : disk'[i] \in [DOMAIN disk'[i] -> SUBSET Cell] /\ DOMAIN disk'[i] \subseteq Nat
        <3>1. CASE UNCHANGED <<file, disk, sizes>> BY <3>1 DEF TypeOK
        <3>2. ASSUME NEW cell \in Cell, WriteCell(name, k, cell)
              PROVE  /\ file' \in [Writers -> Seq(Cell)] /\ sizes' \in [Writers -> SUBSET Nat]
                     /\ DOMAIN disk' = Writers
                     /\ \A i \in Writers : /\ disk'[i] \in [DOMAIN disk'[i] -> SUBSET Cell]
                                           /\ DOMAIN disk'[i] \subseteq Nat
            <4>1. /\ file' \in [Writers -> Seq(Cell)] /\ sizes' \in [Writers -> SUBSET Nat]
                  /\ DOMAIN disk' = Writers
                  /\ disk'[name] \in [DOMAIN disk'[name] -> SUBSET Cell] /\ DOMAIN disk'[name] \subseteq Nat
                  /\ \A v \in Writers \ {name} : disk'[v] = disk[v]
                BY <2>1, <3>2, WriteNext
            <4>2. \A i \in Writers : disk[i] \in [DOMAIN disk[i] -> SUBSET Cell] /\ DOMAIN disk[i] \subseteq Nat
                BY DEF TypeOK
            <4> QED BY <4>1, <4>2
        <3> HIDE DEF k
        <3> QED BY <2>1, <3>1, <3>2
    <2>3. /\ written' \in [Writers -> Nat]
          /\ pc' \in [Writers -> {"new", "writing", "syncing", "closing", "failed", "finished",
                                  "closed", "killed"}]
        <3>1. written \in [Writers -> Nat] BY DEF TypeOK
        <3>2. written' \in [Writers -> Nat] BY <2>1, <3>1
        <3>3. pc' \in [Writers -> {"new", "writing", "syncing", "closing", "failed", "finished",
                                   "closed", "killed"}]
            BY <2>1 DEF TypeOK
        <3> QED BY <3>2, <3>3
    <2> QED BY <1>2, <2>2, <2>3 DEF Write, TypeOK, dirVars, readerVars
<1>3. CASE Sync(w)
    <2>1. fd[w] \in Writers BY <1>3 DEF WriterInv, WriterOK, Sync, Running, TypeOK, Inode
    <2>2. \A i \in Writers : disk'[i] \in [DOMAIN disk'[i] -> SUBSET Cell] /\ DOMAIN disk'[i] \subseteq Nat
        <3>1. SUFFICES ASSUME SyncFile(fd[w])
                       PROVE  \A i \in Writers : /\ disk'[i] \in [DOMAIN disk'[i] -> SUBSET Cell]
                                                 /\ DOMAIN disk'[i] \subseteq Nat
            BY <1>3 DEF Sync, TypeOK
        <3> DEFINE s == file[fd[w]]
        <3>2. s \in Seq(Cell) BY <2>1 DEF TypeOK
        <3>3. [k \in DOMAIN s |-> {s[k]}] \in [DOMAIN s -> SUBSET Cell] /\ DOMAIN s \subseteq Nat
            BY <3>2
        <3>4. disk' = [disk EXCEPT ![fd[w]] = [k \in DOMAIN s |-> {s[k]}]] BY <3>1 DEF SyncFile
        <3> QED BY <2>1, <3>3, <3>4 DEF TypeOK
    <2>3. sizes' \in [Writers -> SUBSET Nat] /\ DOMAIN disk' = Writers
        BY <1>3, <2>1 DEF Sync, SyncFile, TypeOK
    <2> QED BY <1>3, <2>2, <2>3 DEF Sync, TypeOK, Goto, dirVars, readerVars
<1>4. CASE CloseFile(w)
    <2>1. promised' \in [Writers -> Inode]
        <3>1. promised' = promised \/ promised' = [promised EXCEPT ![fd[w]] = w]
            BY <1>4 DEF CloseFile
        <3>2. promised \in [Writers -> Inode] /\ w \in Inode BY DEF TypeOK, Inode
        <3> QED BY <3>1, <3>2
    <2>2. pc' \in [Writers -> {"new", "writing", "syncing", "closing", "failed", "finished",
                               "closed", "killed"}]
        BY <1>4 DEF CloseFile, TypeOK, Goto
    <2> QED BY <1>4, <2>1, <2>2 DEF CloseFile, TypeOK, dirVars, readerVars
<1>5. CASE Close(w)
    BY <1>5 DEF Close, TypeOK, Goto, MayName, Inode, fileVars, readerVars
<1>6. CASE Kill(w)
    BY <1>6 DEF Kill, TypeOK, dirVars, fileVars, readerVars
<1> QED BY <1>1, <1>2, <1>3, <1>4, <1>5, <1>6 DEF WriterStep

LEMMA TypeReader ==
    ASSUME TypeOK, NEW r \in Readers, ReaderStep(r)
    PROVE  TypeOK'
<1>1. UNCHANGED <<dirVars, fileVars, writerVars, crashes>>
    BY DEF ReaderStep, OpenReader, CloseReader, Read, Verify
<1>2. /\ open' \in [Readers -> Inode] /\ sees' \in [Readers -> Inode]
      /\ \A q \in Readers : open'[q] = None <=> sees'[q] = None
    <2>1. CASE OpenReader(r)
        <3>1. name \in Writers /\ file[name] \in Seq(Cell) /\ Len(file[name]) \in Nat
            BY <2>1 DEF OpenReader, TypeOK, Inode
        <3>2. Last(file[name]) \in Cell /\ Last(file[name]) # Hole
            BY <2>1, <3>1, ElementOfSeq DEF OpenReader, IsPackfile, Last
        <3>3. Last(file[name]).by \in Writers
            <4>1. PICK v \in Writers :
                     Last(file[name]) \in {Record(v, k) : k \in 1 .. RecordCount[v]} \cup {Index(v), Trailer(v)}
                BY <3>2 DEF Cell
            <4>2. \A k : Record(v, k).by = v BY DEF Record
            <4>3. Index(v).by = v /\ Trailer(v).by = v BY DEF Index, Trailer
            <4> QED BY <4>1, <4>2, <4>3
        <3> QED BY <2>1, <3>1, <3>3, FileAssumption DEF OpenReader, TypeOK, Inode
    <2>2. CASE CloseReader(r)
        BY <2>2 DEF CloseReader, Shut, TypeOK, Inode
    <2> QED BY <2>1, <2>2 DEF ReaderStep, Read, Verify, TypeOK
<1>3. got' \in [Readers -> [at : Nat, cell : Cell \cup {None}]]
    <2>1. CASE Read(r)
        <3>. sees[r] \in Writers BY <2>1 DEF Read, TypeOK, Inode
        <3>1. PICK k \in 1 .. RecordCount[sees[r]] :
                 got' = [got EXCEPT ![r] = IF Decodes(r, CellAt(r, k))
                                           THEN [at |-> k, cell |-> CellAt(r, k)] ELSE NotRead]
            BY <2>1 DEF Read
        <3>2. open[r] \in Writers /\ k \in Nat
            BY <2>1, FileAssumption DEF Read, TypeOK, Inode
        <3>3. CellAt(r, k) \in Cell
            <4>1. file[open[r]] \in Seq(Cell) BY <3>2 DEF TypeOK
            <4>2. k \in DOMAIN file[open[r]] => file[open[r]][k] \in Cell
                BY <4>1, ElementOfSeq
            <4>3. Hole \in Cell BY DEF Cell
            <4> QED BY <4>2, <4>3 DEF CellAt
        <3> QED BY <3>1, <3>2, <3>3 DEF NotRead, TypeOK
    <2>2. CASE CloseReader(r) BY <2>2 DEF CloseReader, Shut, NotRead, TypeOK
    <2> QED BY <2>1, <2>2 DEF ReaderStep, OpenReader, Verify, TypeOK, Read
<1>4. hashed' \in [Readers -> Nat] /\ verdict' \in [Readers -> {"none", "nil", "err"}]
    <2>1. hashed \in [Readers -> Nat] /\ verdict \in [Readers -> {"none", "nil", "err"}] BY DEF TypeOK
    <2>2. CASE OpenReader(r) \/ Read(r) BY <2>1, <2>2 DEF OpenReader, Read
    <2>3. CASE CloseReader(r) BY <2>1, <2>3 DEF CloseReader, Shut
    <2>4. CASE Verify(r)
        <3>1. /\ \E n \in {0, hashed[r] + 1} : hashed' = [hashed EXCEPT ![r] = n]
              /\ \E v \in {verdict[r], "nil", "err"} : verdict' = [verdict EXCEPT ![r] = v]
            BY <2>4 DEF Verify
        <3> QED BY <2>1, <3>1
    <2> QED BY <2>2, <2>3, <2>4 DEF ReaderStep
<1> QED BY <1>1, <1>2, <1>3, <1>4 DEF TypeOK, dirVars, fileVars, writerVars

LEMMA TypeCrash ==
    ASSUME TypeOK, Crash
    PROVE  TypeOK'
<1>1. name' \in names /\ names' = {name'} /\ crashes' = crashes + 1 /\ crashes < MaxCrashes
    BY DEF Crash
<1>2. PICK cells \in IF name' = None THEN {<<>>} ELSE Survivors(name') :
          /\ file' = [i \in Writers |-> IF i = name' THEN cells ELSE <<>>]
          /\ disk' = [i \in Writers |-> [k \in DOMAIN file'[i] |-> {file'[i][k]}]]
          /\ sizes' = [i \in Writers |-> {Len(file'[i])}]
    BY DEF Crash
<1>3. cells \in Seq(Cell)
    <2>1. name' = None \/ name' \in Writers BY <1>1 DEF TypeOK, Inode
    <2>2. CASE name' = None
        <3>1. cells = <<>> BY <1>2, <2>2
        <3> QED BY <3>1
    <2>3. CASE name' # None BY <1>2, <2>1, <2>3, SurvivorCells
    <2> QED BY <2>2, <2>3
<1>4. file' \in [Writers -> Seq(Cell)] BY <1>2, <1>3
<1>5. \A i \in Writers : disk'[i] \in [DOMAIN disk'[i] -> SUBSET Cell] /\ DOMAIN disk'[i] \subseteq Nat
    <2> SUFFICES ASSUME NEW i \in Writers
                 PROVE  disk'[i] \in [DOMAIN disk'[i] -> SUBSET Cell] /\ DOMAIN disk'[i] \subseteq Nat
        OBVIOUS
    <2> DEFINE s == file'[i]
    <2>1. s \in Seq(Cell) /\ disk'[i] = [k \in DOMAIN s |-> {s[k]}] BY <1>2, <1>4
    <2> HIDE DEF s
    <2>2. [k \in DOMAIN s |-> {s[k]}] \in [DOMAIN s -> SUBSET Cell] /\ DOMAIN s \subseteq Nat BY <2>1
    <2> QED BY <2>1, <2>2
<1>6. sizes' \in [Writers -> SUBSET Nat] /\ DOMAIN disk' = Writers BY <1>2, <1>4
<1>7. /\ open' \in [Readers -> Inode] /\ sees' \in [Readers -> Inode]
      /\ \A r \in Readers : open'[r] = None <=> sees'[r] = None
      /\ got' \in [Readers -> [at : Nat, cell : Cell \cup {None}]]
      /\ hashed' \in [Readers -> Nat] /\ verdict' \in [Readers -> {"none", "nil", "err"}]
    BY DEF Crash, NotRead, Inode
<1>8. pc' \in [Writers -> {"new", "writing", "syncing", "closing", "failed", "finished", "closed",
                          "killed"}]
    BY DEF Crash, TypeOK
<1>9. /\ names' \subseteq Inode /\ name' \in names' /\ crashes' \in 0 .. MaxCrashes
      /\ UNCHANGED <<promised, fd, written>>
    BY <1>1, FileAssumption DEF TypeOK, Crash
<1> QED BY <1>4, <1>5, <1>6, <1>7, <1>8, <1>9 DEF TypeOK
-----------------------------------------------------------------------------
(***************************************************************************)
(* The invariant, action by action.                                         *)
(***************************************************************************)
LEMMA CrashInvInit == Init => CrashInv
<1> SUFFICES ASSUME Init PROVE CrashInv OBVIOUS
<1> USE FileAssumption DEF Init
<1>1. WriterInv BY DEF WriterInv, WriterOK, Unmade, Running
<1>2. PromiseInv BY DEF PromiseInv
<1>3. OwnCells
    <2>1. \A i \in Writers : DOMAIN file[i] = {} /\ DOMAIN disk[i] = {} /\ sizes[i] = {0}
        BY DEF NoCells
    <2>2. \A i \in Writers : 0 <= Size(i) BY WholeCells
    <2> QED BY <2>1, <2>2 DEF OwnCells
<1>4. ReaderInv BY DEF ReaderInv, ReadsRight
<1>5. ShutInv BY DEF ShutInv, NotRead
<1> QED BY <1>1, <1>2, <1>3, <1>4, <1>5 DEF CrashInv

\* A program that writes is alone, at the file the path names.
LEMMA RunningAlone ==
    ASSUME TypeOK, WriterInv, NEW w \in Writers, Running(w)
    PROVE  /\ name \in Writers /\ fd[w] = name /\ promised[name] = None
           /\ \A v \in Writers : Running(v) => v = w
BY DEF WriterInv, WriterOK, TypeOK, Inode

\* Readers go on when a step leaves alone the files that no program has opened to
\* overwrite, once their writers have written them.
LEMMA ReadersUndisturbed ==
    ASSUME TypeOK, ReaderInv, UNCHANGED readerVars,
           \A i \in Writers : ~Replaced(i)' => ~Replaced(i),
           \A i \in Writers : ~Replaced(i)' /\ pc[i] \notin {"new", "writing"} =>
              file'[i] = file[i] /\ pc'[i] \notin {"new", "writing"}
    PROVE  ReaderInv'
<1> SUFFICES ASSUME NEW r \in Readers, open'[r] # None, ~Replaced(open[r])' PROVE ReadsRight(r)'
    BY DEF ReaderInv
<1>1. open[r] \in Writers /\ open' = open BY DEF TypeOK, Inode, readerVars
<1>2. ~Replaced(open[r]) /\ (\A i \in Writers : i = open[r] => ~Replaced(i)') BY <1>1
<1>3. ReadsRight(r) BY <1>1, <1>2 DEF ReaderInv
<1>4. file'[open[r]] = file[open[r]] /\ pc'[open[r]] \notin {"new", "writing"}
    BY <1>1, <1>2, <1>3 DEF ReadsRight
<1> QED BY <1>3, <1>4 DEF ReadsRight, Checks, readerVars

\* A program that does not write promises nothing for a while.
LEMMA Idle ==
    ASSUME NEW v \in Writers, pc'[v] = "new" => Unmade(v)', ~Running(v)'
    PROVE  WriterOK(v)'
BY DEF WriterOK, Running

\* What was promised stays when a step leaves the names alone, and the files.
LEMMA PromisesUndisturbed ==
    ASSUME PromiseInv, UNCHANGED <<name, names, crashes>>,
           \A i \in Writers : promised'[i] # None =>
              /\ promised'[i] = promised[i] /\ file'[i] = file[i]
              /\ disk'[i] = disk[i] /\ sizes'[i] = sizes[i]
    PROVE  PromiseInv'
BY DEF PromiseInv, Durable

LEMMA CreateKeeps ==
    ASSUME TypeOK, CrashInv, NEW w \in Writers, Create(w)
    PROVE  CrashInv'
<1> USE DEF CrashInv
<1>1. pc[w] = "new" /\ Unmade(w) /\ w # None BY FileAssumption DEF Create, WriterInv, WriterOK
<1>2. UNCHANGED <<written, readerVars, crashes>> BY DEF Create
<1>3. CASE name = None
    <2>1. /\ name' = w /\ names' = names \cup {w} /\ pc' = [pc EXCEPT ![w] = "writing"]
          /\ fd' = [fd EXCEPT ![w] = w] /\ UNCHANGED fileVars
        BY <1>3 DEF Create, MayName, Goto
    <2>2. \A v \in Writers : ~Running(v) BY <1>3 DEF WriterInv, WriterOK
    <2>3. \A v \in Writers \ {w} : fd'[v] = fd[v] /\ pc'[v] = pc[v] /\ (Running(v)' <=> Running(v))
        BY <2>1 DEF TypeOK, Running
    <2>4. fd'[w] = w /\ pc'[w] = "writing" /\ Running(w)' BY <2>1 DEF TypeOK, Running
    <2>5. \A i \in Writers : Replaced(i)' <=> Replaced(i)
        <3>1. \A i \in Writers : fd[w] # i BY <1>1, FileAssumption DEF Unmade
        <3> QED BY <2>3, <2>4, <3>1 DEF Replaced
    <2>6. WriterInv'
        <3>1. WriterOK(w)'
            <4>1. 0 < Size(w) /\ 0 <= Size(w) BY WholeCells DEF Size
            <4>2. /\ written'[w] = 0 /\ Len(file'[w]) = 0 /\ promised'[w] = None /\ name' = w /\ w # None
                  /\ \A v \in Writers : Running(v)' => v = w
                BY <1>1, <1>2, <2>1, <2>2, <2>3 DEF Unmade, fileVars
            <4> QED BY <2>4, <4>1, <4>2 DEF WriterOK
        <3>2. ASSUME NEW v \in Writers \ {w}, pc'[v] = "new" PROVE Unmade(v)'
            <4>1. Unmade(v) BY <2>3, <3>2 DEF WriterInv, WriterOK
            <4> QED BY <1>2, <2>1, <2>3, <2>4, <3>2, <4>1 DEF Unmade, fileVars
        <3>3. ASSUME NEW v \in Writers \ {w} PROVE WriterOK(v)' BY <2>2, <2>3, <3>2, Idle
        <3> QED BY <3>1, <3>3 DEF WriterInv
    <2>7. PromiseInv'
        <3>1. \A i \in Writers : promised[i] # None => i # w /\ i # None
            BY <1>1, FileAssumption DEF Unmade
        <3> QED BY <1>2, <1>3, <2>1, <3>1 DEF PromiseInv, Durable, fileVars
    <2>8. OwnCells' BY <2>1, <2>5 DEF OwnCells, fileVars
    <2>9. ReaderInv'
        <3>1. \A i \in Writers : pc[i] \notin {"new", "writing"} => i # w BY <1>1
        <3> QED BY <1>2, <2>1, <2>3, <2>5, <3>1, ReadersUndisturbed DEF fileVars
    <2>10. ShutInv' BY <1>2 DEF ShutInv, readerVars
    <2> QED BY <2>6, <2>7, <2>8, <2>9, <2>10
<1>4. CASE name # None /\ MayReplace(w)
    <2>1. /\ pc' = [pc EXCEPT ![w] = "writing"] /\ fd' = [fd EXCEPT ![w] = name]
          /\ file' = [file EXCEPT ![name] = <<>>] /\ sizes' = [sizes EXCEPT ![name] = @ \cup {0}]
          /\ promised' = [promised EXCEPT ![name] = None] /\ UNCHANGED <<dirVars, disk>>
          /\ name \in Writers /\ name # w
        BY <1>1, <1>4 DEF Create, Goto, TypeOK, Inode, Unmade
    <2>2. \A v \in Writers : ~Running(v) BY <1>4 DEF Create, MayReplace
    <2>3. \A v \in Writers \ {w} : fd'[v] = fd[v] /\ pc'[v] = pc[v] /\ (Running(v)' <=> Running(v))
        BY <2>1 DEF TypeOK, Running
    <2>4. fd'[w] = name /\ pc'[w] = "writing" /\ Running(w)' BY <2>1 DEF TypeOK, Running
    <2>5. /\ \A i \in Writers : i = name => Replaced(i)'
          /\ \A i \in Writers : i # name => (Replaced(i)' <=> Replaced(i))
        <3>1. \A i \in Writers : fd[w] # i BY <1>1, FileAssumption DEF Unmade
        <3>2. \A i \in Writers : i = name => Replaced(i)' BY <2>1, <2>4 DEF Replaced
        <3>3. \A i \in Writers : i # name => (Replaced(i)' <=> Replaced(i))
            BY <2>3, <2>4, <3>1 DEF Replaced
        <3> QED BY <3>2, <3>3
    <2>6. /\ file'[name] = <<>> /\ promised'[name] = None
          /\ \A i \in Writers : i # name => /\ file'[i] = file[i] /\ sizes'[i] = sizes[i]
                                            /\ promised'[i] = promised[i]
          /\ disk' = disk /\ name' = name /\ names' = names
        BY <2>1 DEF TypeOK, dirVars
    <2>7. WriterInv'
        <3>1. WriterOK(w)'
            <4>1. 0 < Size(w) /\ 0 <= Size(w) BY WholeCells DEF Size
            <4>2. /\ written'[w] = 0 /\ Len(file'[name]) = 0 /\ promised'[name] = None
                  /\ name' = name /\ name # None
                  /\ \A v \in Writers : Running(v)' => v = w
                BY <1>1, <1>2, <1>4, <2>2, <2>3, <2>6 DEF Unmade
            <4> QED BY <2>4, <4>1, <4>2 DEF WriterOK
        <3>2. ASSUME NEW v \in Writers \ {w}, pc'[v] = "new" PROVE Unmade(v)'
            <4>1. Unmade(v) BY <2>3, <3>2 DEF WriterInv, WriterOK
            <4>2. v # name /\ name \in names BY <4>1 DEF Unmade, TypeOK
            <4> QED BY <1>2, <2>3, <2>4, <2>6, <3>2, <4>1, <4>2 DEF Unmade
        <3>3. ASSUME NEW v \in Writers \ {w} PROVE WriterOK(v)' BY <2>2, <2>3, <3>2, Idle
        <3> QED BY <3>1, <3>3 DEF WriterInv
    <2>8. PromiseInv' BY <1>2, <2>6 DEF PromiseInv, Durable
    <2>9. OwnCells' BY <2>5, <2>6 DEF OwnCells
    <2>10. ReaderInv'
        <3>1. \A i \in Writers : ~Replaced(i)' => i # name /\ ~Replaced(i) BY <2>5
        <3>2. \A i \in Writers : pc[i] \notin {"new", "writing"} => i # w BY <1>1
        <3> QED BY <1>2, <2>3, <2>6, <3>1, <3>2, ReadersUndisturbed
    <2>11. ShutInv' BY <1>2 DEF ShutInv, readerVars
    <2> QED BY <2>7, <2>8, <2>9, <2>10, <2>11
<1>5. CASE name # None /\ ~MayReplace(w)
    <2>1. pc' = [pc EXCEPT ![w] = "closed"] /\ UNCHANGED <<dirVars, fileVars, fd>>
        BY <1>5 DEF Create, Goto
    <2>2. /\ \A v \in Writers \ {w} : pc'[v] = pc[v] /\ (Running(v)' <=> Running(v))
          /\ pc'[w] = "closed" /\ ~Running(w)'
        BY <2>1 DEF TypeOK, Running
    <2>3. \A i \in Writers : Replaced(i)' <=> Replaced(i) BY <2>1 DEF Replaced
    <2>4. WriterInv'
        <3>1. ASSUME NEW v \in Writers \ {w} PROVE WriterOK(v)'
            <4>1. WriterOK(v) BY DEF WriterInv
            <4>2. Unmade(v) => Unmade(v)' BY <1>2, <2>1 DEF Unmade, dirVars, fileVars
            <4>3. /\ pc'[v] = pc[v] /\ (Running(v)' <=> Running(v)) /\ (Durable(fd[v])' <=> Durable(fd[v]))
                  /\ \A u \in Writers : Running(u)' => Running(u)
                BY <2>1, <2>2 DEF Durable, fileVars
            <4> QED BY <1>2, <2>1, <4>1, <4>2, <4>3 DEF WriterOK, dirVars, fileVars
        <3>2. WriterOK(w)' BY <2>2, Idle
        <3> QED BY <3>1, <3>2 DEF WriterInv
    <2>5. PromiseInv' BY <1>2, <2>1 DEF PromiseInv, Durable, dirVars, fileVars
    <2>6. OwnCells' BY <2>1, <2>3 DEF OwnCells, fileVars
    <2>7. ReaderInv' BY <1>2, <2>1, <2>2, <2>3, ReadersUndisturbed DEF fileVars
    <2>8. ShutInv' BY <1>2 DEF ShutInv, readerVars
    <2> QED BY <2>4, <2>5, <2>6, <2>7, <2>8
<1> QED BY <1>3, <1>4, <1>5 DEF Create
\* Steps of a program that change where it stands and nothing about any file or name.
LEMMA GiveUpKeeps ==
    ASSUME TypeOK, CrashInv, NEW w \in Writers, Running(w),
           pc' = [pc EXCEPT ![w] = "failed"] \/ pc' = [pc EXCEPT ![w] = "killed"],
           UNCHANGED <<dirVars, fileVars, fd, written, readerVars, crashes>>
    PROVE  CrashInv'
<1> USE DEF CrashInv
<1>1. /\ \A v \in Writers \ {w} : pc'[v] = pc[v] /\ (Running(v)' <=> Running(v))
      /\ pc[w] # "new" /\ pc'[w] \in {"failed", "killed"}
    BY DEF TypeOK, Running
<1>2. \A i \in Writers : Replaced(i)' <=> Replaced(i) BY DEF Replaced
<1>3. WriterInv'
    <2> SUFFICES ASSUME NEW v \in Writers
                 PROVE  /\ pc'[v] = "new" => Unmade(v)'
                        /\ Running(v)' => name # None /\ fd[v] = name /\ promised[name] = None
                        /\ Running(v)' => \A u \in Writers : Running(u)' => u = v
        BY <1>1 DEF WriterInv, WriterOK, Durable, dirVars, fileVars
    <2>1. pc'[v] = "new" => Unmade(v)' BY <1>1 DEF WriterInv, WriterOK, Unmade, dirVars, fileVars
    <2>2. Running(v)' => Running(v) /\ v = w BY <1>1, RunningAlone
    <2> QED BY <1>1, <2>1, <2>2 DEF WriterInv, WriterOK
<1>4. PromiseInv' BY DEF PromiseInv, Durable, dirVars, fileVars
<1>5. OwnCells' BY <1>2 DEF OwnCells, fileVars
<1>6. ReaderInv' BY <1>1, <1>2, ReadersUndisturbed DEF fileVars
<1>7. ShutInv' BY DEF ShutInv, readerVars
<1> QED BY <1>3, <1>4, <1>5, <1>6, <1>7

LEMMA WriteKeeps ==
    ASSUME TypeOK, CrashInv, NEW w \in Writers, Write(w)
    PROVE  CrashInv'
<1> USE DEF CrashInv
<1> DEFINE k == written[w] + 1
<1>1. /\ name \in Writers /\ fd[w] = name /\ promised[name] = None /\ pc[w] = "writing" /\ Running(w)
      /\ \A v \in Writers : Running(v) => v = w
      /\ k \in 1 .. Size(w) /\ k = Len(file[name]) + 1 /\ Whole(w)[k] \in Cell /\ Hole \in Cell
      /\ written[w] \in Nat /\ Size(w) \in Nat /\ k \in Nat
    <2>1. pc[w] = "writing" /\ Running(w) BY DEF Write, Running
    <2>2. written[w] \in Nat /\ Size(w) \in Nat BY WholeCells DEF TypeOK
    <2> QED BY <2>1, <2>2, WriteCells, RunningAlone
<1>2. UNCHANGED <<dirVars, promised, fd, readerVars, crashes>> BY DEF Write
<1>3. CASE pc' = [pc EXCEPT ![w] = "failed"] /\ UNCHANGED <<file, disk, sizes, written>>
    BY <1>1, <1>2, <1>3, GiveUpKeeps DEF fileVars
<1>4. ASSUME NEW cell \in {Whole(w)[k], Hole}, WriteCell(name, k, cell),
             \/ /\ cell = Whole(w)[k] /\ written' = [written EXCEPT ![w] = k]
                /\ pc' = [pc EXCEPT ![w] = IF k = Size(w) THEN "syncing" ELSE "writing"]
             \/ pc' = [pc EXCEPT ![w] = "failed"] /\ UNCHANGED written
      PROVE  CrashInv'
    <2>1. /\ \A v \in Writers \ {w} : pc'[v] = pc[v] /\ written'[v] = written[v]
                                      /\ (Running(v)' <=> Running(v))
          /\ \/ /\ pc'[w] = "failed" /\ written'[w] = written[w]
             \/ /\ pc'[w] = (IF k = Size(w) THEN "syncing" ELSE "writing") /\ written'[w] = k
                /\ cell = Whole(w)[k]
        BY <1>4 DEF TypeOK, Running
    <2>2. \A i \in Writers : Replaced(i)' <=> Replaced(i) BY <1>2 DEF Replaced
    <2>3. /\ \A i \in Writers \ {name} : file'[i] = file[i] /\ disk'[i] = disk[i] /\ sizes'[i] = sizes[i]
          /\ file'[name] \in Seq(Cell) /\ Len(file'[name]) = k /\ file'[name][k] = cell
          /\ \A j \in 1 .. k - 1 : file'[name][j] = file[name][j]
          /\ sizes'[name] = sizes[name] \cup {k}
          /\ DOMAIN disk'[name] = DOMAIN disk[name] \cup {k}
          /\ \A j \in DOMAIN disk[name] \ {k} : disk'[name][j] = disk[name][j]
          /\ disk'[name][k] = (IF k \in DOMAIN disk[name] THEN disk[name][k] ELSE {Hole}) \cup {cell}
        BY <1>1, <1>4, WriteNext
    <2>4. WriterInv'
        <3> SUFFICES ASSUME NEW v \in Writers
                     PROVE  /\ pc'[v] = "new" => Unmade(v)'
                            /\ v # w => ~Running(v)'
                            /\ v = w /\ pc'[v] # "failed" =>
                                  /\ written'[w] = k /\ Len(file'[name]) = k
                                  /\ \A j \in 1 .. k : file'[name][j] = Whole(w)[j]
            BY <1>1, <1>2, <2>1 DEF WriterInv, WriterOK, Running, dirVars
        <3>1. pc'[v] = "new" => Unmade(v)'
            <4> SUFFICES ASSUME pc'[v] = "new" PROVE Unmade(v)' OBVIOUS
            <4>1. v # w /\ pc[v] = "new" BY <2>1
            <4>2. Unmade(v) /\ v # name BY <1>1, <4>1 DEF WriterInv, WriterOK, Unmade
            <4> QED BY <1>2, <2>1, <2>3, <4>1, <4>2 DEF Unmade, dirVars
        <3>2. \A j \in 1 .. k - 1 : file[name][j] = Whole(w)[j] BY <1>1 DEF WriterInv, WriterOK
        <3>3. v = w /\ pc'[v] # "failed" => \A j \in 1 .. k : file'[name][j] = Whole(w)[j]
            BY <1>1, <2>1, <2>3, <3>2
        <3> QED BY <1>1, <2>1, <2>3, <3>1, <3>3
    <2>5. PromiseInv' BY <1>1, <1>2, <2>3, PromisesUndisturbed DEF dirVars
    <2>6. OwnCells'
        <3> SUFFICES ASSUME NEW i \in Writers, ~Replaced(i)
                     PROVE  /\ \A j \in DOMAIN file'[i] : j <= Size(i) /\ file'[i][j] \in {Hole, Whole(i)[j]}
                            /\ \A j \in DOMAIN disk'[i] :
                                  j <= Size(i) /\ disk'[i][j] \subseteq {Hole, Whole(i)[j]}
                            /\ \A n \in sizes'[i] : n <= Size(i)
            BY <2>2 DEF OwnCells
        <3>1. CASE i # name BY <2>3, <3>1 DEF OwnCells
        <3>2. CASE i = name
            <4>1. i = w BY <1>1, <3>2 DEF Replaced
            <4>2. DOMAIN file'[i] = 1 .. k /\ DOMAIN file[i] = 1 .. k - 1
                BY <1>1, <2>3, <3>2 DEF TypeOK
            <4>3. ASSUME NEW j \in DOMAIN file'[i]
                  PROVE  j <= Size(i) /\ file'[i][j] \in {Hole, Whole(i)[j]}
                <5>1. j \in 1 .. k /\ j <= Size(i) BY <1>1, <4>1, <4>2
                <5>2. CASE j = k BY <2>3, <3>2, <4>1, <5>1, <5>2
                <5>3. CASE j # k
                    <6>1. j \in 1 .. k - 1 BY <1>1, <5>1, <5>3
                    <6>2. file'[i][j] = file[i][j] /\ j \in DOMAIN file[i] BY <2>3, <3>2, <4>2, <6>1
                    <6> QED BY <5>1, <6>2 DEF OwnCells
                <5> QED BY <5>2, <5>3
            <4>4. \A j \in DOMAIN disk'[i] : j <= Size(i) /\ disk'[i][j] \subseteq {Hole, Whole(i)[j]}
                BY <1>1, <2>3, <3>2, <4>1 DEF OwnCells
            <4> QED BY <1>1, <2>3, <3>2, <4>1, <4>3, <4>4 DEF OwnCells
        <3> QED BY <3>1, <3>2
    <2>7. ReaderInv'
        <3>1. \A i \in Writers : ~Replaced(i) /\ pc[i] # "writing" => i # name /\ i # w
            BY <1>1 DEF Replaced
        <3> QED BY <1>2, <2>1, <2>2, <2>3, <3>1, ReadersUndisturbed
    <2>8. ShutInv' BY <1>2 DEF ShutInv, readerVars
    <2> QED BY <2>4, <2>5, <2>6, <2>7, <2>8
<1> QED BY <1>3, <1>4, WriteCells

LEMMA SyncKeeps ==
    ASSUME TypeOK, CrashInv, NEW w \in Writers, Sync(w)
    PROVE  CrashInv'
<1> USE DEF CrashInv
<1>1. /\ pc[w] = "syncing" /\ Running(w) /\ name \in Writers /\ fd[w] = name /\ promised[name] = None
      /\ \A v \in Writers : Running(v) => v = w
    BY RunningAlone DEF Sync, Running
<1>2. UNCHANGED <<dirVars, file, promised, fd, written, readerVars, crashes>> BY DEF Sync
<1>3. CASE pc' = [pc EXCEPT ![w] = "failed"] /\ UNCHANGED <<disk, sizes>>
    BY <1>1, <1>2, <1>3, GiveUpKeeps DEF fileVars
<1>4. CASE SyncFile(name) /\ pc' = [pc EXCEPT ![w] = "closing"]
    <2>1. /\ \A v \in Writers \ {w} : pc'[v] = pc[v] /\ (Running(v)' <=> Running(v))
          /\ pc'[w] = "closing"
        BY <1>4 DEF TypeOK, Running
    <2>2. \A i \in Writers : Replaced(i)' <=> Replaced(i) BY <1>2 DEF Replaced
    <2>3. /\ \A i \in Writers \ {name} : disk'[i] = disk[i] /\ sizes'[i] = sizes[i]
          /\ Durable(name)'
        <3> DEFINE d == [k \in DOMAIN file[name] |-> {file[name][k]}]
        <3>1. /\ disk' = [disk EXCEPT ![name] = d] /\ sizes' = [sizes EXCEPT ![name] = {Len(file[name])}]
              /\ file' = file /\ DOMAIN disk = Writers /\ DOMAIN sizes = Writers
            BY <1>2, <1>4 DEF SyncFile, TypeOK
        <3>2. disk'[name] = d /\ sizes'[name] = {Len(file'[name])} BY <1>1, <3>1
        <3>3. \A i \in Writers \ {name} : disk'[i] = disk[i] /\ sizes'[i] = sizes[i] BY <1>1, <3>1
        <3>4. d = [k \in DOMAIN file'[name] |-> {file'[name][k]}] BY <3>1
        <3>5. Durable(name)'
            <4>1. name' = name BY <1>2 DEF dirVars
            <4> HIDE DEF d
            <4> QED BY <3>2, <3>4, <4>1 DEF Durable
        <3> QED BY <3>3, <3>5
    <2>4. WriterInv'
        <3> SUFFICES ASSUME NEW v \in Writers
                     PROVE  /\ pc'[v] = "new" => Unmade(v)'
                            /\ v # w => ~Running(v)'
            BY <1>1, <1>2, <2>1, <2>3 DEF WriterInv, WriterOK, Running, dirVars
        <3>1. pc'[v] = "new" => Unmade(v)' BY <1>1, <1>2, <2>1 DEF WriterInv, WriterOK, Unmade, dirVars
        <3> QED BY <1>1, <2>1, <3>1
    <2>5. PromiseInv' BY <1>1, <1>2, <2>3 DEF PromiseInv, Durable, dirVars
    <2>6. OwnCells'
        <3> SUFFICES ASSUME NEW i \in Writers, ~Replaced(i)
                     PROVE  /\ \A j \in DOMAIN disk'[i] :
                                  j <= Size(i) /\ disk'[i][j] \subseteq {Hole, Whole(i)[j]}
                            /\ \A n \in sizes'[i] : n <= Size(i)
            BY <1>2, <2>2 DEF OwnCells
        <3>1. CASE i # name BY <2>3, <3>1 DEF OwnCells
        <3>2. CASE i = name
            <4>1. DOMAIN disk'[i] = DOMAIN file[i] /\ sizes'[i] = {Len(file[i])}
                  /\ \A j \in DOMAIN file[i] : disk'[i][j] = {file[i][j]}
                <5>1. name' = name /\ file' = file BY <1>2 DEF dirVars
                <5>2. /\ disk'[i] = [j \in DOMAIN file[i] |-> {file[i][j]}]
                      /\ sizes'[i] = {Len(file[i])}
                    BY <2>3, <3>2, <5>1 DEF Durable
                <5> QED BY <5>2
            <4>2. Len(file[i]) <= Size(i)
                <5>1. Size(i) \in Nat BY WholeCells
                <5>2. Len(file[i]) \in Nat /\ DOMAIN file[i] = 1 .. Len(file[i]) BY DEF TypeOK
                <5> QED BY <5>1, <5>2 DEF OwnCells
            <4> QED BY <4>1, <4>2 DEF OwnCells
        <3> QED BY <3>1, <3>2
    <2>7. ReaderInv'
        <3>1. \A i \in Writers : pc[i] # "new" => pc'[i] \notin {"new", "writing"} \/ pc[i] = "writing"
            BY <1>1, <2>1
        <3> QED BY <1>2, <2>2, <3>1, ReadersUndisturbed
    <2>8. ShutInv' BY <1>2 DEF ShutInv, readerVars
    <2> QED BY <2>4, <2>5, <2>6, <2>7, <2>8
<1> QED BY <1>1, <1>3, <1>4 DEF Sync, Goto

LEMMA CloseFileKeeps ==
    ASSUME TypeOK, CrashInv, NEW w \in Writers, CloseFile(w)
    PROVE  CrashInv'
<1> USE DEF CrashInv
<1>1. /\ pc[w] = "closing" /\ Running(w) /\ name \in Writers /\ fd[w] = name /\ promised[name] = None
      /\ \A v \in Writers : Running(v) => v = w
    BY RunningAlone DEF CloseFile, Running
<1>2. UNCHANGED <<dirVars, file, disk, sizes, fd, written, readerVars, crashes>> BY DEF CloseFile
<1>3. CASE pc' = [pc EXCEPT ![w] = "failed"] /\ UNCHANGED promised
    BY <1>1, <1>2, <1>3, GiveUpKeeps DEF fileVars
<1>4. CASE pc' = [pc EXCEPT ![w] = "finished"] /\ promised' = [promised EXCEPT ![name] = w]
    <2>1. /\ \A v \in Writers \ {w} : pc'[v] = pc[v] /\ (Running(v)' <=> Running(v))
          /\ pc'[w] = "finished" /\ ~Running(w)'
          /\ promised'[name] = w /\ \A i \in Writers \ {name} : promised'[i] = promised[i]
        BY <1>1, <1>4 DEF TypeOK, Running
    <2>2. \A i \in Writers : Replaced(i)' <=> Replaced(i) BY <1>2 DEF Replaced
    <2>3. file[name] = Whole(w) /\ Durable(name)
        <3>1. /\ Len(file[name]) = Len(Whole(w)) /\ Durable(name)
              /\ \A k \in 1 .. Len(file[name]) : file[name][k] = Whole(w)[k]
            <4>1. WriterOK(w) BY DEF WriterInv
            <4>2. /\ written[w] = Size(w) /\ Len(file[name]) = written[w] /\ Durable(name)
                  /\ \A k \in 1 .. written[w] : file[name][k] = Whole(w)[k]
                BY <1>1, <4>1 DEF WriterOK
            <4> QED BY <4>2, WholeCells
        <3> QED BY <1>1, <3>1, WholeCells, SeqEqual DEF TypeOK
    <2>4. WriterInv'
        <3> SUFFICES ASSUME NEW v \in Writers
                     PROVE  /\ pc'[v] = "new" => Unmade(v)'
                            /\ ~Running(v)'
            BY DEF WriterInv, WriterOK, Running
        <3>1. pc'[v] = "new" => Unmade(v)'
            <4> SUFFICES ASSUME pc'[v] = "new" PROVE Unmade(v)' OBVIOUS
            <4>1. v # w /\ Unmade(v) /\ v # name BY <1>1, <2>1 DEF WriterInv, WriterOK, Unmade
            <4> QED BY <1>2, <2>1, <4>1 DEF Unmade, dirVars
        <3> QED BY <1>1, <2>1, <3>1
    <2>5. PromiseInv'
        <3> SUFFICES ASSUME NEW i \in Writers, promised'[i] # None
                     PROVE  /\ i \in names' => /\ Durable(i)' /\ file'[i] = Whole(promised'[i])
                                               /\ promised'[i] \in Writers
                            /\ crashes' = 0 => name' = i
            BY DEF PromiseInv
        <3>1. Durable(i)' <=> Durable(i) BY <1>2 DEF Durable
        <3>2. UNCHANGED <<file, name, names, crashes>> BY <1>2 DEF dirVars
        <3>3. CASE i = name BY <2>1, <2>3, <3>1, <3>2, <3>3
        <3>4. CASE i # name BY <2>1, <3>1, <3>2, <3>4 DEF PromiseInv
        <3> QED BY <3>3, <3>4
    <2>6. OwnCells' BY <1>2, <2>2 DEF OwnCells
    <2>7. ReaderInv'
        <3>1. \A i \in Writers : pc[i] # "new" => pc'[i] \notin {"new", "writing"} \/ pc[i] = "writing"
            BY <1>1, <2>1
        <3> QED BY <1>2, <2>2, <3>1, ReadersUndisturbed
    <2>8. ShutInv' BY <1>2 DEF ShutInv, readerVars
    <2> QED BY <2>4, <2>5, <2>6, <2>7, <2>8
<1> QED BY <1>1, <1>3, <1>4 DEF CloseFile, Goto

LEMMA CloseKeeps ==
    ASSUME TypeOK, CrashInv, NEW w \in Writers, Close(w)
    PROVE  CrashInv'
<1> USE DEF CrashInv
<1>1. /\ Running(w) /\ name \in Writers /\ fd[w] = name /\ promised[name] = None
      /\ pc[w] \in {"failed", "writing"}
      /\ \A v \in Writers : Running(v) => v = w
    BY RunningAlone DEF Close, Unfinished, Running
<1>2. /\ UNCHANGED <<fileVars, fd, written, readerVars, crashes>>
      /\ name' = None /\ names' = names \cup {None} /\ pc' = [pc EXCEPT ![w] = "closed"]
    BY DEF Close, MayName, Goto
<1>3. /\ \A v \in Writers \ {w} : pc'[v] = pc[v] /\ (Running(v)' <=> Running(v))
      /\ pc'[w] = "closed" /\ ~Running(w)'
    BY <1>2 DEF TypeOK, Running
<1>4. \A i \in Writers : Replaced(i)' <=> Replaced(i) BY <1>2 DEF Replaced
<1>5. WriterInv'
    <2> SUFFICES ASSUME NEW v \in Writers
                 PROVE  /\ pc'[v] = "new" => Unmade(v)'
                        /\ ~Running(v)'
        BY DEF WriterInv, WriterOK, Running
    <2>1. pc'[v] = "new" => Unmade(v)'
        BY <1>2, <1>3, FileAssumption DEF WriterInv, WriterOK, Unmade, fileVars
    <2> QED BY <1>1, <1>3, <2>1
<1>6. PromiseInv'
    BY <1>1, <1>2, FileAssumption DEF PromiseInv, Durable, fileVars
<1>7. OwnCells' BY <1>2, <1>4 DEF OwnCells, fileVars
<1>8. ReaderInv'
    <2>1. \A i \in Writers : pc[i] # "new" => pc'[i] \notin {"new", "writing"} \/ pc[i] = "writing"
        BY <1>3
    <2> QED BY <1>2, <1>4, <2>1, ReadersUndisturbed DEF fileVars
<1>9. ShutInv' BY <1>2 DEF ShutInv, readerVars
<1> QED BY <1>5, <1>6, <1>7, <1>8, <1>9

LEMMA WriterKeeps ==
    ASSUME TypeOK, CrashInv, NEW w \in Writers, WriterStep(w)
    PROVE  CrashInv'
<1>1. CASE Kill(w) BY <1>1, GiveUpKeeps DEF Kill
<1> QED BY <1>1, CreateKeeps, WriteKeeps, SyncKeeps, CloseFileKeeps, CloseKeeps DEF WriterStep

\* What doOpen accepts, in a file that has only its own cells, is the whole of it.
LEMMA OpensOwn ==
    ASSUME TypeOK, CrashInv, NEW i \in Writers, ~Replaced(i), name = i, IsPackfile(file[i])
    PROVE  /\ Len(file[i]) = Size(i) /\ Last(file[i]) = Trailer(i)
           /\ file[i][Size(i)] = Trailer(i) /\ file[i][Size(i) - 1] = Index(i)
           /\ pc[i] \notin {"new", "writing"}
<1> DEFINE n == Len(file[i])
<1>1. n \in Nat /\ n >= 2 /\ DOMAIN file[i] = 1 .. n BY DEF IsPackfile, TypeOK
<1>2. /\ file[i][n] # Hole /\ file[i][n].kind = "trailer" /\ file[i][n].at = n
      /\ file[i][n - 1] # Hole /\ file[i][n - 1].kind = "index"
    BY DEF IsPackfile, Last
<1>3. /\ n <= Size(i) /\ file[i][n] = Whole(i)[n] /\ file[i][n - 1] = Whole(i)[n - 1]
    BY <1>1, <1>2 DEF CrashInv, OwnCells
<1>4. n = Size(i)
    <2>1. Size(i) = RecordCount[i] + 2 /\ RecordCount[i] \in Nat BY WholeCells DEF Size
    <2>2. n \in 1 .. RecordCount[i] => Whole(i)[n].kind = "record"
        <3>1. n \in 1 .. RecordCount[i] => Whole(i)[n] = Record(i, n) BY WholeCells
        <3>2. Record(i, n).kind = "record" BY DEF Record
        <3> QED BY <3>1, <3>2
    <2>3. n = RecordCount[i] + 1 => Whole(i)[n].kind = "index"
        <3>1. Whole(i)[Size(i) - 1] = Index(i) BY WholeCells
        <3>2. Index(i).kind = "index" /\ Size(i) - 1 = RecordCount[i] + 1 BY <2>1 DEF Index
        <3> QED BY <3>1, <3>2
    <2> QED BY <1>1, <1>2, <1>3, <2>1, <2>2, <2>3
<1>5. Whole(i)[n] = Trailer(i) /\ Whole(i)[n - 1] = Index(i) BY <1>4, WholeCells
<1>6. pc[i] # "new"
    BY DEF CrashInv, WriterInv, WriterOK, Unmade, TypeOK
<1>7. pc[i] # "writing"
    <2> SUFFICES ASSUME pc[i] = "writing" PROVE FALSE OBVIOUS
    <2>1. fd[i] = i BY RunningAlone DEF Running, CrashInv
    <2>2. Len(file[i]) = written[i] /\ written[i] < Size(i) /\ written[i] \in Nat /\ Size(i) \in Nat
        BY <2>1, WholeCells DEF CrashInv, WriterInv, WriterOK, TypeOK
    <2> QED BY <1>4, <2>2
<1> QED BY <1>3, <1>4, <1>5, <1>6, <1>7 DEF Last

LEMMA ReaderKeeps ==
    ASSUME TypeOK, CrashInv, NEW r \in Readers, ReaderStep(r)
    PROVE  CrashInv'
<1> USE DEF CrashInv
<1>1. UNCHANGED <<dirVars, fileVars, writerVars, crashes>>
    BY DEF ReaderStep, OpenReader, CloseReader, Read, Verify
<1>2. WriterInv' BY <1>1 DEF WriterInv, WriterOK, Unmade, Running, Durable, dirVars, fileVars, writerVars
<1>3. PromiseInv' BY <1>1 DEF PromiseInv, Durable, dirVars, fileVars
<1>4. \A i \in Writers : Replaced(i)' <=> Replaced(i) BY <1>1 DEF Replaced, writerVars
<1>5. OwnCells' BY <1>1, <1>4 DEF OwnCells, fileVars
<1>6. \A q \in Readers \ {r} : /\ open'[q] = open[q] /\ sees'[q] = sees[q] /\ got'[q] = got[q]
                               /\ hashed'[q] = hashed[q] /\ verdict'[q] = verdict[q]
    BY DEF ReaderStep, OpenReader, CloseReader, Shut, Read, Verify, TypeOK
<1>7. ShutInv'
    BY <1>6 DEF ReaderStep, OpenReader, CloseReader, Shut, Read, Verify, TypeOK, ShutInv, NotRead
<1>8. ReaderInv'
    <2> SUFFICES ASSUME open'[r] # None, ~Replaced(open[r])' PROVE ReadsRight(r)'
        <3>1. ASSUME NEW q \in Readers \ {r}, open[q] # None, ~Replaced(open[q])
              PROVE  ReadsRight(q)'
            <4>1. ReadsRight(q) BY <3>1 DEF ReaderInv
            <4>2. Checks(q)' = Checks(q) BY <1>6 DEF Checks
            <4> QED BY <1>1, <1>6, <4>1, <4>2 DEF ReadsRight, fileVars, writerVars
        <3>2. \A q \in Readers : open'[q] # None => open'[q] \in Writers
            BY TypeReader DEF TypeOK, Inode
        <3> QED BY <1>4, <1>6, <3>1, <3>2 DEF ReaderInv
    <2> SUFFICES LET i == open'[r]
                        IN /\ sees'[r] = i /\ pc[i] \notin {"new", "writing"}
                           /\ Len(file[i]) = Size(i)
                           /\ file[i][Size(i)] = Trailer(i) /\ file[i][Size(i) - 1] = Index(i)
                           /\ hashed'[r] < RecordCount[i]
                           /\ \A k \in 1 .. Checks(r)' : file[i][k] = Record(i, k)
                           /\ got'[r].at # 0 /\ i \in Checked => got'[r].cell = Record(i, got'[r].at)
        BY <1>1 DEF ReadsRight, fileVars, writerVars
    <2>0. open'[r] \in Writers /\ ~Replaced(open'[r])
        <3>1. open'[r] \in Writers BY TypeReader DEF TypeOK, Inode
        <3> QED BY <1>4, <3>1
    <2>1. CASE OpenReader(r)
        <3>1. name \in Writers /\ open'[r] = name /\ ~Replaced(name) /\ IsPackfile(file[name])
            <4>1. open'[r] = name /\ IsPackfile(file[name]) BY <2>1 DEF OpenReader, TypeOK
            <4> QED BY <2>0, <4>1
        <3>2. /\ sees'[r] = Last(file[name]).by /\ got'[r] = got[r] /\ hashed'[r] = hashed[r]
              /\ verdict'[r] = verdict[r]
            BY <2>1 DEF OpenReader, TypeOK
        <3>3. Trailer(name).by = name BY DEF Trailer
        <3>4. got[r].at = 0 /\ verdict[r] = "none" /\ hashed[r] = 0
            BY <2>1 DEF OpenReader, ShutInv
        <3> QED BY <3>1, <3>2, <3>3, <3>4, OpensOwn, WholeCells DEF Checks
    <2>2. CASE CloseReader(r) BY <2>2 DEF CloseReader, Shut, TypeOK
    <2>3. CASE Read(r)
        <3> DEFINE i == open[r]
        <3>1. i \in Writers /\ open'[r] = i /\ sees[r] = i /\ ~Replaced(i) /\ UNCHANGED <<hashed, verdict, sees>>
            <4>1. open'[r] = i /\ UNCHANGED <<hashed, verdict, sees>> /\ open[r] # None
                BY <2>3 DEF Read
            <4>2. ReadsRight(r) BY <2>0, <4>1 DEF ReaderInv
            <4> QED BY <2>0, <4>1, <4>2 DEF ReadsRight
        <3>2. PICK k \in 1 .. RecordCount[i] :
                 got'[r] = IF Decodes(r, CellAt(r, k)) THEN [at |-> k, cell |-> CellAt(r, k)] ELSE NotRead
            BY <2>3, <3>1 DEF Read, TypeOK
        <3>3. i \in Checked /\ Decodes(r, CellAt(r, k)) => CellAt(r, k) = Record(i, k)
            <4> SUFFICES ASSUME i \in Checked, Decodes(r, CellAt(r, k)) PROVE CellAt(r, k) = Record(i, k)
                OBVIOUS
            <4>1. CellAt(r, k) # Hole BY <3>1 DEF Decodes
            <4>2. k \in DOMAIN file[i] /\ CellAt(r, k) = file[i][k] BY <4>1 DEF CellAt
            <4> QED BY <3>1, <4>1, <4>2, WholeCells DEF OwnCells
        <3>4. got'[r].at # 0 /\ i \in Checked => got'[r].cell = Record(i, got'[r].at)
            BY <3>2, <3>3 DEF NotRead
        <3> QED BY <2>3, <3>1, <3>4 DEF Checks, ReaderInv, ReadsRight
    <2>4. CASE Verify(r)
        <3> DEFINE i == open[r]
                   k == hashed[r] + 1
        <3>1. /\ i \in Writers /\ open'[r] = i /\ sees[r] = i /\ ~Replaced(i) /\ UNCHANGED <<got, sees>>
              /\ verdict[r] = "none" /\ hashed[r] \in Nat /\ hashed[r] < RecordCount[i]
              /\ RecordCount[i] \in Nat \ {0}
            <4>1. /\ open'[r] = i /\ UNCHANGED <<got, sees>> /\ verdict[r] = "none"
                  /\ hashed[r] \in Nat /\ open[r] # None
                BY <2>4 DEF Verify, TypeOK
            <4>2. ReadsRight(r) BY <2>0, <4>1 DEF ReaderInv
            <4>3. RecordCount[i] \in Nat \ {0} BY <2>0, <4>1, WholeCells
            <4> QED BY <2>0, <4>1, <4>2, <4>3 DEF ReadsRight
        <3>2. CASE CellAt(r, k) = Record(i, k)
            <4>1. /\ hashed'[r] = IF k = RecordCount[i] THEN 0 ELSE k
                  /\ verdict'[r] = IF k = RecordCount[i] THEN "nil" ELSE verdict[r]
                BY <2>4, <3>1, <3>2 DEF Verify, HashedRecords, TypeOK
            <4>2. file[i][k] = Record(i, k)
                <5>1. k \in DOMAIN file[i]
                    <6>1. Len(file[i]) = Size(i) /\ DOMAIN file[i] = 1 .. Len(file[i])
                        BY <3>1 DEF ReaderInv, ReadsRight, TypeOK
                    <6> QED BY <3>1, <6>1 DEF Size
                <5> QED BY <3>2, <5>1 DEF CellAt
            <4>3. \A j \in 1 .. hashed[r] : file[i][j] = Record(i, j) BY <3>1 DEF ReaderInv, ReadsRight, Checks
            <4>4. Checks(r)' = k BY <3>1, <4>1 DEF Checks
            <4>5. \A j \in 1 .. k : file[i][j] = Record(i, j) BY <3>1, <4>2, <4>3
            <4> QED BY <2>4, <3>1, <4>1, <4>4, <4>5 DEF ReaderInv, ReadsRight
        <3>3. CASE CellAt(r, k) # Record(i, k)
            <4>1. hashed'[r] = 0 /\ verdict'[r] = "err"
                BY <2>4, <3>1, <3>3 DEF Verify, TypeOK
            <4> QED BY <2>4, <3>1, <4>1 DEF ReaderInv, ReadsRight, Checks
        <3> QED BY <3>2, <3>3
    <2> QED BY <2>1, <2>2, <2>3, <2>4 DEF ReaderStep
<1> QED BY <1>2, <1>3, <1>5, <1>7, <1>8
LEMMA CrashKeeps ==
    ASSUME TypeOK, CrashInv, Crash
    PROVE  CrashInv'
<1> USE DEF CrashInv
<1>1. /\ name' \in names /\ names' = {name'} /\ crashes' = crashes + 1 /\ crashes' # 0
      /\ UNCHANGED <<promised, fd, written>>
    BY FileAssumption DEF Crash, TypeOK
<1>2. PICK cells \in IF name' = None THEN {<<>>} ELSE Survivors(name') :
          /\ file' = [i \in Writers |-> IF i = name' THEN cells ELSE <<>>]
          /\ disk' = [i \in Writers |-> [k \in DOMAIN file'[i] |-> {file'[i][k]}]]
          /\ sizes' = [i \in Writers |-> {Len(file'[i])}]
    BY DEF Crash
<1>3. \A i \in Writers : Durable(i)' BY <1>2 DEF Durable
<1>4. \A w \in Writers : /\ pc'[w] = IF Running(w) THEN "killed" ELSE pc[w]
                         /\ ~Running(w)' /\ (pc'[w] = "new" <=> pc[w] = "new")
    BY DEF Crash, Running, TypeOK
<1>5. name' = None \/ (name' \in Writers /\ cells \in Survivors(name') /\ file'[name'] = cells)
    BY <1>1, <1>2 DEF TypeOK, Inode
<1>6. \A i \in Writers \ {name'} : file'[i] = <<>> BY <1>2
<1>7. \A i \in Writers : Replaced(i)' <=> Replaced(i) BY <1>1 DEF Replaced
<1>8. WriterInv'
    <2> SUFFICES ASSUME NEW w \in Writers, pc[w] = "new" PROVE Unmade(w)'
        BY <1>4 DEF WriterInv, WriterOK, Running
    <2>1. Unmade(w) BY DEF WriterInv, WriterOK
    <2> QED BY <1>1, <1>6, <2>1 DEF Unmade
<1>9. PromiseInv'
    <2> SUFFICES ASSUME NEW i \in Writers, promised[i] # None, i = name'
                 PROVE  file'[i] = Whole(promised[i]) /\ promised[i] \in Writers
        BY <1>1, <1>3 DEF PromiseInv
    <2>1. Durable(i) /\ file[i] = Whole(promised[i]) /\ promised[i] \in Writers
        BY <1>1 DEF PromiseInv
    <2> QED BY <1>5, <2>1, DurableSurvives, FileAssumption
<1>10. OwnCells'
    <2> SUFFICES ASSUME NEW i \in Writers, ~Replaced(i)
                 PROVE  \A k \in 1 .. Len(file'[i]) : k <= Size(i) /\ file'[i][k] \in {Hole, Whole(i)[k]}
        <3>1. \A i \in Writers : /\ file'[i] \in Seq(Cell) /\ DOMAIN file'[i] = 1 .. Len(file'[i])
                                 /\ Len(file'[i]) \in Nat /\ Size(i) \in Nat
            <4>1. TypeOK' BY TypeCrash
            <4>2. file' \in [Writers -> Seq(Cell)] BY <4>1 DEF TypeOK
            <4> QED BY <4>2, WholeCells
        <3>2. \A i \in Writers : /\ DOMAIN disk'[i] = DOMAIN file'[i] /\ sizes'[i] = {Len(file'[i])}
                                 /\ \A k \in DOMAIN file'[i] : disk'[i][k] = {file'[i][k]}
            BY <1>3 DEF Durable
        <3>3. \A i \in Writers : (\A k \in 1 .. Len(file'[i]) : k <= Size(i)) => Len(file'[i]) <= Size(i)
            BY <3>1
        <3> QED BY <1>7, <3>1, <3>2, <3>3 DEF OwnCells
    <2>1. CASE i # name' BY <1>6, <2>1
    <2>2. CASE i = name'
        <3>1. /\ cells \in Seq(Cell) /\ Len(cells) \in sizes[i] /\ file'[i] = cells
              /\ \A k \in 1 .. Len(cells) : cells[k] \in AtRest(i, k)
            BY <1>5, <2>2, SurvivorCells, FileAssumption
        <3>2. Len(cells) \in Nat /\ Len(cells) <= Size(i) /\ Size(i) \in Nat
            BY <3>1, WholeCells DEF OwnCells
        <3>3. \A k \in 1 .. Len(cells) : AtRest(i, k) \subseteq {Hole, Whole(i)[k]}
            BY DEF AtRest, OwnCells
        <3> QED BY <3>1, <3>2, <3>3
    <2> QED BY <2>1, <2>2
<1>11. \A r \in Readers :
          open'[r] = None /\ got'[r] = NotRead /\ verdict'[r] = "none" /\ hashed'[r] = 0
    BY DEF Crash
<1>12. ReaderInv' BY <1>11 DEF ReaderInv, ReadsRight
<1>13. ShutInv' BY <1>11 DEF ShutInv, NotRead
<1> QED BY <1>8, <1>9, <1>10, <1>12, <1>13

LEMMA CrashInvNext ==
    ASSUME TypeOK, CrashInv, [Next]_vars
    PROVE  TypeOK' /\ CrashInv'
<1>1. CASE UNCHANGED vars
    <2>1. TypeOK' BY <1>1 DEF vars, dirVars, fileVars, writerVars, readerVars, TypeOK
    <2>2. WriterInv'
        BY <1>1 DEF vars, dirVars, fileVars, writerVars, CrashInv, WriterInv, WriterOK, Unmade, Running,
                    Durable
    <2>3. PromiseInv'
        BY <1>1, PromisesUndisturbed DEF vars, dirVars, fileVars, CrashInv
    <2>4. OwnCells' /\ ShutInv'
        BY <1>1 DEF vars, fileVars, writerVars, readerVars, CrashInv, OwnCells, Replaced, ShutInv
    <2>5. ReaderInv'
        BY <1>1, ReadersUndisturbed DEF vars, fileVars, writerVars, CrashInv, Replaced
    <2> QED BY <2>2, <2>3, <2>4, <2>5, <2>1 DEF CrashInv
<1>2. CASE \E w \in Writers : WriterStep(w)
    BY <1>2, TypeWriter, WriterKeeps DEF CrashInv
<1>3. CASE \E r \in Readers : ReaderStep(r)
    BY <1>3, TypeReader, ReaderKeeps
<1>4. CASE Crash BY <1>4, TypeCrash, CrashKeeps
<1> QED BY <1>1, <1>2, <1>3, <1>4 DEF Next, WriterStep, ReaderStep

LEMMA CrashInvariant == Spec => [](TypeOK /\ CrashInv)
<1>1. Init => TypeOK /\ CrashInv BY TypeInit, CrashInvInit
<1>2. TypeOK /\ CrashInv /\ [Next]_vars => (TypeOK /\ CrashInv)' BY CrashInvNext
<1> QED BY <1>1, <1>2, PTL DEF Spec

-----------------------------------------------------------------------------
(***************************************************************************)
(* The theorems.                                                            *)
(***************************************************************************)
\* Every variable of the file system, its writers and readers keeps its type.
THEOREM FileTypes == Spec => []TypeOK
BY CrashInvariant, PTL

\* Finish syncs the file before it returns nil: however many crashes follow, the path
\* never names a reported packfile with a cell missing; and although Close removes by
\* name, no writer that fails or gives up removes what another one has finished.
THEOREM ReportedIsWhole == Spec => []FinishedWhole
<1>1. TypeOK /\ CrashInv => FinishedWhole BY DEF TypeOK, CrashInv, PromiseInv, FinishedWhole
<1> QED BY <1>1, CrashInvariant, PTL

\* The checksum of each record is enough for a reader to tell, after any crash, the
\* records of its file from holes.
THEOREM ReadersSeeTheirFile == Spec => []ReadsItsFile
<1>1. TypeOK /\ CrashInv => ReadsItsFile
    BY DEF TypeOK, CrashInv, ReaderInv, ReadsRight, ShutInv, ReadsItsFile
<1> QED BY <1>1, CrashInvariant, PTL

\* Verify returns nil only for files with every record that was written, with checksums in
\* the records or without.
THEOREM VerifyFindsHoles == Spec => []VerifyTrue
<1>1. TypeOK /\ CrashInv => VerifyTrue
    <2> SUFFICES ASSUME TypeOK, CrashInv, NEW r \in Readers, verdict[r] = "nil", ~Replaced(open[r])
                 PROVE  file[open[r]] = Whole(sees[r])
        BY DEF VerifyTrue
    <2> DEFINE i == open[r]
    <2>1. i \in Writers /\ i # None
        BY FileAssumption DEF CrashInv, ShutInv, TypeOK, Inode
    <2>2. /\ sees[r] = i /\ Len(file[i]) = Size(i) /\ file[i] \in Seq(Cell)
          /\ file[i][Size(i)] = Trailer(i) /\ file[i][Size(i) - 1] = Index(i)
          /\ \A k \in 1 .. RecordCount[i] : file[i][k] = Record(i, k)
        BY <2>1 DEF CrashInv, ReaderInv, ReadsRight, Checks, TypeOK
    <2>3. \A k \in 1 .. Size(i) : k \in 1 .. RecordCount[i] \/ k = Size(i) - 1 \/ k = Size(i)
        BY <2>1, WholeCells DEF Size
    <2>4. \A k \in 1 .. Len(file[i]) : file[i][k] = Whole(i)[k]
        BY <2>1, <2>2, <2>3, WholeCells
    <2> QED BY <2>1, <2>2, <2>4, WholeCells, SeqEqual
<1> QED BY <1>1, CrashInvariant, PTL
=============================================================================
