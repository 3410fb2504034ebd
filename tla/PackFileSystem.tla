---------------------------- MODULE PackFileSystem ----------------------------
(***************************************************************************)
(* Writers and readers of packfiles at one path, and the file system below  *)
(* them: what packfile/writer.go does to the path and the file, in which    *)
(* order, what the reader of packfile/reader.go takes for a packfile, and   *)
(* what a crash of the machine may leave.                                   *)
(*                                                                          *)
(* The file system is external.  A file lives on under its inode when its   *)
(* name is removed.  Until it is synced, anything written to a file, its    *)
(* size, or a name in the directory, may or may not be there after a crash, *)
(* each on its own.  An inode is named after the writer that made it.       *)
(*                                                                          *)
(* Data.  Every write fills one cell: the records in order, the index, then *)
(* the app data and the trailer, which are one cell: it is there when the   *)
(* trailer is.  Every packfile has a content hash.                          *)
(***************************************************************************)
EXTENDS Integers, Sequences, FiniteSets, FiniteSetsExt, SequencesExt

CONSTANTS
    Writers, Readers,
    RecordCount,   \* RecordCount[w]: the records w writes
    Overwrite,     \* the writers with the option Overwrite
    Checked,       \* those in whose records a cell that was written in part is found: not Raw
                   \* (of several items their index alone has a checksum), nor Compressed with
                   \* records of one item, of which a part may read as an empty item
    MaxCrashes,    \* bound: crashes of the machine
    None, Hole     \* no file; a cell that was never written, or only in part

ASSUME FileAssumption ==
    /\ RecordCount \in [Writers -> Nat \ {0}] /\ Overwrite \subseteq Writers
    /\ Checked \subseteq Writers /\ MaxCrashes \in Nat /\ None \notin Writers

Record(w, k) == [by |-> w, kind |-> "record", at |-> k]
Index(w)     == [by |-> w, kind |-> "index", at |-> RecordCount[w] + 1]
Trailer(w)   == [by |-> w, kind |-> "trailer", at |-> RecordCount[w] + 2]

Records(w) == [k \in 1 .. RecordCount[w] |-> Record(w, k)]

\* The cells of a packfile, in the order in which they are written.
Whole(w) == Records(w) \o <<Index(w), Trailer(w)>>

VARIABLES
    name,      \* the inode the path names, or None
    names,     \* what it may name after a crash
    file,      \* per inode: its cells
    disk,      \* per inode and cell: what may be there after a crash
    sizes,     \* per inode: how many cells it may have after a crash
    pc, fd,    \* per writer: where it stands, its file
    written,   \* per writer: how many cells it has written
    promised,  \* per inode: the writer whose Finish returned nil for it, or None
    open,      \* per reader: its file, None when closed
    sees,      \* per reader: the writer of the trailer it read
    got,       \* per reader: what the last read returned, [at, cell]
    hashed,    \* per reader: how far its Verify is, 0 when it runs none
    verdict,   \* per reader: what Verify found
    crashes

dirVars    == <<name, names>>
fileVars   == <<file, disk, sizes, promised>>
writerVars == <<pc, fd, written>>
readerVars == <<open, sees, got, hashed, verdict>>
vars       == <<dirVars, fileVars, writerVars, readerVars, crashes>>

NoCells == [k \in {} |-> {}]
NotRead == [at |-> 0, cell |-> None]

Init ==
    /\ name = None /\ names = {None}
    /\ file = [i \in Writers |-> <<>>] /\ disk = [i \in Writers |-> NoCells]
    /\ sizes = [i \in Writers |-> {0}] /\ promised = [i \in Writers |-> None]
    /\ pc = [w \in Writers |-> "new"] /\ fd = [w \in Writers |-> None]
    /\ written = [w \in Writers |-> 0]
    /\ open = [r \in Readers |-> None] /\ sees = [r \in Readers |-> None]
    /\ got = [r \in Readers |-> NotRead] /\ hashed = [r \in Readers |-> 0]
    /\ verdict = [r \in Readers |-> "none"] /\ crashes = 0

-----------------------------------------------------------------------------
(***************************************************************************)
(* The file system.                                                         *)
(***************************************************************************)
MayName(x) == name' = x /\ names' = names \cup {x}

\* A cell written past the end leaves a hole before it.
WriteCell(i, k, cell) ==
    /\ file' = [file EXCEPT ![i] = [j \in 1 .. Max({k, Len(@)}) |->
                   IF j = k THEN cell ELSE IF j <= Len(@) THEN @[j] ELSE Hole]]
    /\ disk' = [disk EXCEPT ![i] = [j \in DOMAIN @ \cup {k} |->
                   IF j = k THEN (IF j \in DOMAIN @ THEN @[j] ELSE {Hole}) \cup {cell} ELSE @[j]]]
    /\ sizes' = [sizes EXCEPT ![i] = @ \cup {Max({k, Len(file[i])})}]

\* Bug: the file is synced before the trailer is written.
SyncAllButLast(i) ==
    /\ disk' = [disk EXCEPT ![i] = [j \in DOMAIN file[i] |->
                   IF j = Len(file[i]) THEN disk[i][j] ELSE {file[i][j]}]]
    /\ sizes' = [sizes EXCEPT ![i] = {Len(file[i]) - 1, Len(file[i])}]

SyncFile(i) ==
    /\ disk' = [disk EXCEPT ![i] = [j \in DOMAIN file[i] |-> {file[i][j]}]]
    /\ sizes' = [sizes EXCEPT ![i] = {Len(file[i])}]

\* What inode i may hold after a crash.
AtRest(i, k) == IF k \in DOMAIN disk[i] THEN disk[i][k] ELSE {Hole}

Survivors(i) == UNION {{s \in [1 .. n -> UNION {AtRest(i, k) : k \in 1 .. n}] :
                           \A k \in 1 .. n : s[k] \in AtRest(i, k)} : n \in sizes[i]}

Running(w) == pc[w] \in {"writing", "syncing", "closing", "failed"}

\* The machine stops and starts again.  What was not synced is there or not; a file
\* without a name is gone.
Crash ==
    /\ crashes < MaxCrashes /\ crashes' = crashes + 1
    /\ \E x \in names : name' = x /\ names' = {x}
    /\ \E cells \in IF name' = None THEN {<<>>} ELSE Survivors(name') :
          /\ file' = [i \in Writers |-> IF i = name' THEN cells ELSE <<>>]
          /\ disk' = [i \in Writers |-> [k \in DOMAIN file'[i] |-> {file'[i][k]}]]
          /\ sizes' = [i \in Writers |-> {Len(file'[i])}]
    /\ pc' = [w \in Writers |-> IF Running(w) THEN "killed" ELSE pc[w]]
    /\ open' = [r \in Readers |-> None] /\ sees' = [r \in Readers |-> None]
    /\ got' = [r \in Readers |-> NotRead] /\ hashed' = [r \in Readers |-> 0]
    /\ verdict' = [r \in Readers |-> "none"] /\ UNCHANGED <<promised, fd, written>>

\* A program that writes is killed, the machine goes on.
Kill(w) ==
    /\ Running(w) /\ pc' = [pc EXCEPT ![w] = "killed"]
    /\ UNCHANGED <<dirVars, fileVars, fd, written, readerVars, crashes>>

-----------------------------------------------------------------------------
(***************************************************************************)
(* The writer.                                                              *)
(***************************************************************************)
Goto(w, where) == pc' = [pc EXCEPT ![w] = where]

\* The flags of os.OpenFile.
MayReplace(w) == w \in Overwrite

\* A program replaces a file only when no other one is at it.
Create(w) ==
    /\ pc[w] = "new" /\ (w \in Overwrite => \A v \in Writers : ~Running(v))
    /\ \/ /\ name = None /\ MayName(w) /\ Goto(w, "writing") /\ fd' = [fd EXCEPT ![w] = w]
          /\ UNCHANGED fileVars
       \/ /\ name # None /\ MayReplace(w) /\ Goto(w, "writing") /\ fd' = [fd EXCEPT ![w] = name]
          /\ file' = [file EXCEPT ![name] = <<>>] /\ sizes' = [sizes EXCEPT ![name] = @ \cup {0}]
          /\ promised' = [promised EXCEPT ![name] = None] /\ UNCHANGED <<dirVars, disk>>
       \/ /\ name # None /\ ~MayReplace(w) /\ Goto(w, "closed")
          /\ UNCHANGED <<dirVars, fileVars, fd>>
    /\ UNCHANGED <<written, readerVars, crashes>>

\* writeBlock for each record, then Finish's index, app data and trailer.  A write that
\* fails may leave part of the cell.
Write(w) ==
    /\ pc[w] = "writing" /\ written[w] < Len(Whole(w))
    /\ LET k == written[w] + 1
       IN \/ /\ WriteCell(fd[w], k, Whole(w)[k])
             /\ Goto(w, IF k = Len(Whole(w)) THEN "syncing" ELSE "writing")
             /\ written' = [written EXCEPT ![w] = k]
          \/ WriteCell(fd[w], k, Hole) /\ Goto(w, "failed") /\ UNCHANGED written
          \/ Goto(w, "failed") /\ UNCHANGED <<file, disk, sizes, written>>
    /\ UNCHANGED <<dirVars, promised, fd, readerVars, crashes>>

Sync(w) ==
    /\ pc[w] = "syncing"
    /\ \/ SyncFile(fd[w]) /\ Goto(w, "closing")
       \/ Goto(w, "failed") /\ UNCHANGED <<disk, sizes>>
    /\ UNCHANGED <<dirVars, file, promised, fd, written, readerVars, crashes>>

\* Finish closes the file and returns nil.
CloseFile(w) ==
    /\ pc[w] = "closing"
    /\ \/ Goto(w, "finished") /\ promised' = [promised EXCEPT ![fd[w]] = w]
       \/ Goto(w, "failed") /\ UNCHANGED promised
    /\ UNCHANGED <<dirVars, file, disk, sizes, fd, written, readerVars, crashes>>

\* Bug: Close removes the file after Finish too.
AfterFinish(w) == pc[w] \in {"failed", "writing", "finished"}

\* Close has something to remove: a call failed, or the program gives up.
Unfinished(w) == pc[w] \in {"failed", "writing"}

\* Close: by name.
Close(w) ==
    /\ Unfinished(w) /\ Goto(w, "closed") /\ MayName(None)
    /\ UNCHANGED <<fileVars, fd, written, readerVars, crashes>>

-----------------------------------------------------------------------------
(***************************************************************************)
(* The reader.                                                              *)
(***************************************************************************)
Shut(r) == /\ open' = [open EXCEPT ![r] = None] /\ sees' = [sees EXCEPT ![r] = None]
           /\ hashed' = [hashed EXCEPT ![r] = 0] /\ got' = [got EXCEPT ![r] = NotRead]
           /\ verdict' = [verdict EXCEPT ![r] = "none"]

\* doOpen: a trailer at the end, and before it an index of as many records that fills
\* the rest of the file.
IsPackfile(cells) ==
    /\ Len(cells) >= 2 /\ Last(cells) # Hole /\ Last(cells).kind = "trailer"
    /\ Len(cells) = Last(cells).at
    /\ LET index == cells[Len(cells) - 1]
       IN index # Hole /\ index.kind = "index" /\ index.at = Len(cells) - 1

OpenReader(r) ==
    /\ open[r] = None /\ name # None /\ IsPackfile(file[name])
    /\ open' = [open EXCEPT ![r] = name] /\ sees' = [sees EXCEPT ![r] = Last(file[name]).by]
    /\ UNCHANGED <<dirVars, fileVars, writerVars, got, hashed, verdict, crashes>>

CloseReader(r) ==
    /\ open[r] # None /\ Shut(r) /\ UNCHANGED <<dirVars, fileVars, writerVars, crashes>>

CellAt(r, k) == IF k \in DOMAIN file[open[r]] THEN file[open[r]][k] ELSE Hole

\* Bug: no checksum is compared.
AnyCell(r, cell) == TRUE

\* In a file with checksums a record decodes when it is one; in another nothing is found.
Decodes(r, cell) == sees[r] \in Checked => (cell # Hole /\ cell.kind = "record")

\* ReadItem, with the offsets read at the open.
Read(r) ==
    /\ open[r] # None /\ hashed[r] = 0
    /\ \E k \in 1 .. RecordCount[sees[r]] :
          got' = [got EXCEPT ![r] = IF Decodes(r, CellAt(r, k)) THEN [at |-> k, cell |-> CellAt(r, k)]
                                    ELSE NotRead]
    /\ UNCHANGED <<dirVars, fileVars, writerVars, open, sees, hashed, verdict, crashes>>

\* Bug: the last record is not hashed.
AllButLast(r) == RecordCount[sees[r]] - 1

\* How many records Verify hashes.
HashedRecords(r) == RecordCount[sees[r]]

\* Verify hashes the records one after the other; the hash in the trailer is that of
\* the records its writer wrote.
Verify(r) ==
    /\ open[r] # None /\ hashed[r] < HashedRecords(r) /\ verdict[r] = "none"
    /\ LET k == hashed[r] + 1
       IN IF CellAt(r, k) = Record(sees[r], k)
          THEN /\ hashed' = [hashed EXCEPT ![r] = IF k = HashedRecords(r) THEN 0 ELSE k]
               /\ verdict' = [verdict EXCEPT ![r] = IF k = HashedRecords(r) THEN "nil" ELSE @]
          ELSE /\ hashed' = [hashed EXCEPT ![r] = 0]
               /\ verdict' = [verdict EXCEPT ![r] = "err"]
    /\ UNCHANGED <<dirVars, fileVars, writerVars, open, sees, got, crashes>>

-----------------------------------------------------------------------------
Next ==
    \/ \E w \in Writers : Create(w) \/ Write(w) \/ Sync(w) \/ CloseFile(w) \/ Close(w) \/ Kill(w)
    \/ \E r \in Readers : OpenReader(r) \/ CloseReader(r) \/ Read(r) \/ Verify(r)
    \/ Crash

Spec == Init /\ [][Next]_vars

-----------------------------------------------------------------------------
(***************************************************************************)
(* Properties.                                                              *)
(***************************************************************************)
Cell == {Hole} \cup UNION {{Record(w, k) : k \in 1 .. RecordCount[w]} \cup {Index(w), Trailer(w)} :
                              w \in Writers}

Inode == Writers \cup {None}

\* The types of the variables.
TypeOK ==
    /\ name \in names /\ names \subseteq Inode /\ crashes \in 0 .. MaxCrashes
    /\ file \in [Writers -> Seq(Cell)] /\ sizes \in [Writers -> SUBSET Nat]
    /\ DOMAIN disk = Writers
    /\ \A i \in Writers : disk[i] \in [DOMAIN disk[i] -> SUBSET Cell] /\ DOMAIN disk[i] \subseteq Nat
    /\ pc \in [Writers -> {"new", "writing", "syncing", "closing", "failed", "finished", "closed",
                           "killed"}]
    /\ fd \in [Writers -> Inode] /\ written \in [Writers -> Nat] /\ promised \in [Writers -> Inode]
    /\ open \in [Readers -> Inode] /\ sees \in [Readers -> Inode]
    /\ got \in [Readers -> [at: Nat, cell: Cell \cup {None}]]
    /\ hashed \in [Readers -> Nat] /\ verdict \in [Readers -> {"none", "nil", "err"}]
    /\ \A r \in Readers : open[r] = None <=> sees[r] = None

\* A program with Overwrite has opened the file, and truncated it in place.
Replaced(i) == \E w \in Writers \ {i} : fd[w] = i

\* Unless a program with Overwrite writes over the file a reader has open, whatever else
\* writers and crashes did to it: where the records have checksums, the reader answers
\* with those of the file whose trailer it read, or with an error.
ReadsItsFile == \A r \in Readers :
    got[r].at # 0 /\ sees[r] \in Checked /\ ~Replaced(open[r]) =>
        got[r].cell = Record(sees[r], got[r].at)

\* And when Verify returns nil each record is the one that was written, although a Raw
\* record has no checksum of its own.  The trailer that opened is whole, by its checksum;
\* of the app data before it, which has none, this says nothing.
VerifyTrue == \A r \in Readers :
    verdict[r] = "nil" /\ ~Replaced(open[r]) => file[open[r]] = Whole(sees[r])

\* When Finish has returned nil every cell is on disk: a crash may lose the name, but
\* never leaves the name of a file with a part missing; and as long as no machine
\* crashes the name stays until a program with Overwrite replaces the file: no failing
\* writer removes it.
FinishedWhole == \A i \in Writers : promised[i] # None =>
    /\ name = i => file[i] = Whole(promised[i])
    /\ crashes = 0 => name = i

\* Packfiles are written atomically: with no writer at work the path names a whole
\* packfile or nothing (FORMAT-COMPARISON.md).
AtomicWrite == (\A w \in Writers : ~Running(w)) =>
    name = None \/ \E w \in Writers : file[name] = Whole(w)

\* The writer is crash-safe, data and name (FORMAT-COMPARISON.md): a packfile that Finish
\* reported is at its path after a crash.
FinishedStays == \A i \in Writers : promised[i] # None => name = i
=============================================================================
