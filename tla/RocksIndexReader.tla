--------------------------- MODULE RocksIndexReader ---------------------------
(***************************************************************************)
(* The reader of the bitmap index on RocksDB (bitmapindex/rocksdb/          *)
(* reader.go): the open, Lookup, LookupKeys, which sorts its keys, shares   *)
(* them among workers and puts the bitmaps back in the order asked for, and *)
(* Close.                                                                   *)
(*                                                                          *)
(* Data.  A composite key is a field and a key, ordered by KeyOrder; the    *)
(* bitmap of a key is the key.  RocksDB is external (see RocksReader).      *)
(***************************************************************************)
EXTENDS Integers, Sequences, FiniteSets, FiniteSetsExt, SequencesExt

CONSTANTS
    Clients,      \* goroutines that use the Reader
    Concurrency,  \* r.concurrency
    KeyOrder,     \* the composite keys that are looked up, in ascending order
    Indexed,      \* those the index has
    Damaged,      \* those whose bitmap does not deserialize
    Requests,     \* bound: the calls, [op: {"lookup", "keys"}, keys: Seq(ToSet(KeyOrder))]
    Faults,       \* bound: "open", "get": what may go wrong
    None          \* a nil bitmap, or ErrKeyNotFound

Keys == ToSet(KeyOrder)

ASSUME RockIndexAssumption ==
    /\ Concurrency \in Nat \ {0} /\ IsInjective(KeyOrder)
    /\ Indexed \subseteq Keys /\ Damaged \subseteq Indexed
    /\ Requests \subseteq [op: {"lookup", "keys"}, keys: Seq(Keys)]
    /\ \A q \in Requests : q.keys # <<>> /\ (q.op = "lookup" => Len(q.keys) = 1)
    /\ Faults \subseteq {"open", "get"}

VARIABLES
    once, openErr, db,  \* as in RocksReader
    closeOnce,
    pc, req,            \* per client: where its call stands, what it asked for
    indexed,            \* origIdx of each key, in the order of the composite keys
    shares,             \* the workers that are still running: [lo, hi, at]
    firstErr,           \* a worker's error
    bitmaps,            \* by sorted position: the bitmaps read so far
    out, ret            \* what the last call returned

openVars == <<once, openErr, db, closeOnce>>
readVars == <<indexed, shares, firstErr, bitmaps>>
vars     == <<openVars, pc, req, readVars, out, ret>>

Close == [op |-> "close", keys |-> <<>>]
NoBitmaps == [i \in {} |-> None]

Init ==
    /\ once = "new" /\ openErr = FALSE /\ db = "none" /\ closeOnce = "new"
    /\ pc = [c \in Clients |-> "idle"] /\ req = [c \in Clients |-> Close]
    /\ indexed = [c \in Clients |-> <<>>] /\ shares = [c \in Clients |-> {}]
    /\ firstErr = [c \in Clients |-> FALSE] /\ bitmaps = [c \in Clients |-> NoBitmaps]
    /\ out = [c \in Clients |-> <<>>] /\ ret = [c \in Clients |-> "none"]

-----------------------------------------------------------------------------
(***************************************************************************)
(* The open.                                                                *)
(***************************************************************************)
\* r.once.Do(openDB), by the goroutine of Open or by the first call, runs once.
BeginOpen == once = "new" /\ once' = "busy" /\ UNCHANGED <<openErr, db, closeOnce>>

\* Bug: an open that failed is tried again.
OpenAgain ==
    /\ once = "busy" /\ UNCHANGED closeOnce
    /\ \/ once' = "done" /\ db' = "open" /\ UNCHANGED openErr
       \/ "open" \in Faults /\ once' = "new" /\ UNCHANGED <<openErr, db>>

EndOpen ==
    /\ once = "busy" /\ once' = "done" /\ UNCHANGED closeOnce
    /\ \/ db' = "open" /\ UNCHANGED openErr
       \/ "open" \in Faults /\ openErr' = TRUE /\ UNCHANGED db

OpenDB == (BeginOpen \/ EndOpen) /\ UNCHANGED <<pc, req, readVars, out, ret>>

-----------------------------------------------------------------------------
(***************************************************************************)
(* Lookups.                                                                 *)
(***************************************************************************)
Closing(c) == pc[c] # "idle" /\ req[c].op = "close"

\* A program closes after its last lookup, from one goroutine or several.
Start(c) ==
    /\ pc[c] = "idle"
    /\ \/ /\ closeOnce = "new" /\ \A d \in Clients : ~Closing(d)
          /\ \E q \in Requests : req' = [req EXCEPT ![c] = q]
          /\ pc' = [pc EXCEPT ![c] = "wait"]
       \/ /\ \A d \in Clients : pc[d] = "idle" \/ Closing(d)
          /\ req' = [req EXCEPT ![c] = Close] /\ pc' = [pc EXCEPT ![c] = "closeOnce"]
    /\ ret' = [ret EXCEPT ![c] = "none"] /\ out' = [out EXCEPT ![c] = <<>>]
    /\ UNCHANGED <<openVars, readVars>>

Goto(c, where) == pc' = [pc EXCEPT ![c] = where] /\ UNCHANGED <<req, ret>>

Return(c, res) ==
    /\ pc' = [pc EXCEPT ![c] = "idle"] /\ ret' = [ret EXCEPT ![c] = res] /\ UNCHANGED req
    /\ bitmaps' = [bitmaps EXCEPT ![c] = NoBitmaps]
    /\ indexed' = [indexed EXCEPT ![c] = <<>>]
    /\ firstErr' = [firstErr EXCEPT ![c] = FALSE] /\ UNCHANGED shares

\* waitOpen.
WaitOpen(c) ==
    /\ pc[c] = "wait" /\ once = "done"
    /\ IF req[c].op = "close" THEN Goto(c, "closing") /\ UNCHANGED readVars
       ELSE IF openErr THEN Return(c, "err")
       ELSE Goto(c, req[c].op) /\ UNCHANGED readVars
    /\ UNCHANGED <<openVars, out>>

Lookup(c) ==
    /\ pc[c] = "lookup"
    /\ LET k == req[c].keys[1]
       IN \/ /\ k \notin Damaged /\ Return(c, "ok")
             /\ out' = [out EXCEPT ![c] = IF k \in Indexed THEN <<k>> ELSE <<None>>]
          \/ /\ k \in Damaged \/ "get" \in Faults
             /\ Return(c, "err") /\ UNCHANGED out
    /\ UNCHANGED openVars

Rank(k) == CHOOSE r \in DOMAIN KeyOrder : KeyOrder[r] = k

\* sort.Slice is not stable: equal keys end in any order.
SortedBy(p, keys) == \A i, j \in DOMAIN p : i < j => Rank(keys[p[i]]) <= Rank(keys[p[j]])

PerWorker(n) == (n + Min({Concurrency, n}) - 1) \div Min({Concurrency, n})

\* Where the shares begin.
ShareStarts(n) == {w * PerWorker(n) : w \in 0 .. Min({Concurrency, n}) - 1} \cap (0 .. n - 1)

\* Bug: the bound of a share is taken to be its last position.
EndIncluded(lo, n) == Min({lo + PerWorker(n) + 1, n})

\* The end of the one that begins at lo.
ShareEnd(lo, n) == Min({lo + PerWorker(n), n})

LookupKeys(c) ==
    /\ pc[c] = "keys" /\ Goto(c, "workers")
    /\ LET n == Len(req[c].keys)
       IN /\ \E p \in SetToSeqs(1 .. n) :
                SortedBy(p, req[c].keys) /\ indexed' = [indexed EXCEPT ![c] = p]
          /\ shares' = [shares EXCEPT ![c] = {[lo |-> l, hi |-> ShareEnd(l, n), at |-> -1] :
                                                  l \in ShareStarts(n)}]
    /\ UNCHANGED <<openVars, firstErr, bitmaps, out>>

\* Sorted position i holds this key.
KeyAt(c, i) == req[c].keys[indexed[c][i + 1]]

\* A worker's BatchedMultiGetCF.
ReadShare(c, sh) ==
    /\ pc[c] = "workers" /\ sh \in shares[c] /\ sh.at = -1
    /\ \/ shares' = [shares EXCEPT ![c] = (@ \ {sh}) \cup {[sh EXCEPT !.at = sh.lo]}]
          /\ UNCHANGED firstErr
       \/ /\ "get" \in Faults /\ shares' = [shares EXCEPT ![c] = @ \ {sh}]
          /\ firstErr' = [firstErr EXCEPT ![c] = TRUE]
    /\ UNCHANGED <<openVars, pc, req, indexed, bitmaps, out, ret>>

\* bitmaps[i] = the bitmap of k, nil if there is none.
Stored(bs, i, k) == [j \in {i} \cup DOMAIN bs |->
                        IF j # i THEN bs[j] ELSE IF k \in Indexed THEN k ELSE None]

\* Its loop: one value.  A bitmap that does not deserialize ends the worker.
ReadValue(c, sh) ==
    /\ pc[c] = "workers" /\ sh \in shares[c] /\ sh.at >= sh.lo
    /\ LET k == KeyAt(c, sh.at)
           next == [sh EXCEPT !.at = sh.at + 1]
           rest == (shares[c] \ {sh}) \cup (IF next.at < sh.hi THEN {next} ELSE {})
       IN IF k \in Damaged
          THEN /\ firstErr' = [firstErr EXCEPT ![c] = TRUE]
               /\ shares' = [shares EXCEPT ![c] = @ \ {sh}] /\ UNCHANGED bitmaps
          ELSE /\ shares' = [shares EXCEPT ![c] = rest] /\ UNCHANGED firstErr
               /\ bitmaps' = [bitmaps EXCEPT ![c] = Stored(@, sh.at, k)]
    /\ UNCHANGED <<openVars, pc, req, indexed, out, ret>>

\* Bug: the bitmaps are returned in the order they were read.
InSortedOrder(c) == [i \in DOMAIN req[c].keys |-> bitmaps[c][i - 1]]

\* The bitmaps in the order of the keys; None where nothing was read.
Scatter(c) == [i \in DOMAIN req[c].keys |->
                  LET s == (CHOOSE j \in DOMAIN indexed[c] : indexed[c][j] = i) - 1
                  IN IF s \in DOMAIN bitmaps[c] THEN bitmaps[c][s] ELSE None]

\* wg.Wait, and the answer.
Join(c) ==
    /\ pc[c] = "workers" /\ shares[c] = {}
    /\ IF firstErr[c] THEN Return(c, "err") /\ UNCHANGED out
       ELSE Return(c, "ok") /\ out' = [out EXCEPT ![c] = Scatter(c)]
    /\ UNCHANGED openVars

\* Bug: Close does not wait for the open.
CloseAtOnce == "closing"

\* What the first Close does first.
CloseFirst == "wait"

EnterClose(c) ==
    /\ pc[c] = "closeOnce"
    /\ \/ closeOnce = "new" /\ closeOnce' = "busy" /\ Goto(c, CloseFirst) /\ UNCHANGED readVars
       \/ closeOnce = "done" /\ Return(c, "ok") /\ UNCHANGED closeOnce
    /\ UNCHANGED <<once, openErr, db, out>>

CloseDB(c) ==
    /\ pc[c] = "closing" /\ closeOnce' = "done"
    /\ db' = IF db = "open" THEN "closed" ELSE db
    /\ Return(c, "ok") /\ UNCHANGED <<once, openErr, out>>

ClientStep(c) ==
    \/ WaitOpen(c) \/ Lookup(c) \/ LookupKeys(c) \/ Join(c) \/ EnterClose(c) \/ CloseDB(c)
    \/ \E sh \in shares[c] : ReadShare(c, sh) \/ ReadValue(c, sh)

Next == OpenDB \/ \E c \in Clients : Start(c) \/ ClientStep(c)

Spec == Init /\ [][Next]_vars

-----------------------------------------------------------------------------
(***************************************************************************)
(* Properties.                                                              *)
(***************************************************************************)
\* The types of the variables.
TypeOK ==
    /\ once \in {"new", "busy", "done"} /\ openErr \in BOOLEAN
    /\ db \in {"none", "open", "closed"} /\ closeOnce \in {"new", "busy", "done"}
    /\ \A c \in Clients :
          /\ req[c] \in Requests \cup {Close} /\ ret[c] \in {"none", "ok", "err"}
          /\ \A sh \in shares[c] : 0 <= sh.lo /\ sh.lo < sh.hi /\ sh.hi <= Len(req[c].keys)
          /\ \A i \in DOMAIN bitmaps[c] : bitmaps[c][i] \in Keys \cup {None}
          /\ out[c] \in Seq(Keys \cup {None})

\* The index is an index, as the one on packfiles is, but exact: a call is answered
\* key by key in the order asked for, or fails; a key that is not there gets nil.
Answered(c) == pc[c] = "idle" /\ ret[c] = "ok"

Abstract == INSTANCE KeyedReader WITH
    Questions <- {q.keys : q \in Requests},
    Answers <- [k \in Keys |-> IF k \in Indexed THEN {k} ELSE {None}],
    asked <- [c \in Clients |-> IF pc[c] = "idle" \/ Closing(c) THEN <<>> ELSE req[c].keys],
    answer <- [c \in Clients |-> IF Answered(c) THEN out[c] ELSE <<>>],
    isClosed <- closeOnce # "new" \/ \E c \in Clients : Closing(c)

ImplementsReader == Abstract!ReaderSpec

\* Workers that run at the same time own different positions of bitmaps.
NoRace == \A c \in Clients : \A s, t \in shares[c] :
              s # t => s.hi <= t.lo \/ t.hi <= s.lo

\* When Close has returned no open is under way and the database is not open.
Released == closeOnce = "done" => once = "done" /\ db # "open"
=============================================================================
