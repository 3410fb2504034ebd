----------------------------- MODULE IndexReader -----------------------------
(***************************************************************************)
(* The bitmap index reader of bitmapindex/reader.go: the MPHF and the       *)
(* packfile that load in the background, Lookup, LookupKeys with the        *)
(* concurrent callbacks of ReadItems, and Close.                            *)
(*                                                                          *)
(* Data.  A key is its 128-bit hash.  The bitmap stored for an indexed key  *)
(* is the key itself.  An entry of the data file is the fingerprint and the *)
(* bitmap of the key of its rank.                                           *)
(***************************************************************************)
EXTENDS Integers, Sequences, FiniteSets, SequencesExt

CONSTANTS
    Clients,        \* goroutines that use the Reader
    Concurrency,    \* how many callbacks ReadItems runs at once
    Keys,           \* bound: the keys that are looked up
    Ranked,         \* the indexed keys, in the order of their ranks
    Fingerprint,    \* the first four bytes of each key's hash
    Requests,       \* bound: the calls, [op: {"lookup", "keys"}, keys: Seq(Keys)]
    Faults,         \* bound: what may go wrong, but for damaged bitmaps
    None            \* a nil bitmap

Ranks    == 0 .. Len(Ranked) - 1
NotFound == -1
Entry(r) == [fp |-> Fingerprint[Ranked[r + 1]], bitmap |-> Ranked[r + 1]]

ASSUME IndexAssumption ==
    /\ Concurrency \in Nat \ {0} /\ Ranked \in Seq(Keys) /\ IsInjective(Ranked)
    /\ Requests \subseteq [op: {"lookup", "keys"}, keys: Seq(Keys)]
    /\ \A q \in Requests : q.keys # <<>> /\ (q.op = "lookup" => Len(q.keys) = 1)
    /\ Faults \subseteq {"mphf", "data", "query", "read", "ctx"}

VARIABLES
    loader,      \* the goroutine of Open: "running" or "done"
    loaded,      \* what waits in its channel: "nothing", "ok" or "err"
    once,        \* sync.OnceValues: "new", "ok" or "err"
    mphf, data,  \* the two files: "none", "open" or "closed"; data may be "failed"
    query,       \* what mphf.Query returns: any rank, or not found, for an unknown key
    damaged,     \* ranks whose bitmap does not deserialize
    faults,      \* what does go wrong
    closeOnce,   \* "new", "busy" or "done"
    pc, req,     \* per client: where its call stands, what it asked for
    found,       \* LookupKeys' slice of outIdx and rank, sorted by rank
    todo,        \* the ranks of indices that ReadItems has not handed to a callback
    running,     \* running[r]: the k the callback of rank r has reached
    out, ret     \* the bitmaps; what the last call returned

loadVars == <<loader, loaded, once, mphf, data, closeOnce>>
fileVars == <<query, damaged, faults>>
callVars == <<pc, req, found, todo, running, out, ret>>
vars     == <<loadVars, fileVars, callVars>>

Idle   == [op |-> "none", keys |-> <<>>]
Close  == [op |-> "close", keys |-> <<>>]
NoCall == [r \in {} |-> 0]

\* Open has returned; the packfile opens in a goroutine of its own.
Init ==
    /\ loader = "running" /\ loaded = "nothing" /\ once = "new"
    /\ mphf = "none" /\ data = "none" /\ closeOnce = "new"
    /\ query \in [Keys -> Ranks \cup {NotFound}]
    /\ \A r \in Ranks : query[Ranked[r + 1]] = r
    /\ damaged \in SUBSET Ranks /\ faults \in SUBSET Faults
    /\ pc = [c \in Clients |-> "idle"] /\ req = [c \in Clients |-> Idle]
    /\ found = [c \in Clients |-> <<>>] /\ todo = [c \in Clients |-> {}]
    /\ running = [c \in Clients |-> NoCall]
    /\ out = [c \in Clients |-> <<>>] /\ ret = [c \in Clients |-> "none"]

-----------------------------------------------------------------------------
(***************************************************************************)
(* The two loads.                                                           *)
(***************************************************************************)
\* loadMPHF and its recover: a failed or panicking load leaves nothing open.
LoadMPHF ==
    /\ loader = "running" /\ loader' = "done"
    /\ \/ loaded' = "ok" /\ mphf' = "open"
       \/ "mphf" \in faults /\ loaded' = "err" /\ UNCHANGED mphf
    /\ UNCHANGED <<once, data, closeOnce, fileVars, callVars>>

\* packfile.Open in the background (see PackReader).
OpenData ==
    /\ data = "none"
    /\ data' \in {"open"} \cup (IF "data" \in faults THEN {"failed"} ELSE {})
    /\ UNCHANGED <<loader, loaded, once, mphf, closeOnce, fileVars, callVars>>

\* waitMPHF: the first caller receives from the channel, the others wait for it.
FirstWait ==
    /\ loaded # "nothing" /\ loaded' = "nothing"
    /\ once = "new" /\ once' = loaded

LaterWait == once \in {"ok", "err"} /\ UNCHANGED <<once, loaded>>

WaitMPHF == FirstWait \/ LaterWait

-----------------------------------------------------------------------------
(***************************************************************************)
(* Calls.                                                                   *)
(***************************************************************************)
\* Readers are safe for concurrent lookups; a program closes after its last one,
\* from one goroutine or several.
Closing(c) == pc[c] # "idle" /\ req[c].op = "close"

Start(c) ==
    /\ pc[c] = "idle"
    /\ \/ /\ closeOnce = "new" /\ \A d \in Clients : ~Closing(d)
          /\ \E q \in Requests : req' = [req EXCEPT ![c] = q]
          /\ pc' = [pc EXCEPT ![c] = "wait"]
       \/ /\ \A d \in Clients : pc[d] = "idle" \/ Closing(d)
          /\ req' = [req EXCEPT ![c] = Close]
          /\ pc' = [pc EXCEPT ![c] = "once"]
    /\ ret' = [ret EXCEPT ![c] = "none"] /\ out' = [out EXCEPT ![c] = <<>>]
    /\ UNCHANGED <<loadVars, fileVars, found, todo, running>>

Goto(c, where) == pc' = [pc EXCEPT ![c] = where] /\ UNCHANGED <<req, ret>>

Return(c, res) ==
    /\ pc' = [pc EXCEPT ![c] = "idle"] /\ ret' = [ret EXCEPT ![c] = res]
    /\ UNCHANGED req
    /\ found' = [found EXCEPT ![c] = <<>>] /\ todo' = [todo EXCEPT ![c] = {}]
    /\ UNCHANGED running

\* waitMPHF, which every call starts with.
Waited(c) ==
    /\ pc[c] = "wait" /\ WaitMPHF
    /\ UNCHANGED <<loader, mphf, data, closeOnce, fileVars, out>>
    /\ IF once' = "err" /\ req[c].op # "close"
       THEN Return(c, "err")
       ELSE Goto(c, req[c].op) /\ UNCHANGED <<found, todo, running>>

\* Bug: the fingerprint is not compared.
NeverChecked(r, k) == TRUE

\* verifyAndDeserialize(entry of rank r, hash of k).
Matches(r, k) == Entry(r).fp = Fingerprint[k]

Verify(r, k) == IF ~Matches(r, k) THEN "ErrKeyNotFound"
                ELSE IF r \in damaged THEN "err" ELSE "ok"

\* Lookup: query, read the entry of the rank, verify it.
Lookup(c) ==
    /\ pc[c] = "lookup"
    /\ UNCHANGED <<loadVars, fileVars>>
    /\ LET k == req[c].keys[1]
           r == query[k]
       IN \/ /\ "query" \in faults /\ Return(c, "err") /\ UNCHANGED out
          \/ /\ r = NotFound
             /\ Return(c, "ok") /\ out' = [out EXCEPT ![c] = <<None>>]
          \/ /\ r # NotFound /\ UNCHANGED out /\ Return(c, "err")
             /\ data = "failed" \/ "read" \in faults
          \/ /\ r # NotFound /\ data = "open" /\ Verify(r, k) = "err"
             /\ Return(c, "err") /\ UNCHANGED out
          \/ /\ r # NotFound /\ data = "open" /\ Verify(r, k) # "err" /\ Return(c, "ok")
             /\ out' = [out EXCEPT ![c] =
                   IF Verify(r, k) = "ok" THEN <<Entry(r).bitmap>> ELSE <<None>>]

\* The keys the MPHF knows a rank for, sorted by rank, equal ranks in any order.
FoundKeys(keys) == {[outIdx |-> i, rank |-> query[keys[i]]] :
                       i \in {j \in DOMAIN keys : query[keys[j]] # NotFound}}

ByRank(s) == \A i, j \in DOMAIN s : i < j => s[i].rank <= s[j].rank

\* groupStart: where the group of each distinct rank starts in found.
NewRank(fs, k) == k > 1 => fs[k].rank # fs[k - 1].rank

\* Bug: a group runs to the end of found.
ToTheEnd(fs, k) == k < Len(fs)

\* Bug: a group is one key.
OneKey(fs, k) == FALSE

\* The callback's loop goes on after k: the next group has not begun.
InGroup(fs, k) == k < Len(fs) /\ ~NewRank(fs, k + 1)

\* LookupKeys up to ReadItems.
QueryKeys(c) ==
    /\ pc[c] = "keys"
    /\ UNCHANGED <<loadVars, fileVars>>
    /\ LET keys == req[c].keys
           nils == [out EXCEPT ![c] = [i \in DOMAIN keys |-> None]]
       IN \/ "query" \in faults /\ Return(c, "err") /\ UNCHANGED out
          \/ FoundKeys(keys) = {} /\ Return(c, "ok") /\ out' = nils
          \/ /\ FoundKeys(keys) # {}
             /\ \E fs \in SetToSeqs(FoundKeys(keys)) :
                   /\ ByRank(fs)
                   /\ found' = [found EXCEPT ![c] = fs]
                   /\ todo' = [todo EXCEPT ![c] = {fs[k].rank : k \in DOMAIN fs}]
             /\ out' = nils
             /\ Goto(c, "read") /\ UNCHANGED running

\* The callbacks, when that of rank r reaches position k.
Reaches(calls, r, k) == [s \in DOMAIN calls \cup {r} |-> IF s = r THEN k ELSE calls[s]]

\* ReadItems (see PackReader): each index is handed to the callback once, in any
\* order, at most Concurrency at a time; a failure stops those not yet started.
StartCallback(c, r) ==
    /\ pc[c] = "read" /\ data = "open" /\ r \in todo[c]
    /\ Cardinality(DOMAIN running[c]) < Concurrency
    /\ todo' = [todo EXCEPT ![c] = @ \ {r}]
    /\ \E k \in DOMAIN found[c] :
          /\ NewRank(found[c], k) /\ found[c][k].rank = r
          /\ running' = [running EXCEPT ![c] = Reaches(@, r, k)]
    /\ UNCHANGED <<loadVars, fileVars, pc, req, found, out, ret>>

\* The callback's loop: one key of the group, against the entry that was read.
EndCallback(c, r) == running' = [running EXCEPT ![c] = Restrict(@, DOMAIN @ \ {r})]

NextKey(c, r) ==
    LET k == running[c][r]
    IN IF InGroup(found[c], k)
       THEN running' = [running EXCEPT ![c] = Reaches(@, r, k + 1)]
       ELSE EndCallback(c, r)

CallbackKey(c, r) ==
    /\ pc[c] \in {"read", "failing"} /\ r \in DOMAIN running[c]
    /\ UNCHANGED <<loadVars, fileVars, req, found, todo, ret>>
    /\ LET i == found[c][running[c][r]].outIdx
           k == req[c].keys[i]
       IN \/ Verify(r, k) = "ErrKeyNotFound" /\ NextKey(c, r) /\ UNCHANGED <<pc, out>>
          \/ /\ Verify(r, k) = "err" /\ EndCallback(c, r) /\ UNCHANGED out
             /\ pc' = [pc EXCEPT ![c] = "failing"]
          \/ /\ Verify(r, k) = "ok" /\ NextKey(c, r) /\ UNCHANGED pc
             /\ out' = [out EXCEPT ![c][i] = Entry(r).bitmap]

\* The packfile did not open, a read failed or the context was cancelled.
ReadFails(c) ==
    /\ pc[c] = "read"
    /\ \/ data = "failed"
       \/ data = "open" /\ faults \cap {"read", "ctx"} # {}
    /\ Goto(c, "failing")
    /\ UNCHANGED <<loadVars, fileVars, found, todo, running, out>>

\* ReadItems has waited for its workers.
AllDone(c) == running[c] = NoCall /\ (todo[c] = {} \/ pc[c] = "failing")

ReadReturns(c) ==
    /\ pc[c] \in {"read", "failing"} /\ AllDone(c)
    /\ Return(c, IF pc[c] = "failing" THEN "err" ELSE "ok")
    /\ UNCHANGED <<loadVars, fileVars, out>>

\* Close: the first caller runs the body, the others wait until it is done.
EnterOnce(c) ==
    /\ pc[c] = "once"
    /\ \/ closeOnce = "new" /\ closeOnce' = "busy" /\ Goto(c, "wait")
          /\ UNCHANGED <<found, todo, running>>
       \/ closeOnce = "done" /\ Return(c, "ok") /\ UNCHANGED closeOnce
    /\ UNCHANGED <<loader, loaded, once, mphf, data, fileVars, out>>

\* The body: the MPHF, if it loaded, then the packfile, whose Close waits for its open.
CloseMPHF(c) ==
    /\ pc[c] = "close" /\ Goto(c, "closeData")
    /\ mphf' = IF mphf = "open" THEN "closed" ELSE mphf
    /\ UNCHANGED <<loader, loaded, once, data, closeOnce, fileVars, found, todo, running, out>>

\* Bug: Close does not wait for the packfile's open.
CloseNotWaiting(c) ==
    /\ pc[c] = "closeData"
    /\ data' = IF data = "open" THEN "closed" ELSE data
    /\ closeOnce' = "done" /\ Return(c, "ok")
    /\ UNCHANGED <<loader, loaded, once, mphf, fileVars, out>>

CloseData(c) ==
    /\ pc[c] = "closeData" /\ data # "none"
    /\ data' = IF data = "open" THEN "closed" ELSE data
    /\ closeOnce' = "done"
    /\ Return(c, "ok")
    /\ UNCHANGED <<loader, loaded, once, mphf, fileVars, out>>

-----------------------------------------------------------------------------
ClientStep(c) ==
    \/ Waited(c) \/ Lookup(c) \/ QueryKeys(c) \/ ReadFails(c) \/ ReadReturns(c)
    \/ EnterOnce(c) \/ CloseMPHF(c) \/ CloseData(c)
    \/ \E r \in todo[c] : StartCallback(c, r)
    \/ \E r \in DOMAIN running[c] : CallbackKey(c, r)

Next == LoadMPHF \/ OpenData \/ \E c \in Clients : Start(c) \/ ClientStep(c)

Spec == Init /\ [][Next]_vars

-----------------------------------------------------------------------------
(***************************************************************************)
(* Properties.                                                              *)
(***************************************************************************)
\* The types of the variables.
TypeOK ==
    /\ loader \in {"running", "done"} /\ loaded \in {"nothing", "ok", "err"}
    /\ once \in {"new", "ok", "err"} /\ closeOnce \in {"new", "busy", "done"}
    /\ mphf \in {"none", "open", "closed"} /\ data \in {"none", "open", "failed", "closed"}
    /\ query \in [Keys -> Ranks \cup {NotFound}]
    /\ damaged \subseteq Ranks /\ faults \subseteq Faults
    /\ \A c \in Clients :
          /\ req[c] \in Requests \cup {Idle, Close} /\ ret[c] \in {"none", "ok", "err"}
          /\ found[c] \in Seq([outIdx: DOMAIN req[c].keys, rank: Ranks])
          /\ todo[c] \cup DOMAIN running[c] \subseteq {found[c][k].rank : k \in DOMAIN found[c]}
          /\ \A r \in DOMAIN running[c] : running[c][r] \in DOMAIN found[c]
          /\ out[c] \in Seq(Keys \cup {None})

\* Callbacks that run at the same time never write the same element of out, which
\* reader.go:222 calls safe ("each outIdx is unique"), and none is left that could write
\* to a slice LookupKeys has returned.
NoRace ==
    \A c \in Clients :
        /\ \A r, s \in DOMAIN running[c] :
              r # s => found[c][running[c][r]].outIdx # found[c][running[c][s]].outIdx
        /\ pc[c] = "idle" => running[c] = NoCall

\* Two calls that succeed give a key the same answer, whether it was asked alone or in a
\* batch, next to whichever keys, and whatever rank an unknown key maps to.  And a key
\* that is not in the index fails no call: an error has its cause in a file, the context,
\* or an entry that one of the keys asked for hits.
Answered(c) == pc[c] = "idle" /\ ret[c] = "ok"

TrueAnswers ==
    /\ \A c, d \in Clients : Answered(c) /\ Answered(d) =>
          \A i \in DOMAIN out[c], j \in DOMAIN out[d] :
              req[c].keys[i] = req[d].keys[j] => out[c][i] = out[d][j]
    /\ \A c \in Clients : pc[c] = "idle" /\ ret[c] = "err" =>
          \/ once = "err" \/ data = "failed" \/ faults \cap {"query", "read", "ctx"} # {}
          \/ \E i \in DOMAIN req[c].keys :
                /\ query[req[c].keys[i]] \in damaged
                /\ Matches(query[req[c].keys[i]], req[c].keys[i])

\* When Close has returned neither file is open, and none of the two loads will open one,
\* however the loads and the close met.
Released == closeOnce = "done" =>
    loader = "done" /\ mphf # "open" /\ data \in {"failed", "closed"}

\* The index is an index: a call is answered key by key with the bitmap of each
\* indexed key, or fails.  A key that is not indexed gets nil, or the bitmap of an
\* indexed key with the same fingerprint.
Confused(k) == {j \in ToSet(Ranked) : Fingerprint[j] = Fingerprint[k]}

Abstract == INSTANCE KeyedReader WITH
    Questions <- {q.keys : q \in Requests},
    Answers <- [k \in Keys |-> IF k \in ToSet(Ranked) THEN {k} ELSE {None} \cup Confused(k)],
    asked <- [c \in Clients |-> IF pc[c] = "idle" \/ Closing(c) THEN <<>> ELSE req[c].keys],
    answer <- [c \in Clients |-> IF Answered(c) THEN out[c] ELSE <<>>],
    isClosed <- closeOnce # "new" \/ \E c \in Clients : Closing(c)

ImplementsReader == Abstract!ReaderSpec
=============================================================================
