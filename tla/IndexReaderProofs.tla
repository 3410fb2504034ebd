--------------------------- MODULE IndexReaderProofs ---------------------------
(***************************************************************************)
(* Theorems about the bitmap index reader, for any index, any fingerprints, *)
(* any ranks the MPHF returns for unknown keys, any callers, callbacks and  *)
(* batches of keys, and any faults.                                         *)
(***************************************************************************)
EXTENDS IndexReader, FiniteSetTheorems, TLAPS

Points == {"idle", "once", "wait", "lookup", "keys", "read", "failing", "close", "closeData"}

Values == Keys \cup {None}

\* ReadItems has been called and has not returned.
Reading(c) == pc[c] \in {"read", "failing"}

TypeInv ==
    /\ loader \in {"running", "done"} /\ loaded \in {"nothing", "ok", "err"}
    /\ once \in {"new", "ok", "err"} /\ closeOnce \in {"new", "busy", "done"}
    /\ mphf \in {"none", "open", "closed"} /\ data \in {"none", "open", "failed", "closed"}
    /\ query \in [Keys -> Ranks \cup {NotFound}] /\ \A r \in Ranks : query[Ranked[r + 1]] = r
    /\ damaged \subseteq Ranks /\ faults \subseteq Faults
    /\ pc \in [Clients -> Points] /\ req \in [Clients -> Requests \cup {Idle, Close}]
    /\ DOMAIN found = Clients /\ DOMAIN todo = Clients /\ DOMAIN running = Clients
    /\ out \in [Clients -> Seq(Values)] /\ ret \in [Clients -> {"none", "ok", "err"}]

(***************************************************************************)
(* The two loads.  Whoever has got past waitMPHF knows that the first is    *)
(* over, and the body of Close waits for the second.                        *)
(***************************************************************************)
LoadInv ==
    /\ loaded # "nothing" \/ once # "new" => loader = "done"
    /\ \A c \in Clients :
          /\ pc[c] \in {"close", "closeData"} => loader = "done"
          /\ pc[c] = "closeData" => mphf # "open"
    /\ Released

(***************************************************************************)
(* What a call asks for, and what it holds outside ReadItems.               *)
(***************************************************************************)
CallOf(c) ==
    /\ pc[c] \in {"lookup", "keys", "read", "failing"} => req[c] \in Requests
    /\ pc[c] = "lookup" => req[c].op = "lookup"
    /\ pc[c] \in {"once", "close", "closeData"} => req[c] = Close
    /\ pc[c] # "idle" => req[c] # Idle
    /\ pc[c] # "idle" /\ ~Reading(c) => out[c] = <<>>
    /\ ~Reading(c) => found[c] = <<>> /\ todo[c] = {} /\ running[c] = NoCall

CallInv == \A c \in Clients : CallOf(c)

(***************************************************************************)
(* The callbacks.  Every key with a rank has its place in found, equal      *)
(* ranks are neighbours, a rank that is running is not waiting, and a       *)
(* callback stands inside the group of its rank.                            *)
(***************************************************************************)
\* The answer of key k, alone or in a batch.
AnswerTo(k) == IF query[k] = NotFound \/ ~Matches(query[k], k) THEN None
               ELSE Entry(query[k]).bitmap

\* Among these keys one hits an entry whose bitmap does not deserialize.
HitsDamage(keys) == \E i \in DOMAIN keys :
    query[keys[i]] \in damaged /\ Matches(query[keys[i]], keys[i])

Sorted(fs, keys) ==
    /\ fs \in Seq([outIdx: DOMAIN keys, rank: Ranks]) /\ ByRank(fs)
    /\ \A k \in DOMAIN fs : fs[k].rank = query[keys[fs[k].outIdx]]
    /\ \A j, k \in DOMAIN fs : fs[j].outIdx = fs[k].outIdx => j = k
    /\ \A i \in DOMAIN keys : query[keys[i]] # NotFound => \E k \in DOMAIN fs : fs[k].outIdx = i

\* A callback has still to look at position k of found.
Pending(c, k) ==
    LET r == found[c][k].rank
    IN r \in todo[c] \/ (r \in DOMAIN running[c] /\ running[c][r] <= k)

InItsGroup(c, r) ==
    r \notin todo[c] /\ running[c][r] \in DOMAIN found[c] /\ found[c][running[c][r]].rank = r

Blamed(c) == data = "failed" \/ faults \cap {"read", "ctx"} # {} \/ HitsDamage(req[c].keys)

ReadOf(c) ==
    Reading(c) =>
        /\ Sorted(found[c], req[c].keys)
        /\ todo[c] \subseteq {found[c][k].rank : k \in DOMAIN found[c]}
        /\ \A r \in DOMAIN running[c] : InItsGroup(c, r)
        /\ DOMAIN out[c] = DOMAIN req[c].keys
        /\ \A i \in DOMAIN out[c] : out[c][i] \in {None, AnswerTo(req[c].keys[i])}
        /\ \/ pc[c] = "failing" /\ Blamed(c)
           \/ /\ pc[c] = "read"
              /\ \A k \in DOMAIN found[c] :
                    LET i == found[c][k].outIdx
                    IN Pending(c, k) \/ out[c][i] = AnswerTo(req[c].keys[i])

ReadInv == \A c \in Clients : ReadOf(c)

(***************************************************************************)
(* What the calls have returned.                                            *)
(***************************************************************************)
ErrorHasCause(c) == \/ once = "err" \/ data = "failed" \/ faults \cap {"query", "read", "ctx"} # {}
                    \/ HitsDamage(req[c].keys)

AnswerOf(c) ==
    /\ Answered(c) => /\ DOMAIN out[c] = DOMAIN req[c].keys
                      /\ \A i \in DOMAIN out[c] : out[c][i] = AnswerTo(req[c].keys[i])
    /\ pc[c] = "idle" /\ ret[c] = "err" => ErrorHasCause(c)

AnswerInv == \A c \in Clients : AnswerOf(c)

IndexInv == TypeInv /\ LoadInv /\ CallInv /\ ReadInv /\ AnswerInv

-----------------------------------------------------------------------------
(***************************************************************************)
(* What a step leaves alone.                                                *)
(***************************************************************************)
\* A step of one call changes nothing of another.
LEMMA OtherCall ==
  ASSUME TypeInv, NEW c \in Clients, NEW d \in Clients \ {c}, Start(c) \/ ClientStep(c)
  PROVE  /\ pc'[d] = pc[d] /\ req'[d] = req[d] /\ out'[d] = out[d] /\ ret'[d] = ret[d]
         /\ found'[d] = found[d] /\ todo'[d] = todo[d] /\ running'[d] = running[d]
<1>1. CASE Start(c)
  BY <1>1 DEF TypeInv, Start
<1>2. CASE Waited(c) \/ EnterOnce(c)
  BY <1>2 DEF TypeInv, Waited, EnterOnce, Goto, Return
<1>3. CASE CloseMPHF(c) \/ CloseData(c)
  BY <1>3 DEF TypeInv, CloseMPHF, CloseData, Goto, Return
<1>4. CASE Lookup(c)
  BY <1>4 DEF TypeInv, Lookup, Return
<1>5. CASE QueryKeys(c)
  BY <1>5 DEF TypeInv, QueryKeys, Goto, Return
<1>6. CASE ReadFails(c) \/ ReadReturns(c)
  BY <1>6 DEF TypeInv, ReadFails, ReadReturns, Goto, Return
<1>7. ASSUME NEW r \in todo[c], StartCallback(c, r)
      PROVE  /\ UNCHANGED <<pc, req, found, out, ret>>
             /\ todo'[d] = todo[d] /\ running'[d] = running[d]
  BY <1>7 DEF TypeInv, StartCallback
<1>8. ASSUME NEW r \in DOMAIN running[c], CallbackKey(c, r)
      PROVE  /\ UNCHANGED <<req, found, todo, ret>>
             /\ pc'[d] = pc[d] /\ out'[d] = out[d] /\ running'[d] = running[d]
  BY <1>8 DEF TypeInv, CallbackKey, NextKey, EndCallback
<1> QED
  BY <1>1, <1>2, <1>3, <1>4, <1>5, <1>6, <1>7, <1>8 DEF ClientStep

\* The files stay what they are, and the loads touch no call.
LEMMA FilesStay ==
  ASSUME [Next]_vars
  PROVE  UNCHANGED fileVars
  BY DEF Next, LoadMPHF, OpenData, Start, ClientStep, Waited, Lookup, QueryKeys, ReadFails,
         ReadReturns, EnterOnce, CloseMPHF, CloseData, StartCallback, CallbackKey, vars, fileVars

LEMMA LoadsKeep ==
  ASSUME LoadMPHF \/ OpenData
  PROVE  UNCHANGED <<callVars, fileVars, once, closeOnce>>
  BY DEF LoadMPHF, OpenData

\* A load that failed has failed for good.
LEMMA FailuresStay ==
  ASSUME TypeInv, [Next]_vars
  PROVE  (once = "err" => once' = "err") /\ (data = "failed" => data' = "failed")
<1>1. CASE LoadMPHF \/ OpenData
  BY <1>1 DEF LoadMPHF, OpenData
<1>2. ASSUME NEW c \in Clients, Start(c) PROVE UNCHANGED <<once, data>>
  BY <1>2 DEF Start, loadVars
<1>3. ASSUME NEW c \in Clients, Waited(c) PROVE (once = "err" => once' = "err") /\ UNCHANGED data
  BY <1>3 DEF Waited, WaitMPHF, FirstWait, LaterWait
<1>4. ASSUME NEW c \in Clients, EnterOnce(c) \/ CloseMPHF(c) \/ CloseData(c)
      PROVE  UNCHANGED once /\ (data = "failed" => data' = "failed")
  BY <1>4 DEF EnterOnce, CloseMPHF, CloseData
<1>5. ASSUME NEW c \in Clients,
             \/ Lookup(c) \/ QueryKeys(c) \/ ReadFails(c) \/ ReadReturns(c)
             \/ \E r \in todo[c] : StartCallback(c, r)
             \/ \E r \in DOMAIN running[c] : CallbackKey(c, r)
      PROVE  UNCHANGED <<once, data>>
  BY <1>5 DEF Lookup, QueryKeys, ReadFails, ReadReturns, StartCallback, CallbackKey, loadVars
<1>6. CASE UNCHANGED vars
  BY <1>6 DEF vars, loadVars
<1> QED
  BY <1>1, <1>2, <1>3, <1>4, <1>5, <1>6 DEF Next, ClientStep

LEMMA CloseIsApart ==
  \A q \in Requests :
     /\ q \in [op: {"lookup", "keys"}, keys: Seq(Keys)] /\ q # Close /\ q # Idle
     /\ q.op \in {"lookup", "keys"} /\ q.keys \in Seq(Keys) /\ q.keys # <<>>
     /\ Len(q.keys) \in Nat \ {0} /\ (q.op = "lookup" => Len(q.keys) = 1)
     /\ DOMAIN q.keys = 1 .. Len(q.keys) /\ \A i \in DOMAIN q.keys : q.keys[i] \in Keys
<1> SUFFICES ASSUME NEW q \in Requests
             PROVE  /\ q \in [op: {"lookup", "keys"}, keys: Seq(Keys)] /\ q # Close /\ q # Idle
                    /\ q.op \in {"lookup", "keys"} /\ q.keys \in Seq(Keys) /\ q.keys # <<>>
                    /\ Len(q.keys) \in Nat \ {0} /\ (q.op = "lookup" => Len(q.keys) = 1)
                    /\ DOMAIN q.keys = 1 .. Len(q.keys)
                    /\ \A i \in DOMAIN q.keys : q.keys[i] \in Keys
  OBVIOUS
<1>1. q \in [op: {"lookup", "keys"}, keys: Seq(Keys)] /\ q.keys # <<>>
  BY IndexAssumption
<1>2. q.keys \in Seq(Keys) /\ q.op \in {"lookup", "keys"}
  BY <1>1
<1>3. /\ Len(q.keys) \in Nat /\ Len(q.keys) # 0 /\ DOMAIN q.keys = 1 .. Len(q.keys)
      /\ \A i \in 1 .. Len(q.keys) : q.keys[i] \in Keys
  BY <1>1, <1>2
<1> QED
  BY <1>1, <1>2, <1>3, IndexAssumption DEF Close, Idle

\* The index: every rank has its key, every key its rank, and an entry holds what
\* LookupKeys may answer.
LEMMA Entries ==
  ASSUME TypeInv
  PROVE  /\ Len(Ranked) \in Nat
         /\ \A r \in Ranks : Entry(r).bitmap \in Keys /\ Entry(r).bitmap \in ToSet(Ranked)
                             /\ Entry(r).fp = Fingerprint[Entry(r).bitmap]
         /\ \A k \in Keys : AnswerTo(k) \in Values /\ (query[k] # NotFound => query[k] \in Ranks)
<1>1. Len(Ranked) \in Nat /\ DOMAIN Ranked = 1 .. Len(Ranked)
      /\ \A i \in 1 .. Len(Ranked) : Ranked[i] \in Keys
  BY IndexAssumption
<1>2. \A r \in Ranks : r + 1 \in 1 .. Len(Ranked)
  BY <1>1 DEF Ranks
<1>3. \A r \in Ranks : Entry(r).bitmap \in Keys /\ Entry(r).bitmap \in ToSet(Ranked)
                       /\ Entry(r).fp = Fingerprint[Entry(r).bitmap]
  BY <1>1, <1>2 DEF Entry, ToSet
<1>4. \A k \in Keys : query[k] # NotFound => query[k] \in Ranks
  BY DEF TypeInv
<1> QED
  BY <1>1, <1>3, <1>4 DEF AnswerTo, Values

-----------------------------------------------------------------------------
(***************************************************************************)
(* The types and the loads.                                                 *)
(***************************************************************************)
LEMMA TypeReturn ==
  ASSUME TypeInv, NEW c \in Clients, NEW res \in {"ok", "err"}, Return(c, res)
  PROVE  /\ pc' \in [Clients -> Points] /\ req' \in [Clients -> Requests \cup {Idle, Close}]
         /\ DOMAIN found' = Clients /\ DOMAIN todo' = Clients /\ DOMAIN running' = Clients
         /\ ret' \in [Clients -> {"none", "ok", "err"}]
  BY DEF TypeInv, Return, Points

LEMMA TypeGoto ==
  ASSUME TypeInv, NEW c \in Clients, NEW where \in Points, Goto(c, where)
  PROVE  /\ pc' \in [Clients -> Points] /\ req' \in [Clients -> Requests \cup {Idle, Close}]
         /\ ret' \in [Clients -> {"none", "ok", "err"}]
  BY DEF TypeInv, Goto

\* Where waitMPHF leaves a call.
LEMMA AfterWait ==
  ASSUME TypeInv, CallInv, NEW c \in Clients, Waited(c)
  PROVE  /\ \/ req[c] \in Requests /\ once' = "err" /\ Return(c, "err")
            \/ /\ Goto(c, req[c].op) /\ UNCHANGED <<found, todo, running>>
               /\ req[c] \in Requests /\ req[c].op \in {"lookup", "keys"}
            \/ /\ Goto(c, "close") /\ UNCHANGED <<found, todo, running>>
               /\ req[c] = Close
         /\ UNCHANGED <<loader, mphf, data, closeOnce, fileVars, out>>
         /\ once' \in {"new", "ok", "err"} /\ loaded' \in {"nothing", "ok", "err"}
         /\ (once' # "new" => loaded # "nothing" \/ once # "new")
         /\ (loaded # "nothing" \/ once # "new")
         /\ (loaded' # "nothing" => loaded # "nothing")
         /\ once' # "new"
<1>1. req[c] \in Requests \/ req[c] = Close
  BY DEF Waited, CallInv, CallOf, TypeInv
<1>2. /\ once' \in {"new", "ok", "err"} /\ loaded' \in {"nothing", "ok", "err"}
      /\ loaded # "nothing" \/ once # "new"
      /\ (loaded' # "nothing" => loaded # "nothing") /\ once' # "new"
  BY DEF Waited, WaitMPHF, FirstWait, LaterWait, TypeInv
<1>3. CASE req[c] \in Requests
  BY <1>2, <1>3, CloseIsApart DEF Waited
<1>4. CASE req[c] = Close
  BY <1>2, <1>4 DEF Waited, Close
<1> QED
  BY <1>1, <1>3, <1>4

LEMMA TypeLookup ==
  ASSUME TypeInv, CallInv, NEW c \in Clients, Lookup(c)
  PROVE  /\ \E res \in {"ok", "err"} : Return(c, res)
         /\ out' \in [Clients -> Seq(Values)]
<1>1. req[c] \in Requests /\ req[c].op = "lookup"
  BY DEF Lookup, CallInv, CallOf
<1>2. DOMAIN req[c].keys = {1} /\ req[c].keys[1] \in Keys
  BY <1>1, CloseIsApart
<1>3. query[req[c].keys[1]] # NotFound => query[req[c].keys[1]] \in Ranks
  BY <1>2, Entries
<1>4. \A r \in Ranks : <<Entry(r).bitmap>> \in Seq(Values)
  BY Entries DEF Values
<1>5. <<None>> \in Seq(Values)
  BY DEF Values
<1>6. \E res \in {"ok", "err"} : Return(c, res)
  BY DEF Lookup
<1>7. out' = out \/ \E v \in Seq(Values) : out' = [out EXCEPT ![c] = v]
  BY <1>3, <1>4, <1>5 DEF Lookup
<1> QED
  BY <1>6, <1>7 DEF TypeInv

LEMMA TypeQuery ==
  ASSUME TypeInv, CallInv, NEW c \in Clients, QueryKeys(c)
  PROVE  /\ out' \in [Clients -> Seq(Values)]
         /\ \/ \E res \in {"ok", "err"} : Return(c, res)
            \/ /\ Goto(c, "read") /\ UNCHANGED running
               /\ DOMAIN found' = Clients /\ DOMAIN todo' = Clients
<1>1. req[c] \in Requests
  BY DEF QueryKeys, CallInv, CallOf
<1>2. [i \in DOMAIN req[c].keys |-> None] \in Seq(Values)
  <2>1. DOMAIN req[c].keys = 1 .. Len(req[c].keys) /\ Len(req[c].keys) \in Nat
    BY <1>1, CloseIsApart
  <2>2. [i \in 1 .. Len(req[c].keys) |-> None] \in [1 .. Len(req[c].keys) -> Values]
    BY DEF Values
  <2> QED
    BY <2>1, <2>2
<1>3. out' = out \/ \E v \in Seq(Values) : out' = [out EXCEPT ![c] = v]
  BY <1>2 DEF QueryKeys
<1>4. out' \in [Clients -> Seq(Values)]
  BY <1>3 DEF TypeInv
<1> QED
  BY <1>4 DEF QueryKeys, TypeInv

\* What a place of the sorted slice holds.
LEMMA PlaceOf ==
  ASSUME NEW keys, NEW fs \in Seq([outIdx: DOMAIN keys, rank: Ranks])
  PROVE  /\ Len(fs) \in Nat /\ DOMAIN fs = 1 .. Len(fs)
         /\ \A k \in DOMAIN fs : /\ k \in 1 .. Len(fs) /\ fs[k].rank \in Ranks /\ fs[k].rank \in Int
                                 /\ fs[k].outIdx \in DOMAIN keys
<1> DEFINE T == [outIdx: DOMAIN keys, rank: Ranks]
<1>1. \A x \in T : x.rank \in Ranks /\ x.rank \in Int /\ x.outIdx \in DOMAIN keys
  BY DEF Ranks
<1>2. fs \in Seq(T)
  OBVIOUS
<1> HIDE DEF T
<1>3. /\ Len(fs) \in Nat /\ DOMAIN fs = 1 .. Len(fs)
      /\ \A k \in DOMAIN fs : fs[k] \in T
  BY <1>2
<1> QED
  BY <1>1, <1>3

LEMMA TypeCallback ==
  ASSUME TypeInv, ReadInv, NEW c \in Clients, NEW r \in DOMAIN running[c], CallbackKey(c, r)
  PROVE  out' \in [Clients -> Seq(Values)]
<1>1. r \in Ranks
  <2>1. found[c] \in Seq([outIdx: DOMAIN req[c].keys, rank: Ranks])
    BY DEF CallbackKey, ReadInv, ReadOf, Sorted, Reading
  <2>2. running[c][r] \in DOMAIN found[c] /\ found[c][running[c][r]].rank = r
    BY DEF CallbackKey, ReadInv, ReadOf, InItsGroup, Reading
  <2> DEFINE fs == found[c]
             keys == req[c].keys
             k == running[c][r]
  <2>3. fs \in Seq([outIdx: DOMAIN keys, rank: Ranks]) /\ k \in DOMAIN fs /\ fs[k].rank = r
    BY <2>1, <2>2
  <2> HIDE DEF fs, keys, k
  <2> QED
    BY <2>3, PlaceOf
<1>2. Entry(r).bitmap \in Values
  BY <1>1, Entries DEF Values
<1>3. \A s \in Seq(Values) : \A i : [s EXCEPT ![i] = Entry(r).bitmap] \in Seq(Values)
  <2> SUFFICES ASSUME NEW s \in Seq(Values), NEW i
               PROVE  [s EXCEPT ![i] = Entry(r).bitmap] \in Seq(Values)
    OBVIOUS
  <2> DEFINE n == Len(s)
             b == Entry(r).bitmap
             t == [s EXCEPT ![i] = b]
  <2>1. s \in [1 .. n -> Values] /\ n \in Nat
    OBVIOUS
  <2> HIDE DEF n, b
  <2>2. t \in [1 .. n -> Values]
    BY <1>2, <2>1 DEF b
  <2> HIDE DEF t
  <2>3. t \in Seq(Values)
    BY <2>1, <2>2
  <2> QED
    BY <2>3 DEF t, b
<1>4. out' = out \/ \E i : out' = [out EXCEPT ![c] = [out[c] EXCEPT ![i] = Entry(r).bitmap]]
  BY DEF CallbackKey
<1>5. out[c] \in Seq(Values) /\ out \in [Clients -> Seq(Values)]
  BY DEF TypeInv
<1>6. out' = out \/ \E v \in Seq(Values) : out' = [out EXCEPT ![c] = v]
  BY <1>3, <1>4, <1>5
<1> QED
  BY <1>5, <1>6

LEMMA TypeStep ==
  ASSUME TypeInv, CallInv, ReadInv, [Next]_vars
  PROVE  TypeInv'
<1>1. CASE LoadMPHF \/ OpenData
  BY <1>1 DEF LoadMPHF, OpenData, TypeInv, callVars, fileVars
<1>2. ASSUME NEW c \in Clients, Start(c) PROVE TypeInv'
  <2>1. UNCHANGED <<loadVars, fileVars, found, todo, running>>
    BY <1>2 DEF Start
  <2>2. pc' \in [Clients -> Points] /\ req' \in [Clients -> Requests \cup {Idle, Close}]
    <3>1. \E p \in Points : pc' = [pc EXCEPT ![c] = p]
      BY <1>2 DEF Start, Points
    <3>2. \E q \in Requests \cup {Idle, Close} : req' = [req EXCEPT ![c] = q]
      BY <1>2 DEF Start
    <3> QED
      BY <3>1, <3>2 DEF TypeInv
  <2>3. <<>> \in Seq(Values)
    OBVIOUS
  <2>4. out' \in [Clients -> Seq(Values)] /\ ret' \in [Clients -> {"none", "ok", "err"}]
    BY <1>2, <2>3 DEF Start, TypeInv
  <2> QED
    BY <2>1, <2>2, <2>4 DEF TypeInv, loadVars, fileVars
<1>3. ASSUME NEW c \in Clients, Waited(c) PROVE TypeInv'
  <2>1. /\ UNCHANGED <<loader, mphf, data, closeOnce, fileVars, out>>
        /\ once' \in {"new", "ok", "err"} /\ loaded' \in {"nothing", "ok", "err"}
    BY <1>3, AfterWait
  <2>2. CASE Return(c, "err")
    BY <2>1, <2>2, TypeReturn DEF TypeInv, fileVars
  <2>3. CASE \E where \in Points : Goto(c, where) /\ UNCHANGED <<found, todo, running>>
    BY <2>1, <2>3, TypeGoto DEF TypeInv, fileVars
  <2> QED
    BY <1>3, <2>2, <2>3, AfterWait DEF Points
<1>4. ASSUME NEW c \in Clients, Lookup(c) PROVE TypeInv'
  <2>1. UNCHANGED <<loadVars, fileVars>>
    BY <1>4 DEF Lookup
  <2> QED
    BY <1>4, <2>1, TypeLookup, TypeReturn DEF TypeInv, loadVars, fileVars
<1>5. ASSUME NEW c \in Clients, QueryKeys(c) PROVE TypeInv'
  <2>1. UNCHANGED <<loadVars, fileVars>> /\ out' \in [Clients -> Seq(Values)]
    BY <1>5, TypeQuery DEF QueryKeys
  <2>2. CASE \E res \in {"ok", "err"} : Return(c, res)
    BY <2>1, <2>2, TypeReturn DEF TypeInv, loadVars, fileVars
  <2>3. CASE /\ Goto(c, "read") /\ UNCHANGED running
             /\ DOMAIN found' = Clients /\ DOMAIN todo' = Clients
    BY <2>1, <2>3, TypeGoto DEF TypeInv, loadVars, fileVars, Points
  <2> QED
    BY <1>5, <2>2, <2>3, TypeQuery
<1>6. ASSUME NEW c \in Clients, NEW r \in todo[c], StartCallback(c, r) PROVE TypeInv'
  <2>1. UNCHANGED <<loadVars, fileVars, pc, req, found, out, ret>>
    BY <1>6 DEF StartCallback
  <2>2. DOMAIN todo' = Clients /\ DOMAIN running' = Clients
    BY <1>6 DEF StartCallback, TypeInv
  <2> QED
    BY <2>1, <2>2 DEF TypeInv, loadVars, fileVars
<1>7. ASSUME NEW c \in Clients, NEW r \in DOMAIN running[c], CallbackKey(c, r) PROVE TypeInv'
  <2>1. UNCHANGED <<loadVars, fileVars, req, found, todo, ret>>
    BY <1>7 DEF CallbackKey
  <2>2. DOMAIN running' = Clients /\ pc' \in [Clients -> Points]
    BY <1>7 DEF CallbackKey, NextKey, EndCallback, TypeInv, Points
  <2> QED
    BY <1>7, <2>1, <2>2, TypeCallback DEF TypeInv, loadVars, fileVars
<1>8. ASSUME NEW c \in Clients, ReadFails(c) PROVE TypeInv'
  BY <1>8, TypeGoto DEF ReadFails, TypeInv, loadVars, fileVars, Points
<1>9. ASSUME NEW c \in Clients, ReadReturns(c) PROVE TypeInv'
  <2>1. \E res \in {"ok", "err"} : Return(c, res)
    BY <1>9 DEF ReadReturns
  <2> QED
    BY <1>9, <2>1, TypeReturn DEF ReadReturns, TypeInv, loadVars, fileVars
<1>10. ASSUME NEW c \in Clients, EnterOnce(c) PROVE TypeInv'
  <2>1. UNCHANGED <<loader, loaded, once, mphf, data, fileVars, out>>
        /\ closeOnce' \in {"new", "busy", "done"}
    BY <1>10 DEF EnterOnce, TypeInv
  <2>2. CASE Return(c, "ok")
    BY <2>1, <2>2, TypeReturn DEF TypeInv, fileVars
  <2>3. CASE Goto(c, "wait") /\ UNCHANGED <<found, todo, running>>
    BY <2>1, <2>3, TypeGoto DEF TypeInv, fileVars, Points
  <2> QED
    BY <1>10, <2>2, <2>3 DEF EnterOnce
<1>11. ASSUME NEW c \in Clients, CloseMPHF(c) PROVE TypeInv'
  <2>1. /\ UNCHANGED <<loader, loaded, once, data, closeOnce, fileVars, found, todo, running, out>>
        /\ mphf' \in {"none", "open", "closed"}
    BY <1>11 DEF CloseMPHF, TypeInv
  <2> QED
    BY <1>11, <2>1, TypeGoto DEF CloseMPHF, TypeInv, fileVars, Points
<1>12. ASSUME NEW c \in Clients, CloseData(c) PROVE TypeInv'
  <2>1. /\ UNCHANGED <<loader, loaded, once, mphf, fileVars, out>> /\ closeOnce' = "done"
        /\ data' \in {"none", "open", "failed", "closed"}
    BY <1>12 DEF CloseData, TypeInv
  <2> QED
    BY <1>12, <2>1, TypeReturn DEF CloseData, TypeInv, fileVars
<1>13. CASE UNCHANGED vars
  BY <1>13 DEF vars, loadVars, fileVars, callVars, TypeInv
<1> QED
  BY <1>1, <1>2, <1>3, <1>4, <1>5, <1>6, <1>7, <1>8, <1>9, <1>10, <1>11, <1>12, <1>13
     DEF Next, ClientStep

\* Close waits for both loads, and what it has closed stays closed.
LEMMA LoadStep ==
  ASSUME TypeInv, LoadInv, CallInv, [Next]_vars
  PROVE  LoadInv'
<1> USE DEF Released
<1>1. CASE LoadMPHF
  <2>1. loader = "running" /\ \A c \in Clients : pc[c] \notin {"close", "closeData"}
    BY <1>1 DEF LoadMPHF, LoadInv
  <2> QED
    BY <1>1, <2>1 DEF LoadMPHF, LoadInv, callVars
<1>2. CASE OpenData
  BY <1>2 DEF OpenData, LoadInv, callVars
<1>3. ASSUME NEW c \in Clients, Start(c) PROVE LoadInv'
  <2>1. UNCHANGED loadVars /\ pc'[c] \in {"wait", "once"}
    BY <1>3 DEF Start, TypeInv
  <2> QED
    BY <1>3, <2>1, OtherCall DEF LoadInv, loadVars
<1>4. ASSUME NEW c \in Clients, Waited(c) PROVE LoadInv'
  <2>1. UNCHANGED <<loader, mphf, data, closeOnce>> /\ loader = "done"
    BY <1>4, AfterWait DEF LoadInv
  <2>2. pc'[c] # "closeData"
    <3>1. CASE Return(c, "err")
      BY <3>1 DEF Return, TypeInv
    <3>2. CASE \E where \in Points \ {"closeData"} : Goto(c, where)
      BY <3>2 DEF Goto, TypeInv
    <3> QED
      BY <1>4, <3>1, <3>2, AfterWait DEF Points
  <2> QED
    BY <1>4, <2>1, <2>2, OtherCall DEF LoadInv, ClientStep
<1>5. ASSUME NEW c \in Clients,
             \/ Lookup(c) \/ QueryKeys(c) \/ ReadFails(c) \/ ReadReturns(c)
             \/ \E r \in todo[c] : StartCallback(c, r)
             \/ \E r \in DOMAIN running[c] : CallbackKey(c, r)
      PROVE  LoadInv'
  <2>1. UNCHANGED loadVars
    BY <1>5 DEF Lookup, QueryKeys, ReadFails, ReadReturns, StartCallback, CallbackKey
  <2>2. pc'[c] \notin {"close", "closeData"}
    BY <1>5 DEF Lookup, QueryKeys, ReadFails, ReadReturns, StartCallback, CallbackKey,
                Goto, Return, TypeInv
  <2> QED
    BY <1>5, <2>1, <2>2, OtherCall DEF LoadInv, ClientStep, loadVars
<1>6. ASSUME NEW c \in Clients, EnterOnce(c) PROVE LoadInv'
  <2>1. /\ UNCHANGED <<loader, loaded, once, mphf, data>> /\ pc'[c] \notin {"close", "closeData"}
        /\ (closeOnce' = "done" => closeOnce = "done")
    BY <1>6 DEF EnterOnce, Goto, Return, TypeInv
  <2> QED
    BY <1>6, <2>1, OtherCall DEF LoadInv, ClientStep
<1>7. ASSUME NEW c \in Clients, CloseMPHF(c) PROVE LoadInv'
  <2>1. UNCHANGED <<loader, loaded, once, data, closeOnce>> /\ mphf' # "open" /\ loader = "done"
    BY <1>7 DEF CloseMPHF, LoadInv
  <2> QED
    BY <1>7, <2>1, OtherCall DEF LoadInv, ClientStep
<1>8. ASSUME NEW c \in Clients, CloseData(c) PROVE LoadInv'
  <2>1. /\ UNCHANGED <<loader, loaded, once, mphf>> /\ loader = "done" /\ mphf # "open"
        /\ data' \in {"failed", "closed"} /\ pc'[c] = "idle"
    BY <1>8 DEF CloseData, Return, LoadInv, TypeInv
  <2> QED
    BY <1>8, <2>1, OtherCall DEF LoadInv, ClientStep
<1>9. CASE UNCHANGED vars
  BY <1>9 DEF vars, loadVars, callVars, LoadInv
<1> QED
  BY <1>1, <1>2, <1>3, <1>4, <1>5, <1>6, <1>7, <1>8, <1>9 DEF Next, ClientStep

LEMMA CallReturn ==
  ASSUME TypeInv, NEW c \in Clients, NEW res \in {"ok", "err"}, Return(c, res), running[c] = NoCall
  PROVE  CallOf(c)' /\ pc'[c] = "idle" /\ ret'[c] = res /\ req'[c] = req[c]
  BY DEF TypeInv, Return, CallOf, Reading

LEMMA CallsStep ==
  ASSUME TypeInv, CallInv, [Next]_vars
  PROVE  CallInv'
<1>1. ASSUME NEW c \in Clients, Start(c) \/ ClientStep(c), CallOf(c)' PROVE CallInv'
  <2> SUFFICES ASSUME NEW d \in Clients \ {c} PROVE CallOf(d)'
    BY <1>1 DEF CallInv
  <2>1. /\ pc'[d] = pc[d] /\ req'[d] = req[d] /\ out'[d] = out[d]
        /\ found'[d] = found[d] /\ todo'[d] = todo[d] /\ running'[d] = running[d]
    BY <1>1, OtherCall
  <2>2. CallOf(d)
    BY DEF CallInv
  <2> QED
    BY <2>1, <2>2 DEF CallOf, Reading
<1>2. CASE LoadMPHF \/ OpenData
  BY <1>2, LoadsKeep DEF CallInv, CallOf, Reading, callVars
<1>3. ASSUME NEW c \in Clients, Start(c) PROVE CallInv'
  <2>1. /\ pc[c] = "idle" /\ out'[c] = <<>> /\ UNCHANGED <<found, todo, running>>
        /\ \/ req'[c] \in Requests /\ pc'[c] = "wait"
           \/ req'[c] = Close /\ pc'[c] = "once"
    BY <1>3 DEF Start, TypeInv
  <2>2. req'[c] # Idle
    BY <2>1, CloseIsApart DEF Close, Idle
  <2>3. found[c] = <<>> /\ todo[c] = {} /\ running[c] = NoCall
    BY <2>1 DEF CallInv, CallOf, Reading
  <2>4. CallOf(c)'
    BY <2>1, <2>2, <2>3 DEF CallOf, Reading
  <2> QED
    BY <1>1, <1>3, <2>4
<1>4. ASSUME NEW c \in Clients, Waited(c) PROVE CallInv'
  <2>1. out' = out /\ ~Reading(c) /\ pc[c] # "idle" /\ running[c] = NoCall /\ CallOf(c)
    BY <1>4, AfterWait DEF Waited, Reading, CallInv, CallOf
  <2>2. CASE Return(c, "err")
    BY <1>1, <1>4, <2>1, <2>2, CallReturn DEF ClientStep
  <2>3. CASE /\ Goto(c, req[c].op) /\ UNCHANGED <<found, todo, running>>
             /\ req[c] \in Requests /\ req[c].op \in {"lookup", "keys"}
    <3>1. pc'[c] = req[c].op /\ req'[c] = req[c]
      BY <2>3 DEF Goto, TypeInv
    <3>2. CallOf(c)'
      BY <2>1, <2>3, <3>1, CloseIsApart DEF CallOf, Reading
    <3> QED
      BY <1>1, <1>4, <3>2 DEF ClientStep
  <2>4. CASE Goto(c, "close") /\ UNCHANGED <<found, todo, running>> /\ req[c] = Close
    <3>1. pc'[c] = "close" /\ req'[c] = req[c]
      BY <2>4 DEF Goto, TypeInv
    <3>2. CallOf(c)'
      BY <2>1, <2>4, <3>1 DEF CallOf, Reading
    <3> QED
      BY <1>1, <1>4, <3>2 DEF ClientStep
  <2> QED
    BY <1>4, <2>2, <2>3, <2>4, AfterWait
<1>5. ASSUME NEW c \in Clients, Lookup(c) PROVE CallInv'
  <2>1. running[c] = NoCall
    BY <1>5 DEF Lookup, CallInv, CallOf, Reading
  <2> QED
    BY <1>1, <1>5, <2>1, TypeLookup, CallReturn DEF ClientStep
<1>6. ASSUME NEW c \in Clients, QueryKeys(c) PROVE CallInv'
  <2>1. running[c] = NoCall /\ req[c] \in Requests /\ req[c] # Idle
    BY <1>6 DEF QueryKeys, CallInv, CallOf, Reading
  <2>2. CASE \E res \in {"ok", "err"} : Return(c, res)
    BY <1>1, <1>6, <2>1, <2>2, CallReturn DEF ClientStep
  <2>3. CASE Goto(c, "read")
    <3>1. pc'[c] = "read" /\ req'[c] = req[c]
      BY <2>3 DEF Goto, TypeInv
    <3>2. CallOf(c)'
      BY <2>1, <3>1 DEF CallOf, Reading
    <3> QED
      BY <1>1, <1>6, <3>2 DEF ClientStep
  <2> QED
    BY <1>6, <2>2, <2>3, TypeQuery
<1>7. ASSUME NEW c \in Clients,
             \/ ReadFails(c) \/ \E r \in todo[c] : StartCallback(c, r)
             \/ \E r \in DOMAIN running[c] : CallbackKey(c, r)
      PROVE  CallInv'
  <2>1. Reading(c) /\ Reading(c)' /\ req'[c] = req[c]
    BY <1>7 DEF ReadFails, StartCallback, CallbackKey, Goto, Reading, TypeInv
  <2>2. CallOf(c)'
    BY <2>1 DEF CallInv, CallOf, Reading
  <2> QED
    BY <1>1, <1>7, <2>2 DEF ClientStep
<1>8. ASSUME NEW c \in Clients, ReadReturns(c) PROVE CallInv'
  <2>1. running[c] = NoCall /\ \E res \in {"ok", "err"} : Return(c, res)
    BY <1>8 DEF ReadReturns, AllDone
  <2> QED
    BY <1>1, <1>8, <2>1, CallReturn DEF ClientStep
<1>9. ASSUME NEW c \in Clients, EnterOnce(c) PROVE CallInv'
  <2>1. out' = out /\ ~Reading(c) /\ pc[c] # "idle" /\ running[c] = NoCall /\ CallOf(c)
    BY <1>9 DEF EnterOnce, Reading, CallInv, CallOf
  <2>2. CASE Return(c, "ok")
    BY <1>1, <1>9, <2>1, <2>2, CallReturn DEF ClientStep
  <2>3. CASE Goto(c, "wait") /\ UNCHANGED <<found, todo, running>>
    <3>1. pc'[c] = "wait" /\ req'[c] = req[c]
      BY <2>3 DEF Goto, TypeInv
    <3>2. CallOf(c)'
      BY <2>1, <2>3, <3>1 DEF CallOf, Reading
    <3> QED
      BY <1>1, <1>9, <3>2 DEF ClientStep
  <2> QED
    BY <1>9, <2>2, <2>3 DEF EnterOnce
<1>10. ASSUME NEW c \in Clients, CloseMPHF(c) PROVE CallInv'
  <2>1. /\ UNCHANGED <<out, found, todo, running>> /\ ~Reading(c) /\ pc[c] = "close" /\ CallOf(c)
        /\ pc'[c] = "closeData" /\ req'[c] = req[c]
    BY <1>10 DEF CloseMPHF, Goto, Reading, CallInv, TypeInv
  <2>2. CallOf(c)'
    BY <2>1 DEF CallOf, Reading
  <2> QED
    BY <1>1, <1>10, <2>2 DEF ClientStep
<1>11. ASSUME NEW c \in Clients, CloseData(c) PROVE CallInv'
  <2>1. running[c] = NoCall
    BY <1>11 DEF CloseData, CallInv, CallOf, Reading
  <2> QED
    BY <1>1, <1>11, <2>1, CallReturn DEF ClientStep, CloseData
<1>12. CASE UNCHANGED vars
  BY <1>12 DEF vars, callVars, CallInv, CallOf, Reading
<1> QED
  BY <1>2, <1>3, <1>4, <1>5, <1>6, <1>7, <1>8, <1>9, <1>10, <1>11, <1>12 DEF Next, ClientStep

-----------------------------------------------------------------------------
(***************************************************************************)
(* The sorted slice and its groups.                                         *)
(***************************************************************************)
\* sort.Slice leaves every key that has a rank in one place.
LEMMA SortIsWhole ==
  ASSUME TypeInv, NEW q \in Requests, NEW fs \in SetToSeqs(FoundKeys(q.keys)), ByRank(fs)
  PROVE  Sorted(fs, q.keys)
<1> DEFINE keys == q.keys
           n == Len(keys)
           F == FoundKeys(keys)
           outIdxOf == [x \in F |-> x.outIdx]
<1>1. n \in Nat /\ DOMAIN keys = 1 .. n /\ \A i \in 1 .. n : keys[i] \in Keys
  BY CloseIsApart
<1>2. \A x \in F : /\ x.outIdx \in 1 .. n /\ x.rank = query[keys[x.outIdx]] /\ x.rank # NotFound
                   /\ x = [outIdx |-> x.outIdx, rank |-> query[keys[x.outIdx]]]
  BY <1>1 DEF FoundKeys
<1>3. \A i \in 1 .. n : query[keys[i]] # NotFound =>
         [outIdx |-> i, rank |-> query[keys[i]]] \in F
  BY <1>1 DEF FoundKeys
<1>4. F \subseteq [outIdx: DOMAIN keys, rank: Ranks]
  <2> SUFFICES ASSUME NEW x \in F PROVE x \in [outIdx: DOMAIN keys, rank: Ranks]
    OBVIOUS
  <2>1. x.outIdx \in DOMAIN keys /\ keys[x.outIdx] \in Keys /\ query[keys[x.outIdx]] # NotFound
    BY <1>1, <1>2
  <2>2. query[keys[x.outIdx]] \in Ranks
    BY <2>1, Entries
  <2> QED
    BY <1>2, <2>1, <2>2
<1>5. \A x, y \in F : x.outIdx = y.outIdx => x = y
  BY <1>2
<1> HIDE DEF F
<1>6. outIdxOf \in Injection(F, 1 .. n)
  BY <1>2, <1>5 DEF Injection, IsInjective
<1>7. IsFiniteSet(F) /\ Cardinality(F) \in Nat
  <2>1. IsFiniteSet(1 .. n)
    BY <1>1, FS_Interval
  <2>2. IsFiniteSet(F)
    BY <1>6, <2>1, FS_Injection
  <2> QED
    BY <2>2, FS_CardinalityType
<1> DEFINE D == 1 .. Cardinality(F)
<1>8. fs \in [D -> F] /\ \A i, j \in D : i # j => fs[i] # fs[j]
  BY DEF SetToSeqs, F
<1>9. fs \in Surjection(D, F)
  <2>1. Cardinality(D) = Cardinality(F)
    BY <1>7, FS_Interval
  <2>2. fs \in Injection(D, F)
    BY <1>8 DEF Injection, IsInjective
  <2> QED
    BY <1>7, <2>1, <2>2, FS_Injection
<1>10. fs \in Seq([outIdx: DOMAIN keys, rank: Ranks])
  <2> DEFINE T == [outIdx: DOMAIN keys, rank: Ranks]
  <2>1. fs \in [D -> T]
    BY <1>4, <1>8
  <2> HIDE DEF T
  <2>2. fs \in Seq(T)
    BY <1>7, <2>1
  <2> QED
    BY <2>2 DEF T
<1>11. \A k \in DOMAIN fs : fs[k].rank = query[keys[fs[k].outIdx]]
  BY <1>2, <1>8
<1>12. \A j, k \in DOMAIN fs : fs[j].outIdx = fs[k].outIdx => j = k
  BY <1>5, <1>8
<1>13. \A i \in DOMAIN keys : query[keys[i]] # NotFound => \E k \in DOMAIN fs : fs[k].outIdx = i
  <2> SUFFICES ASSUME NEW i \in 1 .. n, query[keys[i]] # NotFound
               PROVE  \E k \in DOMAIN fs : fs[k].outIdx = i
    BY <1>1
  <2> DEFINE x == [outIdx |-> i, rank |-> query[keys[i]]]
  <2>1. x \in F /\ x.outIdx = i
    BY <1>3
  <2> HIDE DEF x
  <2>2. \E k \in D : fs[k] = x
    BY <1>9, <2>1 DEF Surjection
  <2> QED
    BY <1>8, <2>1, <2>2
<1> QED
  BY <1>10, <1>11, <1>12, <1>13 DEF Sorted

\* groupStart is where a rank comes first; where the loop of the callback ends it came last.
LEMMA Groups ==
  ASSUME NEW keys, NEW fs, Sorted(fs, keys), NEW k \in DOMAIN fs, NEW j \in DOMAIN fs,
         fs[j].rank = fs[k].rank
  PROVE  /\ NewRank(fs, k) => k <= j
         /\ ~InGroup(fs, k) => j <= k
<1>1. /\ Len(fs) \in Nat /\ DOMAIN fs = 1 .. Len(fs)
      /\ \A p \in DOMAIN fs : fs[p].rank \in Int
  BY PlaceOf DEF Sorted
<1>2. \A p, q \in 1 .. Len(fs) : p < q => fs[p].rank <= fs[q].rank
  BY <1>1 DEF Sorted, ByRank
<1>3. ASSUME NewRank(fs, k), j < k PROVE FALSE
  <2>1. k - 1 \in 1 .. Len(fs) /\ k > 1 /\ k - 1 < k /\ (j < k - 1 \/ j = k - 1)
    BY <1>1, <1>3
  <2>2. fs[k - 1].rank # fs[k].rank
    BY <1>3, <2>1 DEF NewRank
  <2>3. fs[k - 1].rank <= fs[k].rank /\ fs[j].rank <= fs[k - 1].rank
    BY <1>1, <1>2, <2>1
  <2> QED
    BY <1>1, <2>1, <2>2, <2>3
<1>4. ASSUME ~InGroup(fs, k), k < j PROVE FALSE
  <2>1. k + 1 \in 1 .. Len(fs) /\ k < Len(fs) /\ (k + 1 < j \/ k + 1 = j) /\ (k + 1) - 1 = k
        /\ k + 1 > 1
    BY <1>1, <1>4
  <2>2. fs[k + 1].rank # fs[k].rank
    BY <1>4, <2>1 DEF InGroup, NewRank
  <2>3. fs[k].rank <= fs[k + 1].rank /\ fs[k + 1].rank <= fs[j].rank
    BY <1>1, <1>2, <2>1
  <2> QED
    BY <1>1, <2>1, <2>2, <2>3
<1> QED
  BY <1>1, <1>3, <1>4

LEMMA GroupGoesOn ==
  ASSUME NEW keys, NEW fs, Sorted(fs, keys), NEW k \in DOMAIN fs, InGroup(fs, k)
  PROVE  k + 1 \in DOMAIN fs /\ fs[k + 1].rank = fs[k].rank
<1>1. Len(fs) \in Nat /\ DOMAIN fs = 1 .. Len(fs)
  BY PlaceOf DEF Sorted
<1>2. k < Len(fs) /\ k + 1 > 1 /\ (k + 1) - 1 = k
  BY <1>1 DEF InGroup
<1> QED
  BY <1>1, <1>2 DEF InGroup, NewRank

-----------------------------------------------------------------------------
(***************************************************************************)
(* The callbacks.                                                           *)
(***************************************************************************)
LEMMA BeginRead ==
  ASSUME TypeInv, CallInv, NEW c \in Clients, QueryKeys(c), pc'[c] = "read"
  PROVE  ReadOf(c)'
<1> DEFINE keys == req[c].keys
<1>1. req[c] \in Requests /\ running[c] = NoCall /\ UNCHANGED fileVars /\ pc[c] = "keys"
  BY DEF QueryKeys, CallInv, CallOf, Reading
<1>2. /\ Goto(c, "read") /\ UNCHANGED running
      /\ out' = [out EXCEPT ![c] = [i \in DOMAIN keys |-> None]]
      /\ \E fs \in SetToSeqs(FoundKeys(keys)) :
            /\ ByRank(fs) /\ found' = [found EXCEPT ![c] = fs]
            /\ todo' = [todo EXCEPT ![c] = {fs[k].rank : k \in DOMAIN fs}]
  BY DEF QueryKeys, Return, TypeInv
<1>3. PICK fs \in SetToSeqs(FoundKeys(keys)) :
         /\ ByRank(fs) /\ found' = [found EXCEPT ![c] = fs]
         /\ todo' = [todo EXCEPT ![c] = {fs[k].rank : k \in DOMAIN fs}]
  BY <1>2
<1>4. /\ found'[c] = fs /\ todo'[c] = {fs[k].rank : k \in DOMAIN fs} /\ req'[c] = req[c]
      /\ running'[c] = NoCall /\ out'[c] = [i \in DOMAIN keys |-> None]
  BY <1>1, <1>2, <1>3 DEF TypeInv, Goto
<1>5. Sorted(fs, keys)
  BY <1>1, <1>3, SortIsWhole
<1>6. Sorted(found[c], req[c].keys)'
  BY <1>1, <1>4, <1>5 DEF Sorted, ByRank, fileVars
<1>7. \A k \in DOMAIN fs : Pending(c, k)'
  BY <1>4 DEF Pending
<1> QED
  BY <1>4, <1>6, <1>7 DEF ReadOf, Reading, NoCall

LEMMA BeginCallback ==
  ASSUME TypeInv, NEW c \in Clients, ReadOf(c), NEW r \in todo[c], StartCallback(c, r)
  PROVE  ReadOf(c)'
<1>1. Reading(c) /\ UNCHANGED <<fileVars, data, pc, req, found, out>> /\ pc[c] = "read"
  BY DEF StartCallback, Reading, loadVars
<1>2. Sorted(found[c], req[c].keys)
  BY <1>1 DEF ReadOf
<1>3. PICK k \in DOMAIN found[c] :
         /\ NewRank(found[c], k) /\ found[c][k].rank = r
         /\ running' = [running EXCEPT ![c] = Reaches(@, r, k)]
  BY DEF StartCallback
<1>4. todo'[c] = todo[c] \ {r} /\ r \notin DOMAIN running[c]
  BY <1>1 DEF StartCallback, TypeInv, ReadOf, InItsGroup
<1>5. /\ DOMAIN running'[c] = DOMAIN running[c] \cup {r} /\ running'[c][r] = k
      /\ \A s \in DOMAIN running[c] : running'[c][s] = running[c][s]
  BY <1>3, <1>4 DEF Reaches, TypeInv
<1>6. \A s \in DOMAIN running'[c] : InItsGroup(c, s)'
  BY <1>1, <1>3, <1>4, <1>5 DEF ReadOf, InItsGroup
<1>7. ASSUME NEW j \in DOMAIN found[c], Pending(c, j) PROVE Pending(c, j)'
  <2>1. CASE found[c][j].rank = r
    BY <1>1, <1>2, <1>3, <1>5, <2>1, Groups DEF Pending
  <2>2. CASE found[c][j].rank # r
    BY <1>1, <1>4, <1>5, <1>7, <2>2 DEF Pending
  <2> QED
    BY <2>1, <2>2
<1>8. Sorted(found[c], req[c].keys)'
  BY <1>1, <1>2 DEF Sorted, fileVars
<1>9. \A i \in DOMAIN out[c] : AnswerTo(req[c].keys[i])' = AnswerTo(req[c].keys[i])
  BY <1>1 DEF AnswerTo, Matches, fileVars
<1>10. \A j \in DOMAIN found[c] :
          AnswerTo(req[c].keys[found[c][j].outIdx])' = AnswerTo(req[c].keys[found[c][j].outIdx])
  BY <1>1 DEF AnswerTo, Matches, fileVars
<1> QED
  BY <1>1, <1>4, <1>6, <1>7, <1>8, <1>9, <1>10 DEF ReadOf

\* Where the callback of rank r goes from position k.
LEMMA CallbackMoves ==
  ASSUME TypeInv, NEW c \in Clients, ReadOf(c), Reading(c), NEW r \in DOMAIN running[c],
         NextKey(c, r) \/ EndCallback(c, r)
  PROVE  LET k == running[c][r]
         IN /\ DOMAIN running'[c] \subseteq DOMAIN running[c]
            /\ \A s \in DOMAIN running[c] \ {r} :
                  s \in DOMAIN running'[c] /\ running'[c][s] = running[c][s]
            /\ r \in DOMAIN running'[c] => InGroup(found[c], k) /\ running'[c][r] = k + 1
            /\ NextKey(c, r) /\ InGroup(found[c], k) => r \in DOMAIN running'[c]
<1> DEFINE k == running[c][r]
<1>1. \/ InGroup(found[c], k) /\ running' = [running EXCEPT ![c] = Reaches(@, r, k + 1)]
      \/ EndCallback(c, r) /\ (NextKey(c, r) => ~InGroup(found[c], k)
                                 \/ running' = [running EXCEPT ![c] = Reaches(@, r, k + 1)])
  BY DEF NextKey
<1>2. CASE InGroup(found[c], k) /\ running' = [running EXCEPT ![c] = Reaches(@, r, k + 1)]
  <2>1. running'[c] = Reaches(running[c], r, k + 1)
    BY <1>2 DEF TypeInv
  <2> QED
    BY <1>2, <2>1 DEF Reaches
<1>3. CASE EndCallback(c, r) /\ ~(/\ InGroup(found[c], k)
                                  /\ running' = [running EXCEPT ![c] = Reaches(@, r, k + 1)])
  <2>1. running'[c] = [s \in DOMAIN running[c] \ {r} |-> running[c][s]]
    BY <1>3 DEF EndCallback, Restrict, TypeInv
  <2> QED
    BY <1>1, <1>3, <2>1
<1> QED
  BY <1>1, <1>2, <1>3

\* The key at the position of a callback gets its answer, and the others keep theirs.
LEMMA CallbackAnswers ==
  ASSUME TypeInv, CallInv, NEW c \in Clients, ReadOf(c), NEW r \in DOMAIN running[c],
         CallbackKey(c, r), Verify(r, req[c].keys[found[c][running[c][r]].outIdx]) # "err"
  PROVE  LET i == found[c][running[c][r]].outIdx
         IN /\ NextKey(c, r) /\ UNCHANGED pc /\ DOMAIN out'[c] = DOMAIN out[c] /\ i \in DOMAIN out[c]
            /\ \A j \in DOMAIN out[c] \ {i} : out'[c][j] = out[c][j]
            /\ out'[c][i] = AnswerTo(req[c].keys[i])
<1> DEFINE k == running[c][r]
           i == found[c][k].outIdx
           key == req[c].keys[i]
<1>1. /\ Reading(c) /\ k \in DOMAIN found[c] /\ found[c][k].rank = r
      /\ Sorted(found[c], req[c].keys)
  BY DEF CallbackKey, Reading, ReadOf, InItsGroup
<1>2. r \in Ranks /\ r # NotFound /\ i \in DOMAIN req[c].keys /\ query[key] = r
  <2>1. found[c][k].rank \in Ranks /\ i \in DOMAIN req[c].keys
    BY <1>1, PlaceOf DEF Sorted
  <2>2. r # NotFound
    BY <1>1, <2>1 DEF Ranks, NotFound
  <2> QED
    BY <1>1, <2>1, <2>2 DEF Sorted
<1>3. i \in DOMAIN out[c] /\ out[c][i] \in {None, AnswerTo(key)} /\ out[c] \in Seq(Values)
  BY <1>1, <1>2 DEF ReadOf, TypeInv
<1>4. AnswerTo(key) = IF Matches(r, key) THEN Entry(r).bitmap ELSE None
  BY <1>2 DEF AnswerTo
<1>5. CASE Verify(r, key) = "ErrKeyNotFound"
  <2>1. ~Matches(r, key) /\ NextKey(c, r) /\ UNCHANGED <<pc, out>>
    BY <1>5 DEF CallbackKey, Verify
  <2> QED
    BY <1>3, <1>4, <2>1
<1>6. CASE Verify(r, key) = "ok"
  <2>1. /\ Matches(r, key) /\ NextKey(c, r) /\ UNCHANGED pc
        /\ out' = [out EXCEPT ![c] = [out[c] EXCEPT ![i] = Entry(r).bitmap]]
    BY <1>6 DEF CallbackKey, Verify
  <2>2. out'[c] = [out[c] EXCEPT ![i] = Entry(r).bitmap]
    BY <2>1 DEF TypeInv
  <2> QED
    BY <1>3, <1>4, <2>1, <2>2
<1> QED
  BY <1>5, <1>6 DEF Verify

\* What a call has sorted stays sorted while its list, its keys and the index are the same.
LEMMA SortedStays ==
  ASSUME NEW c, Sorted(found[c], req[c].keys),
         found'[c] = found[c], req'[c] = req[c], query' = query
  PROVE  Sorted(found[c], req[c].keys)'
<1> DEFINE fs == found[c]
           keys == req[c].keys
<1>1. found'[c] = fs /\ req'[c].keys = keys
  OBVIOUS
<1>2. fs \in Seq([outIdx: DOMAIN keys, rank: Ranks]) /\ ByRank(fs)
  BY DEF Sorted
<1>3. \A k \in DOMAIN fs : fs[k].rank = query[keys[fs[k].outIdx]]
  BY DEF Sorted
<1>4. \A j, k \in DOMAIN fs : fs[j].outIdx = fs[k].outIdx => j = k
  BY DEF Sorted
<1>5. \A i \in DOMAIN keys : query[keys[i]] # NotFound => \E k \in DOMAIN fs : fs[k].outIdx = i
  BY DEF Sorted
<1> HIDE DEF fs, keys
<1> QED
  BY <1>1, <1>2, <1>3, <1>4, <1>5 DEF Sorted

LEMMA CallbackStep ==
  ASSUME TypeInv, CallInv, NEW c \in Clients, ReadOf(c), NEW r \in DOMAIN running[c],
         CallbackKey(c, r)
  PROVE  ReadOf(c)'
<1> DEFINE fs == found[c]
           keys == req[c].keys
           k == running[c][r]
           i == fs[k].outIdx
<1>1. Reading(c) /\ UNCHANGED <<fileVars, data, req, found, todo>>
  BY DEF CallbackKey, Reading, loadVars
<1>2. Sorted(fs, keys) /\ k \in DOMAIN fs /\ fs[k].rank = r /\ r \notin todo[c]
  BY <1>1 DEF ReadOf, InItsGroup
<1>3. NextKey(c, r) \/ EndCallback(c, r)
  BY DEF CallbackKey
<1>4. /\ DOMAIN running'[c] \subseteq DOMAIN running[c]
      /\ \A s \in DOMAIN running[c] \ {r} :
            s \in DOMAIN running'[c] /\ running'[c][s] = running[c][s]
      /\ r \in DOMAIN running'[c] => InGroup(fs, k) /\ running'[c][r] = k + 1
      /\ NextKey(c, r) /\ InGroup(fs, k) => r \in DOMAIN running'[c]
  BY <1>1, <1>3, CallbackMoves
<1>5. \A s \in DOMAIN running'[c] : InItsGroup(c, s)'
  <2> SUFFICES ASSUME NEW s \in DOMAIN running'[c] PROVE InItsGroup(c, s)'
    OBVIOUS
  <2>1. CASE s = r
    BY <1>1, <1>2, <1>4, <2>1, GroupGoesOn DEF InItsGroup
  <2>2. CASE s # r
    <3>1. InItsGroup(c, s) /\ running'[c][s] = running[c][s]
      BY <1>1, <1>4, <2>2 DEF ReadOf
    <3> QED
      BY <1>1, <3>1 DEF InItsGroup
  <2> QED
    BY <2>1, <2>2
<1>6. Sorted(found[c], req[c].keys)' /\ todo'[c] \subseteq {found'[c][p].rank : p \in DOMAIN found'[c]}
  <2>1. found' = found /\ req' = req /\ todo' = todo /\ query' = query
    BY <1>1 DEF fileVars
  <2>2. Sorted(found[c], req[c].keys)'
    BY <1>2, <2>1, SortedStays
  <2>3. todo[c] \subseteq {found[c][p].rank : p \in DOMAIN found[c]}
    BY <1>1 DEF ReadOf
  <2>4. todo'[c] \subseteq {found'[c][p].rank : p \in DOMAIN found'[c]}
    BY <2>1, <2>3
  <2> QED
    BY <2>2, <2>4
<1>7. \A x : AnswerTo(keys[x])' = AnswerTo(keys[x])
  BY <1>1 DEF AnswerTo, Matches, fileVars
<1>8. Blamed(c) => Blamed(c)'
  BY <1>1 DEF Blamed, HitsDamage, Matches, fileVars
<1>9. CASE Verify(r, keys[i]) = "err"
  <2>1. pc'[c] = "failing" /\ out' = out
    BY <1>9 DEF CallbackKey, TypeInv, Verify
  <2>2. i \in DOMAIN keys /\ query[keys[i]] = r
    BY <1>2, PlaceOf DEF Sorted
  <2>3. r \in damaged /\ Matches(r, keys[i])
    BY <1>9 DEF Verify
  <2>4. Blamed(c)'
    BY <1>8, <2>2, <2>3 DEF Blamed, HitsDamage
  <2>5. /\ DOMAIN out'[c] = DOMAIN keys
        /\ \A x \in DOMAIN out'[c] : out'[c][x] \in {None, AnswerTo(keys[x])}
    BY <1>1, <2>1 DEF ReadOf
  <2> QED
    BY <1>1, <1>5, <1>6, <1>7, <2>1, <2>4, <2>5 DEF ReadOf
<1>10. CASE Verify(r, keys[i]) # "err"
  <2>1. /\ NextKey(c, r) /\ UNCHANGED pc /\ DOMAIN out'[c] = DOMAIN out[c] /\ i \in DOMAIN out[c]
        /\ \A j \in DOMAIN out[c] \ {i} : out'[c][j] = out[c][j]
        /\ out'[c][i] = AnswerTo(keys[i])
    BY <1>10, CallbackAnswers
  <2>2. /\ DOMAIN out'[c] = DOMAIN keys
        /\ \A x \in DOMAIN out'[c] : out'[c][x] \in {None, AnswerTo(keys[x])}
    BY <1>1, <2>1 DEF ReadOf
  <2>3. ASSUME NEW j \in DOMAIN fs, pc[c] = "read"
        PROVE  Pending(c, j)' \/ out'[c][fs[j].outIdx] = AnswerTo(keys[fs[j].outIdx])
    <3>1. fs[j].outIdx \in DOMAIN out[c]
      <4>1. fs[j].outIdx \in DOMAIN keys
        BY <1>2, PlaceOf DEF Sorted
      <4> QED
        BY <1>1, <4>1 DEF ReadOf
    <3>2. CASE j = k
      BY <2>1, <3>2
    <3>3. CASE j # k /\ ~Pending(c, j)
      <4>1. fs[j].outIdx # i
        BY <1>2, <3>3 DEF Sorted
      <4>2. out[c][fs[j].outIdx] = AnswerTo(keys[fs[j].outIdx])
        BY <1>1, <2>3, <3>3 DEF ReadOf
      <4> QED
        BY <2>1, <3>1, <4>1, <4>2
    <3>4. CASE j # k /\ Pending(c, j) /\ fs[j].rank # r
      <4>1. Pending(c, j)'
        BY <1>1, <1>4, <3>4 DEF Pending
      <4> QED
        BY <4>1
    <3>5. CASE j # k /\ Pending(c, j) /\ fs[j].rank = r
      <4>1. k < j
        <5>1. k <= j
          BY <1>2, <3>5 DEF Pending
        <5>2. k \in Int /\ j \in Int
          BY <1>2, PlaceOf DEF Sorted
        <5> QED
          BY <3>5, <5>1, <5>2
      <4>2. k \in Int /\ j \in Int
        BY <1>2, PlaceOf DEF Sorted
      <4>3. InGroup(fs, k)
        BY <1>2, <3>5, <4>1, <4>2, Groups
      <4>4. r \in DOMAIN running'[c] /\ running'[c][r] = k + 1
        BY <1>4, <2>1, <4>3
      <4>5. Pending(c, j)'
        BY <1>1, <3>5, <4>1, <4>2, <4>4 DEF Pending
      <4> QED
        BY <4>5
    <3> QED
      BY <3>2, <3>3, <3>4, <3>5
  <2>4. \/ pc'[c] = "failing" /\ Blamed(c)'
        \/ /\ pc'[c] = "read"
           /\ \A j \in DOMAIN fs :
                 Pending(c, j)' \/ out'[c][fs[j].outIdx] = AnswerTo(keys[fs[j].outIdx])
    <3>1. pc[c] = "failing" => Blamed(c)
      BY <1>1 DEF ReadOf
    <3>2. pc'[c] = pc[c] /\ pc[c] \in {"read", "failing"}
      BY <1>1, <2>1 DEF Reading
    <3> QED
      BY <1>8, <2>3, <3>1, <3>2
  <2> QED
    BY <1>1, <1>5, <1>6, <1>7, <2>2, <2>4 DEF ReadOf
<1> QED
  BY <1>9, <1>10

-----------------------------------------------------------------------------
(***************************************************************************)
(* What the calls return.                                                   *)
(***************************************************************************)
\* Nothing that another call or a load does takes an answer or its cause away.
LEMMA SameCall ==
  ASSUME TypeInv, [Next]_vars, NEW d \in Clients, ReadOf(d), AnswerOf(d),
         pc'[d] = pc[d], req'[d] = req[d], out'[d] = out[d], ret'[d] = ret[d],
         found'[d] = found[d], todo'[d] = todo[d], running'[d] = running[d]
  PROVE  ReadOf(d)' /\ AnswerOf(d)'
<1>1. /\ UNCHANGED fileVars
      /\ (once = "err" => once' = "err") /\ (data = "failed" => data' = "failed")
  BY FilesStay, FailuresStay
<1>2. \A x : AnswerTo(req[d].keys[x])' = AnswerTo(req[d].keys[x])
  BY <1>1 DEF AnswerTo, Matches, fileVars
<1>3. (Blamed(d) => Blamed(d)') /\ (ErrorHasCause(d) => ErrorHasCause(d)')
  BY <1>1 DEF Blamed, ErrorHasCause, HitsDamage, Matches, fileVars
<1>4. Sorted(found[d], req[d].keys) => Sorted(found[d], req[d].keys)'
  BY <1>1, SortedStays DEF fileVars
<1>5. \A k : Pending(d, k) => Pending(d, k)'
  BY DEF Pending
<1>6. \A r : InItsGroup(d, r) => InItsGroup(d, r)'
  BY DEF InItsGroup
<1>7. ReadOf(d)'
  BY <1>2, <1>3, <1>4, <1>5, <1>6 DEF ReadOf, Reading
<1>8. AnswerOf(d)'
  BY <1>2, <1>3 DEF AnswerOf, Answered
<1> QED
  BY <1>7, <1>8

LEMMA FailedReturn ==
  ASSUME TypeInv, NEW c \in Clients, Return(c, "err"), ErrorHasCause(c)'
  PROVE  ReadOf(c)' /\ AnswerOf(c)'
  BY DEF TypeInv, Return, ReadOf, Reading, AnswerOf, Answered

LEMMA AnsweredReturn ==
  ASSUME TypeInv, UNCHANGED fileVars, NEW c \in Clients, Return(c, "ok"),
         DOMAIN out'[c] = DOMAIN req[c].keys,
         \A i \in DOMAIN req[c].keys : out'[c][i] = AnswerTo(req[c].keys[i])
  PROVE  ReadOf(c)' /\ AnswerOf(c)'
<1>1. pc'[c] = "idle" /\ ret'[c] = "ok" /\ req'[c] = req[c]
  BY DEF TypeInv, Return
<1>2. \A x : AnswerTo(req[c].keys[x])' = AnswerTo(req[c].keys[x])
  BY <1>1 DEF AnswerTo, Matches, fileVars
<1> QED
  BY <1>1, <1>2 DEF ReadOf, Reading, AnswerOf, Answered

\* Lookup answers its key.
LEMMA LookupAnswers ==
  ASSUME TypeInv, CallInv, NEW c \in Clients, Lookup(c)
  PROVE  /\ req[c] \in Requests /\ UNCHANGED <<loadVars, fileVars>>
         /\ \/ Return(c, "err") /\ UNCHANGED out /\ ErrorHasCause(c)
            \/ /\ Return(c, "ok") /\ DOMAIN out'[c] = DOMAIN req[c].keys
               /\ \A i \in DOMAIN req[c].keys : out'[c][i] = AnswerTo(req[c].keys[i])
<1> DEFINE k == req[c].keys[1]
           r == query[k]
<1>1. req[c] \in Requests /\ req[c].op = "lookup"
  BY DEF Lookup, CallInv, CallOf
<1>2. DOMAIN req[c].keys = {1} /\ k \in Keys
  BY <1>1, CloseIsApart
<1>3. UNCHANGED <<loadVars, fileVars>>
  BY DEF Lookup
<1>4. CASE Return(c, "err") /\ UNCHANGED out /\ ("query" \in faults \/ data = "failed" \/ "read" \in faults)
  BY <1>1, <1>3, <1>4 DEF ErrorHasCause
<1>5. CASE Return(c, "err") /\ UNCHANGED out /\ Verify(r, k) = "err"
  <2>1. Matches(r, k) /\ r \in damaged
    BY <1>5 DEF Verify
  <2>2. HitsDamage(req[c].keys)
    BY <1>2, <2>1 DEF HitsDamage
  <2> QED
    BY <1>1, <1>3, <1>5, <2>2 DEF ErrorHasCause
<1>6. CASE Return(c, "ok") /\ out' = [out EXCEPT ![c] = <<AnswerTo(k)>>]
  <2>1. out'[c] = <<AnswerTo(k)>>
    BY <1>6 DEF TypeInv
  <2>2. DOMAIN out'[c] = {1} /\ out'[c][1] = AnswerTo(k)
    BY <2>1
  <2> QED
    BY <1>1, <1>2, <1>3, <1>6, <2>2
<1>7. r = NotFound => AnswerTo(k) = None
  BY DEF AnswerTo
<1>8. r # NotFound /\ Verify(r, k) # "err" =>
         <<AnswerTo(k)>> = IF Verify(r, k) = "ok" THEN <<Entry(r).bitmap>> ELSE <<None>>
  BY DEF AnswerTo, Verify
<1> QED
  BY <1>4, <1>5, <1>6, <1>7, <1>8 DEF Lookup

\* LookupKeys answers its keys when it has none to read, or when ReadItems is through.
LEMMA NothingToRead ==
  ASSUME TypeInv, CallInv, NEW c \in Clients, QueryKeys(c), pc'[c] # "read"
  PROVE  /\ req[c] \in Requests /\ UNCHANGED <<loadVars, fileVars>>
         /\ \/ Return(c, "err") /\ UNCHANGED out /\ ErrorHasCause(c)
            \/ /\ Return(c, "ok") /\ DOMAIN out'[c] = DOMAIN req[c].keys
               /\ \A i \in DOMAIN req[c].keys : out'[c][i] = AnswerTo(req[c].keys[i])
<1> DEFINE keys == req[c].keys
<1>1. req[c] \in Requests /\ UNCHANGED <<loadVars, fileVars>>
  BY DEF QueryKeys, CallInv, CallOf
<1>2. ~Goto(c, "read")
  BY DEF Goto, TypeInv
<1>3. CASE "query" \in faults /\ Return(c, "err") /\ UNCHANGED out
  BY <1>1, <1>3 DEF ErrorHasCause
<1>4. CASE /\ FoundKeys(keys) = {} /\ Return(c, "ok")
           /\ out' = [out EXCEPT ![c] = [i \in DOMAIN keys |-> None]]
  <2>1. out'[c] = [i \in DOMAIN keys |-> None]
    BY <1>4 DEF TypeInv
  <2>2. \A i \in DOMAIN keys : query[keys[i]] = NotFound
    BY <1>4 DEF FoundKeys
  <2> QED
    BY <1>1, <1>4, <2>1, <2>2 DEF AnswerTo
<1> QED
  BY <1>2, <1>3, <1>4 DEF QueryKeys

LEMMA AllRead ==
  ASSUME TypeInv, CallInv, NEW c \in Clients, ReadOf(c), ReadReturns(c)
  PROVE  /\ req[c] \in Requests /\ UNCHANGED <<loadVars, fileVars, out>>
         /\ \/ Return(c, "err") /\ ErrorHasCause(c)
            \/ /\ Return(c, "ok") /\ DOMAIN out'[c] = DOMAIN req[c].keys
               /\ \A i \in DOMAIN req[c].keys : out'[c][i] = AnswerTo(req[c].keys[i])
<1>1. /\ Reading(c) /\ req[c] \in Requests /\ UNCHANGED <<loadVars, fileVars, out>>
      /\ running[c] = NoCall
  BY DEF ReadReturns, AllDone, Reading, CallInv, CallOf
<1>2. CASE pc[c] = "failing"
  <2>1. Blamed(c) /\ Return(c, "err")
    BY <1>1, <1>2 DEF ReadOf, ReadReturns
  <2> QED
    BY <1>1, <2>1 DEF Blamed, ErrorHasCause
<1>3. CASE pc[c] = "read"
  <2>1. todo[c] = {} /\ Return(c, "ok")
    BY <1>3 DEF ReadReturns, AllDone
  <2>2. \A k \in DOMAIN found[c] : ~Pending(c, k)
    BY <1>1, <2>1 DEF Pending, NoCall
  <2>3. /\ DOMAIN out[c] = DOMAIN req[c].keys /\ Sorted(found[c], req[c].keys)
        /\ \A i \in DOMAIN out[c] : out[c][i] \in {None, AnswerTo(req[c].keys[i])}
        /\ \A k \in DOMAIN found[c] :
              out[c][found[c][k].outIdx] = AnswerTo(req[c].keys[found[c][k].outIdx])
    BY <1>1, <1>3, <2>2 DEF ReadOf
  <2>4. ASSUME NEW i \in DOMAIN req[c].keys PROVE out[c][i] = AnswerTo(req[c].keys[i])
    <3>1. CASE query[req[c].keys[i]] = NotFound
      BY <2>3, <3>1 DEF AnswerTo
    <3>2. CASE query[req[c].keys[i]] # NotFound
      <4>1. \E k \in DOMAIN found[c] : found[c][k].outIdx = i
        BY <2>3, <3>2 DEF Sorted
      <4>2. PICK k \in DOMAIN found[c] : found[c][k].outIdx = i
        BY <4>1
      <4>3. out[c][found[c][k].outIdx] = AnswerTo(req[c].keys[found[c][k].outIdx])
        BY <2>3
      <4> QED
        BY <4>2, <4>3
    <3> QED
      BY <3>1, <3>2
  <2> QED
    BY <1>1, <2>1, <2>3, <2>4
<1> QED
  BY <1>1, <1>2, <1>3 DEF Reading

LEMMA AnswersStep ==
  ASSUME TypeInv, CallInv, ReadInv, AnswerInv, [Next]_vars
  PROVE  ReadInv' /\ AnswerInv'
<1>0. UNCHANGED fileVars
  BY FilesStay
<1>1. ASSUME NEW c \in Clients, Start(c) \/ ClientStep(c), ReadOf(c)' /\ AnswerOf(c)'
      PROVE  ReadInv' /\ AnswerInv'
  <2> SUFFICES ASSUME NEW d \in Clients \ {c} PROVE ReadOf(d)' /\ AnswerOf(d)'
    BY <1>1 DEF ReadInv, AnswerInv
  <2>1. /\ pc'[d] = pc[d] /\ req'[d] = req[d] /\ out'[d] = out[d] /\ ret'[d] = ret[d]
        /\ found'[d] = found[d] /\ todo'[d] = todo[d] /\ running'[d] = running[d]
    BY <1>1, OtherCall
  <2> QED
    BY <2>1, SameCall DEF ReadInv, AnswerInv
<1>2. CASE UNCHANGED callVars
  <2> SUFFICES ASSUME NEW d \in Clients PROVE ReadOf(d)' /\ AnswerOf(d)'
    BY DEF ReadInv, AnswerInv
  <2> QED
    BY <1>2, SameCall DEF ReadInv, AnswerInv, callVars
<1>3. ASSUME NEW c \in Clients, Start(c) \/ ClientStep(c), pc'[c] \notin {"idle", "read", "failing"}
      PROVE  ReadInv' /\ AnswerInv'
  <2>1. ReadOf(c)' /\ AnswerOf(c)'
    BY <1>3 DEF ReadOf, Reading, AnswerOf, Answered
  <2> QED
    BY <1>1, <1>3, <2>1
<1>4. ASSUME NEW c \in Clients, Start(c) PROVE ReadInv' /\ AnswerInv'
  <2>1. pc'[c] \in {"wait", "once"}
    BY <1>4 DEF Start, TypeInv
  <2> QED
    BY <1>3, <1>4, <2>1
<1>5. ASSUME NEW c \in Clients, Waited(c) PROVE ReadInv' /\ AnswerInv'
  <2>1. CASE Return(c, "err") /\ once' = "err"
    <3>1. ErrorHasCause(c)'
      BY <2>1 DEF ErrorHasCause
    <3> QED
      BY <1>1, <1>5, <2>1, <3>1, FailedReturn DEF ClientStep
  <2>2. CASE \E where \in {"lookup", "keys", "close"} : Goto(c, where)
    <3>1. pc'[c] \in {"lookup", "keys", "close"}
      BY <2>2 DEF Goto, TypeInv
    <3> QED
      BY <1>3, <1>5, <3>1 DEF ClientStep
  <2> QED
    BY <1>5, <2>1, <2>2, AfterWait
<1>6. ASSUME NEW c \in Clients, ClientStep(c), UNCHANGED loadVars,
             \/ Return(c, "err") /\ ErrorHasCause(c)
             \/ /\ Return(c, "ok") /\ DOMAIN out'[c] = DOMAIN req[c].keys
                /\ \A i \in DOMAIN req[c].keys : out'[c][i] = AnswerTo(req[c].keys[i])
      PROVE  ReadInv' /\ AnswerInv'
  <2>1. CASE Return(c, "err") /\ ErrorHasCause(c)
    <3>1. req'[c] = req[c]
      BY <2>1 DEF Return
    <3>2. ErrorHasCause(c)'
      BY <1>0, <1>6, <2>1, <3>1 DEF ErrorHasCause, HitsDamage, Matches, fileVars, loadVars
    <3> QED
      BY <1>1, <1>6, <2>1, <3>2, FailedReturn
  <2>2. CASE /\ Return(c, "ok") /\ DOMAIN out'[c] = DOMAIN req[c].keys
             /\ \A i \in DOMAIN req[c].keys : out'[c][i] = AnswerTo(req[c].keys[i])
    BY <1>0, <1>1, <1>6, <2>2, AnsweredReturn
  <2> QED
    BY <1>6, <2>1, <2>2
<1>7. ASSUME NEW c \in Clients, Lookup(c) PROVE ReadInv' /\ AnswerInv'
  BY <1>6, <1>7, LookupAnswers DEF ClientStep
<1>8. ASSUME NEW c \in Clients, ReadReturns(c) PROVE ReadInv' /\ AnswerInv'
  BY <1>6, <1>8, AllRead DEF ClientStep, ReadInv
<1>9. ASSUME NEW c \in Clients, QueryKeys(c) PROVE ReadInv' /\ AnswerInv'
  <2>1. CASE pc'[c] = "read"
    <3>1. ReadOf(c)' /\ AnswerOf(c)'
      BY <1>9, <2>1, BeginRead DEF AnswerOf, Answered
    <3> QED
      BY <1>1, <1>9, <3>1 DEF ClientStep
  <2>2. CASE pc'[c] # "read"
    BY <1>6, <1>9, <2>2, NothingToRead DEF ClientStep
  <2> QED
    BY <2>1, <2>2
<1>10. ASSUME NEW c \in Clients, ClientStep(c), Reading(c)', ReadOf(c)' PROVE ReadInv' /\ AnswerInv'
  <2>1. AnswerOf(c)'
    BY <1>10 DEF AnswerOf, Answered, Reading
  <2> QED
    BY <1>1, <1>10, <2>1
<1>11. ASSUME NEW c \in Clients, NEW r \in todo[c], StartCallback(c, r) PROVE ReadInv' /\ AnswerInv'
  BY <1>10, <1>11, BeginCallback DEF ClientStep, ReadInv, Reading, StartCallback
<1>12. ASSUME NEW c \in Clients, NEW r \in DOMAIN running[c], CallbackKey(c, r)
       PROVE  ReadInv' /\ AnswerInv'
  <2>1. Reading(c)'
    BY <1>12 DEF CallbackKey, Reading, TypeInv
  <2> QED
    BY <1>10, <1>12, <2>1, CallbackStep DEF ClientStep, ReadInv
<1>13. ASSUME NEW c \in Clients, ReadFails(c) PROVE ReadInv' /\ AnswerInv'
  <2>1. /\ pc[c] = "read" /\ pc'[c] = "failing" /\ req'[c] = req[c] /\ Reading(c) /\ Reading(c)'
        /\ UNCHANGED <<loadVars, found, todo, running, out>> /\ Blamed(c)
    BY <1>13 DEF ReadFails, Goto, TypeInv, Reading, Blamed
  <2>2. \A x : AnswerTo(req[c].keys[x])' = AnswerTo(req[c].keys[x])
    BY <1>0, <2>1 DEF AnswerTo, Matches, fileVars
  <2>3. Blamed(c)'
    BY <1>0, <2>1 DEF Blamed, HitsDamage, Matches, fileVars, loadVars
  <2>4. \A r \in DOMAIN running'[c] : InItsGroup(c, r)'
    BY <2>1 DEF ReadInv, ReadOf, InItsGroup
  <2>5. Sorted(found[c], req[c].keys)'
    <3>1. Sorted(found[c], req[c].keys)
      BY <2>1 DEF ReadInv, ReadOf
    <3> QED
      BY <1>0, <2>1, <3>1 DEF Sorted, fileVars
  <2>6. ReadOf(c)'
    BY <2>1, <2>2, <2>3, <2>4, <2>5 DEF ReadInv, ReadOf
  <2> QED
    BY <1>10, <1>13, <2>1, <2>6 DEF ClientStep
<1>14. ASSUME NEW c \in Clients, EnterOnce(c) \/ CloseData(c), Return(c, "ok"), out' = out
       PROVE  ReadInv' /\ AnswerInv'
  <2>1. req[c] = Close /\ out'[c] = <<>>
    BY <1>14 DEF EnterOnce, CloseData, CallInv, CallOf, Reading
  <2>2. DOMAIN out'[c] = DOMAIN req[c].keys /\ DOMAIN req[c].keys = {}
    BY <2>1 DEF Close
  <2>3. ReadOf(c)' /\ AnswerOf(c)'
    BY <1>0, <1>14, <2>2, AnsweredReturn
  <2> QED
    BY <1>1, <1>14, <2>3 DEF ClientStep
<1>15. ASSUME NEW c \in Clients, EnterOnce(c) PROVE ReadInv' /\ AnswerInv'
  <2>1. CASE Goto(c, "wait")
    <3>1. pc'[c] = "wait"
      BY <2>1 DEF Goto, TypeInv
    <3> QED
      BY <1>3, <1>15, <3>1 DEF ClientStep
  <2> QED
    BY <1>14, <1>15, <2>1 DEF EnterOnce
<1>16. ASSUME NEW c \in Clients, CloseMPHF(c) PROVE ReadInv' /\ AnswerInv'
  <2>1. pc'[c] = "closeData"
    BY <1>16 DEF CloseMPHF, Goto, TypeInv
  <2> QED
    BY <1>3, <1>16, <2>1 DEF ClientStep
<1>17. ASSUME NEW c \in Clients, CloseData(c) PROVE ReadInv' /\ AnswerInv'
  BY <1>14, <1>17 DEF CloseData
<1> QED
  BY <1>2, <1>4, <1>5, <1>7, <1>8, <1>9, <1>11, <1>12, <1>13, <1>15, <1>16, <1>17, LoadsKeep
     DEF Next, ClientStep, vars

-----------------------------------------------------------------------------
(***************************************************************************)
(* The index as KeyedReader sees it.                                        *)
(***************************************************************************)
AskedNow  == [c \in Clients |-> IF pc[c] = "idle" \/ Closing(c) THEN <<>> ELSE req[c].keys]
AnswerNow == [c \in Clients |-> IF Answered(c) THEN out[c] ELSE <<>>]
ClosedNow == closeOnce # "new" \/ \E c \in Clients : Closing(c)

MayAnswer == [k \in Keys |-> IF k \in ToSet(Ranked) THEN {k} ELSE {None} \cup Confused(k)]

\* The answer of LookupKeys is one the index may give: the bitmap of an indexed key; for
\* any other nil, or the bitmap of an indexed key with its fingerprint.
LEMMA AnswersMayBe ==
  ASSUME TypeInv, NEW k \in Keys
  PROVE  AnswerTo(k) \in MayAnswer[k]
<1>1. CASE k \in ToSet(Ranked)
  <2>1. PICK i \in DOMAIN Ranked : Ranked[i] = k
    BY <1>1 DEF ToSet
  <2>2. i - 1 \in Ranks /\ (i - 1) + 1 = i
    BY <2>1, IndexAssumption DEF Ranks
  <2>3. query[k] = i - 1 /\ query[k] # NotFound
    BY <2>1, <2>2 DEF TypeInv, Ranks, NotFound
  <2>4. Entry(i - 1).bitmap = k /\ Entry(i - 1).fp = Fingerprint[k]
    BY <2>1, <2>2 DEF Entry
  <2> QED
    BY <1>1, <2>3, <2>4 DEF AnswerTo, Matches, MayAnswer
<1>2. CASE k \notin ToSet(Ranked) /\ AnswerTo(k) # None
  <2>1. query[k] \in Ranks /\ Matches(query[k], k) /\ AnswerTo(k) = Entry(query[k]).bitmap
    BY <1>2, Entries DEF AnswerTo
  <2>2. Entry(query[k]).bitmap \in Confused(k)
    BY <2>1, Entries DEF Confused, Matches
  <2> QED
    BY <1>2, <2>1, <2>2 DEF MayAnswer
<1>3. CASE k \notin ToSet(Ranked) /\ AnswerTo(k) = None
  BY <1>3 DEF MayAnswer
<1> QED
  BY <1>1, <1>2, <1>3

LEMMA SeenOfOthers ==
  ASSUME TypeInv, NEW c \in Clients, Start(c) \/ ClientStep(c)
  PROVE  \A d \in Clients \ {c} :
            /\ Closing(d)' <=> Closing(d)
            /\ AskedNow'[d] = AskedNow[d] /\ AnswerNow'[d] = AnswerNow[d]
<1> SUFFICES ASSUME NEW d \in Clients \ {c}
             PROVE  /\ Closing(d)' <=> Closing(d)
                    /\ AskedNow'[d] = AskedNow[d] /\ AnswerNow'[d] = AnswerNow[d]
  OBVIOUS
<1>1. pc'[d] = pc[d] /\ req'[d] = req[d] /\ out'[d] = out[d] /\ ret'[d] = ret[d]
  BY OtherCall
<1> QED
  BY <1>1 DEF Closing, Answered, AskedNow, AnswerNow

\* A step inside a call is not seen.
LEMMA SeenInside ==
  ASSUME TypeInv, NEW c \in Clients, ClientStep(c), pc[c] # "idle", pc'[c] # "idle",
         req'[c] = req[c], closeOnce' = closeOnce \/ req[c] = Close
  PROVE  UNCHANGED <<AskedNow, AnswerNow, ClosedNow>>
<1>1. Closing(c)' <=> Closing(c)
  BY DEF Closing
<1>2. AskedNow'[c] = AskedNow[c] /\ AnswerNow'[c] = AnswerNow[c]
  BY <1>1 DEF Answered, AskedNow, AnswerNow
<1>3. \A d \in Clients : AskedNow'[d] = AskedNow[d] /\ AnswerNow'[d] = AnswerNow[d]
                         /\ (Closing(d)' <=> Closing(d))
  BY <1>1, <1>2, SeenOfOthers
<1>4. AskedNow' = AskedNow /\ AnswerNow' = AnswerNow
  BY <1>3 DEF AskedNow, AnswerNow
<1>5. CASE closeOnce' = closeOnce
  BY <1>3, <1>4, <1>5 DEF ClosedNow
<1>6. CASE req[c] = Close
  <2>1. Closing(c) /\ Closing(c)'
    BY <1>1, <1>6 DEF Closing, Close
  <2>2. ClosedNow /\ ClosedNow'
    BY <2>1 DEF ClosedNow
  <2> QED
    BY <1>4, <2>2 DEF ClosedNow
<1> QED
  BY <1>5, <1>6

\* Close returns nothing.
LEMMA SeenClosed ==
  ASSUME TypeInv, CallInv, NEW c \in Clients, EnterOnce(c) \/ CloseData(c), Return(c, "ok"),
         closeOnce' # "new", out' = out
  PROVE  UNCHANGED <<AskedNow, AnswerNow, ClosedNow>>
<1>1. /\ pc[c] # "idle" /\ pc'[c] = "idle" /\ req[c] = Close /\ req'[c] = Close
      /\ out[c] = <<>> /\ out'[c] = <<>>
  BY DEF EnterOnce, CloseData, Return, CallInv, CallOf, Reading, TypeInv
<1>2. Closing(c) /\ ~Closing(c)' /\ ~Answered(c)
  BY <1>1 DEF Closing, Close, Answered
<1>3. \A d \in Clients : AskedNow'[d] = AskedNow[d] /\ AnswerNow'[d] = AnswerNow[d]
  BY <1>1, <1>2, SeenOfOthers DEF AskedNow, AnswerNow, ClientStep
<1>4. ClosedNow /\ ClosedNow'
  BY <1>2 DEF ClosedNow
<1> QED
  BY <1>3, <1>4 DEF AskedNow, AnswerNow, ClosedNow

\* A lookup that returns.
LEMMA SeenReturned ==
  ASSUME TypeInv, CallInv, NEW c \in Clients, ClientStep(c), NEW res \in {"ok", "err"},
         Return(c, res), pc[c] # "idle", req[c] \in Requests, closeOnce' = closeOnce
  PROVE  /\ AskedNow[c] = req[c].keys /\ AskedNow[c] # <<>>
         /\ AskedNow' = [AskedNow EXCEPT ![c] = <<>>] /\ ClosedNow' = ClosedNow
         /\ AnswerNow[c] = <<>> /\ AnswerNow'[c] = IF res = "ok" THEN out'[c] ELSE <<>>
         /\ \A d \in Clients \ {c} : AnswerNow'[d] = AnswerNow[d]
<1>1. pc'[c] = "idle" /\ req'[c] = req[c] /\ ret'[c] = res
  BY DEF Return, TypeInv
<1>2. ~Closing(c) /\ ~Closing(c)' /\ ~Answered(c) /\ (Answered(c)' <=> res = "ok")
  BY <1>1, CloseIsApart DEF Closing, Answered
<1>3. AskedNow[c] = req[c].keys /\ AskedNow[c] # <<>>
  BY <1>2, CloseIsApart DEF AskedNow
<1>4. AskedNow' = [AskedNow EXCEPT ![c] = <<>>]
  BY <1>1, SeenOfOthers DEF AskedNow
<1>5. ClosedNow' = ClosedNow
  BY <1>2, SeenOfOthers DEF ClosedNow
<1>6. AnswerNow[c] = <<>> /\ AnswerNow'[c] = IF res = "ok" THEN out'[c] ELSE <<>>
  BY <1>2 DEF AnswerNow
<1> QED
  BY <1>3, <1>4, <1>5, <1>6, SeenOfOthers

\* An answer is a reply, an error a failure, and all else is not seen.
LEMMA KeyedStep ==
  ASSUME IndexInv, [Next]_vars
  PROVE  [Abstract!ReaderNext]_(Abstract!readerVars)
<1> USE DEF AskedNow, AnswerNow, ClosedNow
<1>0. TypeInv /\ CallInv
  BY DEF IndexInv
<1>1. CASE UNCHANGED <<AskedNow, AnswerNow, ClosedNow>>
  BY <1>1 DEF Abstract!readerVars
<1>2. CASE UNCHANGED vars
  BY <1>1, <1>2 DEF vars, loadVars, callVars, Closing, Answered
<1>3. CASE LoadMPHF \/ OpenData
  BY <1>1, <1>3, LoadsKeep DEF callVars, Closing, Answered
<1>4. ASSUME NEW c \in Clients, Start(c) PROVE Abstract!ReaderNext
  <2>1. /\ pc[c] = "idle" /\ pc'[c] # "idle" /\ UNCHANGED closeOnce
        /\ ret'[c] = "none" /\ out'[c] = <<>>
    BY <1>0, <1>4 DEF Start, TypeInv, loadVars
  <2>2. AnswerNow' = [AnswerNow EXCEPT ![c] = <<>>]
    BY <1>0, <1>4, <2>1, SeenOfOthers DEF Answered
  <2>3. CASE /\ closeOnce = "new" /\ \A d \in Clients : ~Closing(d)
             /\ \E q \in Requests : req'[c] = q
    <3>1. PICK q \in Requests : req'[c] = q
      BY <2>3
    <3>2. ~Closing(c)' /\ ~ClosedNow /\ ~ClosedNow'
      BY <1>0, <1>4, <2>1, <2>3, <3>1, CloseIsApart, SeenOfOthers DEF Closing
    <3>3. AskedNow[c] = <<>> /\ AskedNow' = [AskedNow EXCEPT ![c] = q.keys]
      BY <1>0, <1>4, <2>1, <3>1, <3>2, SeenOfOthers
    <3>4. q.keys \in {r.keys : r \in Requests}
      OBVIOUS
    <3>5. Abstract!Ask(c)
      BY <2>2, <3>2, <3>3, <3>4 DEF Abstract!Ask
    <3> QED
      BY <3>5 DEF Abstract!ReaderNext
  <2>4. CASE (\A d \in Clients : pc[d] = "idle" \/ Closing(d)) /\ req'[c] = Close
    <3>1. Closing(c)' /\ ClosedNow'
      BY <2>1, <2>4 DEF Closing, Close
    <3>2. \A d \in Clients : AskedNow[d] = <<>>
      BY <2>4
    <3>3. AskedNow'[c] = <<>>
      BY <3>1
    <3>4. AskedNow' = AskedNow
      BY <1>0, <1>4, <3>2, <3>3, SeenOfOthers
    <3>5. Abstract!CloseReader
      BY <2>2, <3>1, <3>2, <3>4 DEF Abstract!CloseReader
    <3> QED
      BY <3>5 DEF Abstract!ReaderNext
  <2> QED
    BY <1>0, <1>4, <2>3, <2>4 DEF Start, TypeInv
<1>5. ASSUME NEW c \in Clients, EnterOnce(c) \/ CloseMPHF(c) \/ CloseData(c)
      PROVE  UNCHANGED <<AskedNow, AnswerNow, ClosedNow>>
  <2>1. pc[c] # "idle" /\ req[c] = Close /\ ClientStep(c) /\ out' = out
    BY <1>0, <1>5 DEF EnterOnce, CloseMPHF, CloseData, ClientStep, CallInv, CallOf
  <2>2. CASE Return(c, "ok") /\ closeOnce' # "new" /\ (EnterOnce(c) \/ CloseData(c))
    BY <1>0, <2>1, <2>2, SeenClosed
  <2>3. CASE \E where \in Points \ {"idle"} : Goto(c, where)
    <3>1. pc'[c] # "idle" /\ req' = req
      BY <1>0, <2>3 DEF Goto, TypeInv
    <3> QED
      BY <1>0, <2>1, <3>1, SeenInside
  <2> QED
    BY <1>5, <2>2, <2>3 DEF EnterOnce, CloseMPHF, CloseData, Points
<1>6. ASSUME NEW c \in Clients, ClientStep(c), closeOnce' = closeOnce, pc[c] # "idle",
             pc'[c] # "idle", req'[c] = req[c]
      PROVE  UNCHANGED <<AskedNow, AnswerNow, ClosedNow>>
  BY <1>0, <1>6, SeenInside
<1>7. ASSUME NEW c \in Clients,
             \/ ReadFails(c) \/ \E r \in todo[c] : StartCallback(c, r)
             \/ \E r \in DOMAIN running[c] : CallbackKey(c, r)
      PROVE  UNCHANGED <<AskedNow, AnswerNow, ClosedNow>>
  <2>1. /\ closeOnce' = closeOnce /\ pc[c] # "idle" /\ pc'[c] # "idle" /\ req'[c] = req[c]
    BY <1>0, <1>7 DEF ReadFails, StartCallback, CallbackKey, Goto, TypeInv, loadVars
  <2> QED
    BY <1>6, <1>7, <2>1 DEF ClientStep
<1>8. ASSUME NEW c \in Clients, ClientStep(c), UNCHANGED <<closeOnce, out>>, pc[c] # "idle",
             req[c] \in Requests, Return(c, "err")
      PROVE  Abstract!ReaderNext
  <2>1. /\ AskedNow[c] # <<>> /\ AskedNow' = [AskedNow EXCEPT ![c] = <<>>] /\ ClosedNow' = ClosedNow
        /\ \A d \in Clients : AnswerNow'[d] = AnswerNow[d]
    BY <1>0, <1>8, SeenReturned
  <2>2. AnswerNow' = AnswerNow
    BY <2>1
  <2>3. Abstract!Fail(c)
    BY <2>1, <2>2 DEF Abstract!Fail, Abstract!Finished
  <2> QED
    BY <2>3 DEF Abstract!ReaderNext
<1>9. ASSUME NEW c \in Clients, ClientStep(c), closeOnce' = closeOnce, pc[c] # "idle",
             req[c] \in Requests, Return(c, "ok"), DOMAIN out'[c] = DOMAIN req[c].keys,
             \A i \in DOMAIN req[c].keys : out'[c][i] = AnswerTo(req[c].keys[i])
      PROVE  Abstract!ReaderNext
  <2>1. /\ AskedNow[c] = req[c].keys /\ AskedNow[c] # <<>>
        /\ AskedNow' = [AskedNow EXCEPT ![c] = <<>>] /\ ClosedNow' = ClosedNow
        /\ AnswerNow'[c] = out'[c] /\ \A d \in Clients \ {c} : AnswerNow'[d] = AnswerNow[d]
    BY <1>0, <1>9, SeenReturned
  <2>2. \A i \in DOMAIN req[c].keys : req[c].keys[i] \in Keys
    BY <1>9, CloseIsApart
  <2>3. \A i \in DOMAIN AskedNow[c] : AnswerNow'[c][i] \in MayAnswer[AskedNow[c][i]]
    BY <1>0, <1>9, <2>1, <2>2, AnswersMayBe
  <2>4. Abstract!Reply(c)
    BY <1>9, <2>1, <2>3 DEF Abstract!Reply, Abstract!Finished, MayAnswer
  <2> QED
    BY <2>4 DEF Abstract!ReaderNext
<1>10. ASSUME NEW c \in Clients, Waited(c) PROVE [Abstract!ReaderNext]_(Abstract!readerVars)
  <2>1. pc[c] # "idle" /\ UNCHANGED <<closeOnce, out>>
    BY <1>10 DEF Waited
  <2>2. CASE Return(c, "err") /\ req[c] \in Requests
    BY <1>8, <1>10, <2>1, <2>2 DEF ClientStep
  <2>3. CASE \E where \in {"lookup", "keys", "close"} : Goto(c, where)
    <3>1. pc'[c] # "idle" /\ req'[c] = req[c]
      BY <1>0, <2>3 DEF Goto, TypeInv
    <3>2. UNCHANGED <<AskedNow, AnswerNow, ClosedNow>>
      BY <1>6, <1>10, <2>1, <3>1 DEF ClientStep
    <3> QED
      BY <1>1, <3>2
  <2> QED
    BY <1>0, <1>10, <2>2, <2>3, AfterWait
<1>11. ASSUME NEW c \in Clients, Lookup(c) PROVE Abstract!ReaderNext
  <2>1. pc[c] # "idle" /\ ClientStep(c)
    BY <1>11 DEF Lookup, ClientStep
  <2> QED
    BY <1>0, <1>8, <1>9, <1>11, <2>1, LookupAnswers DEF loadVars
<1>12. ASSUME NEW c \in Clients, QueryKeys(c) PROVE [Abstract!ReaderNext]_(Abstract!readerVars)
  <2>1. pc[c] # "idle" /\ ClientStep(c) /\ closeOnce' = closeOnce
    BY <1>12 DEF QueryKeys, ClientStep, loadVars
  <2>2. CASE pc'[c] = "read"
    <3>1. req'[c] = req[c]
      BY <1>12 DEF QueryKeys, Goto, Return
    <3> QED
      BY <1>1, <1>6, <2>1, <2>2, <3>1
  <2>3. CASE pc'[c] # "read"
    BY <1>0, <1>8, <1>9, <1>12, <2>1, <2>3, NothingToRead
  <2> QED
    BY <2>2, <2>3
<1>13. ASSUME NEW c \in Clients, ReadReturns(c) PROVE Abstract!ReaderNext
  <2>1. pc[c] # "idle" /\ ClientStep(c) /\ closeOnce' = closeOnce /\ ReadOf(c)
    BY <1>13 DEF ReadReturns, ClientStep, loadVars, IndexInv, ReadInv
  <2> QED
    BY <1>0, <1>8, <1>9, <1>13, <2>1, AllRead
<1> QED
  BY <1>1, <1>2, <1>3, <1>4, <1>5, <1>7, <1>10, <1>11, <1>12, <1>13 DEF Next, ClientStep

-----------------------------------------------------------------------------
(***************************************************************************)
(* The theorems.                                                            *)
(***************************************************************************)
LEMMA IndexInit ==
  ASSUME Init
  PROVE  IndexInv
<1>0. <<>> \in Seq(Values)
  OBVIOUS
<1>1. TypeInv
  BY <1>0 DEF Init, TypeInv, Points
<1>2. LoadInv /\ CallInv /\ ReadInv /\ AnswerInv
  BY DEF Init, LoadInv, Released, CallInv, CallOf, ReadInv, ReadOf, Reading, AnswerInv, AnswerOf,
         Answered
<1> QED
  BY <1>1, <1>2 DEF IndexInv

LEMMA IndexNext ==
  ASSUME IndexInv, [Next]_vars
  PROVE  IndexInv'
  BY TypeStep, LoadStep, CallsStep, AnswersStep DEF IndexInv

LEMMA IndexInvariant == Spec => []IndexInv
  BY IndexInit, IndexNext, PTL DEF Spec

\* The types: what LookupKeys sorts are places of its batch, and a callback stands at one.
THEOREM IndexTypes == Spec => []TypeOK
<1>1. IndexInv => TypeOK
  <2> SUFFICES ASSUME IndexInv, NEW c \in Clients
               PROVE  /\ req[c] \in Requests \cup {Idle, Close} /\ ret[c] \in {"none", "ok", "err"}
                      /\ found[c] \in Seq([outIdx: DOMAIN req[c].keys, rank: Ranks])
                      /\ todo[c] \cup DOMAIN running[c] \subseteq
                            {found[c][k].rank : k \in DOMAIN found[c]}
                      /\ \A r \in DOMAIN running[c] : running[c][r] \in DOMAIN found[c]
                      /\ out[c] \in Seq(Keys \cup {None})
    BY DEF IndexInv, TypeInv, TypeOK
  <2>1. /\ req[c] \in Requests \cup {Idle, Close} /\ ret[c] \in {"none", "ok", "err"}
        /\ out[c] \in Seq(Keys \cup {None})
    BY DEF IndexInv, TypeInv, Values
  <2>2. CASE ~Reading(c)
    <3>1. found[c] = <<>> /\ todo[c] = {} /\ DOMAIN running[c] = {}
      BY <2>2 DEF IndexInv, CallInv, CallOf, NoCall
    <3> QED
      BY <2>1, <3>1
  <2>3. CASE Reading(c)
    <3>1. /\ found[c] \in Seq([outIdx: DOMAIN req[c].keys, rank: Ranks])
          /\ todo[c] \subseteq {found[c][k].rank : k \in DOMAIN found[c]}
      BY <2>3 DEF IndexInv, ReadInv, ReadOf, Sorted
    <3>2. \A r \in DOMAIN running[c] :
             running[c][r] \in DOMAIN found[c] /\ found[c][running[c][r]].rank = r
      BY <2>3 DEF IndexInv, ReadInv, ReadOf, InItsGroup
    <3>3. DOMAIN running[c] \subseteq {found[c][k].rank : k \in DOMAIN found[c]}
      BY <3>2
    <3> QED
      BY <2>1, <3>1, <3>2, <3>3
  <2> QED
    BY <2>2, <2>3
<1> QED
  BY IndexInvariant, <1>1, PTL

\* When Close has returned, neither the MPHF nor the packfile is open and no load of Open
\* is left that would open one, whichever of them failed and whenever they ended.
THEOREM CloseReleasesFiles == Spec => []Released
<1>1. IndexInv => Released
  BY DEF IndexInv, LoadInv
<1> QED
  BY IndexInvariant, <1>1, PTL

\* The callbacks of ReadItems write to different elements of the result of LookupKeys,
\* without a lock: a position belongs to one group, and a group to one callback.  None is
\* left when LookupKeys returns.
THEOREM CallbacksApart == Spec => []NoRace
<1>1. IndexInv => NoRace
  <2> SUFFICES ASSUME IndexInv, NEW c \in Clients
               PROVE  /\ \A r, s \in DOMAIN running[c] :
                            r # s => found[c][running[c][r]].outIdx # found[c][running[c][s]].outIdx
                      /\ pc[c] = "idle" => running[c] = NoCall
    BY DEF NoRace
  <2>1. CASE ~Reading(c)
    BY <2>1 DEF IndexInv, CallInv, CallOf, NoCall
  <2>2. CASE Reading(c)
    <3>1. /\ Sorted(found[c], req[c].keys) /\ pc[c] # "idle"
          /\ \A r \in DOMAIN running[c] :
                running[c][r] \in DOMAIN found[c] /\ found[c][running[c][r]].rank = r
      BY <2>2 DEF IndexInv, ReadInv, ReadOf, InItsGroup, Reading
    <3> QED
      BY <3>1 DEF Sorted
  <2> QED
    BY <2>1, <2>2
<1> QED
  BY IndexInvariant, <1>1, PTL

\* What Lookup and LookupKeys return for a key depends on the key alone, not on the batch,
\* on the order of the callbacks or on other callers; and a key that is not in the index
\* fails no call.
THEOREM AnswersAreTrue == Spec => []TrueAnswers
<1>1. IndexInv => TrueAnswers
  <2>1. ASSUME IndexInv, NEW c \in Clients, NEW d \in Clients, Answered(c), Answered(d),
               NEW i \in DOMAIN out[c], NEW j \in DOMAIN out[d], req[c].keys[i] = req[d].keys[j]
        PROVE  out[c][i] = out[d][j]
    BY <2>1 DEF IndexInv, AnswerInv, AnswerOf
  <2>2. ASSUME IndexInv, NEW c \in Clients, pc[c] = "idle", ret[c] = "err"
        PROVE  \/ once = "err" \/ data = "failed" \/ faults \cap {"query", "read", "ctx"} # {}
               \/ \E i \in DOMAIN req[c].keys :
                     /\ query[req[c].keys[i]] \in damaged
                     /\ Matches(query[req[c].keys[i]], req[c].keys[i])
    BY <2>2 DEF IndexInv, AnswerInv, AnswerOf, ErrorHasCause, HitsDamage
  <2> QED
    BY <2>1, <2>2 DEF TrueAnswers
<1> QED
  BY IndexInvariant, <1>1, PTL

\* The index on packfiles is an index: a call is answered key by key in the order asked
\* for, or fails; a key that is not there gets nil or what the fingerprints cannot tell
\* apart; and no call begins on a closed reader.
THEOREM IndexImplementsReader == Spec => ImplementsReader
<1>1. Init => Abstract!ReaderInit
  BY DEF Init, Abstract!ReaderInit, Answered, Closing
<1>2. IndexInv /\ [Next]_vars => [Abstract!ReaderNext]_(Abstract!readerVars)
  BY KeyedStep
<1> QED
  BY <1>1, <1>2, IndexInvariant, PTL DEF Spec, ImplementsReader, Abstract!ReaderSpec
=============================================================================
