--------------------------- MODULE RocksIndexProofs ---------------------------
(***************************************************************************)
(* Theorems about the reader of the bitmap index on RocksDB, for any number *)
(* of callers and workers, any index, any batches of keys and any faults.   *)
(***************************************************************************)
EXTENDS RocksIndexReader, FiniteSetTheorems, TLAPS

Points == {"idle", "closeOnce", "wait", "lookup", "keys", "workers", "closing"}

Share == [lo: Nat, hi: Nat, at: Int]

Values == Keys \cup {None}

TypeInv ==
    /\ once \in {"new", "busy", "done"} /\ openErr \in BOOLEAN
    /\ db \in {"none", "open", "closed"} /\ closeOnce \in {"new", "busy", "done"}
    /\ pc \in [Clients -> Points] /\ req \in [Clients -> Requests \cup {Close}]
    /\ shares \in [Clients -> SUBSET Share] /\ firstErr \in [Clients -> BOOLEAN]
    /\ DOMAIN indexed = Clients /\ DOMAIN bitmaps = Clients
    /\ out \in [Clients -> Seq(Values)] /\ ret \in [Clients -> {"none", "ok", "err"}]

(***************************************************************************)
(* The open.  Whoever has gone past waitOpen knows that it is over.         *)
(***************************************************************************)
OpenInv ==
    /\ once # "done" => db = "none" /\ ~openErr
    /\ closeOnce = "done" => once = "done" /\ db # "open"
    /\ \A c \in Clients : pc[c] = "closing" => once = "done"

(***************************************************************************)
(* What a call asks for, and what it holds between its steps.               *)
(***************************************************************************)
CallOf(c) ==
    /\ pc[c] \in {"lookup", "keys", "workers"} => req[c] \in Requests
    /\ pc[c] = "lookup" => req[c].op = "lookup"
    /\ pc[c] \in {"closeOnce", "closing"} => req[c] = Close
    /\ pc[c] # "idle" => out[c] = <<>>
    /\ pc[c] # "workers" => shares[c] = {} /\ bitmaps[c] = NoBitmaps /\ ~firstErr[c]

CallInv == \A c \in Clients : CallOf(c)

(***************************************************************************)
(* The workers.  Their shares are apart, a position is read, in the share   *)
(* of a worker that has still to read it, or lost to an error; and what is  *)
(* in bitmaps is the bitmap of the key that was sorted there.               *)
(***************************************************************************)
\* A worker has still to read position i.
Ahead(sh, i) == sh.lo <= i /\ sh.at <= i /\ i < sh.hi

Found(k) == IF k \in Indexed THEN k ELSE None

Positions(c) == 0 .. Len(req[c].keys) - 1

Permutation(p, n) == /\ p \in [1 .. n -> 1 .. n]
                     /\ \A i \in 1 .. n : \E j \in 1 .. n : p[j] = i

WorkersOf(c) ==
    pc[c] = "workers" =>
        /\ Permutation(indexed[c], Len(req[c].keys))
        /\ \A sh \in shares[c] :
              /\ 0 <= sh.lo /\ sh.lo < sh.hi /\ sh.hi <= Len(req[c].keys)
              /\ sh.at = -1 \/ (sh.lo <= sh.at /\ sh.at < sh.hi)
        /\ \A s, t \in shares[c] : s # t => s.hi <= t.lo \/ t.hi <= s.lo
        /\ \/ firstErr[c]
           \/ \A i \in Positions(c) : i \in DOMAIN bitmaps[c] \/ \E sh \in shares[c] : Ahead(sh, i)
        /\ \A i \in DOMAIN bitmaps[c] : i \in Positions(c) /\ bitmaps[c][i] = Found(KeyAt(c, i))

WorkersInv == \A c \in Clients : WorkersOf(c)

LookupInv == TypeInv /\ OpenInv /\ CallInv /\ WorkersInv

-----------------------------------------------------------------------------
(***************************************************************************)
(* What a step leaves alone.                                                *)
(***************************************************************************)
\* A step of one call changes nothing of another.
LEMMA OtherCall ==
  ASSUME TypeInv, NEW c \in Clients, NEW d \in Clients \ {c}, Start(c) \/ ClientStep(c)
  PROVE  /\ pc'[d] = pc[d] /\ req'[d] = req[d] /\ out'[d] = out[d] /\ ret'[d] = ret[d]
         /\ shares'[d] = shares[d] /\ firstErr'[d] = firstErr[d]
         /\ indexed'[d] = indexed[d] /\ bitmaps'[d] = bitmaps[d]
<1>1. CASE Start(c)
  BY <1>1 DEF TypeInv, Start, readVars
<1>2. CASE WaitOpen(c) \/ Lookup(c) \/ EnterClose(c) \/ CloseDB(c)
  BY <1>2 DEF TypeInv, WaitOpen, Lookup, EnterClose, CloseDB, Goto, Return, readVars
<1>3. CASE LookupKeys(c)
  BY <1>3 DEF TypeInv, LookupKeys, Goto
<1>4. CASE Join(c)
  BY <1>4 DEF TypeInv, Join, Return
<1>5. ASSUME NEW sh \in shares[c], ReadShare(c, sh) \/ ReadValue(c, sh)
      PROVE  /\ UNCHANGED <<pc, req, out, ret, indexed>>
             /\ shares'[d] = shares[d] /\ firstErr'[d] = firstErr[d] /\ bitmaps'[d] = bitmaps[d]
  BY <1>5 DEF TypeInv, ReadShare, ReadValue
<1> QED
  BY <1>1, <1>2, <1>3, <1>4, <1>5 DEF ClientStep

\* The open touches no call.
LEMMA OpenerKeeps ==
  ASSUME OpenDB
  PROVE  UNCHANGED <<pc, req, out, ret, readVars>>
  BY DEF OpenDB

-----------------------------------------------------------------------------
(***************************************************************************)
(* The shares of the workers.                                               *)
(***************************************************************************)
LEMMA MinOfTwo ==
  ASSUME NEW a \in Int, NEW b \in Int
  PROVE  Min({a, b}) = IF a <= b THEN a ELSE b
<1> DEFINE m == IF a <= b THEN a ELSE b
<1>1. m \in {a, b} /\ \A y \in {a, b} : m <= y
  OBVIOUS
<1>2. \A x \in {a, b} : (\A y \in {a, b} : x <= y) => x = m
  OBVIOUS
<1> QED
  BY <1>1, <1>2 DEF Min

\* n positions, m workers: P positions each are enough.
LEMMA EnoughForAll ==
  ASSUME NEW n \in Nat \ {0}, NEW m \in Nat \ {0}
  PROVE  (n + m - 1) \div m \in Nat \ {0} /\ n <= m * ((n + m - 1) \div m)
<1> DEFINE a == n + m - 1
           P == a \div m
<1>1. a \in Nat /\ a >= m
  OBVIOUS
<1>2. P \in Int /\ a = m * P + (a % m) /\ 0 <= (a % m) /\ (a % m) < m
  BY <1>1
<1>3. n <= m * P
  <2> HIDE DEF P
  <2>1. m * P \in Int
    BY <1>2
  <2>2. (a % m) \in Int
    BY <1>1
  <2> QED
    BY <1>2, <2>1, <2>2
<1>4. P > 0
  <2> HIDE DEF P
  <2>1. SUFFICES ASSUME P <= 0 PROVE FALSE
    BY <1>2
  <2>2. m * P <= 0 /\ m * P \in Int
    BY <1>2, <2>1
  <2> QED
    BY <1>3, <2>2
<1> QED
  BY <1>2, <1>3, <1>4

LEMMA PerWorkerCovers ==
  ASSUME NEW n \in Nat \ {0}
  PROVE  \E m \in Nat \ {0} : /\ m = Min({Concurrency, n})
                              /\ PerWorker(n) \in Nat \ {0} /\ n <= m * PerWorker(n)
<1>1. Min({Concurrency, n}) \in Nat \ {0}
  BY MinOfTwo, RockIndexAssumption
<1> QED
  BY <1>1, EnoughForAll DEF PerWorker

LEMMA StartsAndEnds ==
  ASSUME NEW n \in Nat \ {0}
  PROVE  \A l \in ShareStarts(n) :
            /\ l \in 0 .. n - 1 /\ ShareEnd(l, n) \in l + 1 .. n
            /\ ShareEnd(l, n) <= l + PerWorker(n)
            /\ \A i \in 0 .. n - 1 : i < l + PerWorker(n) => i < ShareEnd(l, n)
<1> SUFFICES ASSUME NEW l \in ShareStarts(n)
             PROVE  /\ l \in 0 .. n - 1 /\ ShareEnd(l, n) \in l + 1 .. n
                    /\ ShareEnd(l, n) <= l + PerWorker(n)
                    /\ \A i \in 0 .. n - 1 : i < l + PerWorker(n) => i < ShareEnd(l, n)
  OBVIOUS
<1>1. l \in 0 .. n - 1
  BY DEF ShareStarts
<1>2. PerWorker(n) \in Nat \ {0}
  BY PerWorkerCovers
<1>3. ShareEnd(l, n) = IF l + PerWorker(n) <= n THEN l + PerWorker(n) ELSE n
  BY <1>1, <1>2, MinOfTwo DEF ShareEnd
<1> QED
  BY <1>1, <1>2, <1>3

\* No two shares have a position in common.
LEMMA SharesApart ==
  ASSUME NEW n \in Nat \ {0},
         NEW l \in ShareStarts(n), NEW k \in ShareStarts(n), l # k
  PROVE  ShareEnd(l, n) <= k \/ ShareEnd(k, n) <= l
<1> DEFINE P == PerWorker(n)
<1>1. P \in Nat \ {0}
  BY PerWorkerCovers
<1>2. PICK m \in Nat \ {0} : m = Min({Concurrency, n})
  BY PerWorkerCovers
<1>3. PICK v \in Nat, w \in Nat : l = v * P /\ k = w * P
  BY <1>2 DEF ShareStarts
<1> HIDE DEF P
<1>4. \A x, y \in Nat : x < y => x * P + P <= y * P
  <2> SUFFICES ASSUME NEW x \in Nat, NEW y \in Nat, x < y PROVE x * P + P <= y * P
    OBVIOUS
  <2>1. PICK d \in Nat : y = x + 1 + d
    <3>1. y - x - 1 \in Nat /\ y = x + 1 + (y - x - 1)
      OBVIOUS
    <3> QED
      BY <3>1
  <2>2. y * P = x * P + P + d * P /\ d * P >= 0
    BY <1>1, <2>1
  <2> QED
    BY <1>1, <2>2
<1>5. v # w
  BY <1>3
<1>6. l + P <= k \/ k + P <= l
  <2>1. CASE v < w
    BY <1>3, <1>4, <2>1
  <2>2. CASE w < v
    BY <1>3, <1>4, <2>2
  <2> QED
    BY <1>5, <2>1, <2>2
<1>7. /\ ShareEnd(l, n) <= l + P /\ ShareEnd(k, n) <= k + P
      /\ ShareEnd(l, n) \in Int /\ ShareEnd(k, n) \in Int /\ l \in Int /\ k \in Int
  BY StartsAndEnds DEF P
<1> QED
  BY <1>1, <1>6, <1>7

\* Every position is in a share.
LEMMA SharesCover ==
  ASSUME NEW n \in Nat \ {0}, NEW i \in 0 .. n - 1
  PROVE  \E l \in ShareStarts(n) : l <= i /\ i < ShareEnd(l, n)
<1> DEFINE P == PerWorker(n)
           w == i \div P
<1>1. PICK m \in Nat \ {0} : m = Min({Concurrency, n}) /\ n <= m * P
  BY PerWorkerCovers
<1>2. P \in Nat \ {0}
  BY PerWorkerCovers
<1> HIDE DEF P
<1>3. w \in Int /\ i = P * w + (i % P) /\ 0 <= (i % P) /\ (i % P) < P /\ (i % P) \in Int
  BY <1>2
<1> HIDE DEF w
<1>4. w >= 0
  <2> SUFFICES ASSUME w < 0 PROVE FALSE
    BY <1>3
  <2>1. P * w <= -P
    BY <1>2, <1>3
  <2>2. P * w \in Int
    BY <1>2, <1>3
  <2> QED
    BY <1>2, <1>3, <2>1, <2>2
<1>5. w * P \in Nat /\ w * P <= i /\ i < w * P + P
  <2>1. P * w = w * P /\ w * P \in Nat
    BY <1>2, <1>3, <1>4
  <2>2. \A x, r \in Int : i = x + r /\ 0 <= r /\ r < P => x <= i /\ i < x + P
    BY <1>2
  <2> QED
    BY <1>3, <2>1, <2>2
<1>6. w < m
  <2> SUFFICES ASSUME m <= w PROVE FALSE
    BY <1>3
  <2>1. m * P <= w * P
    BY <1>2, <1>3, <1>4
  <2>2. m * P \in Int
    BY <1>2
  <2> QED
    BY <1>1, <1>5, <2>1, <2>2
<1>7. w * P \in ShareStarts(n)
  BY <1>1, <1>3, <1>4, <1>5, <1>6 DEF ShareStarts, P
<1> QED
  BY <1>5, <1>7, StartsAndEnds DEF P

-----------------------------------------------------------------------------
(***************************************************************************)
(* The types and the open.                                                  *)
(***************************************************************************)
LEMMA CloseIsApart ==
  \A q \in Requests :
     /\ q \in [op: {"lookup", "keys"}, keys: Seq(Keys)] /\ q # Close /\ q.op # "close"
     /\ Len(q.keys) \in Nat \ {0} /\ (q.op = "lookup" => Len(q.keys) = 1)
     /\ \A i \in 1 .. Len(q.keys) : q.keys[i] \in Keys
<1> SUFFICES ASSUME NEW q \in Requests
             PROVE  /\ q \in [op: {"lookup", "keys"}, keys: Seq(Keys)] /\ q # Close /\ q.op # "close"
                    /\ Len(q.keys) \in Nat \ {0} /\ (q.op = "lookup" => Len(q.keys) = 1)
                    /\ \A i \in 1 .. Len(q.keys) : q.keys[i] \in Keys
  OBVIOUS
<1>1. q \in [op: {"lookup", "keys"}, keys: Seq(Keys)] /\ q.keys # <<>>
  BY RockIndexAssumption
<1>2. q.keys \in Seq(Keys) /\ q.op \in {"lookup", "keys"}
  BY <1>1
<1>3. Len(q.keys) \in Nat /\ Len(q.keys) # 0 /\ \A i \in 1 .. Len(q.keys) : q.keys[i] \in Keys
  BY <1>1, <1>2
<1> QED
  BY <1>1, <1>2, <1>3, RockIndexAssumption DEF Close

LEMMA TypeStart ==
  ASSUME TypeInv, NEW c \in Clients, Start(c)
  PROVE  TypeInv'
<1>1. UNCHANGED <<once, openErr, db, closeOnce, shares, firstErr, indexed, bitmaps>>
  BY DEF Start, openVars, readVars
<1>2. pc' \in [Clients -> Points] /\ req' \in [Clients -> Requests \cup {Close}]
  <2>1. /\ \E p \in {"wait", "closeOnce"} : pc' = [pc EXCEPT ![c] = p]
        /\ \E q \in Requests \cup {Close} : req' = [req EXCEPT ![c] = q]
    BY DEF Start
  <2>2. pc' \in [Clients -> Points]
    BY <2>1 DEF TypeInv, Points
  <2>3. req' \in [Clients -> Requests \cup {Close}]
    BY <2>1 DEF TypeInv
  <2> QED
    BY <2>2, <2>3
<1>3. <<>> \in Seq(Values)
  OBVIOUS
<1>4. out' \in [Clients -> Seq(Values)] /\ ret' \in [Clients -> {"none", "ok", "err"}]
  BY <1>3 DEF Start, TypeInv
<1> QED
  BY <1>1, <1>2, <1>4 DEF TypeInv

LEMMA TypeReturn ==
  ASSUME TypeInv, NEW c \in Clients, NEW res \in {"ok", "err"}, Return(c, res)
  PROVE  /\ pc' \in [Clients -> Points] /\ req' \in [Clients -> Requests \cup {Close}]
         /\ shares' \in [Clients -> SUBSET Share] /\ firstErr' \in [Clients -> BOOLEAN]
         /\ DOMAIN indexed' = Clients /\ DOMAIN bitmaps' = Clients
         /\ ret' \in [Clients -> {"none", "ok", "err"}]
  BY DEF TypeInv, Return, Points

LEMMA TypeGoto ==
  ASSUME TypeInv, NEW c \in Clients, NEW where \in Points, Goto(c, where)
  PROVE  pc' \in [Clients -> Points] /\ UNCHANGED <<req, ret>>
  BY DEF TypeInv, Goto

\* The answers of a batch that has been read.
LEMMA ScatterType ==
  ASSUME CallInv, WorkersInv, NEW c \in Clients, pc[c] = "workers"
  PROVE  Scatter(c) \in Seq(Values)
<1> DEFINE n == Len(req[c].keys)
<1>1. n \in Nat /\ DOMAIN req[c].keys = 1 .. n /\ \A i \in 1 .. n : req[c].keys[i] \in Keys
  <2>1. req[c] \in Requests
    BY DEF CallInv, CallOf
  <2>2. req[c].keys \in Seq(Keys)
    BY <2>1, CloseIsApart
  <2> QED
    BY <2>1, <2>2, CloseIsApart
<1>2. \A s \in DOMAIN bitmaps[c] : s \in 0 .. n - 1 /\ bitmaps[c][s] = Found(KeyAt(c, s))
  BY DEF WorkersInv, WorkersOf, Positions
<1>3. \A s \in 0 .. n - 1 : KeyAt(c, s) \in Keys
  <2>1. Permutation(indexed[c], n)
    BY DEF WorkersInv, WorkersOf
  <2> HIDE DEF n
  <2>2. \A s \in 0 .. n - 1 : s + 1 \in 1 .. n
    BY <1>1
  <2> QED
    BY <1>1, <2>1, <2>2 DEF Permutation, KeyAt
<1>4. \A s \in DOMAIN bitmaps[c] : bitmaps[c][s] \in Values
  BY <1>2, <1>3 DEF Found, Values
<1>5. Scatter(c) \in [1 .. n -> Values]
  BY <1>1, <1>4 DEF Scatter, Values
<1> QED
  BY <1>1, <1>5

LEMMA TypeStep ==
  ASSUME TypeInv, CallInv, WorkersInv, [Next]_vars
  PROVE  TypeInv'
<1>1. ASSUME NEW c \in Clients, Start(c) PROVE TypeInv'
  BY <1>1, TypeStart
<1>2. CASE OpenDB
  BY <1>2 DEF OpenDB, BeginOpen, EndOpen, TypeInv, readVars
<1>3. ASSUME NEW c \in Clients, WaitOpen(c) PROVE TypeInv'
  <2>1. UNCHANGED <<once, openErr, db, closeOnce, out>>
    BY <1>3 DEF WaitOpen, openVars
  <2>2. CASE Return(c, "err")
    BY <2>1, <2>2, TypeReturn DEF TypeInv
  <2>3. CASE ~Return(c, "err")
    <3>1. req[c].op = "close" \/ req[c] \in Requests
      BY DEF TypeInv, Close
    <3>2. PICK where \in Points : Goto(c, where) /\ UNCHANGED readVars
      BY <1>3, <2>3, <3>1, CloseIsApart DEF WaitOpen, Points
    <3> QED
      BY <2>1, <3>2, TypeGoto DEF TypeInv, readVars
  <2> QED
    BY <2>2, <2>3
<1>4. ASSUME NEW c \in Clients, Lookup(c) PROVE TypeInv'
  <2>1. UNCHANGED <<once, openErr, db, closeOnce>>
    BY <1>4 DEF Lookup, openVars
  <2>2. PICK res \in {"ok", "err"} : Return(c, res)
    BY <1>4 DEF Lookup
  <2>3. req[c].keys[1] \in Keys
    <3>1. req[c] \in Requests
      BY <1>4 DEF Lookup, CallInv, CallOf
    <3> QED
      BY <3>1, CloseIsApart
  <2>4. <<req[c].keys[1]>> \in Seq(Values) /\ <<None>> \in Seq(Values)
    BY <2>3 DEF Values
  <2>5. out' \in [Clients -> Seq(Values)]
    BY <1>4, <2>4 DEF Lookup, TypeInv
  <2> QED
    BY <2>1, <2>2, <2>5, TypeReturn DEF TypeInv
<1>5. ASSUME NEW c \in Clients, LookupKeys(c) PROVE TypeInv'
  <2>1. UNCHANGED <<once, openErr, db, closeOnce, firstErr, bitmaps, out>>
    BY <1>5 DEF LookupKeys, openVars
  <2>2. Goto(c, "workers")
    BY <1>5 DEF LookupKeys
  <2>3. DOMAIN indexed' = Clients
    BY <1>5 DEF LookupKeys, TypeInv
  <2>4. shares' \in [Clients -> SUBSET Share]
    <3>1. req[c] \in Requests
      BY <1>5 DEF LookupKeys, CallInv, CallOf
    <3>2. \A l \in ShareStarts(Len(req[c].keys)) : l \in Nat /\ ShareEnd(l, Len(req[c].keys)) \in Nat
      BY <3>1, CloseIsApart, StartsAndEnds
    <3>3. {[lo |-> l, hi |-> ShareEnd(l, Len(req[c].keys)), at |-> -1] :
              l \in ShareStarts(Len(req[c].keys))} \subseteq Share
      BY <3>2 DEF Share
    <3> QED
      BY <1>5, <3>3 DEF LookupKeys, TypeInv
  <2> QED
    BY <2>1, <2>2, <2>3, <2>4, TypeGoto DEF TypeInv, Points
<1>6. ASSUME NEW c \in Clients, Join(c) PROVE TypeInv'
  <2>1. UNCHANGED <<once, openErr, db, closeOnce>>
    BY <1>6 DEF Join, openVars
  <2>2. PICK res \in {"ok", "err"} : Return(c, res)
    BY <1>6 DEF Join
  <2>3. out' \in [Clients -> Seq(Values)]
    BY <1>6, ScatterType DEF Join, TypeInv
  <2> QED
    BY <2>1, <2>2, <2>3, TypeReturn DEF TypeInv
<1>7. ASSUME NEW c \in Clients, EnterClose(c) PROVE TypeInv'
  <2>1. UNCHANGED <<once, openErr, db, out>> /\ closeOnce' \in {"new", "busy", "done"}
    BY <1>7 DEF EnterClose, TypeInv
  <2>2. CASE Return(c, "ok")
    BY <2>1, <2>2, TypeReturn DEF TypeInv
  <2>3. CASE Goto(c, "wait") /\ UNCHANGED readVars
    BY <2>1, <2>3, TypeGoto DEF TypeInv, Points, readVars
  <2> QED
    BY <1>7, <2>2, <2>3 DEF EnterClose, CloseFirst
<1>8. ASSUME NEW c \in Clients, CloseDB(c) PROVE TypeInv'
  <2>1. /\ UNCHANGED <<once, openErr, out>> /\ closeOnce' \in {"new", "busy", "done"}
        /\ db' \in {"none", "open", "closed"}
    BY <1>8 DEF CloseDB, TypeInv
  <2> QED
    BY <1>8, <2>1, TypeReturn DEF TypeInv, CloseDB
<1>9. ASSUME NEW c \in Clients, NEW sh \in shares[c], ReadShare(c, sh) \/ ReadValue(c, sh) PROVE TypeInv'
  <2>1. UNCHANGED <<once, openErr, db, closeOnce, pc, req, indexed, out, ret>>
    BY <1>9 DEF ReadShare, ReadValue, openVars
  <2>2. sh \in Share
    BY DEF TypeInv
  <2>3. [sh EXCEPT !.at = sh.lo] \in Share /\ [sh EXCEPT !.at = sh.at + 1] \in Share
    BY <2>2 DEF Share
  <2>4. \E S \in SUBSET Share : shares' = [shares EXCEPT ![c] = S]
    <3>1. shares[c] \subseteq Share
      BY DEF TypeInv
    <3>2. CASE ReadShare(c, sh)
      BY <2>3, <3>1, <3>2 DEF ReadShare
    <3>3. CASE ReadValue(c, sh)
      <4>1. shares' = [shares EXCEPT ![c] = @ \ {sh}]
            \/ shares' = [shares EXCEPT ![c] = (shares[c] \ {sh}) \cup {[sh EXCEPT !.at = sh.at + 1]}]
        BY <3>3 DEF ReadValue
      <4> QED
        BY <2>3, <3>1, <4>1
    <3> QED
      BY <1>9, <3>2, <3>3
  <2>5. firstErr' \in [Clients -> BOOLEAN] /\ DOMAIN bitmaps' = Clients
    BY <1>9 DEF ReadShare, ReadValue, TypeInv
  <2> QED
    BY <2>1, <2>4, <2>5 DEF TypeInv
<1>10. CASE UNCHANGED vars
  BY <1>10 DEF vars, openVars, readVars, TypeInv
<1> QED
  BY <1>1, <1>2, <1>3, <1>4, <1>5, <1>6, <1>7, <1>8, <1>9, <1>10 DEF Next, ClientStep

\* The open runs once, and Close waits for it.
LEMMA OpenStep ==
  ASSUME TypeInv, OpenInv, CallInv, [Next]_vars
  PROVE  OpenInv'
<1>1. ASSUME NEW c \in Clients, Start(c) PROVE OpenInv'
  BY <1>1, OtherCall DEF Start, OpenInv, TypeInv, openVars
<1>2. CASE OpenDB
  BY <1>2 DEF OpenDB, BeginOpen, EndOpen, OpenInv, TypeInv
<1>3. ASSUME NEW c \in Clients, WaitOpen(c) PROVE OpenInv'
  <2>1. UNCHANGED openVars /\ once = "done"
    BY <1>3 DEF WaitOpen
  <2> QED
    BY <1>3, <2>1, OtherCall DEF ClientStep, OpenInv, openVars
<1>4. ASSUME NEW c \in Clients,
             Lookup(c) \/ LookupKeys(c) \/ Join(c)
                \/ \E sh \in shares[c] : ReadShare(c, sh) \/ ReadValue(c, sh)
      PROVE  OpenInv'
  <2>1. UNCHANGED openVars /\ pc'[c] # "closing"
    BY <1>4 DEF Lookup, LookupKeys, Join, ReadShare, ReadValue, Goto, Return, TypeInv
  <2> QED
    BY <1>4, <2>1, OtherCall DEF ClientStep, OpenInv, openVars
<1>5. ASSUME NEW c \in Clients, EnterClose(c) PROVE OpenInv'
  <2>1. /\ UNCHANGED <<once, openErr, db>> /\ pc'[c] # "closing"
        /\ closeOnce' = "done" => closeOnce = "done"
    BY <1>5 DEF EnterClose, CloseFirst, Goto, Return, TypeInv
  <2> QED
    BY <1>5, <2>1, OtherCall DEF ClientStep, OpenInv
<1>6. ASSUME NEW c \in Clients, CloseDB(c) PROVE OpenInv'
  <2>1. /\ UNCHANGED <<once, openErr>> /\ pc'[c] = "idle" /\ pc[c] = "closing"
        /\ db' = IF db = "open" THEN "closed" ELSE db
    BY <1>6 DEF CloseDB, Return, TypeInv
  <2> QED
    BY <1>6, <2>1, OtherCall DEF ClientStep, OpenInv
<1>7. CASE UNCHANGED vars
  BY <1>7 DEF vars, openVars, OpenInv
<1> QED
  BY <1>1, <1>2, <1>3, <1>4, <1>5, <1>6, <1>7 DEF Next, ClientStep

-----------------------------------------------------------------------------
(***************************************************************************)
(* The calls.                                                               *)
(***************************************************************************)
\* A call that returns leaves nothing behind.
LEMMA CallReturn ==
  ASSUME TypeInv, NEW c \in Clients, NEW res \in {"ok", "err"}, Return(c, res), shares[c] = {}
  PROVE  CallOf(c)' /\ pc'[c] = "idle" /\ ret'[c] = res /\ req'[c] = req[c]
  BY DEF Return, CallOf, TypeInv

LEMMA CallsStep ==
  ASSUME TypeInv, OpenInv, CallInv, [Next]_vars
  PROVE  CallInv'
<1>0. ASSUME NEW c \in Clients, Start(c) \/ ClientStep(c), CallOf(c)'
      PROVE  CallInv'
  <2> SUFFICES ASSUME NEW d \in Clients, d # c PROVE CallOf(d)'
    BY <1>0 DEF CallInv
  <2> QED
    BY <1>0, OtherCall DEF CallInv, CallOf
<1>1. ASSUME NEW c \in Clients, Start(c) PROVE CallInv'
  <2>1. CallOf(c)'
    BY <1>1, CloseIsApart DEF Start, CallInv, CallOf, TypeInv, readVars
  <2> QED
    BY <1>0, <1>1, <2>1
<1>2. CASE OpenDB
  BY <1>2, OpenerKeeps DEF CallInv, CallOf, readVars
<1>3. ASSUME NEW c \in Clients, WaitOpen(c) PROVE CallInv'
  <2>1. CASE Return(c, "err")
    BY <1>0, <1>3, <2>1, CallReturn DEF ClientStep, CallInv, CallOf, WaitOpen
  <2>2. CASE ~Return(c, "err")
    <3>1. req[c] = Close \/ req[c] \in Requests
      BY DEF TypeInv
    <3>2. /\ UNCHANGED <<out, req, readVars>>
          /\ \/ req[c] = Close /\ pc'[c] = "closing"
             \/ req[c] \in Requests /\ pc'[c] = req[c].op /\ req[c].op \in {"lookup", "keys"}
      BY <1>3, <2>2, <3>1, CloseIsApart DEF WaitOpen, Goto, TypeInv, Close
    <3>3. CallOf(c)'
      BY <1>3, <3>2 DEF CallInv, CallOf, WaitOpen, readVars
    <3> QED
      BY <1>0, <1>3, <3>3 DEF ClientStep
  <2> QED
    BY <2>1, <2>2
<1>4. ASSUME NEW c \in Clients, Lookup(c) \/ Join(c) \/ CloseDB(c) PROVE CallInv'
  <2>1. shares[c] = {} /\ \E res \in {"ok", "err"} : Return(c, res)
    BY <1>4 DEF Lookup, Join, CloseDB, CallInv, CallOf
  <2> QED
    BY <1>0, <1>4, <2>1, CallReturn DEF ClientStep
<1>5. ASSUME NEW c \in Clients, LookupKeys(c) PROVE CallInv'
  <2>1. CallOf(c)'
    BY <1>5 DEF LookupKeys, Goto, CallInv, CallOf, TypeInv
  <2> QED
    BY <1>0, <1>5, <2>1 DEF ClientStep
<1>6. ASSUME NEW c \in Clients, EnterClose(c) PROVE CallInv'
  <2>1. CASE Return(c, "ok")
    BY <1>0, <1>6, <2>1, CallReturn DEF ClientStep, CallInv, CallOf, EnterClose
  <2>2. CASE Goto(c, "wait") /\ UNCHANGED readVars
    <3>1. CallOf(c)'
      BY <1>6, <2>2 DEF EnterClose, Goto, CallInv, CallOf, TypeInv, readVars
    <3> QED
      BY <1>0, <1>6, <3>1 DEF ClientStep
  <2> QED
    BY <1>6, <2>1, <2>2 DEF EnterClose, CloseFirst
<1>7. ASSUME NEW c \in Clients, NEW sh \in shares[c], ReadShare(c, sh) \/ ReadValue(c, sh)
      PROVE  CallInv'
  <2>1. CallOf(c)'
    BY <1>7 DEF ReadShare, ReadValue, CallInv, CallOf
  <2> QED
    BY <1>0, <1>7, <2>1 DEF ClientStep
<1>8. CASE UNCHANGED vars
  BY <1>8 DEF vars, readVars, CallInv, CallOf
<1> QED
  BY <1>1, <1>2, <1>3, <1>4, <1>5, <1>6, <1>7, <1>8 DEF Next, ClientStep

-----------------------------------------------------------------------------
(***************************************************************************)
(* The workers.                                                             *)
(***************************************************************************)
\* The sorted keys are the keys, each once.
LEMMA SortIsPermutation ==
  ASSUME NEW n \in Nat, NEW p \in SetToSeqs(1 .. n)
  PROVE  Permutation(p, n)
<1>1. Cardinality(1 .. n) = n /\ IsFiniteSet(1 .. n)
  BY FS_Interval
<1>2. p \in [1 .. n -> 1 .. n] /\ \A i, j \in 1 .. n : i # j => p[i] # p[j]
  BY <1>1 DEF SetToSeqs
<1>3. p \in Injection(1 .. n, 1 .. n)
  BY <1>2 DEF Injection, IsInjective
<1>4. p \in Surjection(1 .. n, 1 .. n)
  BY <1>1, <1>3, FS_Injection
<1> QED
  BY <1>2, <1>4 DEF Surjection, Permutation

LEMMA StartWorkers ==
  ASSUME TypeInv, CallInv, NEW c \in Clients, LookupKeys(c)
  PROVE  WorkersOf(c)'
<1> DEFINE n == Len(req[c].keys)
<1>1. req[c] \in Requests /\ n \in Nat \ {0}
  BY CloseIsApart DEF LookupKeys, CallInv, CallOf
<1>2. UNCHANGED <<req, firstErr, bitmaps>> /\ ~firstErr[c] /\ bitmaps[c] = NoBitmaps
  BY DEF LookupKeys, Goto, CallInv, CallOf
<1>3. PICK p \in SetToSeqs(1 .. n) : indexed' = [indexed EXCEPT ![c] = p]
  BY DEF LookupKeys
<1>4. indexed'[c] = p /\ Permutation(p, n)
  BY <1>1, <1>3, SortIsPermutation DEF TypeInv
<1>5. shares'[c] = {[lo |-> l, hi |-> ShareEnd(l, n), at |-> -1] : l \in ShareStarts(n)}
  BY DEF LookupKeys, TypeInv
<1>6. \A sh \in shares'[c] :
         sh.lo \in ShareStarts(n) /\ sh = [lo |-> sh.lo, hi |-> ShareEnd(sh.lo, n), at |-> -1]
  BY <1>5
<1> HIDE DEF n
<1>7. \A sh \in shares'[c] : 0 <= sh.lo /\ sh.lo < sh.hi /\ sh.hi <= n /\ sh.at = -1
  <2> SUFFICES ASSUME NEW sh \in shares'[c]
               PROVE  0 <= sh.lo /\ sh.lo < sh.hi /\ sh.hi <= n /\ sh.at = -1
    OBVIOUS
  <2>1. sh.lo \in ShareStarts(n) /\ sh.hi = ShareEnd(sh.lo, n) /\ sh.at = -1
    BY <1>6
  <2>2. sh.lo \in 0 .. n - 1 /\ ShareEnd(sh.lo, n) \in sh.lo + 1 .. n
    BY <1>1, <2>1, StartsAndEnds
  <2> QED
    BY <1>1, <2>1, <2>2
<1>8. \A s, t \in shares'[c] : s # t => s.hi <= t.lo \/ t.hi <= s.lo
  <2> SUFFICES ASSUME NEW s \in shares'[c], NEW t \in shares'[c], s # t
               PROVE  s.hi <= t.lo \/ t.hi <= s.lo
    OBVIOUS
  <2>1. /\ s.lo \in ShareStarts(n) /\ s.hi = ShareEnd(s.lo, n)
        /\ t.lo \in ShareStarts(n) /\ t.hi = ShareEnd(t.lo, n) /\ s.lo # t.lo
    BY <1>6
  <2> QED
    BY <1>1, <2>1, SharesApart
<1>9. \A i \in 0 .. n - 1 : \E sh \in shares'[c] : Ahead(sh, i)
  <2> SUFFICES ASSUME NEW i \in 0 .. n - 1 PROVE \E sh \in shares'[c] : Ahead(sh, i)
    OBVIOUS
  <2>1. PICK l \in ShareStarts(n) : l <= i /\ i < ShareEnd(l, n)
    BY <1>1, SharesCover
  <2>2. [lo |-> l, hi |-> ShareEnd(l, n), at |-> -1] \in shares'[c]
    BY <1>5, <2>1
  <2>3. Ahead([lo |-> l, hi |-> ShareEnd(l, n), at |-> -1], i)
    BY <1>1, <2>1 DEF Ahead
  <2> QED
    BY <2>2, <2>3
<1>10. DOMAIN bitmaps'[c] = {}
  BY <1>2 DEF NoBitmaps
<1> QED
  BY <1>2, <1>4, <1>7, <1>8, <1>9, <1>10 DEF WorkersOf, Positions, n

\* The batch of a worker is read, or lost.
LEMMA WorkerReads ==
  ASSUME TypeInv, WorkersInv, NEW c \in Clients, NEW sh \in shares[c], ReadShare(c, sh)
  PROVE  WorkersOf(c)'
<1>1. /\ pc[c] = "workers" /\ UNCHANGED <<pc, req, indexed, bitmaps>> /\ WorkersOf(c)
  BY DEF ReadShare, WorkersInv
<1>2. sh \in Share /\ 0 <= sh.lo /\ sh.lo < sh.hi /\ sh.at = -1
  BY <1>1 DEF TypeInv, WorkersOf, ReadShare
<1>3. CASE firstErr'[c] /\ shares'[c] = shares[c] \ {sh}
  BY <1>1, <1>3 DEF WorkersOf, Positions, KeyAt
<1>4. CASE UNCHANGED firstErr /\ shares'[c] = (shares[c] \ {sh}) \cup {[sh EXCEPT !.at = sh.lo]}
  <2> DEFINE new == [sh EXCEPT !.at = sh.lo]
  <2>1. new.lo = sh.lo /\ new.hi = sh.hi /\ new.at = sh.lo
    BY <1>2 DEF Share
  <2> HIDE DEF new
  <2>2. \A i \in Int : Ahead(sh, i) => Ahead(new, i)
    BY <1>2, <2>1 DEF Ahead
  <2>3. \A i \in Positions(c) : (\E s \in shares[c] : Ahead(s, i)) => \E s \in shares'[c] : Ahead(s, i)
    BY <1>4, <2>2 DEF Positions, new
  <2>4. \A s, t \in shares'[c] : s # t => s.hi <= t.lo \/ t.hi <= s.lo
    BY <1>1, <1>4, <2>1 DEF WorkersOf, new
  <2>5. \A s \in shares'[c] : /\ 0 <= s.lo /\ s.lo < s.hi /\ s.hi <= Len(req[c].keys)
                              /\ s.at = -1 \/ (s.lo <= s.at /\ s.at < s.hi)
    BY <1>1, <1>2, <1>4, <2>1 DEF WorkersOf, new, Share
  <2> QED
    BY <1>1, <1>4, <2>3, <2>4, <2>5 DEF WorkersOf, Positions, KeyAt
<1> QED
  BY <1>3, <1>4 DEF ReadShare, TypeInv

\* One value more, or an error.
LEMMA WorkerStores ==
  ASSUME TypeInv, WorkersInv, NEW c \in Clients, NEW sh \in shares[c], ReadValue(c, sh)
  PROVE  WorkersOf(c)'
<1> DEFINE k == KeyAt(c, sh.at)
           next == [sh EXCEPT !.at = sh.at + 1]
<1>1. /\ pc[c] = "workers" /\ UNCHANGED <<pc, req, indexed>> /\ WorkersOf(c)
      /\ \A i : KeyAt(c, i)' = KeyAt(c, i)
  BY DEF ReadValue, WorkersInv, KeyAt
<1>2. sh \in Share /\ sh.lo <= sh.at /\ sh.at < sh.hi /\ sh.hi <= Len(req[c].keys) /\ 0 <= sh.lo
  BY <1>1 DEF TypeInv, WorkersOf, ReadValue, Share
<1>3. sh.at \in Nat /\ sh.lo \in Nat /\ sh.hi \in Nat
  BY <1>2 DEF Share
<1>4. CASE firstErr'[c] /\ shares'[c] = shares[c] \ {sh} /\ UNCHANGED bitmaps
  BY <1>1, <1>4 DEF WorkersOf, Positions
<1>5. CASE /\ UNCHANGED firstErr
           /\ shares'[c] = (shares[c] \ {sh}) \cup (IF next.at < sh.hi THEN {next} ELSE {})
           /\ bitmaps'[c] = Stored(bitmaps[c], sh.at, k)
  <2>1. next.lo = sh.lo /\ next.hi = sh.hi /\ next.at = sh.at + 1
    BY <1>2 DEF Share
  <2>2. /\ DOMAIN bitmaps'[c] = {sh.at} \cup DOMAIN bitmaps[c]
        /\ bitmaps'[c][sh.at] = Found(k)
        /\ \A i \in DOMAIN bitmaps[c] : i # sh.at => bitmaps'[c][i] = bitmaps[c][i]
    BY <1>5 DEF Stored, Found
  <2> HIDE DEF next
  <2>3. \A i \in DOMAIN bitmaps'[c] : i \in Positions(c) /\ bitmaps'[c][i] = Found(KeyAt(c, i))
    <3>1. sh.at \in Positions(c)
      BY <1>2, <1>3, <1>1 DEF Positions, WorkersOf
    <3> QED
      BY <1>1, <2>2, <3>1 DEF WorkersOf
  <2>4. \A i \in Int : Ahead(sh, i) => i = sh.at \/ (next.at < sh.hi /\ Ahead(next, i))
    BY <1>3, <2>1 DEF Ahead
  <2>5. \A i \in Positions(c) : (i \in DOMAIN bitmaps[c] \/ \E s \in shares[c] : Ahead(s, i))
                                   => (i \in DOMAIN bitmaps'[c] \/ \E s \in shares'[c] : Ahead(s, i))
    BY <1>5, <2>2, <2>4 DEF Positions
  <2>6. \A s, t \in shares'[c] : s # t => s.hi <= t.lo \/ t.hi <= s.lo
    BY <1>1, <1>5, <2>1 DEF WorkersOf
  <2>7. \A s \in shares'[c] : /\ 0 <= s.lo /\ s.lo < s.hi /\ s.hi <= Len(req[c].keys)
                              /\ s.at = -1 \/ (s.lo <= s.at /\ s.at < s.hi)
    BY <1>1, <1>2, <1>3, <1>5, <2>1 DEF WorkersOf
  <2> QED
    BY <1>1, <1>5, <2>3, <2>5, <2>6, <2>7 DEF WorkersOf, Positions
<1> QED
  BY <1>4, <1>5 DEF ReadValue, TypeInv, Found

LEMMA WorkersStep ==
  ASSUME TypeInv, CallInv, WorkersInv, [Next]_vars
  PROVE  WorkersInv'
<1>0. ASSUME NEW c \in Clients, Start(c) \/ ClientStep(c), WorkersOf(c)'
      PROVE  WorkersInv'
  <2> SUFFICES ASSUME NEW d \in Clients, d # c PROVE WorkersOf(d)'
    BY <1>0 DEF WorkersInv
  <2>1. WorkersOf(d)
    BY DEF WorkersInv
  <2> QED
    BY <1>0, <2>1, OtherCall DEF WorkersOf, Positions, KeyAt
<1>1. ASSUME NEW c \in Clients, Start(c) PROVE WorkersInv'
  <2>1. pc'[c] # "workers"
    BY <1>1 DEF Start, TypeInv
  <2> QED
    BY <1>0, <1>1, <2>1 DEF WorkersOf
<1>2. CASE OpenDB
  BY <1>2, OpenerKeeps DEF WorkersInv, WorkersOf, Positions, KeyAt, readVars
<1>3. ASSUME NEW c \in Clients,
             WaitOpen(c) \/ Lookup(c) \/ Join(c) \/ EnterClose(c) \/ CloseDB(c)
      PROVE  WorkersInv'
  <2>1. pc'[c] # "workers"
    <3>1. req[c] = Close \/ req[c].op \in {"lookup", "keys"}
      BY CloseIsApart DEF TypeInv
    <3> QED
      BY <1>3, <3>1 DEF WaitOpen, Lookup, Join, EnterClose, CloseDB, CloseFirst, Goto, Return, TypeInv, Close
  <2> QED
    BY <1>0, <1>3, <2>1 DEF WorkersOf, ClientStep
<1>4. ASSUME NEW c \in Clients, LookupKeys(c) PROVE WorkersInv'
  BY <1>0, <1>4, StartWorkers DEF ClientStep
<1>5. ASSUME NEW c \in Clients, NEW sh \in shares[c], ReadShare(c, sh) \/ ReadValue(c, sh)
      PROVE  WorkersInv'
  BY <1>0, <1>5, WorkerReads, WorkerStores DEF ClientStep
<1>6. CASE UNCHANGED vars
  BY <1>6 DEF vars, readVars, WorkersInv, WorkersOf, Positions, KeyAt
<1> QED
  BY <1>1, <1>2, <1>3, <1>4, <1>5, <1>6 DEF Next, ClientStep

-----------------------------------------------------------------------------
(***************************************************************************)
(* What a call returns.                                                     *)
(***************************************************************************)
\* The batch comes back in the order asked for.
LEMMA ScatterRight ==
  ASSUME LookupInv, NEW c \in Clients, pc[c] = "workers", shares[c] = {}, ~firstErr[c]
  PROVE  /\ DOMAIN Scatter(c) = DOMAIN req[c].keys
         /\ \A i \in DOMAIN req[c].keys : Scatter(c)[i] = Found(req[c].keys[i])
<1> DEFINE n == Len(req[c].keys)
<1>1. n \in Nat /\ DOMAIN req[c].keys = 1 .. n
  <2>1. req[c] \in Requests
    BY DEF LookupInv, CallInv, CallOf
  <2> QED
    BY <2>1, CloseIsApart
<1>2. Permutation(indexed[c], n)
  BY DEF LookupInv, WorkersInv, WorkersOf
<1>3. \A s \in 0 .. n - 1 : s \in DOMAIN bitmaps[c] /\ bitmaps[c][s] = Found(KeyAt(c, s))
  BY DEF LookupInv, WorkersInv, WorkersOf, Positions
<1> HIDE DEF n
<1>4. ASSUME NEW i \in 1 .. n PROVE Scatter(c)[i] = Found(req[c].keys[i])
  <2> DEFINE j == CHOOSE x \in DOMAIN indexed[c] : indexed[c][x] = i
  <2>1. DOMAIN indexed[c] = 1 .. n /\ \E x \in 1 .. n : indexed[c][x] = i
    BY <1>2 DEF Permutation
  <2>2. j \in 1 .. n /\ indexed[c][j] = i
    BY <2>1
  <2>3. Scatter(c)[i] = IF j - 1 \in DOMAIN bitmaps[c] THEN bitmaps[c][j - 1] ELSE None
    BY <1>1 DEF Scatter
  <2> HIDE DEF j
  <2>4. j - 1 \in 0 .. n - 1 /\ (j - 1) + 1 = j
    BY <1>1, <2>2
  <2>5. KeyAt(c, j - 1) = req[c].keys[i]
    BY <2>2, <2>4 DEF KeyAt
  <2> QED
    BY <1>3, <2>3, <2>4, <2>5
<1> QED
  BY <1>1, <1>4 DEF Scatter

AskedNow  == [c \in Clients |-> IF pc[c] = "idle" \/ Closing(c) THEN <<>> ELSE req[c].keys]
AnswerNow == [c \in Clients |-> IF Answered(c) THEN out[c] ELSE <<>>]
ClosedNow == closeOnce # "new" \/ \E c \in Clients : Closing(c)

LEMMA SeenOfOthers ==
  ASSUME TypeInv, NEW c \in Clients, Start(c) \/ ClientStep(c)
  PROVE  \A d \in Clients \ {c} :
            /\ Closing(d)' <=> Closing(d)
            /\ AskedNow'[d] = AskedNow[d] /\ AnswerNow'[d] = AnswerNow[d]
<1> SUFFICES ASSUME NEW d \in Clients \ {c}
             PROVE  /\ Closing(d)' <=> Closing(d)
                    /\ AskedNow'[d] = AskedNow[d] /\ AnswerNow'[d] = AnswerNow[d]
  OBVIOUS
<1>1. pc'[d] = pc[d] /\ req'[d] = req[d] /\ out'[d] = out[d] /\ ret'[d] = ret[d]
  BY OtherCall
<1> QED
  BY <1>1 DEF Closing, Answered, AskedNow, AnswerNow

\* A step inside a call is not seen.
LEMMA SeenInside ==
  ASSUME TypeInv, NEW c \in Clients, ClientStep(c), pc[c] # "idle", pc'[c] # "idle",
         req'[c] = req[c], closeOnce' = closeOnce \/ req[c] = Close
  PROVE  UNCHANGED <<AskedNow, AnswerNow, ClosedNow>>
<1>1. Closing(c)' <=> Closing(c)
  BY DEF Closing
<1>2. AskedNow'[c] = AskedNow[c] /\ AnswerNow'[c] = AnswerNow[c]
  BY <1>1 DEF Answered, AskedNow, AnswerNow
<1>3. \A d \in Clients : AskedNow'[d] = AskedNow[d] /\ AnswerNow'[d] = AnswerNow[d]
                         /\ (Closing(d)' <=> Closing(d))
  BY <1>1, <1>2, SeenOfOthers
<1>4. AskedNow' = AskedNow /\ AnswerNow' = AnswerNow
  BY <1>3 DEF AskedNow, AnswerNow
<1>5. CASE closeOnce' = closeOnce
  BY <1>3, <1>4, <1>5 DEF ClosedNow
<1>6. CASE req[c] = Close
  <2>1. Closing(c) /\ Closing(c)'
    BY <1>1, <1>6 DEF Closing, Close
  <2>2. ClosedNow /\ ClosedNow'
    BY <2>1 DEF ClosedNow
  <2> QED
    BY <1>4, <2>2 DEF ClosedNow
<1> QED
  BY <1>5, <1>6

\* Close returns nothing.
LEMMA SeenClosed ==
  ASSUME TypeInv, CallInv, NEW c \in Clients, EnterClose(c) \/ CloseDB(c), Return(c, "ok"),
         closeOnce' # "new", out' = out
  PROVE  UNCHANGED <<AskedNow, AnswerNow, ClosedNow>>
<1>1. /\ pc[c] # "idle" /\ pc'[c] = "idle" /\ req[c] = Close /\ req'[c] = Close
      /\ out[c] = <<>> /\ out'[c] = <<>>
  BY DEF EnterClose, CloseDB, Return, CallInv, CallOf, TypeInv
<1>2. Closing(c) /\ ~Closing(c)' /\ ~Answered(c)
  BY <1>1 DEF Closing, Close, Answered
<1>3. \A d \in Clients : AskedNow'[d] = AskedNow[d] /\ AnswerNow'[d] = AnswerNow[d]
  BY <1>1, <1>2, SeenOfOthers DEF AskedNow, AnswerNow, ClientStep
<1>4. ClosedNow /\ ClosedNow'
  BY <1>2 DEF ClosedNow
<1> QED
  BY <1>3, <1>4 DEF AskedNow, AnswerNow, ClosedNow

\* A lookup that returns.
LEMMA SeenReturned ==
  ASSUME TypeInv, CallInv, NEW c \in Clients, ClientStep(c), NEW res \in {"ok", "err"},
         Return(c, res), pc[c] # "idle", req[c] \in Requests, closeOnce' = closeOnce
  PROVE  /\ AskedNow[c] = req[c].keys /\ AskedNow[c] # <<>>
         /\ AskedNow' = [AskedNow EXCEPT ![c] = <<>>] /\ ClosedNow' = ClosedNow
         /\ AnswerNow[c] = <<>> /\ AnswerNow'[c] = IF res = "ok" THEN out'[c] ELSE <<>>
         /\ \A d \in Clients \ {c} : AnswerNow'[d] = AnswerNow[d]
<1>1. pc'[c] = "idle" /\ req'[c] = req[c] /\ ret'[c] = res
  BY DEF Return, TypeInv
<1>2. ~Closing(c) /\ ~Closing(c)' /\ ~Answered(c) /\ (Answered(c)' <=> res = "ok")
  BY <1>1, CloseIsApart DEF Closing, Answered
<1>3. AskedNow[c] = req[c].keys /\ AskedNow[c] # <<>>
  BY <1>2, CloseIsApart, RockIndexAssumption DEF AskedNow
<1>4. AskedNow' = [AskedNow EXCEPT ![c] = <<>>]
  BY <1>1, SeenOfOthers DEF AskedNow
<1>5. ClosedNow' = ClosedNow
  BY <1>2, SeenOfOthers DEF ClosedNow
<1>6. AnswerNow[c] = <<>> /\ AnswerNow'[c] = IF res = "ok" THEN out'[c] ELSE <<>>
  BY <1>2 DEF AnswerNow
<1> QED
  BY <1>3, <1>4, <1>5, <1>6, SeenOfOthers

-----------------------------------------------------------------------------
(***************************************************************************)
(* The theorems.                                                            *)
(***************************************************************************)
LEMMA LookupInit ==
  ASSUME Init
  PROVE  LookupInv
<1>0. <<>> \in Seq(Values)
  OBVIOUS
<1>1. TypeInv
  BY <1>0 DEF Init, TypeInv, Points
<1>2. OpenInv /\ CallInv /\ WorkersInv
  BY DEF Init, OpenInv, CallInv, CallOf, WorkersInv, WorkersOf
<1> QED
  BY <1>1, <1>2 DEF LookupInv

LEMMA LookupNext ==
  ASSUME LookupInv, [Next]_vars
  PROVE  LookupInv'
  BY TypeStep, OpenStep, CallsStep, WorkersStep DEF LookupInv

LEMMA LookupInvariant == Spec => []LookupInv
  BY LookupInit, LookupNext, PTL DEF Spec

\* When Close has returned the database is not open, nor will be: the open it may meet,
\* in the background or in a call, is over (Close waits for it in waitOpen).
THEOREM CloseReleases == Spec => []Released
<1>1. LookupInv => Released
  BY DEF LookupInv, OpenInv, Released
<1> QED
  BY LookupInvariant, <1>1, PTL

\* Workers that run at the same time write different elements of bitmaps, without a lock
\* (LookupKeys and its perWorker), for any number of keys and of workers.
THEOREM WorkersApart == Spec => []NoRace
<1>1. LookupInv => NoRace
  BY DEF LookupInv, CallInv, CallOf, WorkersInv, WorkersOf, NoRace
<1> QED
  BY LookupInvariant, <1>1, PTL

\* The types: shares lie inside the batch, bitmaps are those of keys.
THEOREM LookupTypes == Spec => []TypeOK
<1>1. LookupInv => TypeOK
  <2> SUFFICES ASSUME LookupInv, NEW c \in Clients
               PROVE  /\ req[c] \in Requests \cup {Close} /\ ret[c] \in {"none", "ok", "err"}
                      /\ \A sh \in shares[c] : 0 <= sh.lo /\ sh.lo < sh.hi /\ sh.hi <= Len(req[c].keys)
                      /\ \A i \in DOMAIN bitmaps[c] : bitmaps[c][i] \in Keys \cup {None}
                      /\ out[c] \in Seq(Keys \cup {None})
    BY DEF LookupInv, TypeInv, TypeOK
  <2>1. /\ req[c] \in Requests \cup {Close} /\ ret[c] \in {"none", "ok", "err"}
        /\ out[c] \in Seq(Keys \cup {None})
    BY DEF LookupInv, TypeInv, Values
  <2>2. CASE pc[c] # "workers"
    BY <2>1, <2>2 DEF LookupInv, CallInv, CallOf, NoBitmaps
  <2>3. CASE pc[c] = "workers"
    <3>1. \A i \in DOMAIN bitmaps[c] : bitmaps[c][i] \in Indexed \cup {None}
      BY <2>3 DEF LookupInv, WorkersInv, WorkersOf, Found
    <3> QED
      BY <2>1, <2>3, <3>1, RockIndexAssumption DEF LookupInv, WorkersInv, WorkersOf
  <2> QED
    BY <2>2, <2>3
<1> QED
  BY LookupInvariant, <1>1, PTL

\* An answer is a reply, an error a failure, and all else is not seen.
LEMMA KeyedStep ==
  ASSUME LookupInv, [Next]_vars
  PROVE  [Abstract!ReaderNext]_(Abstract!readerVars)
<1> USE DEF AskedNow, AnswerNow, ClosedNow
<1>0. TypeInv /\ CallInv
  BY DEF LookupInv
<1>1. CASE UNCHANGED <<AskedNow, AnswerNow, ClosedNow>>
  BY <1>1 DEF Abstract!readerVars
<1>2. CASE UNCHANGED vars
  BY <1>1, <1>2 DEF vars, openVars, Closing, Answered
<1>3. CASE OpenDB
  BY <1>1, <1>3, OpenerKeeps DEF OpenDB, BeginOpen, EndOpen, Closing, Answered
<1>4. ASSUME NEW c \in Clients, Start(c) PROVE Abstract!ReaderNext
  <2>1. /\ pc[c] = "idle" /\ pc'[c] # "idle" /\ UNCHANGED closeOnce
        /\ ret'[c] = "none" /\ out'[c] = <<>>
    BY <1>0, <1>4 DEF Start, TypeInv, openVars
  <2>2. AnswerNow' = [AnswerNow EXCEPT ![c] = <<>>]
    BY <1>0, <1>4, <2>1, SeenOfOthers DEF Answered
  <2>3. CASE /\ closeOnce = "new" /\ \A d \in Clients : ~Closing(d)
             /\ \E q \in Requests : req'[c] = q
    <3>1. PICK q \in Requests : req'[c] = q
      BY <2>3
    <3>2. ~Closing(c)' /\ ~ClosedNow /\ ~ClosedNow'
      BY <1>0, <1>4, <2>1, <2>3, <3>1, CloseIsApart, SeenOfOthers DEF Closing
    <3>3. AskedNow[c] = <<>> /\ AskedNow' = [AskedNow EXCEPT ![c] = q.keys]
      BY <1>0, <1>4, <2>1, <3>1, <3>2, SeenOfOthers
    <3>4. q.keys \in {r.keys : r \in Requests}
      OBVIOUS
    <3>5. Abstract!Ask(c)
      BY <2>2, <3>2, <3>3, <3>4 DEF Abstract!Ask
    <3> QED
      BY <3>5 DEF Abstract!ReaderNext
  <2>4. CASE (\A d \in Clients : pc[d] = "idle" \/ Closing(d)) /\ req'[c] = Close
    <3>1. Closing(c)' /\ ClosedNow'
      BY <2>1, <2>4 DEF Closing, Close
    <3>2. \A d \in Clients : AskedNow[d] = <<>>
      BY <2>4
    <3>3. AskedNow'[c] = <<>>
      BY <3>1
    <3>4. AskedNow' = AskedNow
      BY <1>0, <1>4, <3>2, <3>3, SeenOfOthers
    <3>5. Abstract!CloseReader
      BY <2>2, <3>1, <3>2, <3>4 DEF Abstract!CloseReader
    <3> QED
      BY <3>5 DEF Abstract!ReaderNext
  <2> QED
    BY <1>0, <1>4, <2>3, <2>4 DEF Start, TypeInv
<1>5. ASSUME NEW c \in Clients, EnterClose(c) \/ CloseDB(c)
      PROVE  UNCHANGED <<AskedNow, AnswerNow, ClosedNow>>
  <2>1. pc[c] # "idle" /\ req[c] = Close /\ ClientStep(c) /\ out' = out
    BY <1>0, <1>5 DEF EnterClose, CloseDB, ClientStep, CallInv, CallOf
  <2>2. CASE Return(c, "ok") /\ closeOnce' # "new"
    BY <1>0, <1>5, <2>1, <2>2, SeenClosed
  <2>3. CASE Goto(c, "wait")
    <3>1. pc'[c] # "idle" /\ req' = req
      BY <1>0, <2>3 DEF Goto, TypeInv
    <3> QED
      BY <1>0, <2>1, <3>1, SeenInside
  <2> QED
    BY <1>5, <2>2, <2>3 DEF EnterClose, CloseDB, CloseFirst
<1>6. ASSUME NEW c \in Clients, ClientStep(c), UNCHANGED openVars, pc[c] # "idle",
             \E where \in Points \ {"idle"} : Goto(c, where)
      PROVE  UNCHANGED <<AskedNow, AnswerNow, ClosedNow>>
  <2>1. pc'[c] # "idle" /\ req' = req /\ closeOnce' = closeOnce
    BY <1>0, <1>6 DEF Goto, TypeInv, openVars
  <2> QED
    BY <1>0, <1>6, <2>1, SeenInside
<1>7. ASSUME NEW c \in Clients, NEW sh \in shares[c], ReadShare(c, sh) \/ ReadValue(c, sh)
      PROVE  UNCHANGED <<AskedNow, AnswerNow, ClosedNow>>
  BY <1>7 DEF ReadShare, ReadValue, openVars, Closing, Answered
<1>8. ASSUME NEW c \in Clients, ClientStep(c), UNCHANGED <<openVars, out>>, pc[c] # "idle",
             req[c] \in Requests, Return(c, "err")
      PROVE  Abstract!ReaderNext
  <2>1. /\ AskedNow[c] # <<>> /\ AskedNow' = [AskedNow EXCEPT ![c] = <<>>] /\ ClosedNow' = ClosedNow
        /\ \A d \in Clients : AnswerNow'[d] = AnswerNow[d]
    BY <1>0, <1>8, SeenReturned DEF openVars
  <2>2. AnswerNow' = AnswerNow
    BY <2>1
  <2>3. Abstract!Fail(c)
    BY <2>1, <2>2 DEF Abstract!Fail, Abstract!Finished
  <2> QED
    BY <2>3 DEF Abstract!ReaderNext
<1>9. ASSUME NEW c \in Clients, ClientStep(c), UNCHANGED openVars, pc[c] # "idle",
             req[c] \in Requests, Return(c, "ok"), DOMAIN out'[c] = DOMAIN req[c].keys,
             \A i \in DOMAIN req[c].keys : out'[c][i] = Found(req[c].keys[i])
      PROVE  Abstract!ReaderNext
  <2>1. /\ AskedNow[c] = req[c].keys /\ AskedNow[c] # <<>>
        /\ AskedNow' = [AskedNow EXCEPT ![c] = <<>>] /\ ClosedNow' = ClosedNow
        /\ AnswerNow'[c] = out'[c] /\ \A d \in Clients \ {c} : AnswerNow'[d] = AnswerNow[d]
    BY <1>0, <1>9, SeenReturned DEF openVars
  <2>2. \A i \in DOMAIN req[c].keys : req[c].keys[i] \in Keys
    BY <1>9, CloseIsApart
  <2>3. \A i \in DOMAIN AskedNow[c] :
           AnswerNow'[c][i] \in [k \in Keys |-> IF k \in Indexed THEN {k} ELSE {None}][AskedNow[c][i]]
    BY <1>9, <2>1, <2>2 DEF Found
  <2>4. Abstract!Reply(c)
    BY <1>9, <2>1, <2>3 DEF Abstract!Reply, Abstract!Finished
  <2> QED
    BY <2>4 DEF Abstract!ReaderNext
<1>10. ASSUME NEW c \in Clients, WaitOpen(c) PROVE [Abstract!ReaderNext]_(Abstract!readerVars)
  <2>1. CASE Return(c, "err") /\ req[c] \in Requests
    BY <1>8, <1>10, <2>1 DEF WaitOpen, ClientStep
  <2>2. CASE ~(Return(c, "err") /\ req[c] \in Requests)
    <3>1. \E where \in Points \ {"idle"} : Goto(c, where)
      <4>1. req[c] = Close \/ req[c] \in Requests
        BY <1>0 DEF TypeInv
      <4> QED
        BY <1>10, <2>2, <4>1, CloseIsApart DEF WaitOpen, Close, Points
    <3>2. UNCHANGED <<AskedNow, AnswerNow, ClosedNow>>
      BY <1>6, <1>10, <3>1 DEF WaitOpen, ClientStep
    <3> QED
      BY <1>1, <3>2
  <2> QED
    BY <2>1, <2>2
<1>11. ASSUME NEW c \in Clients, Lookup(c) PROVE Abstract!ReaderNext
  <2>1. req[c] \in Requests /\ DOMAIN req[c].keys = {1} /\ pc[c] # "idle"
    <3>1. req[c] \in Requests /\ req[c].op = "lookup"
      BY <1>0, <1>11 DEF Lookup, CallInv, CallOf
    <3>2. Len(req[c].keys) = 1 /\ req[c].keys \in Seq(Keys)
      BY <3>1, CloseIsApart
    <3> QED
      BY <1>11, <3>1, <3>2 DEF Lookup
  <2>2. CASE Return(c, "err") /\ UNCHANGED out
    BY <1>8, <1>11, <2>1, <2>2 DEF Lookup, ClientStep
  <2>3. CASE Return(c, "ok") /\ out' = [out EXCEPT ![c] = <<Found(req[c].keys[1])>>]
    <3>1. out'[c] = <<Found(req[c].keys[1])>>
      BY <1>0, <2>3 DEF TypeInv
    <3>2. DOMAIN out'[c] = DOMAIN req[c].keys /\ out'[c][1] = Found(req[c].keys[1])
      BY <2>1, <3>1
    <3> QED
      BY <1>9, <1>11, <2>1, <2>3, <3>2 DEF Lookup, ClientStep
  <2> QED
    BY <1>11, <2>2, <2>3 DEF Lookup, Found
<1>12. ASSUME NEW c \in Clients, LookupKeys(c) PROVE UNCHANGED <<AskedNow, AnswerNow, ClosedNow>>
  BY <1>6, <1>12 DEF LookupKeys, ClientStep, Points
<1>13. ASSUME NEW c \in Clients, Join(c) PROVE Abstract!ReaderNext
  <2>1. req[c] \in Requests /\ pc[c] # "idle" /\ pc[c] = "workers" /\ shares[c] = {}
    BY <1>0, <1>13 DEF Join, CallInv, CallOf
  <2>2. CASE Return(c, "err") /\ UNCHANGED out
    BY <1>8, <1>13, <2>1, <2>2 DEF Join, ClientStep
  <2>3. CASE ~firstErr[c] /\ Return(c, "ok") /\ out' = [out EXCEPT ![c] = Scatter(c)]
    <3>1. out'[c] = Scatter(c)
      BY <1>0, <2>3 DEF TypeInv
    <3> QED
      BY <1>9, <1>13, <2>1, <2>3, <3>1, ScatterRight DEF Join, ClientStep
  <2> QED
    BY <1>13, <2>2, <2>3 DEF Join
<1> QED
  BY <1>1, <1>2, <1>3, <1>4, <1>5, <1>7, <1>10, <1>11, <1>12, <1>13 DEF Next, ClientStep

\* The index on RocksDB is an exact index: a call is answered key by key in the order asked
\* for, with the bitmap of each key that is there and nil for every other, or fails,
\* however the keys are sorted and shared out; and no call begins on a closed reader.
THEOREM LookupsImplementReader == Spec => ImplementsReader
<1>1. Init => Abstract!ReaderInit
  BY DEF Init, Abstract!ReaderInit, Answered, Closing
<1>2. LookupInv /\ [Next]_vars => [Abstract!ReaderNext]_(Abstract!readerVars)
  BY KeyedStep
<1> QED
  BY <1>1, <1>2, LookupInvariant, PTL DEF Spec, ImplementsReader, Abstract!ReaderSpec
=============================================================================
