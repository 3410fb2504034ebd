------------------------------ MODULE EventReader ------------------------------
(***************************************************************************)
(* The event store's reader (eventstore/reader.go) on top of the packfile   *)
(* reader: ReadEvent, ReadEvents and ReadPositions give the packfile reader *)
(* a callback, which runs in its workers over the buffers of its decoders,  *)
(* and ReadPositions yields what the callbacks left when all are through.   *)
(*                                                                          *)
(* A byte slice is a copy, owned by the caller, or a slice of the buffer of *)
(* a decoder, which shows whatever the decoder holds when it is looked at.  *)
(***************************************************************************)
EXTENDS PackReader

Copy(item)   == [owner |-> "caller", item |-> item]
Slice(d, at) == [owner |-> d, item |-> at]
Nil          == [owner |-> "nobody", item |-> 0]
Nothing      == -1

\* A decoder is not the caller, nor nobody.
ASSUME OwnersDiffer == "caller" \notin Decoders /\ "nobody" \notin Decoders

VARIABLES
    stage,     \* per caller: "idle", "call" or "yield"
    results,   \* the slices the callbacks wrote, by index
    held,      \* what the caller has been given, in order
    end        \* how its last call ended: "none", "ok", "err" or "stopped"

storeVars == <<stage, results, held, end>>
allVars   == <<vars, storeVars>>

StoreInit ==
    /\ Init
    /\ stage = [c \in Callers |-> "idle"] /\ results = [c \in Callers |-> <<>>]
    /\ held = [c \in Callers |-> <<>>] /\ end = [c \in Callers |-> "none"]

\* What a slice shows now.
Value(s) ==
    CASE s = Nil                -> Nothing
      [] s.owner = "caller"     -> s.item
      [] s.owner \in Decoders   ->
            IF decoded[s.owner] = NoRecord THEN Nothing
            ELSE decoded[s.owner] * ItemsPerRecord + s.item

-----------------------------------------------------------------------------
Closing(c) == stage[c] # "idle" /\ req[c] = Close

\* ReadEvent, ReadEvents or ReadPositions is called, or Close after the last of them.
BeginRead(c) ==
    /\ stage[c] = "idle" /\ closeOnce = "new" /\ \A d \in Callers : ~Closing(d)
    /\ Read(c)

BeginClose(c) ==
    /\ stage[c] = "idle" /\ \A d \in Callers : stage[d] = "idle" \/ Closing(d)
    /\ CallClose(c)

BeginCall(c) ==
    /\ BeginRead(c) \/ BeginClose(c)
    /\ stage' = [stage EXCEPT ![c] = "call"]
    /\ results' = [results EXCEPT ![c] = [k \in DOMAIN req'[c].positions |-> Nil]]
    /\ held' = [held EXCEPT ![c] = <<>>] /\ end' = [end EXCEPT ![c] = "none"]

\* Bug: the slice is kept and not the bytes.
Borrowed(w) == Slice(CHOOSE d \in dec[w] : TRUE, req[w[1]].positions[local[w].k] % ItemsPerRecord)

\* bytes.Clone(data).
Cloned(w) == Copy(ItemAt(w))

\* Bug: the event is put where the worker's batch has it.
InBatch(w, k) == k - Batch(w).from + 1

\* The index ReadItems hands to the callback.
SlotOf(w, k) == k

\* The callback, which does not fail; for ReadEvents, the loop of the caller, who uses or
\* copies the slice before the next iteration, and may break out of it.
Callback(w) ==
    LET c == w[1]
    IN /\ WorkerFn(w)
       /\ req[c].op # "range" => firstErr' = firstErr
       /\ \/ /\ req[c].op = "range"
             /\ held' = [held EXCEPT ![c] = Append(@, Copy(ItemAt(w)))]
             /\ UNCHANGED results
          \/ /\ req[c].op # "range"
             /\ results' = [results EXCEPT ![c][SlotOf(w, local[w].k)] = Cloned(w)]
             /\ UNCHANGED held
       /\ UNCHANGED <<stage, end>>

Ended(c, how) ==
    /\ stage' = [stage EXCEPT ![c] = "idle"] /\ end' = [end EXCEPT ![c] = how]
    /\ results' = [results EXCEPT ![c] = <<>>]

\* The packfile reader has returned: an error is the one thing that is yielded.
Returned(c) ==
    /\ stage[c] = "call" /\ cpc[c] = "idle"
    /\ \/ /\ ret[c] = "ok" /\ req[c].op \in {"item", "items"}
          /\ stage' = [stage EXCEPT ![c] = "yield"] /\ UNCHANGED <<results, end>>
       \/ ret[c] = "ok" /\ req[c].op \in {"range", "close"} /\ Ended(c, "ok")
       \/ ret[c] = "fn" /\ Ended(c, "stopped")
       \/ ret[c] \notin {"ok", "fn"} /\ Ended(c, "err")
    /\ UNCHANGED <<vars, held>>

\* The events come in the order of the positions; the caller may stop.
Yield(c) ==
    /\ stage[c] = "yield"
    /\ \/ /\ Len(held[c]) < Len(results[c])
          /\ held' = [held EXCEPT ![c] = Append(@, results[c][Len(@) + 1])]
          /\ UNCHANGED <<stage, results, end>>
       \/ Len(held[c]) = Len(results[c]) /\ Ended(c, "ok") /\ UNCHANGED held
       \/ req[c].op = "items" /\ held[c] # <<>> /\ Len(held[c]) < Len(results[c])
          /\ Ended(c, "stopped") /\ UNCHANGED held
    /\ UNCHANGED vars

\* The packfile reader's own steps.
Inside ==
    /\ \/ Opener
       \/ \E c \in Callers : CancelCtx(c) \/ CallStep(c)
       \/ \E w \in Workers : \/ WorkerStart(w) \/ WorkerClaim(w) \/ WorkerCheck(w)
                             \/ WorkerRead(w) \/ WorkerDecode(w)
    /\ UNCHANGED storeVars

StoreNext ==
    \/ Inside
    \/ \E w \in Workers : Callback(w)
    \/ \E c \in Callers : BeginCall(c) \/ Returned(c) \/ Yield(c)

StoreSpec == StoreInit /\ [][StoreNext]_allVars

-----------------------------------------------------------------------------
(***************************************************************************)
(* Properties.                                                              *)
(***************************************************************************)
\* The types of the variables, those of the packfile reader included.
StoreTypeOK == TypeOK /\
    \A c \in Callers :
        /\ stage[c] \in {"idle", "call", "yield"} /\ end[c] \in {"none", "ok", "err", "stopped"}
        /\ DOMAIN results[c] \in {{}, DOMAIN req[c].positions}
        /\ Len(held[c]) <= Len(req[c].positions)
        /\ \A i \in DOMAIN held[c] : held[c][i].owner \in {"caller"} \cup Decoders

\* The callbacks of ReadPositions share one slice: two that run at the same time write
\* different elements of it, and none runs when the elements are yielded.
NoRace ==
    \A w \in Workers : wpc[w] = "fn" =>
        /\ stage[w[1]] = "call"
        /\ \A v \in Workers : v # w /\ v[1] = w[1] /\ wpc[v] = "fn" =>
               SlotOf(v, local[v].k) # SlotOf(w, local[w].k)

\* The store is a list of events: a call that goes through is answered position by
\* position, in the order asked for, with events that the caller owns: what it was
\* given stays what it was while the decoders go on to other records and callers.
\* A call that fails or is stopped gives no answer.
Answered(c) == stage[c] = "idle" /\ end[c] = "ok"

Asked == UNION {{q.positions[i] : i \in DOMAIN q.positions} : q \in Requests}

Abstract == INSTANCE KeyedReader WITH
    Clients <- Callers,
    Questions <- {q.positions : q \in Requests},
    Answers <- [p \in Asked |-> {p} \cap (0 .. TotalItems - 1)],
    asked <- [c \in Callers |-> IF stage[c] = "idle" \/ Closing(c) THEN <<>> ELSE req[c].positions],
    answer <- [c \in Callers |-> IF Answered(c) THEN [i \in DOMAIN held[c] |-> Value(held[c][i])]
                                                ELSE <<>>],
    isClosed <- closeOnce # "new" \/ \E c \in Callers : Closing(c)

ImplementsReader == Abstract!ReaderSpec
=============================================================================
