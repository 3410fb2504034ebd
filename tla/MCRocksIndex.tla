----------------------------- MODULE MCRocksIndex -----------------------------
(***************************************************************************)
(* An instance of RocksIndexReader for TLC.                                 *)
(***************************************************************************)
EXTENDS RocksIndexReader

FourKeys == <<"a", "b", "c", "d">>

Batch(keys) == [op |-> "keys", keys |-> keys]

\* Single keys, and batches for up to three workers: fewer keys than workers, as many, one
\* more (the third share would begin past the end) and two more.  One key is damaged and
\* one is not there; a key is asked for twice.
Batches ==
    {[op |-> "lookup", keys |-> <<k>>] : k \in {"b", "c"}}
    \cup {Batch(<<"b", "a">>), Batch(<<"d", "c", "b">>), Batch(<<"d", "a", "b", "a">>),
          Batch(<<"d", "c", "b", "a", "a">>)}

\* The open that Open starts runs, and so does every call that can.
LiveSpec == Spec /\ WF_vars(OpenDB) /\ \A c \in Clients : WF_vars(ClientStep(c))

\* Every call of the Reader returns, Close included, whoever runs the open and whether it
\* fails: no goroutine waits for an open nobody runs or for a worker that was not started.
CallsReturn == \A c \in Clients : pc[c] # "idle" ~> pc[c] = "idle"
=============================================================================
