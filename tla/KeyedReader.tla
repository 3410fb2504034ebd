------------------------------- MODULE KeyedReader -------------------------------
(***************************************************************************)
(* What a reader of any of the stores promises (bitmapindex.IndexReader,    *)
(* eventstore.StoreReader), without hashes, ranks, files or goroutines: a   *)
(* call that asks for some keys is answered key by key, in the order of its *)
(* keys, or fails; and a closed reader answers no more.                     *)
(***************************************************************************)
EXTENDS Sequences

CONSTANTS
    Clients,     \* goroutines that use the reader
    Questions,   \* sequences of keys they may ask for
    Answers      \* Answers[k]: the answers key k may be given

VARIABLES
    asked,       \* per client: the keys of its call, <<>> between calls
    answer,      \* per client: what its last call returned, <<>> if it failed
    isClosed

readerVars == <<asked, answer, isClosed>>

ReaderInit == /\ asked = [c \in Clients |-> <<>>]
             /\ answer = [c \in Clients |-> <<>>]
             /\ isClosed = FALSE

Ask(c) == /\ asked[c] = <<>> /\ ~isClosed
          /\ \E q \in Questions : asked' = [asked EXCEPT ![c] = q]
          /\ answer' = [answer EXCEPT ![c] = <<>>]
          /\ UNCHANGED isClosed

Finished(c) == asked' = [asked EXCEPT ![c] = <<>>] /\ UNCHANGED isClosed

Reply(c) == /\ asked[c] # <<>>
            /\ DOMAIN answer'[c] = DOMAIN asked[c]
            /\ \A i \in DOMAIN asked[c] : answer'[c][i] \in Answers[asked[c][i]]
            /\ \A d \in Clients \ {c} : answer'[d] = answer[d]
            /\ Finished(c)

Fail(c) == asked[c] # <<>> /\ UNCHANGED answer /\ Finished(c)

CloseReader == /\ \A c \in Clients : asked[c] = <<>>
              /\ isClosed' = TRUE /\ UNCHANGED asked
              /\ \E c \in Clients : answer' = [answer EXCEPT ![c] = <<>>]

ReaderNext == CloseReader \/ \E c \in Clients : Ask(c) \/ Reply(c) \/ Fail(c)

ReaderSpec == ReaderInit /\ [][ReaderNext]_readerVars
=============================================================================
