----------------------------- MODULE MCPackWriter -----------------------------
(***************************************************************************)
(* Instances of PackWriter for TLC, and the refinement of ItemFile.         *)
(***************************************************************************)
EXTENDS PackWriter

\* The writer's file seen as an ItemFile: the program that made the calls learns
\* that the file is complete, or gone, from the writer's own bookkeeping.
Abstract == INSTANCE ItemFile WITH
    accepted <- total,
    stored   <- file,
    status   <- IF fileClosed THEN "sealed" ELSE IF exists THEN "open" ELSE "removed"

\* The writer implements ItemFile: whatever the workers, the failures and the
\* order of calls, a completed file holds every accepted item and never changes
\* again, and a removed file is never written to or brought back.
ImplementsItemFile == Abstract!ItemSpec

=============================================================================
