------------------------------ MODULE MCIngest ------------------------------
(***************************************************************************)
(* TLC instances of Ingest.                                                *)
(***************************************************************************)
EXTENDS Ingest, TLC

\* Queue slots are interchangeable, and so are consumer processes, the tasks of
\* one process and the ids uuid4 makes: no action and no invariant names one.
Symmetry == Permutations(Copies) \cup Permutations(Consumers)
                \cup Permutations(Slots) \cup Permutations(Uuids)
=============================================================================
