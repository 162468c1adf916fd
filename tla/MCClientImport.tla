--------------------------- MODULE MCClientImport ---------------------------
(* Instances of ClientImport for model checking. *)
EXTENDS ClientImport, TLC

\* Persons are interchangeable, and so are requests and workers; rows are not,
\* their order matters.
Symmetric == Permutations(Persons) \cup Permutations(Requests) \cup Permutations(Workers)
=============================================================================
