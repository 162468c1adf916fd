--------------------------- MODULE MCCaseCalendar ---------------------------
(* Instances of CaseCalendar for model checking. *)
EXTENDS CaseCalendar, TLC

\* Events, workers, blocks and requests are interchangeable.
Symmetric == Permutations(Events) \cup Permutations(Staff) \cup Permutations(Blocks)
                 \cup Permutations(Requests)
=============================================================================
