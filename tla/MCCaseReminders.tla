-------------------------- MODULE MCCaseReminders --------------------------
(* One hearing and one follow-up visit, one lead time.                      *)
EXTENDS CaseReminders, TLC

MCOffsets == <<1>>
RunSymmetry == Permutations(Runs)
=============================================================================
