--------------------------- MODULE MCCaseRequests ---------------------------
(* Instances of CaseRequests: which operations the clients of a run use, and *)
(* how many requests may be in flight.                                       *)
EXTENDS CaseRequests, TLC

MCServices == {"aid"}
NoDocs == {}
NoDocsOf == [s \in MCServices |-> {}]

Moves == {"transition"} \X Statuses

\* The whole lifecycle of a general case, with what each gate asks for.
LifecycleOps ==
    Moves \cup
    {<<"review", "assessed">>, <<"reject", "closed">>, <<"assess", "General">>,
     <<"plan", "yes">>, <<"closure", "recorded">>,
     <<"waive", "enrollments">>, <<"waive", "referrals">>, <<"need", "referrals">>,
     <<"log_intervention", "aid">>, <<"remove_intervention", "aid">>,
     <<"unlock", "interventions">>} \cup
    ({"lock"} \X CommonSteps)

\* Status changes racing each other and a save of other columns (a repeated
\* assessment).
RaceOps ==
    ({"transition"} \X {"in_review", "active"}) \cup
    {<<"review", "assessed">>, <<"reject", "closed">>, <<"assess", "General">>,
     <<"log_intervention", "aid">>}

SlotSymmetry == Permutations(Slots)
=============================================================================
