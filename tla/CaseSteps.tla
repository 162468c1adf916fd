----------------------------- MODULE CaseSteps -----------------------------
(***************************************************************************)
(* The vocabulary of a social-welfare case: statuses, steps, the template  *)
(* of each case category, the lifecycle graph with its roles, and the two  *)
(* predicates everything else is built on: when the work of a step is      *)
(* done, and when a case may move from one status to the next.             *)
(*                                                                         *)
(* A case is seen here as three values:                                    *)
(*   row    the columns of the `cases` row that the predicates read        *)
(*   file   the rows of other tables that hang off the case                *)
(*   seals  the step keys that carry a `case_step_locks` row               *)
(***************************************************************************)
EXTENDS Integers, FiniteSets

CONSTANTS
    Docs,            \* documentary requirement keys ("medical_certificate", ...)
    Services,        \* programs / intervention types a case can be served with
    ProgramDocs,     \* ProgramDocs[s]: every document the program behind s lists
    ConditionalDocs, \* those of them flagged `mandatory: false`
    TypeDocs         \* documents the intervention type itself asks for

ASSUME DocsAssumption ==
    /\ ProgramDocs \in [Services -> SUBSET Docs]
    /\ ConditionalDocs \in [Services -> SUBSET Docs]
    /\ TypeDocs \in [Services -> SUBSET Docs]

-----------------------------------------------------------------------------
(* Statuses and the lifecycle graph *)

Statuses == {"enrolled", "assessed", "in_review", "active", "transitioning",
             "closed", "aftercare"}

Position == [enrolled |-> 0, assessed |-> 1, in_review |-> 2, active |-> 3,
             transitioning |-> 4, closed |-> 5, aftercare |-> 6]

Roles == {"social_worker", "admin"}

\* The only status a case may move on to.
NextStatus == [enrolled |-> {"assessed"}, assessed |-> {"in_review"},
               in_review |-> {"active"}, active |-> {"transitioning"},
               transitioning |-> {"closed"}, closed |-> {"aftercare"},
               aftercare |-> {}]

\* Statuses out of which a social worker may move a case.
WorkerStatuses == {"enrolled", "assessed", "transitioning", "closed"}

\* (mutant) any staff member moves any case
AnyoneMoves(from, role) == TRUE

CanTransition(from, role) == role = "admin" \/ from \in WorkerStatuses

\* Phase-In statuses, in which a case may still be rejected.
Rejectable == {"enrolled", "assessed", "in_review"}

-----------------------------------------------------------------------------
(* Steps and templates *)

CommonSteps == {"assessment", "enrollments", "interventions", "referrals",
                "evaluate", "closure"}

\* A case category is represented by the shape of its template: "General"
\* stands for every category without a template of its own, "CNSP" for the
\* four that add only the hearings step; "none" is a case not yet assessed.
CategoryStepsOf ==
    [none |-> {}, General |-> {},
     CICL |-> {"discernment", "court_hearings"},
     VAWC |-> {"protection_order", "court_hearings"},
     CNSP |-> {"court_hearings"},
     SoloParent |-> {"solo_parent"},
     Adoption |-> {"adoption", "court_hearings"}]

AllCategories == DOMAIN CategoryStepsOf \ {"none"}

StepsFor(category) == CommonSteps \cup CategoryStepsOf[category]

\* The category steps whose work is a group of columns of the case row.
DataSteps == {"discernment", "protection_order", "solo_parent", "adoption"}

KnownSteps == CommonSteps \cup DataSteps \cup {"court_hearings"}

\* The steps that can be completed by recording "none needed".
DecisionSteps == {"enrollments", "interventions", "referrals", "court_hearings"}

\* The earliest position at which a step may count as done.
Floor(step) == CASE step = "court_hearings" -> 2
                 [] step = "evaluate"       -> 3
                 [] step = "closure"        -> 4
                 [] OTHER                   -> 0

ImplementationSteps == {"court_hearings", "interventions", "referrals"}

StepsInImplementation(category) == StepsFor(category) \cap ImplementationSteps

StepsDueAt(status, category) ==
    {s \in StepsFor(category) : Floor(s) <= Position[status]}

-----------------------------------------------------------------------------
(* The values a case is made of *)

\* The four narrative columns and the category are written together and are
\* all mandatory in the payload, so the category stands for the whole block.
CaseRows == [status: Statuses, assessment: DOMAIN CategoryStepsOf,
             notNeeded: SUBSET DecisionSteps, stepData: SUBSET DataSteps,
             plan: BOOLEAN, outcome: BOOLEAN]

CaseFiles == [enrollments: SUBSET Services, interventions: SUBSET Services,
              met: SUBSET Docs, referrals: Nat, hearings: Nat]

Assessed(row) == row.assessment # "none"

-----------------------------------------------------------------------------
(* When the work of a step is done *)

\* The documents a seal on the step weighs.
SealDocs(file, step) ==
    IF step = "enrollments"
    THEN UNION {ProgramDocs[s] \ ConditionalDocs[s] : s \in file.enrollments}
    ELSE UNION {(ProgramDocs[s] \ ConditionalDocs[s]) \cup TypeDocs[s] :
                    s \in file.interventions}

\* The documents the activation gate weighs: another query, another set.
ActivationDocs(file) == UNION {ProgramDocs[s] : s \in file.interventions}

\* The work of the step is on record, leaving documents and floors aside.
Recorded(step, row, file) ==
    \/ step \in DecisionSteps /\ step \in row.notNeeded
    \/ step \in DataSteps     /\ step \in row.stepData
    \/ step = "assessment"    /\ Assessed(row)
    \/ step = "enrollments"   /\ file.enrollments # {}
    \/ step = "interventions" /\ file.interventions # {}
    \/ step = "referrals"     /\ file.referrals > 0
    \/ step = "court_hearings" /\ file.hearings > 0
    \/ step = "evaluate"      /\ row.plan
    \/ step = "closure"       /\ row.outcome

Documented(step, file) ==
    step \in {"enrollments", "interventions"} => SealDocs(file, step) \subseteq file.met

StepDone(step, row, file) ==
    /\ Floor(step) <= Position[row.status]
    /\ Recorded(step, row, file)
    /\ Documented(step, file)

-----------------------------------------------------------------------------
(* When a case may move on *)

\* (mutant) the gates ask for the whole template
GateWholeTemplate(row, role) ==
    IF row.status \in {"assessed", "transitioning"} /\ role # "admin"
    THEN StepsFor(row.assessment) ELSE {}

\* The seals that leaving row.status demands of somebody in this role.
GateSteps(row, role) ==
    CASE row.status \in {"assessed", "transitioning"} /\ role # "admin"
             -> StepsDueAt(row.status, row.assessment)
      [] row.status = "active" -> StepsInImplementation(row.assessment)
      [] OTHER -> {}

\* At least one of the two service channels is real, and what has been
\* rendered is documented.
Activatable(row, file) ==
    /\ file.interventions # {} \/ "interventions" \in row.notNeeded
    /\ "interventions" \in row.notNeeded => file.referrals > 0
    /\ "referrals" \in row.notNeeded => file.interventions # {}
    /\ ActivationDocs(file) \subseteq file.met

Transitionable(row, file) ==
    /\ row.plan
    /\ file.referrals > 0 \/ "referrals" \in row.notNeeded

\* What the status being left asks of the case file.
FileAllows(row, file) ==
    CASE row.status = "enrolled"      -> Assessed(row)
      [] row.status = "in_review"     -> Activatable(row, file)
      [] row.status = "active"        -> Transitionable(row, file)
      [] row.status = "transitioning" -> row.outcome
      [] OTHER                        -> TRUE

MayTransition(row, file, seals, to, role) ==
    /\ CanTransition(row.status, role)
    /\ to \in NextStatus[row.status]
    /\ FileAllows(row, file)
    /\ GateSteps(row, role) \subseteq seals

\* What one row of `case_history` shows about the case.
Marks == {"activated", "rejected", "overridden"}

MarksOf(from, to, role, kind) ==
    IF kind = "override" THEN {"overridden"}
    ELSE {m \in {"activated", "rejected"} :
            IF m = "activated" THEN to = "active" /\ role = "admin"
                               ELSE to = "closed" /\ from \in Rejectable}

=============================================================================
