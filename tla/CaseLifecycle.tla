--------------------------- MODULE CaseLifecycle ---------------------------
(***************************************************************************)
(* One case file and every request that changes it, each request a single  *)
(* atomic step: what the case API promises when requests do not overlap.   *)
(* Module CaseRequests splits the same handlers at their awaits.           *)
(*                                                                         *)
(* Two staff roles act on the file.  A step of the case is sealed when its *)
(* work is done; a sealed step refuses writes to its own data; gates on    *)
(* the lifecycle ask for seals.  The admin's override skips every gate.    *)
(***************************************************************************)
EXTENDS CaseSteps

CONSTANTS
    Categories,     \* the case categories chosen from
    Decisions,      \* the steps that may be recorded as "none needed"
    Overrides,      \* the statuses an admin overrides to
    MaxRows         \* bound: referrals, and hearings, on file

ASSUME CaseAssumption ==
    /\ Categories \subseteq AllCategories
    /\ Decisions \subseteq DecisionSteps
    /\ Overrides \subseteq Statuses
    /\ MaxRows \in Nat

VARIABLES
    row,    \* the `cases` row
    file,   \* enrollments, interventions, checklist, referrals, hearings
    seals,  \* the sealed steps (`case_step_locks`)
    last,   \* by whom and how the newest `case_history` row was made
    seen    \* what `case_history` shows to have happened so far

vars == <<row, file, seals, last, seen>>

Authors == [role: Roles, kind: {"standard", "override"}]

TypeOK ==
    /\ row \in CaseRows
    /\ file \in CaseFiles
    /\ seals \subseteq KnownSteps
    /\ last \in Authors
    /\ seen \subseteq Marks

\* An intake opens the file, with the requirements it already collected.
Init ==
    /\ row = [status |-> "enrolled", assessment |-> "none", notNeeded |-> {},
              stepData |-> {}, plan |-> FALSE, outcome |-> FALSE]
    /\ \E met \in SUBSET Docs :
         file = [enrollments |-> {}, interventions |-> {}, met |-> met,
                 referrals |-> 0, hearings |-> 0]
    /\ seals = {}
    /\ \E role \in Roles : last = [role |-> role, kind |-> "standard"]
    /\ seen = {}

-----------------------------------------------------------------------------
(* Status changes *)

LogHistory(from, to, role, kind) ==
    /\ last' = [role |-> role, kind |-> kind]
    /\ seen' = seen \cup MarksOf(from, to, role, kind)

\* (mutant) the seals are not asked for
TransitionUngated(to, role) ==
    /\ CanTransition(row.status, role)
    /\ to \in NextStatus[row.status]
    /\ FileAllows(row, file)
    /\ row' = [row EXCEPT !.status = to]
    /\ LogHistory(row.status, to, role, "standard")
    /\ UNCHANGED <<file, seals>>

\* PATCH status, approve, disburse and close: one transition each.
Transition(to, role) ==
    /\ MayTransition(row, file, seals, to, role)
    /\ row' = [row EXCEPT !.status = to]
    /\ LogHistory(row.status, to, role, "standard")
    /\ UNCHANGED <<file, seals>>

\* The worker's own route out of `enrolled`.
RequestReview ==
    /\ row.status = "enrolled"
    /\ Assessed(row)
    /\ row' = [row EXCEPT !.status = "assessed"]
    /\ LogHistory("enrolled", "assessed", "social_worker", "standard")
    /\ UNCHANGED <<file, seals>>

\* (mutant) the closure outcome is not filled in
RejectBare(role) ==
    /\ row.status \in Rejectable
    /\ row' = [row EXCEPT !.status = "closed"]
    /\ LogHistory(row.status, "closed", role, "standard")
    /\ UNCHANGED <<file, seals>>

\* An intake that must not proceed is closed as incomplete.
Reject(role) ==
    /\ row.status \in Rejectable
    /\ row' = [row EXCEPT !.status = "closed", !.outcome = TRUE]
    /\ LogHistory(row.status, "closed", role, "standard")
    /\ UNCHANGED <<file, seals>>

\* (mutant) the override leaves no history row
OverrideUnlogged(to) ==
    /\ row' = [row EXCEPT !.status = to]
    /\ UNCHANGED <<file, seals, last, seen>>

\* The admin puts the case in any status, with a reason and no other check.
OverrideStatus(to) ==
    /\ row' = [row EXCEPT !.status = to]
    /\ LogHistory(row.status, to, "admin", "override")
    /\ UNCHANGED <<file, seals>>

-----------------------------------------------------------------------------
(* Seals *)

\* (mutant) the work of the step is not re-derived
LockUnchecked(step, role) ==
    /\ step \in StepsFor(row.assessment)
    /\ seals' = seals \cup {step}
    /\ UNCHANGED <<row, file, last, seen>>

\* (mutant) sealing the assessment no longer advances the case
LockWithoutAdvance(step, role) ==
    /\ step \in StepsFor(row.assessment)
    /\ StepDone(step, row, file)
    /\ seals' = seals \cup {step}
    /\ UNCHANGED <<row, file, last, seen>>

\* Sealing the assessment of an enrolled case also completes it.
LockStep(step, role) ==
    /\ step \in StepsFor(row.assessment)
    /\ StepDone(step, row, file)
    /\ seals' = seals \cup {step}
    /\ IF step = "assessment" /\ row.status = "enrolled"
       THEN /\ row' = [row EXCEPT !.status = "assessed"]
            /\ LogHistory("enrolled", "assessed", role, "standard")
       ELSE UNCHANGED <<row, last, seen>>
    /\ UNCHANGED file

\* Releasing a seal is always allowed, for any known step.
UnlockStep(step) ==
    /\ seals' = seals \ {step}
    /\ UNCHANGED <<row, file, last, seen>>

-----------------------------------------------------------------------------
(* Columns of the case row that belong to a step *)

\* Outside `enrolled` the payload must repeat the stored category.
UpdateAssessment(category) ==
    /\ "assessment" \notin seals
    /\ row.status # "enrolled" => category = row.assessment
    /\ row' = [row EXCEPT !.assessment = category]
    /\ UNCHANGED <<file, seals, last, seen>>

\* A body of follow-up visits alone passes the seal and changes no column here.
UpdateTransitionPlan(plan) ==
    /\ "evaluate" \notin seals
    /\ row' = [row EXCEPT !.plan = plan]
    /\ UNCHANGED <<file, seals, last, seen>>

\* The four "none needed" decisions.
UpdateDecision(step, notNeeded) ==
    /\ step \notin seals
    /\ row' = [row EXCEPT !.notNeeded = IF notNeeded THEN @ \cup {step}
                                                     ELSE @ \ {step}]
    /\ UNCHANGED <<file, seals, last, seen>>

\* A category step is written only under a template that carries it, and
\* empty fields of the payload clear nothing.
UpdateCategoryStep(step) ==
    /\ step \notin seals
    /\ step \in StepsFor(row.assessment)
    /\ row' = [row EXCEPT !.stepData = @ \cup {step}]
    /\ UNCHANGED <<file, seals, last, seen>>

UpdateClosure ==
    /\ "closure" \notin seals
    /\ row.status = "transitioning"
    /\ row' = [row EXCEPT !.outcome = TRUE]
    /\ UNCHANGED <<file, seals, last, seen>>

-----------------------------------------------------------------------------
(* Rows of other tables that belong to a step *)

WriteFile(new) ==
    /\ file' = new
    /\ UNCHANGED <<row, seals, last, seen>>

\* Enrol anew or re-activate; a withdrawn or deleted row no longer counts.
Enroll(s) ==
    /\ "enrollments" \notin seals
    /\ WriteFile([file EXCEPT !.enrollments = @ \cup {s}])

Withdraw(s) ==
    /\ "enrollments" \notin seals
    /\ s \in file.enrollments
    /\ WriteFile([file EXCEPT !.enrollments = @ \ {s}])

\* A referral-type intervention may also record the referral it stands for.
LogIntervention(s) ==
    /\ "interventions" \notin seals
    /\ \E n \in {file.referrals, file.referrals + 1} :
         /\ n <= MaxRows
         /\ WriteFile([file EXCEPT !.interventions = @ \cup {s}, !.referrals = n])

\* An edit may move the row to another service.
RetargetIntervention(s, t) ==
    /\ "interventions" \notin seals
    /\ s \in file.interventions
    /\ WriteFile([file EXCEPT !.interventions = (@ \ {s}) \cup {t}])

\* (mutant) the route does not ask for the seal
RemoveUnguarded(s) ==
    /\ s \in file.interventions
    /\ WriteFile([file EXCEPT !.interventions = @ \ {s}])

RemoveIntervention(s) ==
    /\ "interventions" \notin seals
    /\ s \in file.interventions
    /\ WriteFile([file EXCEPT !.interventions = @ \ {s}])

\* The endorsement letter records the referral, whatever is sealed.
IssueReferral ==
    /\ file.referrals < MaxRows
    /\ WriteFile([file EXCEPT !.referrals = @ + 1])

\* (mutant) a referral that is not there is revoked
RevokeMissing ==
    /\ "referrals" \notin seals
    /\ WriteFile([file EXCEPT !.referrals = @ - 1])

RevokeReferral ==
    /\ "referrals" \notin seals
    /\ file.referrals > 0
    /\ WriteFile([file EXCEPT !.referrals = @ - 1])

\* Created as a hearing, under a category that goes to court.
RecordHearing ==
    /\ "court_hearings" \in StepsFor(row.assessment)
    /\ "court_hearings" \notin seals
    /\ file.hearings < MaxRows
    /\ WriteFile([file EXCEPT !.hearings = @ + 1])

\* An event is edited into a live hearing; the category is not asked again.
EditIntoHearing ==
    /\ "court_hearings" \notin seals
    /\ file.hearings < MaxRows
    /\ WriteFile([file EXCEPT !.hearings = @ + 1])

\* (mutant) a hearing is deleted whatever is sealed
DropUnguarded ==
    /\ file.hearings > 0
    /\ WriteFile([file EXCEPT !.hearings = @ - 1])

\* A hearing is cancelled, edited into a visit, or deleted.
DropHearing ==
    /\ "court_hearings" \notin seals
    /\ file.hearings > 0
    /\ WriteFile([file EXCEPT !.hearings = @ - 1])

-----------------------------------------------------------------------------
(* The requirements checklist, which two steps share *)

\* Refused only while both steps that read the checklist are sealed.
RequirementsWritable == ~({"enrollments", "interventions"} \subseteq seals)

SetRequirement(doc, met) ==
    WriteFile([file EXCEPT !.met = IF met THEN @ \cup {doc} ELSE @ \ {doc}])

ReplaceChecklist(met) ==
    /\ RequirementsWritable
    /\ WriteFile([file EXCEPT !.met = met])

\* Upload, verify, un-verify and delete re-derive one requirement from the
\* documents on file.
FileDocument(doc, met) ==
    /\ RequirementsWritable
    /\ SetRequirement(doc, met)

\* (mutant) the download repairs whatever is sealed
HealUnguarded(doc, met) == SetRequirement(doc, met)

\* A download that finds the file gone drops its row and re-derives.
HealDocument(doc, met) ==
    /\ "interventions" \notin seals
    /\ SetRequirement(doc, met)

\* An offline change to the checklist arrives late.
ReplayRequirement(doc, met) ==
    /\ "interventions" \notin seals
    /\ SetRequirement(doc, met)

-----------------------------------------------------------------------------
(* The specification *)

StatusChange ==
    \/ \E to \in Statuses, role \in Roles : Transition(to, role)
    \/ RequestReview
    \/ \E role \in Roles : Reject(role)
    \/ \E to \in Overrides : OverrideStatus(to)

SealChange ==
    \/ \E step \in KnownSteps, role \in Roles : LockStep(step, role)
    \/ \E step \in KnownSteps : UnlockStep(step)

RowWrite ==
    \/ \E category \in Categories : UpdateAssessment(category)
    \/ \E plan \in BOOLEAN : UpdateTransitionPlan(plan)
    \/ \E step \in Decisions, notNeeded \in BOOLEAN : UpdateDecision(step, notNeeded)
    \/ \E step \in DataSteps : UpdateCategoryStep(step)
    \/ UpdateClosure

FileWrite ==
    \/ \E s \in Services : Enroll(s)
    \/ \E s \in Services : Withdraw(s)
    \/ \E s \in Services : LogIntervention(s)
    \/ \E s, t \in Services : RetargetIntervention(s, t)
    \/ \E s \in Services : RemoveIntervention(s)
    \/ IssueReferral
    \/ RevokeReferral
    \/ RecordHearing
    \/ EditIntoHearing
    \/ DropHearing
    \/ \E met \in SUBSET Docs : ReplaceChecklist(met)
    \/ \E doc \in Docs, met \in BOOLEAN : FileDocument(doc, met)
    \/ \E doc \in Docs, met \in BOOLEAN : HealDocument(doc, met)
    \/ \E doc \in Docs, met \in BOOLEAN : ReplayRequirement(doc, met)

Next == StatusChange \/ SealChange \/ RowWrite \/ FileWrite

Spec == Init /\ [][Next]_vars

-----------------------------------------------------------------------------
(* Properties *)

\* A sealed step's work stays on record: whatever request comes in, nothing
\* removes what the seal vouches for until the seal itself is released
\* (assertUnsealed in front of every step-field route, and the routes that
\* carry no such guard only add).
SealedWorkStays == \A step \in seals : Recorded(step, row, file)

\* Two pairs of eyes: a social worker alone never gets a case into service
\* delivery, nor to its end other than by rejecting it; some admin activated
\* it or overrode its status.
FourEyes ==
    /\ row.status \in {"active", "transitioning"} =>
         seen \cap {"activated", "overridden"} # {}
    /\ row.status \in {"closed", "aftercare"} => seen # {}

\* Unless an admin overrode it, a case is closed with its exit record, and
\* carries none before Phase-Out.
ExitRecordInPlace ==
    "overridden" \notin seen =>
        /\ row.status \in {"closed", "aftercare"} => row.outcome
        /\ row.outcome => row.status \in {"transitioning", "closed", "aftercare"}

\* Sealing the assessment completes it: nobody leaves a sealed assessment on a
\* case that still waits in `enrolled`.
SealedAssessmentAdvances ==
    "assessment" \in seals /\ "overridden" \notin seen => row.status # "enrolled"

\* The seals a gate asks for stand for finished work: a case that passes one
\* (by somebody the gate binds) has the work of every demanded step on record.
GateMeansDone ==
    [][row'.status # row.status /\ last'.kind = "standard"
         /\ row'.status \in NextStatus[row.status]
       => \A step \in GateSteps(row, last'.role) : Recorded(step, row', file')]_vars

\* With both steps that share the checklist sealed, none of its four writers
\* moves it: not the checklist route, filing, the download's repair or a replay.
BothSealsFreezeChecklist ==
    [][{"enrollments", "interventions"} \subseteq seals => file'.met = file.met]_vars

\* No gate asks for a seal that nobody could give yet: whatever a transition
\* out of the present status demands has come due at that status, whichever of
\* the two ways of naming steps (by floor, by phase) the gate uses.
GatesAreSealable ==
    \A role \in Roles : \A step \in GateSteps(row, role) :
        Floor(step) <= Position[row.status]

=============================================================================
