------------------------ MODULE CaseLifecycleProofs ------------------------
(***************************************************************************)
(* What CaseLifecycle promises, for every set of documents, services,      *)
(* categories, decisions and overrides, and every bound on the rows.       *)
(***************************************************************************)
EXTENDS CaseLifecycle, TLAPS

-----------------------------------------------------------------------------
(* Type correctness *)

\* The case an intake opens is a legal one.
LEMMA InitTyped == Init => TypeOK
BY DEF Init, TypeOK, CaseRows, CaseFiles, Statuses, CategoryStepsOf, Authors

\* A history row has a role and a kind, and shows marks only.
LEMMA LogTyped ==
    ASSUME TypeOK, NEW from \in Statuses, NEW to \in Statuses, NEW role \in Roles,
           NEW kind \in {"standard", "override"}, LogHistory(from, to, role, kind)
    PROVE  last' \in Authors /\ seen' \subseteq Marks
BY DEF TypeOK, LogHistory, MarksOf, Marks, Authors

\* Moving a legal case to a legal status leaves a legal case.
LEMMA StatusTyped ==
    ASSUME TypeOK, NEW to \in Statuses
    PROVE  [row EXCEPT !.status = to] \in CaseRows
BY DEF TypeOK, CaseRows

LEMMA StatusChangeTyped == TypeOK /\ StatusChange => TypeOK'
<1> SUFFICES ASSUME TypeOK, StatusChange PROVE TypeOK'
  OBVIOUS
<1> row.status \in Statuses
  BY DEF TypeOK, CaseRows
<1>1. ASSUME NEW to \in Statuses, NEW role \in Roles, Transition(to, role)
      PROVE  TypeOK'
  <2>1. last' \in Authors /\ seen' \subseteq Marks
    BY <1>1, LogTyped DEF Transition
  <2> QED BY <1>1, <2>1, StatusTyped DEF Transition, TypeOK
<1>2. ASSUME RequestReview PROVE TypeOK'
  <2>1. last' \in Authors /\ seen' \subseteq Marks
    BY <1>2, LogTyped DEF RequestReview, Statuses, Roles
  <2> QED BY <1>2, <2>1, StatusTyped DEF RequestReview, TypeOK, Statuses
<1>3. ASSUME NEW role \in Roles, Reject(role) PROVE TypeOK'
  <2>1. last' \in Authors /\ seen' \subseteq Marks
    BY <1>3, LogTyped DEF Reject, Statuses
  <2>2. row' \in CaseRows
    BY <1>3 DEF Reject, TypeOK, CaseRows, Statuses
  <2> QED BY <1>3, <2>1, <2>2 DEF Reject, TypeOK
<1>4. ASSUME NEW to \in Overrides, OverrideStatus(to) PROVE TypeOK'
  <2>1. to \in Statuses
    BY CaseAssumption
  <2>2. last' \in Authors /\ seen' \subseteq Marks
    BY <1>4, <2>1, LogTyped DEF OverrideStatus, Roles
  <2> QED BY <1>4, <2>1, <2>2, StatusTyped DEF OverrideStatus, TypeOK
<1> QED BY <1>1, <1>2, <1>3, <1>4 DEF StatusChange

LEMMA SealChangeTyped == TypeOK /\ SealChange => TypeOK'
<1> SUFFICES ASSUME TypeOK, SealChange PROVE TypeOK'
  OBVIOUS
<1>1. ASSUME NEW step \in KnownSteps, NEW role \in Roles, LockStep(step, role)
      PROVE  TypeOK'
  <2>1. CASE step = "assessment" /\ row.status = "enrolled"
    <3>1. last' \in Authors /\ seen' \subseteq Marks
      BY <1>1, <2>1, LogTyped DEF LockStep, Statuses
    <3> QED BY <1>1, <2>1, <3>1, StatusTyped DEF LockStep, TypeOK, Statuses
  <2>2. CASE ~(step = "assessment" /\ row.status = "enrolled")
    BY <1>1, <2>2 DEF LockStep, TypeOK
  <2> QED BY <2>1, <2>2
<1>2. ASSUME NEW step \in KnownSteps, UnlockStep(step) PROVE TypeOK'
  BY <1>2 DEF UnlockStep, TypeOK
<1> QED BY <1>1, <1>2 DEF SealChange

LEMMA RowWriteTyped == TypeOK /\ RowWrite => TypeOK'
<1> SUFFICES ASSUME TypeOK, RowWrite PROVE TypeOK'
  OBVIOUS
<1>1. ASSUME NEW category \in Categories, UpdateAssessment(category) PROVE TypeOK'
  <2>1. category \in DOMAIN CategoryStepsOf
    BY CaseAssumption DEF AllCategories
  <2> QED BY <1>1, <2>1 DEF UpdateAssessment, TypeOK, CaseRows
<1>2. ASSUME NEW plan \in BOOLEAN, UpdateTransitionPlan(plan) PROVE TypeOK'
  BY <1>2 DEF UpdateTransitionPlan, TypeOK, CaseRows
<1>3. ASSUME NEW step \in Decisions, NEW notNeeded \in BOOLEAN,
             UpdateDecision(step, notNeeded)
      PROVE  TypeOK'
  <2>1. step \in DecisionSteps
    BY CaseAssumption
  <2>2. row' \in CaseRows
    BY <1>3, <2>1 DEF UpdateDecision, TypeOK, CaseRows
  <2> QED BY <1>3, <2>2 DEF UpdateDecision, TypeOK
<1>4. ASSUME NEW step \in DataSteps, UpdateCategoryStep(step) PROVE TypeOK'
  BY <1>4 DEF UpdateCategoryStep, TypeOK, CaseRows
<1>5. ASSUME UpdateClosure PROVE TypeOK'
  BY <1>5 DEF UpdateClosure, TypeOK, CaseRows
<1> QED BY <1>1, <1>2, <1>3, <1>4, <1>5 DEF RowWrite

LEMMA FileWriteTyped == TypeOK /\ FileWrite => TypeOK'
<1> SUFFICES ASSUME TypeOK, FileWrite PROVE TypeOK'
  OBVIOUS
<1> USE DEF WriteFile, TypeOK, CaseFiles
<1>1. ASSUME NEW s \in Services, Enroll(s) PROVE TypeOK'
  BY <1>1 DEF Enroll
<1>2. ASSUME NEW s \in Services, Withdraw(s) PROVE TypeOK'
  BY <1>2 DEF Withdraw
<1>3. ASSUME NEW s \in Services, LogIntervention(s) PROVE TypeOK'
  <2>1. PICK n \in {file.referrals, file.referrals + 1} :
          WriteFile([file EXCEPT !.interventions = @ \cup {s}, !.referrals = n])
    BY <1>3 DEF LogIntervention
  <2>2. n \in Nat
    OBVIOUS
  <2> QED BY <2>1, <2>2
<1>4. ASSUME NEW s \in Services, NEW t \in Services, RetargetIntervention(s, t)
      PROVE  TypeOK'
  BY <1>4 DEF RetargetIntervention
<1>5. ASSUME NEW s \in Services, RemoveIntervention(s) PROVE TypeOK'
  BY <1>5 DEF RemoveIntervention
<1>6. ASSUME IssueReferral \/ RevokeReferral PROVE TypeOK'
  BY <1>6 DEF IssueReferral, RevokeReferral
<1>7. ASSUME RecordHearing \/ EditIntoHearing \/ DropHearing PROVE TypeOK'
  BY <1>7 DEF RecordHearing, EditIntoHearing, DropHearing
<1>8. ASSUME NEW met \in SUBSET Docs, ReplaceChecklist(met) PROVE TypeOK'
  BY <1>8 DEF ReplaceChecklist
<1>9. ASSUME NEW doc \in Docs, NEW met \in BOOLEAN, SetRequirement(doc, met)
      PROVE  TypeOK'
  BY <1>9 DEF SetRequirement
<1> QED BY <1>1, <1>2, <1>3, <1>4, <1>5, <1>6, <1>7, <1>8, <1>9
        DEF FileWrite, FileDocument, HealDocument, ReplayRequirement

LEMMA StepTyped == TypeOK /\ [Next]_vars => TypeOK'
<1>1. ASSUME TypeOK, UNCHANGED vars PROVE TypeOK'
  BY <1>1 DEF TypeOK, vars
<1> QED BY <1>1, StatusChangeTyped, SealChangeTyped, RowWriteTyped, FileWriteTyped
        DEF Next

\* Whatever requests arrive, the case stays a legal one: status and category
\* are known ones, counts of rows never go below zero.
THEOREM TypeCorrect == Spec => []TypeOK
BY InitTyped, StepTyped, PTL DEF Spec

-----------------------------------------------------------------------------
(* What each group of requests leaves alone *)

LEMMA FileWriteFrame == FileWrite => UNCHANGED <<row, seals, last, seen>>
BY DEF FileWrite, Enroll, Withdraw, LogIntervention, RetargetIntervention,
       RemoveIntervention, IssueReferral, RevokeReferral, RecordHearing,
       EditIntoHearing, DropHearing, ReplaceChecklist, FileDocument,
       HealDocument, ReplayRequirement, SetRequirement, WriteFile

LEMMA RowWriteFrame ==
    ASSUME TypeOK, RowWrite
    PROVE  row'.status = row.status /\ UNCHANGED <<file, seals, last, seen>>
BY DEF TypeOK, CaseRows, RowWrite, UpdateAssessment, UpdateTransitionPlan,
       UpdateDecision, UpdateCategoryStep, UpdateClosure

-----------------------------------------------------------------------------
(* A sealed step's work stays on record *)

LEMMA StatusChangeKeepsRecord ==
    ASSUME TypeOK, StatusChange \/ SealChange, NEW step, Recorded(step, row, file)
    PROVE  Recorded(step, row', file')
<1>1. /\ row'.notNeeded = row.notNeeded /\ row'.stepData = row.stepData
      /\ row'.plan = row.plan /\ row'.assessment = row.assessment
      /\ row.outcome => row'.outcome
      /\ file' = file
  BY DEF TypeOK, CaseRows, StatusChange, Transition, RequestReview, Reject,
         OverrideStatus, SealChange, LockStep, UnlockStep
<1> QED BY <1>1 DEF Recorded, Assessed

LEMMA RowWriteKeepsSealed ==
    ASSUME TypeOK, RowWrite, NEW step \in seals, Recorded(step, row, file)
    PROVE  Recorded(step, row', file')
<1> file' = file
  BY RowWriteFrame
<1> USE DEF TypeOK, CaseRows, Recorded, Assessed
<1>1. ASSUME NEW category \in Categories, UpdateAssessment(category)
      PROVE  Recorded(step, row', file')
  BY <1>1 DEF UpdateAssessment
<1>2. ASSUME NEW plan \in BOOLEAN, UpdateTransitionPlan(plan)
      PROVE  Recorded(step, row', file')
  BY <1>2 DEF UpdateTransitionPlan
<1>3. ASSUME NEW other \in Decisions, NEW notNeeded \in BOOLEAN,
             UpdateDecision(other, notNeeded)
      PROVE  Recorded(step, row', file')
  <2>1. /\ step \in row.notNeeded => step \in row'.notNeeded
        /\ row'.stepData = row.stepData /\ row'.plan = row.plan
        /\ row'.assessment = row.assessment /\ row'.outcome = row.outcome
    BY <1>3 DEF UpdateDecision
  <2> QED BY <2>1
<1>4. ASSUME NEW other \in DataSteps, UpdateCategoryStep(other)
      PROVE  Recorded(step, row', file')
  BY <1>4 DEF UpdateCategoryStep
<1>5. ASSUME UpdateClosure PROVE Recorded(step, row', file')
  BY <1>5 DEF UpdateClosure
<1> QED BY <1>1, <1>2, <1>3, <1>4, <1>5 DEF RowWrite

LEMMA FileWriteKeepsSealed ==
    ASSUME TypeOK, FileWrite, NEW step \in seals, Recorded(step, row, file)
    PROVE  Recorded(step, row', file')
<1> row' = row
  BY FileWriteFrame
<1> USE DEF TypeOK, CaseFiles, WriteFile, Recorded
<1>1. ASSUME NEW s \in Services, Enroll(s) \/ Withdraw(s)
      PROVE  Recorded(step, row', file')
  BY <1>1 DEF Enroll, Withdraw
<1>2. ASSUME NEW s \in Services, LogIntervention(s)
      PROVE  Recorded(step, row', file')
  BY <1>2 DEF LogIntervention
<1>3. ASSUME NEW s \in Services, NEW t \in Services,
             RetargetIntervention(s, t) \/ RemoveIntervention(s)
      PROVE  Recorded(step, row', file')
  BY <1>3 DEF RetargetIntervention, RemoveIntervention
<1>4. ASSUME IssueReferral \/ RevokeReferral PROVE Recorded(step, row', file')
  BY <1>4 DEF IssueReferral, RevokeReferral
<1>5. ASSUME RecordHearing \/ EditIntoHearing \/ DropHearing
      PROVE  Recorded(step, row', file')
  BY <1>5 DEF RecordHearing, EditIntoHearing, DropHearing
<1>6. ASSUME NEW met \in SUBSET Docs, ReplaceChecklist(met)
      PROVE  Recorded(step, row', file')
  BY <1>6 DEF ReplaceChecklist
<1>7. ASSUME NEW doc \in Docs, NEW met \in BOOLEAN, SetRequirement(doc, met)
      PROVE  Recorded(step, row', file')
  BY <1>7 DEF SetRequirement
<1> QED BY <1>1, <1>2, <1>3, <1>4, <1>5, <1>6, <1>7
        DEF FileWrite, FileDocument, HealDocument, ReplayRequirement

\* A step that comes to be sealed had its work done in the very step.
LEMMA NewSealRecorded ==
    ASSUME TypeOK, SealChange, NEW step \in seals' \ seals
    PROVE  Recorded(step, row, file)
BY DEF SealChange, LockStep, UnlockStep, StepDone

LEMMA OtherSealsStay == RowWrite \/ StatusChange \/ FileWrite => seals' = seals
BY FileWriteFrame
   DEF RowWrite, UpdateAssessment, UpdateTransitionPlan, UpdateDecision,
       UpdateCategoryStep, UpdateClosure,
       StatusChange, Transition, RequestReview, Reject, OverrideStatus

LEMMA SealedWorkStep ==
    TypeOK /\ SealedWorkStays /\ [Next]_vars => SealedWorkStays'
<1> SUFFICES ASSUME TypeOK, SealedWorkStays, [Next]_vars, NEW step \in seals'
             PROVE  Recorded(step, row', file')
  BY DEF SealedWorkStays
<1> USE DEF SealedWorkStays
<1>1. CASE StatusChange
  BY <1>1, OtherSealsStay, StatusChangeKeepsRecord
<1>2. CASE SealChange
  <2>1. Recorded(step, row, file)
    BY <1>2, NewSealRecorded
  <2> QED BY <1>2, <2>1, StatusChangeKeepsRecord
<1>3. CASE RowWrite
  BY <1>3, OtherSealsStay, RowWriteKeepsSealed
<1>4. CASE FileWrite
  BY <1>4, OtherSealsStay, FileWriteKeepsSealed
<1>5. CASE UNCHANGED vars
  BY <1>5 DEF vars
<1> QED BY <1>1, <1>2, <1>3, <1>4, <1>5 DEF Next

\* A seal vouches for work that is on record, and no request but the release
\* of the seal takes that work away: the guards of the step's own routes are
\* enough, even though a dozen other requests move the same case.
THEOREM SealedWork == Spec => []SealedWorkStays
<1>1. Init => SealedWorkStays
  BY DEF Init, SealedWorkStays
<1> QED BY <1>1, TypeCorrect, SealedWorkStep, PTL DEF Spec

-----------------------------------------------------------------------------
(* Two pairs of eyes *)

LEMMA TransitionFourEyes ==
    ASSUME TypeOK, FourEyes, NEW to \in Statuses, NEW role \in Roles, Transition(to, role)
    PROVE  FourEyes'
<1> USE DEF TypeOK, CaseRows, Statuses, FourEyes
<1>1. /\ row'.status = to
      /\ seen' = seen \cup MarksOf(row.status, to, role, "standard")
      /\ to \in NextStatus[row.status]
      /\ role = "admin" \/ row.status \in WorkerStatuses
  BY DEF Transition, LogHistory, MayTransition, CanTransition
<1>2. CASE to \in {"assessed", "in_review"}
  BY <1>1, <1>2
<1>3. CASE to = "active"
  <2>1. row.status = "in_review"
    BY <1>1, <1>3 DEF NextStatus
  <2>2. MarksOf(row.status, to, role, "standard") = {"activated"}
    BY <1>1, <1>3, <2>1 DEF MarksOf, WorkerStatuses
  <2> QED BY <1>1, <1>3, <2>2
<1>4. CASE to = "transitioning"
  BY <1>1, <1>4 DEF NextStatus
<1>5. CASE to \in {"closed", "aftercare"}
  <2>1. row.status \in {"transitioning", "closed"}
    BY <1>1, <1>5 DEF NextStatus
  <2> QED BY <1>1, <1>5, <2>1
<1>6. to # "enrolled"
  BY <1>1 DEF NextStatus
<1> QED BY <1>2, <1>3, <1>4, <1>5, <1>6

LEMMA FourEyesStep == TypeOK /\ FourEyes /\ [Next]_vars => FourEyes'
<1> SUFFICES ASSUME TypeOK, FourEyes, [Next]_vars PROVE FourEyes'
  OBVIOUS
<1>1. CASE StatusChange
  <2> USE DEF TypeOK, CaseRows, FourEyes, LogHistory, MarksOf
  <2>1. ASSUME RequestReview PROVE FourEyes'
    BY <2>1 DEF RequestReview
  <2>2. ASSUME NEW role \in Roles, Reject(role) PROVE FourEyes'
    <3>1. row'.status = "closed" /\ "rejected" \in seen'
      BY <2>2 DEF Reject
    <3> QED BY <3>1
  <2>3. ASSUME NEW to \in Overrides, OverrideStatus(to) PROVE FourEyes'
    <3>1. "overridden" \in seen'
      BY <2>3 DEF OverrideStatus
    <3> QED BY <3>1
  <2> QED BY <1>1, <2>1, <2>2, <2>3, TransitionFourEyes DEF StatusChange
<1>2. CASE SealChange
  <2>1. \/ row'.status = row.status /\ seen' = seen
        \/ row'.status = "assessed"
    BY <1>2 DEF TypeOK, CaseRows, SealChange, LockStep, UnlockStep
  <2> QED BY <2>1 DEF FourEyes
<1>3. CASE RowWrite
  BY <1>3, RowWriteFrame DEF FourEyes
<1>4. CASE FileWrite
  BY <1>4, FileWriteFrame DEF FourEyes
<1>5. CASE UNCHANGED vars
  BY <1>5 DEF vars, FourEyes
<1> QED BY <1>1, <1>2, <1>3, <1>4, <1>5 DEF Next

\* No sequence of requests of social workers brings a case into service
\* delivery, or to its end other than by rejecting it.
THEOREM TwoPairsOfEyes == Spec => []FourEyes
<1>1. Init => FourEyes
  BY DEF Init, FourEyes
<1> QED BY <1>1, TypeCorrect, FourEyesStep, PTL DEF Spec

-----------------------------------------------------------------------------
(* The exit record *)

LEMMA ExitRecordStep ==
    TypeOK /\ ExitRecordInPlace /\ [Next]_vars => ExitRecordInPlace'
<1> SUFFICES ASSUME TypeOK, ExitRecordInPlace, [Next]_vars, "overridden" \notin seen'
             PROVE  /\ row'.status \in {"closed", "aftercare"} => row'.outcome
                    /\ row'.outcome =>
                         row'.status \in {"transitioning", "closed", "aftercare"}
  BY DEF ExitRecordInPlace
<1> USE DEF TypeOK, CaseRows, ExitRecordInPlace, LogHistory
<1>1. CASE StatusChange
  <2>1. ASSUME NEW to \in Statuses, NEW role \in Roles, Transition(to, role)
        PROVE  /\ row'.status \in {"closed", "aftercare"} => row'.outcome
               /\ row'.outcome =>
                    row'.status \in {"transitioning", "closed", "aftercare"}
    <3>1. /\ row'.status = to /\ row'.outcome = row.outcome
          /\ "overridden" \notin seen
          /\ to \in NextStatus[row.status]
          /\ FileAllows(row, file)
      BY <2>1 DEF Transition, MayTransition
    <3>2. CASE to = "closed"
      <4>1. row.status = "transitioning"
        BY <3>1, <3>2 DEF NextStatus, Statuses
      <4> QED BY <3>1, <3>2, <4>1 DEF FileAllows
    <3>3. CASE to # "closed"
      <4>1. /\ to = "aftercare" => row.status = "closed"
            /\ to \notin {"transitioning", "aftercare"} =>
                 row.status \notin {"transitioning", "closed", "aftercare"}
        BY <3>1, <3>3 DEF NextStatus, Statuses
      <4> QED BY <3>1, <3>3, <4>1
    <3> QED BY <3>2, <3>3
  <2>2. CASE RequestReview
    BY <2>2 DEF RequestReview
  <2>3. ASSUME NEW role \in Roles, Reject(role)
        PROVE  row'.status = "closed" /\ row'.outcome
    BY <2>3 DEF Reject
  <2>4. ASSUME NEW to \in Overrides, OverrideStatus(to) PROVE FALSE
    BY <2>4 DEF OverrideStatus, MarksOf
  <2> QED BY <1>1, <2>1, <2>2, <2>3, <2>4 DEF StatusChange
<1>2. CASE SealChange
  <2>1. /\ row'.outcome = row.outcome /\ "overridden" \notin seen
        /\ \/ row'.status = row.status
           \/ row.status = "enrolled" /\ row'.status = "assessed"
    BY <1>2 DEF SealChange, LockStep, UnlockStep
  <2> QED BY <2>1
<1>3. CASE RowWrite
  <2>1. row'.status = row.status /\ seen' = seen
    BY <1>3, RowWriteFrame
  <2>2. UpdateClosure => row.status = "transitioning"
    BY DEF UpdateClosure
  <2>3. ~UpdateClosure => row'.outcome = row.outcome
    <3>1. ASSUME NEW category, UpdateAssessment(category)
          PROVE  row'.outcome = row.outcome
      BY <3>1 DEF UpdateAssessment
    <3>2. ASSUME NEW plan, UpdateTransitionPlan(plan)
          PROVE  row'.outcome = row.outcome
      BY <3>2 DEF UpdateTransitionPlan
    <3>3. ASSUME NEW step, NEW notNeeded, UpdateDecision(step, notNeeded)
          PROVE  row'.outcome = row.outcome
      BY <3>3 DEF UpdateDecision
    <3>4. ASSUME NEW step, UpdateCategoryStep(step)
          PROVE  row'.outcome = row.outcome
      BY <3>4 DEF UpdateCategoryStep
    <3> QED BY <1>3, <3>1, <3>2, <3>3, <3>4 DEF RowWrite
  <2> QED BY <2>1, <2>2, <2>3
<1>4. CASE FileWrite
  BY <1>4, FileWriteFrame
<1>5. CASE UNCHANGED vars
  BY <1>5 DEF vars
<1> QED BY <1>1, <1>2, <1>3, <1>4, <1>5 DEF Next

\* As long as no admin overrides the status, a case is closed with its exit
\* record and carries none while it is still in Phase-In or Implementation.
THEOREM ExitRecord == Spec => []ExitRecordInPlace
<1>1. Init => ExitRecordInPlace
  BY DEF Init, ExitRecordInPlace
<1> QED BY <1>1, TypeCorrect, ExitRecordStep, PTL DEF Spec

-----------------------------------------------------------------------------
(* Sealing the assessment completes it *)

LEMMA SealedAssessmentStep ==
    TypeOK /\ SealedAssessmentAdvances /\ [Next]_vars => SealedAssessmentAdvances'
<1> SUFFICES ASSUME TypeOK, SealedAssessmentAdvances, [Next]_vars,
                    "assessment" \in seals', "overridden" \notin seen'
             PROVE  row'.status # "enrolled"
  BY DEF SealedAssessmentAdvances
<1> USE DEF TypeOK, CaseRows, SealedAssessmentAdvances, LogHistory
<1>1. CASE StatusChange
  <2>1. ASSUME NEW to \in Statuses, NEW role \in Roles, Transition(to, role)
        PROVE  row'.status # "enrolled"
    BY <2>1 DEF Transition, MayTransition, NextStatus, Statuses
  <2>2. ASSUME NEW to \in Overrides, OverrideStatus(to) PROVE FALSE
    BY <2>2 DEF OverrideStatus, MarksOf
  <2> QED BY <1>1, <2>1, <2>2 DEF StatusChange, RequestReview, Reject
<1>2. CASE SealChange
  BY <1>2 DEF SealChange, LockStep, UnlockStep
<1>3. CASE RowWrite
  BY <1>3, RowWriteFrame
<1>4. CASE FileWrite
  BY <1>4, FileWriteFrame
<1>5. CASE UNCHANGED vars
  BY <1>5 DEF vars
<1> QED BY <1>1, <1>2, <1>3, <1>4, <1>5 DEF Next

\* A case does not wait in `enrolled` with its assessment sealed, which would
\* leave it to nobody: the sealed assessment could not be edited any more.
THEOREM SealedAssessment == Spec => []SealedAssessmentAdvances
<1>1. Init => SealedAssessmentAdvances
  BY DEF Init, SealedAssessmentAdvances
<1> QED BY <1>1, TypeCorrect, SealedAssessmentStep, PTL DEF Spec

-----------------------------------------------------------------------------
(* The gates *)

LEMMA TypedGatesAreSealable == TypeOK => GatesAreSealable
<1> SUFFICES ASSUME TypeOK, NEW role \in Roles, NEW step \in GateSteps(row, role)
             PROVE  Floor(step) <= Position[row.status]
  BY DEF GatesAreSealable
<1> row.status \in Statuses
  BY DEF TypeOK, CaseRows
<1>1. CASE row.status \in {"assessed", "transitioning"}
  BY <1>1 DEF GateSteps, StepsDueAt
<1>2. CASE row.status = "active"
  <2>1. step \in ImplementationSteps
    BY <1>2 DEF GateSteps, StepsInImplementation
  <2> QED BY <1>2, <2>1 DEF ImplementationSteps, Floor, Position
<1>3. CASE row.status \notin {"assessed", "transitioning", "active"}
  BY <1>3 DEF GateSteps
<1> QED BY <1>1, <1>2, <1>3

\* No gate asks for a seal that cannot be given yet.
THEOREM SealableGates == Spec => []GatesAreSealable
BY TypeCorrect, TypedGatesAreSealable, PTL

LEMMA GateStep ==
    ASSUME TypeOK, SealedWorkStays, [Next]_vars,
           row'.status # row.status, last'.kind = "standard",
           row'.status \in NextStatus[row.status],
           NEW step \in GateSteps(row, last'.role)
    PROVE  Recorded(step, row', file')
<1> USE DEF TypeOK, CaseRows, LogHistory
<1>1. StatusChange \/ SealChange
  BY RowWriteFrame, FileWriteFrame DEF Next, vars
<1>2. Recorded(step, row, file)
  <2>1. ASSUME NEW to \in Statuses, NEW role \in Roles, Transition(to, role)
        PROVE  Recorded(step, row, file)
    BY <2>1 DEF Transition, MayTransition, SealedWorkStays
  <2>2. CASE RequestReview
    BY <2>2 DEF RequestReview, GateSteps
  <2>3. ASSUME NEW role \in Roles, Reject(role) PROVE FALSE
    BY <2>3 DEF Reject, NextStatus, Rejectable
  <2>4. ASSUME NEW to \in Overrides, OverrideStatus(to) PROVE FALSE
    BY <2>4 DEF OverrideStatus
  <2>5. CASE SealChange
    <3>1. row.status = "enrolled"
      BY <2>5 DEF SealChange, LockStep, UnlockStep
    <3> QED BY <3>1 DEF GateSteps
  <2> QED BY <1>1, <2>1, <2>2, <2>3, <2>4, <2>5 DEF StatusChange
<1> QED BY <1>1, <1>2, StatusChangeKeepsRecord

\* Passing a gate takes finished work, not just seals: because sealed work
\* stays on record, every step the gate demanded is done when it is passed.
THEOREM GatesMeanDone == Spec => GateMeansDone
<1>1. TypeOK /\ SealedWorkStays /\ [Next]_vars =>
        [row'.status # row.status /\ last'.kind = "standard"
           /\ row'.status \in NextStatus[row.status]
         => \A step \in GateSteps(row, last'.role) : Recorded(step, row', file')]_vars
  BY GateStep
<1> QED BY <1>1, TypeCorrect, SealedWork, PTL DEF Spec, GateMeansDone

-----------------------------------------------------------------------------
(* The shared checklist *)

LEMMA FrozenChecklistStep ==
    ASSUME TypeOK, [Next]_vars, {"enrollments", "interventions"} \subseteq seals
    PROVE  file'.met = file.met
<1> USE DEF TypeOK, CaseFiles, WriteFile
<1>1. CASE FileWrite
  <2>1. ASSUME NEW s \in Services,
               Enroll(s) \/ Withdraw(s) \/ LogIntervention(s) \/ RemoveIntervention(s)
        PROVE  FALSE
    BY <2>1 DEF Enroll, Withdraw, LogIntervention, RemoveIntervention
  <2>2. ASSUME NEW s \in Services, NEW t \in Services, RetargetIntervention(s, t)
        PROVE  FALSE
    BY <2>2 DEF RetargetIntervention
  <2>3. IssueReferral \/ RevokeReferral => file'.met = file.met
    BY DEF IssueReferral, RevokeReferral
  <2>4. RecordHearing \/ EditIntoHearing \/ DropHearing => file'.met = file.met
    BY DEF RecordHearing, EditIntoHearing, DropHearing
  <2>5. ASSUME NEW met, ReplaceChecklist(met) PROVE FALSE
    BY <2>5 DEF ReplaceChecklist, RequirementsWritable
  <2>6. ASSUME NEW doc, NEW met,
               FileDocument(doc, met) \/ HealDocument(doc, met)
                 \/ ReplayRequirement(doc, met)
        PROVE  FALSE
    BY <2>6 DEF FileDocument, HealDocument, ReplayRequirement, RequirementsWritable
  <2> QED BY <1>1, <2>1, <2>2, <2>3, <2>4, <2>5, <2>6 DEF FileWrite
<1>2. CASE RowWrite
  BY <1>2, RowWriteFrame
<1>3. CASE StatusChange \/ SealChange
  BY <1>3 DEF StatusChange, Transition, RequestReview, Reject, OverrideStatus,
              SealChange, LockStep, UnlockStep
<1>4. CASE UNCHANGED vars
  BY <1>4 DEF vars
<1> QED BY <1>1, <1>2, <1>3, <1>4 DEF Next

\* Once both steps that read the checklist are sealed, no request of any kind
\* changes which documents count as delivered.
THEOREM FrozenChecklist == Spec => BothSealsFreezeChecklist
<1>1. TypeOK /\ [Next]_vars =>
        [{"enrollments", "interventions"} \subseteq seals => file'.met = file.met]_vars
  BY FrozenChecklistStep
<1> QED BY <1>1, TypeCorrect, PTL DEF Spec, BothSealsFreezeChecklist

=============================================================================
