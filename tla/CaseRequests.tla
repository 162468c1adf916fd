---------------------------- MODULE CaseRequests ----------------------------
(***************************************************************************)
(* The handlers of CaseLifecycle, split at their awaits.                   *)
(*                                                                         *)
(* No handler runs in a transaction and no row carries a version: a        *)
(* request checks the seal, loads the case row, checks what the operation  *)
(* demands, and saves the whole entity it loaded.  Between any two of      *)
(* these other requests run.  A save is itself two statements: it re-reads *)
(* the row, and then updates the columns in which the entity differs from  *)
(* what it re-read, so a column somebody else changed since the load is    *)
(* put back.  The history row is written after the save.                   *)
(***************************************************************************)
EXTENDS CaseSteps

CONSTANTS
    Slots,       \* the requests that may be in flight at once
    Ops,         \* the operations clients ask for
    Failures,    \* whether a request may die between two of its awaits
    MaxRows      \* bound: referrals on file

\* An operation and its argument.
AllOps ==
    ({"transition", "override"} \X Statuses) \cup
    ({"review"} \X {"assessed"}) \cup ({"reject"} \X {"closed"}) \cup
    ({"assess"} \X AllCategories) \cup ({"plan"} \X {"yes", "no"}) \cup
    ({"need", "waive"} \X DecisionSteps) \cup ({"category_step"} \X DataSteps) \cup
    ({"closure"} \X {"recorded"}) \cup ({"touch"} \X {"other columns"}) \cup
    ({"lock", "unlock"} \X KnownSteps) \cup
    ({"log_intervention", "remove_intervention"} \X Services) \cup
    ({"issue_referral", "revoke_referral"} \X {"agency"})

ASSUME RequestsAssumption ==
    /\ Ops \subseteq AllOps
    /\ Failures \in BOOLEAN
    /\ MaxRows \in Nat

VARIABLES
    row,    \* the `cases` row
    file,   \* the child rows of the case
    seals,  \* the sealed steps
    last,   \* the newest row of `case_history`
    seen,   \* what `case_history` shows
    done,   \* what has happened to the row, logged or not (auxiliary)
    req     \* the request in each slot

vars == <<row, file, seals, last, seen, done, req>>

\* Where a request stands: the await it returned from last.
Points == {"idle", "load", "check", "save", "update", "log",
           "seal", "advance", "unseal", "write"}

InitialRow == [status |-> "enrolled", assessment |-> "none", notNeeded |-> {},
               stepData |-> {}, plan |-> FALSE, outcome |-> FALSE]

Idle == [pc |-> "idle", name |-> "none", arg |-> "none", role |-> "admin",
         snap |-> InitialRow, want |-> InitialRow, base |-> InitialRow,
         sealing |-> FALSE]

Init ==
    /\ row = InitialRow
    /\ file = [enrollments |-> {}, interventions |-> {}, met |-> Docs,
               referrals |-> 0, hearings |-> 0]
    /\ seals = {}
    /\ \E role \in Roles :
         last = [to |-> "enrolled", role |-> role, kind |-> "standard"]
    /\ seen = {}
    /\ done = {}
    /\ req = [r \in Slots |-> Idle]

-----------------------------------------------------------------------------
(* What each operation checks and writes *)

StatusOps == {"transition", "override", "review", "reject"}

\* (mutant) the routes that write child rows do not ask
GuardRowWrites(name, arg) ==
    CASE name = "assess"  -> "assessment"
      [] name = "plan"    -> "evaluate"
      [] name = "closure" -> "closure"
      [] name \in {"need", "waive", "category_step"} -> arg
      [] OTHER -> "none"

\* The step whose seal the route asks about before it calls the service.
GuardStep(name, arg) ==
    CASE name = "assess"  -> "assessment"
      [] name = "plan"    -> "evaluate"
      [] name = "closure" -> "closure"
      [] name \in {"need", "waive", "category_step"} -> arg
      [] name \in {"log_intervention", "remove_intervention"} -> "interventions"
      [] name = "revoke_referral" -> "referrals"
      [] OTHER -> "none"

\* (mutant) a case is rejected from any status
AcceptsAnyReject(name, arg, role, c) ==
    CASE name = "transition" -> CanTransition(c.status, role) /\ arg \in NextStatus[c.status]
      [] name = "review"     -> role = "social_worker" /\ c.status = "enrolled" /\ Assessed(c)
      [] name = "assess"     -> c.status # "enrolled" => arg = c.assessment
      [] name = "closure"    -> c.status = "transitioning"
      [] name = "lock"       -> arg \in StepsFor(c.assessment)
      [] OTHER -> TRUE

\* The checks a handler makes on the entity it has just loaded.
Accepts(name, arg, role, c) ==
    CASE name = "transition" -> /\ CanTransition(c.status, role)
                                /\ arg \in NextStatus[c.status]
      [] name = "override"   -> role = "admin"
      [] name = "review"     -> role = "social_worker" /\ c.status = "enrolled" /\ Assessed(c)
      [] name = "reject"     -> c.status \in Rejectable
      [] name = "assess"     -> c.status # "enrolled" => arg = c.assessment
      [] name = "category_step" -> arg \in StepsFor(c.assessment)
      [] name = "closure"    -> c.status = "transitioning"
      [] name = "lock"       -> arg \in StepsFor(c.assessment)
      [] OTHER -> TRUE

\* The entity as the handler leaves it.
Edited(name, arg, c) ==
    CASE name \in {"transition", "override", "review"} -> [c EXCEPT !.status = arg]
      [] name = "reject"  -> [c EXCEPT !.status = "closed", !.outcome = TRUE]
      [] name = "assess"  -> [c EXCEPT !.assessment = arg]
      [] name = "plan"    -> [c EXCEPT !.plan = (arg = "yes")]
      [] name = "need"    -> [c EXCEPT !.notNeeded = @ \ {arg}]
      [] name = "waive"   -> [c EXCEPT !.notNeeded = @ \cup {arg}]
      [] name = "category_step" -> [c EXCEPT !.stepData = @ \cup {arg}]
      [] name = "closure" -> [c EXCEPT !.outcome = TRUE]
      [] OTHER -> c

\* Update of the columns in which the entity differs from the re-read row:
\* the others keep what the row holds now.
MergeColumn(want, base, now) == IF want # base THEN want ELSE now

MergeFlags(want, base, now) ==
    {k \in want \cup now : IF (k \in want) # (k \in base) THEN k \in want ELSE k \in now}

MergeRow(want, base, now) ==
    [status     |-> MergeColumn(want.status, base.status, now.status),
     assessment |-> MergeColumn(want.assessment, base.assessment, now.assessment),
     notNeeded  |-> MergeFlags(want.notNeeded, base.notNeeded, now.notNeeded),
     stepData   |-> MergeFlags(want.stepData, base.stepData, now.stepData),
     plan       |-> MergeColumn(want.plan, base.plan, now.plan),
     outcome    |-> MergeColumn(want.outcome, base.outcome, now.outcome)]

Kind(name) == IF name = "override" THEN "override" ELSE "standard"

\* What this request's status change shows.
MarksOfRequest(q) == MarksOf(q.snap.status, q.want.status, q.role, Kind(q.name))

-----------------------------------------------------------------------------
(* One request *)

\* The roles worth telling apart: only a status change, or the seal that may
\* bring one, looks at the role or records it.
AskedBy(name) ==
    CASE name = "override" -> {"admin"}
      [] name \in {"transition", "reject", "lock"} -> Roles
      [] OTHER -> {"social_worker"}

FileOps == {"log_intervention", "remove_intervention", "issue_referral", "revoke_referral"}

\* The first await returns: the seal guard found nothing (a refused request
\* changes nothing and is left out), or there is no guard to ask.
Begin(r, name, arg, role) ==
    /\ req[r].pc = "idle"
    /\ GuardStep(name, arg) \notin seals
    /\ role \in AskedBy(name)
    /\ req' = [req EXCEPT ![r] = [Idle EXCEPT !.name = name, !.arg = arg, !.role = role,
                 !.pc = CASE name \in FileOps -> "write"
                          [] name = "unlock"  -> "unseal"
                          [] OTHER            -> "load"]]
    /\ UNCHANGED <<row, file, seals, last, seen, done>>

\* The row is loaded; what the handler refuses ends here.
Load(r) ==
    LET q == req[r] IN
    /\ q.pc = "load"
    /\ req' = [req EXCEPT ![r] =
         IF ~Accepts(q.name, q.arg, q.role, row) THEN Idle
         ELSE [q EXCEPT !.snap = row, !.want = Edited(q.name, q.arg, row),
                        !.pc = IF q.name \in {"transition", "lock"} THEN "check" ELSE "save"]]
    /\ UNCHANGED <<row, file, seals, last, seen, done>>

\* (mutant) a transition is saved unchecked
CheckLocksOnly(r) ==
    LET q == req[r] IN
    /\ q.pc = "check"
    /\ req' = [req EXCEPT ![r] =
         IF q.name # "lock" THEN [q EXCEPT !.pc = "save"]
         ELSE IF StepDone(q.arg, q.snap, file) THEN [q EXCEPT !.pc = "seal"] ELSE Idle]
    /\ UNCHANGED <<row, file, seals, last, seen, done>>

\* The seals and the child rows are queried after the row.
Check(r) ==
    LET q == req[r]
        passes == IF q.name = "lock" THEN StepDone(q.arg, q.snap, file)
                  ELSE MayTransition(q.snap, file, seals, q.arg, q.role)
    IN
    /\ q.pc = "check"
    /\ req' = [req EXCEPT ![r] =
         IF ~passes THEN Idle
         ELSE [q EXCEPT !.pc = IF q.name = "lock" THEN "seal" ELSE "save"]]
    /\ UNCHANGED <<row, file, seals, last, seen, done>>

\* (mutant) the history row is written before the save
CompareAndLog(r) ==
    /\ req[r].pc = "save"
    /\ req' = [req EXCEPT ![r] = [@ EXCEPT !.pc = "update", !.base = row]]
    /\ seen' = IF req[r].name \in StatusOps THEN seen \cup MarksOfRequest(req[r]) ELSE seen
    /\ UNCHANGED <<row, file, seals, last, done>>

\* The save re-reads the row and compares.
Compare(r) ==
    /\ req[r].pc = "save"
    /\ req' = [req EXCEPT ![r] = [@ EXCEPT !.pc = "update", !.base = row]]
    /\ UNCHANGED <<row, file, seals, last, seen, done>>

Update(r) ==
    LET q == req[r] IN
    /\ q.pc = "update"
    /\ row' = MergeRow(q.want, q.base, row)
    /\ IF q.name \in StatusOps
       THEN /\ req' = [req EXCEPT ![r] = [@ EXCEPT !.pc = "log", !.base = InitialRow]]
            /\ done' = done \cup MarksOfRequest(q)
       ELSE /\ req' = [req EXCEPT ![r] = Idle]
            /\ UNCHANGED done
    /\ UNCHANGED <<file, seals, last, seen>>

\* (mutant) the history row names the status that was left
LogOldStatus(r) ==
    LET q == req[r] IN
    /\ q.pc = "log"
    /\ last' = [to |-> q.snap.status, role |-> q.role, kind |-> Kind(q.name)]
    /\ seen' = seen \cup MarksOfRequest(q)
    /\ req' = [req EXCEPT ![r] = Idle]
    /\ UNCHANGED <<row, file, seals, done>>

\* (mutant) the history row carries the operation for its transition type
LogOperation(r) ==
    LET q == req[r] IN
    /\ q.pc = "log"
    /\ last' = [to |-> q.want.status, role |-> q.role, kind |-> q.name]
    /\ seen' = seen \cup MarksOfRequest(q)
    /\ req' = [req EXCEPT ![r] = Idle]
    /\ UNCHANGED <<row, file, seals, done>>

Log(r) ==
    LET q == req[r] IN
    /\ q.pc = "log"
    /\ last' = [to |-> q.want.status, role |-> q.role, kind |-> Kind(q.name)]
    /\ seen' = seen \cup MarksOfRequest(q)
    /\ req' = [req EXCEPT ![r] = Idle]
    /\ UNCHANGED <<row, file, seals, done>>

\* (mutant) the seal is the end of the request
SealOnly(r) ==
    /\ req[r].pc = "seal"
    /\ seals' = seals \cup {req[r].arg}
    /\ req' = [req EXCEPT ![r] = Idle]
    /\ UNCHANGED <<row, file, last, seen, done>>

\* The upsert of the seal is one statement.
Seal(r) ==
    LET q == req[r] IN
    /\ q.pc = "seal"
    /\ seals' = seals \cup {q.arg}
    /\ req' = [req EXCEPT ![r] =
         IF q.arg = "assessment"
         THEN [q EXCEPT !.pc = "advance", !.sealing = q.arg \notin seals]
         ELSE Idle]
    /\ UNCHANGED <<row, file, last, seen, done>>

\* With the seal committed, the case is read again and, if it still waits in
\* `enrolled`, moved on through the role's own route.
Advance(r) ==
    LET q == req[r] IN
    /\ q.pc = "advance"
    /\ req' = [req EXCEPT ![r] =
         IF row.status # "enrolled" THEN Idle
         ELSE [q EXCEPT !.pc = "load", !.arg = "assessed",
                        !.name = IF q.role = "admin" THEN "transition" ELSE "review"]]
    /\ UNCHANGED <<row, file, seals, last, seen, done>>

Unseal(r) ==
    /\ req[r].pc = "unseal"
    /\ seals' = seals \ {req[r].arg}
    /\ req' = [req EXCEPT ![r] = Idle]
    /\ UNCHANGED <<row, file, last, seen, done>>

\* A child row is written after the guard alone.
Written(name, arg) ==
    CASE name = "log_intervention"    -> [file EXCEPT !.interventions = @ \cup {arg}]
      [] name = "remove_intervention" -> [file EXCEPT !.interventions = @ \ {arg}]
      [] name = "issue_referral"  -> IF file.referrals < MaxRows
                                     THEN [file EXCEPT !.referrals = @ + 1] ELSE file
      [] name = "revoke_referral" -> IF file.referrals > 0
                                     THEN [file EXCEPT !.referrals = @ - 1] ELSE file

WriteRow(r) ==
    /\ req[r].pc = "write"
    /\ file' = Written(req[r].name, req[r].arg)
    /\ req' = [req EXCEPT ![r] = Idle]
    /\ UNCHANGED <<row, seals, last, seen, done>>

\* The process stops, or the database refuses a statement.
Fail(r) ==
    /\ Failures
    /\ req[r].pc # "idle"
    /\ req' = [req EXCEPT ![r] = Idle]
    /\ UNCHANGED <<row, file, seals, last, seen, done>>

-----------------------------------------------------------------------------
(* The specification *)

Proceed(r) ==
    \/ Load(r)   \/ Check(r) \/ Compare(r) \/ Update(r) \/ Log(r)
    \/ Seal(r)   \/ Advance(r) \/ Unseal(r) \/ WriteRow(r)

Next ==
    \E r \in Slots :
        \/ \E op \in Ops, role \in Roles : Begin(r, op[1], op[2], role)
        \/ Proceed(r)
        \/ Fail(r)

\* The event loop and the database serve a request that has begun.
Fairness == \A r \in Slots : WF_vars(Proceed(r))

Spec == Init /\ [][Next]_vars /\ Fairness

-----------------------------------------------------------------------------
(* With one slot the handlers implement CaseLifecycle: a request takes its *)
(* effect when it updates the row (or a child row, or the seal).  A new    *)
(* seal on the assessment takes effect with the status change that follows *)
(* it, and the history row counts as written once the row is updated.      *)

Completing == \E r \in Slots : req[r].sealing /\ req[r].pc # "log"

LastAuthor ==
    IF \E r \in Slots : req[r].pc = "log"
    THEN LET q == req[CHOOSE r \in Slots : req[r].pc = "log"]
         IN  [role |-> q.role, kind |-> Kind(q.name)]
    ELSE [role |-> last.role, kind |-> last.kind]

Lifecycle == INSTANCE CaseLifecycle
    WITH seals <- IF Completing THEN seals \ {"assessment"} ELSE seals,
         last <- LastAuthor, seen <- done,
         Categories <- AllCategories, Decisions <- DecisionSteps, Overrides <- Statuses

\* Requests served one at a time do to the case what the atomic requests of
\* CaseLifecycle do to it, nothing else.
ImplementsLifecycle == Lifecycle!Spec

-----------------------------------------------------------------------------
(* Properties *)

Requests == [pc: Points, name: {op[1] : op \in AllOps} \cup {"none"},
             arg: {op[2] : op \in AllOps} \cup {"none"}, role: Roles,
             snap: CaseRows, want: CaseRows, base: CaseRows, sealing: BOOLEAN]

TypeOK ==
    /\ row \in CaseRows
    /\ file \in CaseFiles
    /\ seals \subseteq KnownSteps
    /\ last \in [to: Statuses, role: Roles, kind: {"standard", "override"}]
    /\ seen \subseteq Marks /\ done \subseteq Marks
    /\ req \in [Slots -> Requests]

\* Two pairs of eyes, however requests interleave and wherever they die: no
\* status of service delivery is ever in the row without an admin having
\* activated or overridden the case (the role is checked against the very
\* entity that is saved, and a stale save only puts back a status that was
\* there).
DeliveryIsAuthorised ==
    /\ row.status \in {"active", "transitioning"} =>
         done \cap {"activated", "overridden"} # {}
    /\ row.status \in {"closed", "aftercare"} => done # {}

\* The history never shows more than happened.
HistoryIsHonest == seen \subseteq done

\* A seal refuses every write to its step's data: its work stays on record.
SealedWorkStays == \A step \in seals : Recorded(step, row, file)

Quiet == \A r \in Slots : req[r].pc = "idle"

\* `case_history` is the transition trail: between requests, its newest row
\* names the status the case is in.
TrailReachesStatus == Quiet => last.to = row.status

\* The lifecycle moves forward only: a status is left for the next one, unless
\* the case is rejected or its status overridden.
StatusFollowsLifecycle ==
    [][row'.status # row.status =>
         \/ row'.status \in NextStatus[row.status]
         \/ row'.status = "closed" /\ row.status \in Rejectable
         \/ "overridden" \in done']_vars

\* Sealing the assessment is completing it: the case leaves `enrolled`.
SealedAssessmentMovesOn == "assessment" \in seals ~> row.status # "enrolled"

=============================================================================
