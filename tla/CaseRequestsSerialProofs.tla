---------------------- MODULE CaseRequestsSerialProofs ----------------------
(***************************************************************************)
(* What the handlers of a case keep when requests are served one at a      *)
(* time, for any operations clients send, and that the handlers then       *)
(* implement CaseLifecycle.  With two in flight none of it holds: a stale  *)
(* save puts columns back, and a seal misses what was written between its  *)
(* check and its insert.                                                   *)
(***************************************************************************)
EXTENDS CaseRequestsProofs

OneByOne == \A r, s \in Slots : r = s

\* The entity in hand is the row, edited by an operation that accepted it.
InStep(q) ==
    q.pc \in {"check", "save", "update"} =>
        /\ q.snap = row
        /\ q.want = Edited(q.name, q.arg, row)
        /\ Accepts(q.name, q.arg, q.role, row)
        /\ q.pc = "update" => q.base = row

\* The seal the route asked about is still not there, and the work about to be
\* sealed is still on record.
Guarded(q) ==
    /\ q.pc # "idle" => GuardStep(q.name, q.arg) \notin seals
    /\ q.pc \in {"seal", "advance"} => q.name = "lock"
    /\ q.pc = "seal" => Recorded(q.arg, row, file)

SerialInv ==
    /\ IInv
    /\ \A r \in Slots : InStep(req[r]) /\ Guarded(req[r])
    /\ SealedWorkStays

\* The history names the status of the row, or its row is still to be written.
TrailInv ==
    \/ /\ \A r \in Slots : req[r].pc # "log"
       /\ last.to = row.status
    \/ \E r \in Slots : req[r].pc = "log" /\ req[r].want.status = row.status

-----------------------------------------------------------------------------
(* Operators *)

LEMMA GuardStepTyped ==
    /\ "none" \notin KnownSteps
    /\ \A arg : /\ GuardStep("lock", arg) = "none"
                /\ GuardStep("transition", arg) = "none"
                /\ GuardStep("review", arg) = "none"
BY DEF KnownSteps, CommonSteps, DataSteps, GuardStep

\* A row that keeps the columns of the step keeps its work.
LEMMA ColumnsKeepWork ==
    ASSUME NEW c, NEW step, Recorded(step, row, file),
           step = "assessment" => c.assessment = row.assessment \/ c.assessment # "none",
           step \in row.notNeeded => step \in c.notNeeded,
           step \in row.stepData => step \in c.stepData,
           step = "evaluate" => c.plan = row.plan,
           c.outcome = row.outcome \/ c.outcome = TRUE
    PROVE  Recorded(step, c, file)
BY DEF Recorded, Assessed

\* An operation leaves the work of every step on record but the one its route
\* asks about.
LEMMA EditedKeepsWork ==
    ASSUME NEW name, NEW arg, <<name, arg>> \in AllOps, row \in CaseRows,
           NEW step \in KnownSteps, step # GuardStep(name, arg),
           Recorded(step, row, file)
    PROVE  Recorded(step, Edited(name, arg, row), file)
<1> DEFINE c == Edited(name, arg, row)
<1>1. CASE name \in {"transition", "override", "review"}
  <2>1. c = [row EXCEPT !.status = arg]
    BY <1>1 DEF Edited
  <2>2. /\ c.assessment = row.assessment /\ c.notNeeded = row.notNeeded
        /\ c.stepData = row.stepData /\ c.plan = row.plan /\ c.outcome = row.outcome
    BY <2>1 DEF CaseRows
  <2> QED BY <2>2, ColumnsKeepWork
<1>2. CASE name \in {"reject", "closure"}
  <2>1. c \in {[row EXCEPT !.status = "closed", !.outcome = TRUE],
               [row EXCEPT !.outcome = TRUE]}
    BY <1>2 DEF Edited
  <2>2. /\ c.assessment = row.assessment /\ c.notNeeded = row.notNeeded
        /\ c.stepData = row.stepData /\ c.plan = row.plan /\ c.outcome = TRUE
    BY <2>1 DEF CaseRows
  <2> QED BY <2>2, ColumnsKeepWork
<1>3. CASE name = "assess"
  <2>1. c = [row EXCEPT !.assessment = arg] /\ arg # "none"
    BY <1>3, ArgsTyped DEF Edited, AllCategories
  <2>2. /\ c.assessment # "none" /\ c.notNeeded = row.notNeeded
        /\ c.stepData = row.stepData /\ c.plan = row.plan /\ c.outcome = row.outcome
    BY <2>1 DEF CaseRows
  <2> QED BY <2>2, ColumnsKeepWork
<1>4. CASE name = "plan"
  <2>1. c = [row EXCEPT !.plan = (arg = "yes")] /\ step # "evaluate"
    BY <1>4 DEF Edited, GuardStep
  <2>2. /\ c.assessment = row.assessment /\ c.notNeeded = row.notNeeded
        /\ c.stepData = row.stepData /\ c.outcome = row.outcome
    BY <2>1 DEF CaseRows
  <2> QED BY <2>1, <2>2, ColumnsKeepWork
<1>5. CASE name \in {"need", "waive"}
  <2>1. c \in {[row EXCEPT !.notNeeded = @ \ {arg}], [row EXCEPT !.notNeeded = @ \cup {arg}]}
    BY <1>5 DEF Edited
  <2>2. step # arg
    BY <1>5 DEF GuardStep
  <2>3. /\ c.assessment = row.assessment /\ (step \in row.notNeeded => step \in c.notNeeded)
        /\ c.stepData = row.stepData /\ c.plan = row.plan /\ c.outcome = row.outcome
    BY <2>1, <2>2 DEF CaseRows
  <2> QED BY <2>3, ColumnsKeepWork
<1>6. CASE name = "category_step"
  <2>1. c = [row EXCEPT !.stepData = @ \cup {arg}]
    BY <1>6 DEF Edited
  <2>2. /\ c.assessment = row.assessment /\ c.notNeeded = row.notNeeded
        /\ row.stepData \subseteq c.stepData /\ c.plan = row.plan /\ c.outcome = row.outcome
    BY <2>1 DEF CaseRows
  <2> QED BY <2>2, ColumnsKeepWork
<1>7. CASE name \notin {"transition", "override", "review", "reject", "assess", "plan",
                        "need", "waive", "category_step", "closure"}
  <2>1. c = row
    BY <1>7 DEF Edited
  <2> QED BY <2>1
<1> QED BY <1>1, <1>2, <1>3, <1>4, <1>5, <1>6, <1>7

\* Saving an entity over the row it was loaded from leaves the entity.
LEMMA MergeIsWant ==
    ASSUME NEW want \in CaseRows, NEW now \in CaseRows
    PROVE  MergeRow(want, now, now) = want
<1>1. \A w, n : MergeColumn(w, n, n) = w
  BY DEF MergeColumn
<1>2. ASSUME NEW w, NEW n PROVE MergeFlags(w, n, n) = w
  BY DEF MergeFlags
<1>3. want = [status |-> want.status, assessment |-> want.assessment,
              notNeeded |-> want.notNeeded, stepData |-> want.stepData,
              plan |-> want.plan, outcome |-> want.outcome]
  BY DEF CaseRows
<1> QED BY <1>1, <1>2, <1>3 DEF MergeRow

-----------------------------------------------------------------------------
(* Seals: steps *)

\* A step that leaves the case as it is, with the only request going on.
LEMMA SerialMove ==
    ASSUME OneByOne, SerialInv, IInv', NEW r \in Slots, NEW q,
           InStep(q), Guarded(q),
           req' = [req EXCEPT ![r] = q], UNCHANGED <<row, file, seals>>
    PROVE  SerialInv'
<1>1. req'[r] = q /\ \A s \in Slots : s = r
  BY DEF OneByOne, SerialInv, IInv, RequestsSound
<1>2. \A s \in Slots : InStep(req[s])' /\ Guarded(req[s])'
  BY <1>1 DEF InStep, Guarded
<1> QED BY <1>2 DEF SerialInv, SealedWorkStays

LEMMA IdleSerial == InStep(Idle) /\ Guarded(Idle)
BY DEF InStep, Guarded, Idle

\* A step that ends the only request, having changed the case.
LEMMA SerialEnd ==
    ASSUME OneByOne, SerialInv, IInv', NEW r \in Slots,
           req' = [req EXCEPT ![r] = Idle], SealedWorkStays'
    PROVE  SerialInv'
<1>1. req'[r] = Idle /\ \A s \in Slots : s = r
  BY DEF OneByOne, SerialInv, IInv, RequestsSound
<1>2. \A s \in Slots : InStep(req[s])' /\ Guarded(req[s])'
  BY <1>1 DEF InStep, Guarded, Idle
<1> QED BY <1>2 DEF SerialInv

\* What the request in the slot is known to be.
LEMMA TheRequest ==
    ASSUME SerialInv, NEW r \in Slots
    PROVE  /\ req[r] \in Requests /\ InStep(req[r]) /\ Guarded(req[r])
           /\ req[r].pc # "idle" => <<req[r].name, req[r].arg>> \in AllOps
           /\ req[r].pc = "seal" => req[r].arg \in KnownSteps
           /\ req[r].pc = "check" => req[r].name \in {"transition", "lock"}
           /\ req[r].pc = "write" => req[r].name \in FileOps
           /\ row \in CaseRows /\ file \in CaseFiles /\ seals \subseteq KnownSteps
BY DEF SerialInv, IInv, RequestsSound, Sound, WellFormed, CaseTyped

LEMMA BeginSerial ==
    ASSUME OneByOne, SerialInv, IInv', NEW r \in Slots, NEW op \in Ops, NEW role \in Roles,
           Begin(r, op[1], op[2], role)
    PROVE  SerialInv'
<1> DEFINE pc == CASE op[1] \in FileOps -> "write"
                   [] op[1] = "unlock"  -> "unseal"
                   [] OTHER             -> "load"
           q == [Idle EXCEPT !.name = op[1], !.arg = op[2], !.role = role, !.pc = pc]
<1>1. pc \in {"write", "unseal", "load"}
  BY DEF FileOps
<1>2. GuardStep(op[1], op[2]) \notin seals
  BY DEF Begin
<1>3. q.pc = pc /\ q.name = op[1] /\ q.arg = op[2]
  BY DEF Idle
<1>4. InStep(q) /\ Guarded(q)
  <2> HIDE DEF q, pc
  <2> QED BY <1>1, <1>2, <1>3 DEF InStep, Guarded
<1>5. req' = [req EXCEPT ![r] = q] /\ UNCHANGED <<row, file, seals>>
  BY DEF Begin
<1> HIDE DEF q
<1> QED BY <1>4, <1>5, SerialMove

LEMMA LoadSerial ==
    ASSUME OneByOne, SerialInv, IInv', NEW r \in Slots, Load(r)
    PROVE  SerialInv'
<1> DEFINE q == req[r]
           q2 == [q EXCEPT !.snap = row, !.want = Edited(q.name, q.arg, row),
                    !.pc = IF q.name \in {"transition", "lock"} THEN "check" ELSE "save"]
<1>1. q.pc = "load" /\ UNCHANGED <<row, file, seals>>
  BY DEF Load
<1>2. q \in Requests /\ Guarded(q)
  BY TheRequest
<1>3. CASE ~Accepts(q.name, q.arg, q.role, row)
  <2>1. req' = [req EXCEPT ![r] = Idle]
    BY <1>3 DEF Load
  <2> QED BY <1>1, <2>1, IdleSerial, SerialMove
<1>4. CASE Accepts(q.name, q.arg, q.role, row)
  <2>1. req' = [req EXCEPT ![r] = q2]
    BY <1>4 DEF Load
  <2>2. /\ q2.name = q.name /\ q2.arg = q.arg /\ q2.role = q.role
        /\ q2.snap = row /\ q2.want = Edited(q.name, q.arg, row)
        /\ q2.pc \in {"check", "save"}
    BY <1>2 DEF Requests
  <2>3. InStep(q2) /\ Guarded(q2)
    <3> HIDE DEF q, q2
    <3> QED BY <1>1, <1>2, <1>4, <2>2 DEF InStep, Guarded
  <2> QED BY <1>1, <2>1, <2>3, SerialMove
<1> QED BY <1>3, <1>4

\* What is about to be sealed has been found on record a moment ago.
LEMMA CheckSerial ==
    ASSUME OneByOne, SerialInv, IInv', NEW r \in Slots, Check(r)
    PROVE  SerialInv'
<1> DEFINE q == req[r]
           q2 == [q EXCEPT !.pc = IF q.name = "lock" THEN "seal" ELSE "save"]
<1>1. q.pc = "check" /\ UNCHANGED <<row, file, seals>>
  BY DEF Check
<1>2. q \in Requests /\ InStep(q) /\ Guarded(q)
  BY TheRequest
<1>3. CASE req' = [req EXCEPT ![r] = Idle]
  BY <1>1, <1>3, IdleSerial, SerialMove
<1>4. CASE req' # [req EXCEPT ![r] = Idle]
  <2>1. req' = [req EXCEPT ![r] = q2]
    BY <1>4 DEF Check
  <2>2. q.name = "lock" => StepDone(q.arg, q.snap, file)
    BY <1>4 DEF Check
  <2>3. /\ q2.name = q.name /\ q2.arg = q.arg /\ q2.role = q.role
        /\ q2.snap = q.snap /\ q2.want = q.want
        /\ q2.pc = IF q.name = "lock" THEN "seal" ELSE "save"
    BY <1>2 DEF Requests
  <2>4. InStep(q2) /\ Guarded(q2)
    <3> HIDE DEF q, q2
    <3> QED BY <1>1, <1>2, <2>2, <2>3 DEF InStep, Guarded, StepDone
  <2> QED BY <1>1, <2>1, <2>4, SerialMove
<1> QED BY <1>3, <1>4

LEMMA CompareSerial ==
    ASSUME OneByOne, SerialInv, IInv', NEW r \in Slots, Compare(r)
    PROVE  SerialInv'
<1> DEFINE q == req[r]
           q2 == [q EXCEPT !.pc = "update", !.base = row]
<1>1. q.pc = "save" /\ UNCHANGED <<row, file, seals>> /\ req' = [req EXCEPT ![r] = q2]
  BY DEF Compare, SerialInv, IInv, RequestsSound
<1>2. q \in Requests /\ InStep(q) /\ Guarded(q)
  BY TheRequest
<1>3. /\ q2.name = q.name /\ q2.arg = q.arg /\ q2.role = q.role
      /\ q2.snap = q.snap /\ q2.want = q.want /\ q2.base = row /\ q2.pc = "update"
  BY <1>2 DEF Requests
<1>4. InStep(q2) /\ Guarded(q2)
  <2> HIDE DEF q, q2
  <2> QED BY <1>1, <1>2, <1>3 DEF InStep, Guarded
<1> QED BY <1>1, <1>4, SerialMove

\* With nobody else at the row, the update writes the entity as it was edited.
LEMMA UpdateWrites ==
    ASSUME SerialInv, NEW r \in Slots, Update(r)
    PROVE  row' = Edited(req[r].name, req[r].arg, row)
<1> DEFINE q == req[r]
<1>1. q.pc = "update" /\ row' = MergeRow(q.want, q.base, row)
  BY DEF Update
<1>2. q.want \in CaseRows /\ row \in CaseRows /\ q.base = row
      /\ q.want = Edited(q.name, q.arg, row)
  BY <1>1, TheRequest DEF Requests, InStep
<1> QED BY <1>1, <1>2, MergeIsWant

LEMMA UpdateSerial ==
    ASSUME OneByOne, SerialInv, IInv', NEW r \in Slots, Update(r)
    PROVE  SerialInv'
<1> DEFINE q == req[r]
           q2 == [q EXCEPT !.pc = "log", !.base = InitialRow]
<1>1. q.pc = "update" /\ UNCHANGED <<file, seals>>
  BY DEF Update
<1>2. /\ q \in Requests /\ Guarded(q) /\ <<q.name, q.arg>> \in AllOps
      /\ row \in CaseRows /\ seals \subseteq KnownSteps
  BY <1>1, TheRequest
<1>3. SealedWorkStays'
  <2> SUFFICES ASSUME NEW step \in seals PROVE Recorded(step, row, file)'
    BY <1>1 DEF SealedWorkStays
  <2>1. step # GuardStep(q.name, q.arg) /\ Recorded(step, row, file)
    BY <1>1, <1>2 DEF Guarded, SerialInv, SealedWorkStays
  <2>2. Recorded(step, Edited(q.name, q.arg, row), file)
    BY <1>2, <2>1, EditedKeepsWork
  <2> QED BY <1>1, <2>2, UpdateWrites DEF Recorded, Assessed
<1>4. CASE req' = [req EXCEPT ![r] = Idle]
  BY <1>3, <1>4, SerialEnd
<1>5. CASE req' = [req EXCEPT ![r] = q2]
  <2>1. req'[r] = q2 /\ \A s \in Slots : s = r
    BY <1>5 DEF OneByOne, SerialInv, IInv, RequestsSound
  <2>2. q2.pc = "log" /\ q2.name = q.name /\ q2.arg = q.arg
    BY <1>2 DEF Requests
  <2>3. \A s \in Slots : InStep(req[s])' /\ Guarded(req[s])'
    <3> HIDE DEF q2
    <3> QED BY <1>1, <1>2, <2>1, <2>2 DEF InStep, Guarded
  <2> QED BY <1>3, <2>3 DEF SerialInv
<1>6. req' = [req EXCEPT ![r] = Idle] \/ req' = [req EXCEPT ![r] = q2]
  BY DEF Update, SerialInv, IInv, RequestsSound
<1> QED BY <1>4, <1>5, <1>6

LEMMA SealSerial ==
    ASSUME OneByOne, SerialInv, IInv', NEW r \in Slots, Seal(r)
    PROVE  SerialInv'
<1> DEFINE q == req[r]
           q2 == [q EXCEPT !.pc = "advance", !.sealing = q.arg \notin seals]
<1>1. q.pc = "seal" /\ UNCHANGED <<row, file>> /\ seals' = seals \cup {q.arg}
  BY DEF Seal
<1>2. /\ q \in Requests /\ Guarded(q) /\ q.arg \in KnownSteps /\ q.name = "lock"
      /\ seals \subseteq KnownSteps /\ Recorded(q.arg, row, file)
  BY <1>1, TheRequest DEF Guarded
<1>3. SealedWorkStays'
  BY <1>1, <1>2 DEF SerialInv, SealedWorkStays, Recorded, Assessed
<1>4. CASE req' = [req EXCEPT ![r] = Idle]
  BY <1>3, <1>4, SerialEnd
<1>5. CASE req' = [req EXCEPT ![r] = q2]
  <2>1. req'[r] = q2 /\ \A s \in Slots : s = r
    BY <1>5 DEF OneByOne, SerialInv, IInv, RequestsSound
  <2>2. q2.pc = "advance" /\ q2.name = "lock" /\ q2.arg = q.arg
    BY <1>2 DEF Requests
  <2>3. GuardStep(q2.name, q2.arg) \notin seals'
    BY <1>1, <1>2, <2>2, GuardStepTyped
  <2>4. \A s \in Slots : InStep(req[s])' /\ Guarded(req[s])'
    <3> HIDE DEF q2
    <3> QED BY <1>1, <2>1, <2>2, <2>3 DEF InStep, Guarded
  <2> QED BY <1>3, <2>4 DEF SerialInv
<1>6. req' = [req EXCEPT ![r] = Idle] \/ req' = [req EXCEPT ![r] = q2]
  BY DEF Seal
<1> QED BY <1>4, <1>5, <1>6

LEMMA AdvanceSerial ==
    ASSUME OneByOne, SerialInv, IInv', NEW r \in Slots, Advance(r)
    PROVE  SerialInv'
<1> DEFINE q == req[r]
           name == IF q.role = "admin" THEN "transition" ELSE "review"
           q2 == [q EXCEPT !.pc = "load", !.arg = "assessed", !.name = name]
<1>1. UNCHANGED <<row, file, seals>>
  BY DEF Advance
<1>2. q \in Requests /\ seals \subseteq KnownSteps
  BY TheRequest
<1>3. q2.pc = "load" /\ q2.name \in {"transition", "review"}
  BY <1>2 DEF Requests
<1>4. InStep(q2) /\ Guarded(q2)
  <2> HIDE DEF q2
  <2> QED BY <1>2, <1>3, GuardStepTyped DEF InStep, Guarded
<1>5. PICK q3 \in {Idle, q2} : req' = [req EXCEPT ![r] = q3]
  BY DEF Advance
<1> QED BY <1>1, <1>4, <1>5, IdleSerial, SerialMove

LEMMA UnsealSerial ==
    ASSUME OneByOne, SerialInv, IInv', NEW r \in Slots, Unseal(r)
    PROVE  SerialInv'
<1>1. SealedWorkStays'
  BY DEF Unseal, SerialInv, SealedWorkStays, Recorded, Assessed
<1> QED BY <1>1, SerialEnd DEF Unseal

\* A child row is written behind a seal only where its step does not count it.
LEMMA WriteRowSerial ==
    ASSUME OneByOne, SerialInv, IInv', NEW r \in Slots, WriteRow(r)
    PROVE  SerialInv'
<1> DEFINE q == req[r]
<1>1. /\ q.pc = "write" /\ file' = Written(q.name, q.arg)
      /\ UNCHANGED <<row, seals>> /\ req' = [req EXCEPT ![r] = Idle]
  BY DEF WriteRow
<1>2. q.name \in FileOps /\ Guarded(q) /\ file \in CaseFiles
  BY <1>1, TheRequest
<1>3. ASSUME NEW step \in seals PROVE Recorded(step, row, file')
  <2>1. step # GuardStep(q.name, q.arg) /\ Recorded(step, row, file)
    BY <1>1, <1>2, <1>3 DEF Guarded, SerialInv, SealedWorkStays
  <2>2. CASE q.name = "log_intervention"
    <3>1. file' = [file EXCEPT !.interventions = @ \cup {q.arg}]
      BY <1>1, <2>2 DEF Written
    <3>2. /\ file'.enrollments = file.enrollments /\ file'.interventions # {}
          /\ file'.referrals = file.referrals /\ file'.hearings = file.hearings
      BY <1>2, <3>1 DEF CaseFiles
    <3> QED BY <2>1, <3>2 DEF Recorded
  <2>3. CASE q.name = "remove_intervention"
    <3>1. file' = [file EXCEPT !.interventions = @ \ {q.arg}] /\ step # "interventions"
      BY <1>1, <2>1, <2>3 DEF Written, GuardStep
    <3>2. /\ file'.enrollments = file.enrollments
          /\ file'.referrals = file.referrals /\ file'.hearings = file.hearings
      BY <1>2, <3>1 DEF CaseFiles
    <3> QED BY <2>1, <3>1, <3>2 DEF Recorded
  <2>4. CASE q.name = "issue_referral"
    <3>1. file' \in {file, [file EXCEPT !.referrals = @ + 1]}
      BY <1>1, <2>4 DEF Written
    <3>2. /\ file'.enrollments = file.enrollments /\ file'.interventions = file.interventions
          /\ (file.referrals > 0 => file'.referrals > 0) /\ file'.hearings = file.hearings
      BY <1>2, <3>1 DEF CaseFiles
    <3> QED BY <2>1, <3>2 DEF Recorded
  <2>5. CASE q.name = "revoke_referral"
    <3>1. /\ file' \in {file, [file EXCEPT !.referrals = @ - 1]}
          /\ step # "referrals"
      BY <1>1, <2>1, <2>5 DEF Written, GuardStep
    <3>2. /\ file'.enrollments = file.enrollments /\ file'.interventions = file.interventions
          /\ file'.hearings = file.hearings
      BY <1>2, <3>1 DEF CaseFiles
    <3> QED BY <2>1, <3>1, <3>2 DEF Recorded
  <2> QED BY <1>2, <2>2, <2>3, <2>4, <2>5 DEF FileOps
<1>4. SealedWorkStays'
  BY <1>1, <1>3 DEF SealedWorkStays, Recorded, Assessed
<1> QED BY <1>1, <1>4, SerialEnd

LEMMA SerialInit == Init => SerialInv
<1> SUFFICES ASSUME Init PROVE SerialInv
  OBVIOUS
<1>1. \A r \in Slots : InStep(req[r]) /\ Guarded(req[r])
  BY IdleSerial DEF Init
<1> QED BY <1>1, InitHolds DEF Init, SerialInv, SealedWorkStays

LEMMA SerialNext == ASSUME OneByOne PROVE SerialInv /\ [Next]_vars => SerialInv'
<1> SUFFICES ASSUME SerialInv, [Next]_vars PROVE SerialInv'
  OBVIOUS
<1>0. IInv'
  BY NextHolds DEF SerialInv
<1>1. ASSUME NEW r \in Slots, Proceed(r) PROVE SerialInv'
  <2>1. CASE Log(r)
    BY <1>0, <2>1, IdleSerial, SerialMove DEF Log
  <2> QED BY <1>0, <1>1, <2>1, LoadSerial, CheckSerial, CompareSerial, UpdateSerial,
             SealSerial, AdvanceSerial, UnsealSerial, WriteRowSerial DEF Proceed
<1>2. ASSUME NEW r \in Slots, Fail(r) PROVE SerialInv'
  BY <1>0, <1>2, IdleSerial, SerialMove DEF Fail
<1>3. CASE UNCHANGED vars
  BY <1>0, <1>3 DEF vars, SerialInv, InStep, Guarded, SealedWorkStays, Recorded, Assessed
<1> QED BY <1>0, <1>1, <1>2, <1>3, BeginSerial DEF Next

LEMMA SerialHolds == ASSUME OneByOne PROVE Spec => []SerialInv
BY SerialInit, SerialNext, PTL DEF Spec

-----------------------------------------------------------------------------
(* What it gives *)

\* Served one at a time, a seal refuses every write to its step's data: the
\* work it stands for stays on record, also when requests die.
THEOREM SealedStays == ASSUME OneByOne PROVE Spec => []SealedWorkStays
<1>1. SerialInv => SealedWorkStays
  BY DEF SerialInv
<1> QED BY <1>1, SerialHolds, PTL

\* The status an update changes is the one its operation asked for.
LEMMA StatusStep ==
    ASSUME SerialInv, NEW r \in Slots, Update(r), row'.status # row.status
    PROVE  \/ row'.status \in NextStatus[row.status]
           \/ row'.status = "closed" /\ row.status \in Rejectable
           \/ "overridden" \in done'
<1> DEFINE q == req[r]
<1>1. /\ q.pc = "update" /\ <<q.name, q.arg>> \in AllOps /\ row \in CaseRows
      /\ Accepts(q.name, q.arg, q.role, row)
  BY TheRequest DEF Update, InStep
<1>2. row' = Edited(q.name, q.arg, row)
  BY UpdateWrites
<1>3. q.name \in StatusOps
  BY <1>1, <1>2, EditedTyped
<1>4. CASE q.name = "transition"
  BY <1>1, <1>2, <1>4, EditedTyped DEF Accepts
<1>5. CASE q.name = "override"
  BY <1>5 DEF Update, StatusOps, MarksOfRequest, MarksOf, Kind
<1>6. CASE q.name = "review"
  <2>1. row'.status = "assessed" /\ row.status = "enrolled"
    BY <1>1, <1>2, <1>6, EditedTyped, ArgsTyped DEF Accepts
  <2> QED BY <2>1 DEF NextStatus
<1>7. CASE q.name = "reject"
  BY <1>1, <1>2, <1>7, EditedTyped DEF Accepts
<1> QED BY <1>3, <1>4, <1>5, <1>6, <1>7 DEF StatusOps

\* Served one at a time, a case moves along the lifecycle, is rejected, or is
\* overridden; no save of other columns moves it.
THEOREM StatusFollows == ASSUME OneByOne PROVE Spec => StatusFollowsLifecycle
<1>1. SerialInv /\ [Next]_vars =>
        [row'.status # row.status =>
           \/ row'.status \in NextStatus[row.status]
           \/ row'.status = "closed" /\ row.status \in Rejectable
           \/ "overridden" \in done']_vars
  <2> SUFFICES ASSUME SerialInv, [Next]_vars, row'.status # row.status
               PROVE  \/ row'.status \in NextStatus[row.status]
                      \/ row'.status = "closed" /\ row.status \in Rejectable
                      \/ "overridden" \in done'
    OBVIOUS
  <2>1. PICK r \in Slots : Update(r)
    BY DEF Next, Begin, Proceed, Load, Check, Compare, Log, Seal, Advance, Unseal,
           WriteRow, Fail, vars
  <2> QED BY <2>1, StatusStep
<1> QED BY <1>1, SerialHolds, PTL DEF Spec, StatusFollowsLifecycle

\* A request that begins, goes on without having changed the status, or ends,
\* leaves the trail as it is.
LEMMA TrailMove ==
    ASSUME OneByOne, SerialInv, TrailInv, NEW r \in Slots, NEW q, req[r].pc # "log",
           q.pc # "log", req' = [req EXCEPT ![r] = q], row'.status = row.status,
           UNCHANGED last
    PROVE  TrailInv'
<1>1. req'[r] = q /\ \A s \in Slots : s = r
  BY DEF OneByOne, SerialInv, IInv, RequestsSound
<1> QED BY <1>1 DEF TrailInv

LEMMA TrailKeeps ==
    ASSUME OneByOne, ~Failures
    PROVE  SerialInv /\ TrailInv /\ [Next]_vars => TrailInv'
<1> SUFFICES ASSUME SerialInv, TrailInv, [Next]_vars PROVE TrailInv'
  OBVIOUS
<1>0. Idle.pc = "idle"
  BY DEF Idle
<1>1. ASSUME NEW r \in Slots, NEW op \in Ops, NEW role \in Roles, Begin(r, op[1], op[2], role)
      PROVE  TrailInv'
  <2> DEFINE pc == CASE op[1] \in FileOps -> "write"
                     [] op[1] = "unlock"  -> "unseal"
                     [] OTHER             -> "load"
             q == [Idle EXCEPT !.name = op[1], !.arg = op[2], !.role = role, !.pc = pc]
  <2>1. req' = [req EXCEPT ![r] = q] /\ req[r].pc = "idle" /\ UNCHANGED <<row, last>>
    BY <1>1 DEF Begin
  <2>2. q.pc # "log"
    BY DEF Idle, FileOps
  <2> HIDE DEF q
  <2> QED BY <2>1, <2>2, TrailMove
<1>2. ASSUME NEW r \in Slots, Load(r) \/ Check(r) \/ Compare(r) \/ Seal(r) \/ Advance(r)
      PROVE  TrailInv'
  <2>1. req[r] \in Requests
    BY TheRequest
  <2>2. \A pc \in Points : [req[r] EXCEPT !.pc = pc].pc = pc
    BY <2>1 DEF Requests
  <2>3. PICK q : q.pc # "log" /\ req' = [req EXCEPT ![r] = q]
    <3>1. CASE Load(r)
      <4> DEFINE q2 == [req[r] EXCEPT !.snap = row,
                          !.want = Edited(req[r].name, req[r].arg, row),
                          !.pc = IF req[r].name \in {"transition", "lock"} THEN "check"
                                 ELSE "save"]
      <4>1. q2.pc # "log"
        BY <2>1 DEF Requests
      <4>2. req' = [req EXCEPT ![r] = Idle] \/ req' = [req EXCEPT ![r] = q2]
        BY <3>1 DEF Load
      <4> QED BY <1>0, <4>1, <4>2
    <3>2. CASE Check(r)
      <4> DEFINE q2 == [req[r] EXCEPT !.pc = IF req[r].name = "lock" THEN "seal" ELSE "save"]
      <4>1. q2.pc # "log"
        BY <2>1 DEF Requests
      <4>2. req' = [req EXCEPT ![r] = Idle] \/ req' = [req EXCEPT ![r] = q2]
        BY <3>2 DEF Check
      <4> QED BY <1>0, <4>1, <4>2
    <3>3. CASE Compare(r)
      <4> DEFINE q2 == [req[r] EXCEPT !.pc = "update", !.base = row]
      <4>1. q2.pc # "log" /\ req' = [req EXCEPT ![r] = q2]
        BY <2>1, <3>3 DEF Requests, Compare, SerialInv, IInv, RequestsSound
      <4> QED BY <4>1
    <3>4. CASE Seal(r)
      <4> DEFINE q2 == [req[r] EXCEPT !.pc = "advance", !.sealing = req[r].arg \notin seals]
      <4>1. q2.pc # "log"
        BY <2>1 DEF Requests
      <4>2. req' = [req EXCEPT ![r] = Idle] \/ req' = [req EXCEPT ![r] = q2]
        BY <3>4 DEF Seal
      <4> QED BY <1>0, <4>1, <4>2
    <3>5. CASE Advance(r)
      <4> DEFINE q2 == [req[r] EXCEPT !.pc = "load", !.arg = "assessed",
                          !.name = IF req[r].role = "admin" THEN "transition" ELSE "review"]
      <4>1. q2.pc # "log"
        BY <2>1 DEF Requests
      <4>2. req' = [req EXCEPT ![r] = Idle] \/ req' = [req EXCEPT ![r] = q2]
        BY <3>5 DEF Advance
      <4> QED BY <1>0, <4>1, <4>2
    <3> QED BY <1>2, <3>1, <3>2, <3>3, <3>4, <3>5
  <2>4. req[r].pc # "log" /\ UNCHANGED <<row, last>>
    BY <1>2 DEF Load, Check, Compare, Seal, Advance
  <2> QED BY <2>3, <2>4, TrailMove
<1>3. ASSUME NEW r \in Slots, Unseal(r) \/ WriteRow(r) PROVE TrailInv'
  BY <1>0, <1>3, TrailMove DEF Unseal, WriteRow
<1>4. ASSUME NEW r \in Slots, Update(r) PROVE TrailInv'
  <2> DEFINE q == req[r]
             q2 == [q EXCEPT !.pc = "log", !.base = InitialRow]
  <2>1. /\ q.pc = "update" /\ q \in Requests /\ <<q.name, q.arg>> \in AllOps
        /\ q.want = Edited(q.name, q.arg, row) /\ row \in CaseRows
    BY <1>4, TheRequest DEF Update, InStep
  <2>2. row' = q.want
    BY <1>4, <2>1, UpdateWrites
  <2>3. CASE q.name \in StatusOps
    <3>1. req' = [req EXCEPT ![r] = q2]
      BY <1>4, <2>3 DEF Update, SerialInv, IInv, RequestsSound
    <3>2. req'[r] = q2
      BY <3>1 DEF SerialInv, IInv, RequestsSound
    <3>3. q2.pc = "log" /\ q2.want = q.want
      BY <2>1 DEF Requests
    <3> QED BY <2>2, <3>2, <3>3 DEF TrailInv
  <2>4. CASE q.name \notin StatusOps
    <3>1. row'.status = row.status
      BY <2>1, <2>2, <2>4, EditedTyped
    <3>2. req' = [req EXCEPT ![r] = Idle] /\ UNCHANGED last
      BY <1>4, <2>4 DEF Update
    <3> QED BY <1>0, <2>1, <3>1, <3>2, TrailMove
  <2> QED BY <2>3, <2>4
<1>5. ASSUME NEW r \in Slots, Log(r) PROVE TrailInv'
  <2>1. /\ req[r].pc = "log" /\ last'.to = req[r].want.status /\ row' = row
        /\ req' = [req EXCEPT ![r] = Idle]
    BY <1>5 DEF Log
  <2>2. req'[r] = Idle /\ \A s \in Slots : s = r
    BY <2>1 DEF OneByOne, SerialInv, IInv, RequestsSound
  <2>3. req[r].want.status = row.status
    BY <2>1, <2>2 DEF TrailInv
  <2> QED BY <1>0, <2>1, <2>2, <2>3 DEF TrailInv
<1>6. CASE UNCHANGED vars
  BY <1>6 DEF vars, TrailInv
<1>7. \A r \in Slots : ~Fail(r)
  BY DEF Fail
<1> QED BY <1>1, <1>2, <1>3, <1>4, <1>5, <1>6, <1>7 DEF Next, Proceed

\* Served one at a time and to the end, the trail reaches every status: between
\* requests its newest row names the status the case is in.
THEOREM TrailReaches == ASSUME OneByOne, ~Failures PROVE Spec => []TrailReachesStatus
<1>1. Init => TrailInv
  BY DEF Init, Idle, InitialRow, TrailInv
<1>2. TrailInv => TrailReachesStatus
  BY DEF TrailInv, TrailReachesStatus, Quiet
<1>3. SerialInv /\ TrailInv /\ [Next]_vars => TrailInv'
  BY TrailKeeps
<1> QED BY <1>1, <1>2, <1>3, SerialHolds, PTL DEF Spec

-----------------------------------------------------------------------------
(* The refinement: vocabulary *)

\* The vocabulary of the instance is the vocabulary of this module.
LEMMA SameSets ==
    /\ Lifecycle!Statuses = Statuses /\ Lifecycle!Roles = Roles
    /\ Lifecycle!KnownSteps = KnownSteps /\ Lifecycle!DataSteps = DataSteps
    /\ Lifecycle!NextStatus = NextStatus /\ Lifecycle!Rejectable = Rejectable
    /\ Lifecycle!CategoryStepsOf = CategoryStepsOf /\ Lifecycle!Position = Position
    /\ Lifecycle!DecisionSteps = DecisionSteps /\ Lifecycle!CommonSteps = CommonSteps
    /\ Lifecycle!ImplementationSteps = ImplementationSteps
    /\ Lifecycle!WorkerStatuses = WorkerStatuses
BY DEF Lifecycle!Statuses, Statuses, Lifecycle!Roles, Roles, Lifecycle!KnownSteps, KnownSteps,
       Lifecycle!DataSteps, DataSteps, Lifecycle!NextStatus, NextStatus,
       Lifecycle!Rejectable, Rejectable, Lifecycle!CategoryStepsOf, CategoryStepsOf,
       Lifecycle!Position, Position, Lifecycle!DecisionSteps, DecisionSteps,
       Lifecycle!CommonSteps, CommonSteps, Lifecycle!ImplementationSteps, ImplementationSteps,
       Lifecycle!WorkerStatuses, WorkerStatuses

LEMMA SameSteps ==
    /\ \A c : Lifecycle!StepsFor(c) = StepsFor(c)
    /\ \A s : Lifecycle!Floor(s) = Floor(s)
    /\ \A s, c, f : Lifecycle!Recorded(s, c, f) <=> Recorded(s, c, f)
    /\ \A s, f : Lifecycle!SealDocs(f, s) = SealDocs(f, s)
    /\ \A f : Lifecycle!ActivationDocs(f) = ActivationDocs(f)
    /\ \A c, r : Lifecycle!CanTransition(c, r) <=> CanTransition(c, r)
    /\ \A a, b, c, d : Lifecycle!MarksOf(a, b, c, d) = MarksOf(a, b, c, d)
<1>1. \A c : Lifecycle!StepsFor(c) = StepsFor(c)
  BY SameSets DEF Lifecycle!StepsFor, StepsFor
<1>2. \A s : Lifecycle!Floor(s) = Floor(s)
  BY DEF Lifecycle!Floor, Floor
<1>3. \A s, c, f : Lifecycle!Recorded(s, c, f) <=> Recorded(s, c, f)
  BY SameSets DEF Lifecycle!Recorded, Recorded, Lifecycle!Assessed, Assessed
<1>4. \A s, f : Lifecycle!SealDocs(f, s) = SealDocs(f, s)
  BY DEF Lifecycle!SealDocs, SealDocs
<1>5. \A f : Lifecycle!ActivationDocs(f) = ActivationDocs(f)
  BY DEF Lifecycle!ActivationDocs, ActivationDocs
<1>6. \A c, r : Lifecycle!CanTransition(c, r) <=> CanTransition(c, r)
  BY SameSets DEF Lifecycle!CanTransition, CanTransition
<1>7. \A a, b, c, d : Lifecycle!MarksOf(a, b, c, d) = MarksOf(a, b, c, d)
  BY SameSets DEF Lifecycle!MarksOf, MarksOf
<1> QED BY <1>1, <1>2, <1>3, <1>4, <1>5, <1>6, <1>7

LEMMA SameGates ==
    /\ \A s, c, f : Lifecycle!StepDone(s, c, f) <=> StepDone(s, c, f)
    /\ \A c, f, z, t, r : Lifecycle!MayTransition(c, f, z, t, r) <=> MayTransition(c, f, z, t, r)
<1>1. \A s, c, f : Lifecycle!StepDone(s, c, f) <=> StepDone(s, c, f)
  BY SameSets, SameSteps DEF Lifecycle!StepDone, StepDone, Lifecycle!Documented, Documented
<1>2. \A c, f : Lifecycle!FileAllows(c, f) <=> FileAllows(c, f)
  <2>1. \A c, f : Lifecycle!Activatable(c, f) <=> Activatable(c, f)
    BY SameSteps DEF Lifecycle!Activatable, Activatable
  <2>2. \A c, f : Lifecycle!Transitionable(c, f) <=> Transitionable(c, f)
    BY DEF Lifecycle!Transitionable, Transitionable
  <2> QED BY <2>1, <2>2 DEF Lifecycle!FileAllows, FileAllows, Lifecycle!Assessed, Assessed
<1>3. \A c, r : Lifecycle!GateSteps(c, r) = GateSteps(c, r)
  <2>1. \A a, b : Lifecycle!StepsDueAt(a, b) = StepsDueAt(a, b)
    BY SameSets, SameSteps DEF Lifecycle!StepsDueAt, StepsDueAt
  <2>2. \A c : Lifecycle!StepsInImplementation(c) = StepsInImplementation(c)
    BY SameSets, SameSteps DEF Lifecycle!StepsInImplementation, StepsInImplementation
  <2> QED BY <2>1, <2>2 DEF Lifecycle!GateSteps, GateSteps
<1> QED BY <1>1, <1>2, <1>3, SameSets, SameSteps DEF Lifecycle!MayTransition, MayTransition

-----------------------------------------------------------------------------
(* The refinement: what a request in hand means to CaseLifecycle *)

\* A new seal on the assessment waits for the status change that follows it,
\* which nothing can refuse; what the service found before it writes holds for
\* the row c, the file f and the seals z.
Mapped(q, c, f, z) ==
    /\ q.sealing =>
         /\ q.pc \in {"advance", "load", "check", "save", "update", "log"}
         /\ "assessment" \in z
         /\ q.pc \in {"load", "check", "save", "update"} =>
              /\ q.arg = "assessed" /\ c.status = "enrolled"
              /\ q.name = IF q.role = "admin" THEN "transition" ELSE "review"
    /\ q.pc = "seal" => StepDone(q.arg, c, f) /\ q.arg \in StepsFor(c.assessment)
    /\ q.pc \in {"save", "update"} /\ q.name = "transition" =>
         MayTransition(c, f, z, q.arg, q.role)
    /\ q.pc = "unseal" => q.name = "unlock"

RefInv ==
    /\ SerialInv
    /\ \A r \in Slots : Mapped(req[r], row, file, seals)
    /\ file.referrals <= MaxRows

ShownSeals == IF Completing THEN seals \ {"assessment"} ELSE seals

Maps == [Lifecycle!Next]_(Lifecycle!vars)

\* With one slot its request tells what is shown of the seals and the trail.
LEMMA Shown ==
    ASSUME OneByOne, NEW r \in Slots
    PROVE  /\ Completing <=> req[r].sealing /\ req[r].pc # "log"
           /\ Completing' <=> req'[r].sealing /\ req'[r].pc # "log"
           /\ req[r].pc = "log" =>
                LastAuthor = [role |-> req[r].role, kind |-> Kind(req[r].name)]
           /\ req[r].pc # "log" => LastAuthor = [role |-> last.role, kind |-> last.kind]
           /\ req'[r].pc = "log" =>
                LastAuthor' = [role |-> req'[r].role, kind |-> Kind(req'[r].name)]
           /\ req'[r].pc # "log" =>
                LastAuthor' = [role |-> last'.role, kind |-> last'.kind]
<1>1. \A s \in Slots : s = r
  BY DEF OneByOne
<1>2. req[r].pc = "log" => (CHOOSE s \in Slots : req[s].pc = "log") = r
  BY <1>1
<1>3. req'[r].pc = "log" => (CHOOSE s \in Slots : req'[s].pc = "log") = r
  BY <1>1
<1> QED BY <1>1, <1>2, <1>3 DEF Completing, LastAuthor, Kind

\* What shows of the case does not change.
LEMMA Stutters ==
    ASSUME UNCHANGED <<row, file, done>>, ShownSeals' = ShownSeals, LastAuthor' = LastAuthor
    PROVE  Maps
BY DEF Maps, Lifecycle!vars, ShownSeals

\* A request that goes on with the seal it has, none new or the same.
LEMMA QuietMaps ==
    ASSUME OneByOne, RefInv, NEW r \in Slots, NEW q, req' = [req EXCEPT ![r] = q],
           UNCHANGED <<row, file, seals, last, done>>, req[r].pc # "log", q.pc # "log",
           q.sealing = req[r].sealing
    PROVE  Maps
<1>1. req'[r] = q
  BY DEF RefInv, SerialInv, IInv, RequestsSound
<1>2. ShownSeals' = ShownSeals /\ LastAuthor' = LastAuthor
  BY <1>1, Shown DEF ShownSeals
<1> QED BY <1>2, Stutters

LEMMA RefRequest ==
    ASSUME RefInv, NEW r \in Slots
    PROVE  /\ req[r] \in Requests /\ InStep(req[r]) /\ Guarded(req[r])
           /\ Mapped(req[r], row, file, seals)
           /\ req[r].pc # "idle" => <<req[r].name, req[r].arg>> \in AllOps
           /\ req[r].pc = "seal" => req[r].arg \in KnownSteps
           /\ req[r].pc = "check" => req[r].name \in {"transition", "lock"}
           /\ req[r].pc = "write" => req[r].name \in FileOps
           /\ row \in CaseRows /\ file \in CaseFiles /\ seals \subseteq KnownSteps
           /\ last \in [to: Statuses, role: Roles, kind: {"standard", "override"}]
           /\ SealedWorkStays
BY TheRequest DEF RefInv, SerialInv, IInv, CaseTyped

\* What a step must leave of the request it moves.
LEMMA MappedStep ==
    ASSUME OneByOne, RefInv, SerialInv', NEW r \in Slots, NEW q,
           req' = [req EXCEPT ![r] = q], Mapped(q, row', file', seals'), file'.referrals <= MaxRows
    PROVE  RefInv'
<1>1. req'[r] = q /\ \A s \in Slots : s = r
  BY DEF OneByOne, RefInv, SerialInv, IInv, RequestsSound
<1> QED BY <1>1 DEF RefInv, Mapped

LEMMA IdleMapped ==
    /\ Mapped(Idle, row, file, seals) /\ Mapped(Idle, row', file', seals')
    /\ ~Idle.sealing /\ Idle.pc = "idle"
BY DEF Mapped, Idle

-----------------------------------------------------------------------------
(* The refinement: steps *)

LEMMA BeginMaps ==
    ASSUME OneByOne, RefInv, SerialInv', NEW r \in Slots, NEW op \in Ops, NEW role \in Roles,
           Begin(r, op[1], op[2], role)
    PROVE  RefInv' /\ Maps
<1> DEFINE pc == CASE op[1] \in FileOps -> "write"
                   [] op[1] = "unlock"  -> "unseal"
                   [] OTHER             -> "load"
           q == [Idle EXCEPT !.name = op[1], !.arg = op[2], !.role = role, !.pc = pc]
<1>1. /\ pc \in {"write", "unseal", "load"}
      /\ pc = "unseal" => op[1] = "unlock"
  BY DEF FileOps
<1>2. q.pc = pc /\ q.name = op[1] /\ ~q.sealing /\ q.sealing \in BOOLEAN
  BY DEF Idle
<1>3. /\ req' = [req EXCEPT ![r] = q] /\ req[r].pc = "idle"
      /\ UNCHANGED <<row, file, seals, last, done>>
  BY DEF Begin
<1>4. Mapped(q, row', file', seals')
  <2> HIDE DEF q, pc
  <2> QED BY <1>1, <1>2 DEF Mapped
<1>5. req[r].sealing = q.sealing
  BY <1>2, <1>3, RefRequest DEF Mapped, Requests
<1>6. file'.referrals <= MaxRows /\ q.pc # "log"
  BY <1>1, <1>2, <1>3 DEF RefInv
<1> HIDE DEF q
<1> QED BY <1>3, <1>4, <1>5, <1>6, MappedStep, QuietMaps

LEMMA LoadMaps ==
    ASSUME OneByOne, RefInv, SerialInv', NEW r \in Slots, Load(r)
    PROVE  RefInv' /\ Maps
<1> DEFINE q == req[r]
           q2 == [q EXCEPT !.snap = row, !.want = Edited(q.name, q.arg, row),
                    !.pc = IF q.name \in {"transition", "lock"} THEN "check" ELSE "save"]
<1>1. q.pc = "load" /\ UNCHANGED <<row, file, seals, last, done>>
  BY DEF Load
<1>2. /\ q \in Requests /\ Mapped(q, row, file, seals)
      /\ file'.referrals <= MaxRows /\ SealedWorkStays
      /\ row \in CaseRows
  BY <1>1, RefRequest DEF RefInv
<1>3. CASE ~Accepts(q.name, q.arg, q.role, row)
  <2>1. req' = [req EXCEPT ![r] = Idle]
    BY <1>3 DEF Load
  <2>2. ~q.sealing
    <3> SUFFICES ASSUME q.sealing PROVE FALSE
      OBVIOUS
    <3>1. /\ q.arg = "assessed" /\ row.status = "enrolled" /\ "assessment" \in seals
          /\ q.name = IF q.role = "admin" THEN "transition" ELSE "review"
          /\ q.role \in Roles
      BY <1>1, <1>2 DEF Mapped, Requests
    <3>2. Assessed(row)
      BY <1>2, <3>1 DEF SealedWorkStays, Recorded, DecisionSteps, DataSteps
    <3> QED BY <1>3, <3>1, <3>2 DEF Accepts, CanTransition, NextStatus, Roles
  <2>3. q.sealing = Idle.sealing
    BY <1>2, <2>2, IdleMapped DEF Requests, Idle
  <2> QED BY <1>1, <1>2, <2>1, <2>3, IdleMapped, MappedStep, QuietMaps
<1>4. CASE Accepts(q.name, q.arg, q.role, row)
  <2>1. req' = [req EXCEPT ![r] = q2]
    BY <1>4 DEF Load
  <2>2. /\ q2.name = q.name /\ q2.arg = q.arg /\ q2.role = q.role
        /\ q2.sealing = q.sealing /\ q2.pc \in {"check", "save"}
        /\ q2.pc = "save" => q.name # "transition"
    BY <1>2 DEF Requests
  <2>3. Mapped(q2, row', file', seals')
    <3> HIDE DEF q, q2
    <3> QED BY <1>1, <1>2, <2>2 DEF Mapped
  <2> HIDE DEF q2
  <2> QED BY <1>1, <1>2, <2>1, <2>2, <2>3, MappedStep, QuietMaps
<1> QED BY <1>3, <1>4

\* The gate of the status change that follows a seal holds nobody back.
LEMMA CheckMaps ==
    ASSUME OneByOne, RefInv, SerialInv', NEW r \in Slots, Check(r)
    PROVE  RefInv' /\ Maps
<1> DEFINE q == req[r]
           passes == IF q.name = "lock" THEN StepDone(q.arg, q.snap, file)
                     ELSE MayTransition(q.snap, file, seals, q.arg, q.role)
           q2 == [q EXCEPT !.pc = IF q.name = "lock" THEN "seal" ELSE "save"]
<1>1. q.pc = "check" /\ UNCHANGED <<row, file, seals, last, done>>
  BY DEF Check
<1>2. /\ q \in Requests /\ Mapped(q, row, file, seals)
      /\ file'.referrals <= MaxRows /\ SealedWorkStays
      /\ row \in CaseRows /\ q.snap = row /\ q.name \in {"transition", "lock"}
      /\ Accepts(q.name, q.arg, q.role, row)
  BY <1>1, RefRequest DEF RefInv, InStep
<1>3. CASE ~passes
  <2>1. req' = [req EXCEPT ![r] = Idle]
    BY <1>3 DEF Check
  <2>2. ~q.sealing
    <3> SUFFICES ASSUME q.sealing PROVE FALSE
      OBVIOUS
    <3>1. /\ q.arg = "assessed" /\ row.status = "enrolled" /\ "assessment" \in seals
          /\ q.name = "transition"
      BY <1>1, <1>2 DEF Mapped, Requests
    <3>2. Assessed(row)
      BY <1>2, <3>1 DEF SealedWorkStays, Recorded, DecisionSteps, DataSteps
    <3>3. CanTransition(row.status, q.role) /\ q.arg \in NextStatus[row.status]
      BY <1>2, <3>1 DEF Accepts
    <3>4. FileAllows(row, file)
      BY <3>1, <3>2 DEF FileAllows
    <3>5. GateSteps(row, q.role) = {}
      BY <3>1 DEF GateSteps
    <3> QED BY <1>2, <1>3, <3>1, <3>3, <3>4, <3>5 DEF MayTransition
  <2>3. q.sealing = Idle.sealing
    BY <1>2, <2>2, IdleMapped DEF Requests, Idle
  <2> QED BY <1>1, <1>2, <2>1, <2>3, IdleMapped, MappedStep, QuietMaps
<1>4. CASE passes
  <2>1. req' = [req EXCEPT ![r] = q2]
    BY <1>4 DEF Check
  <2>2. /\ q2.name = q.name /\ q2.arg = q.arg /\ q2.role = q.role
        /\ q2.sealing = q.sealing
        /\ q2.pc = IF q.name = "lock" THEN "seal" ELSE "save"
    BY <1>2 DEF Requests
  <2>3. q.name = "lock" => /\ StepDone(q.arg, row, file)
                           /\ q.arg \in StepsFor(row.assessment)
                           /\ ~q.sealing
    <3>1. q.name = "lock" => ~q.sealing
      BY <1>1, <1>2 DEF Mapped
    <3> QED BY <1>2, <1>4, <3>1 DEF Accepts
  <2>4. q.name # "lock" => MayTransition(row, file, seals, q.arg, q.role)
    BY <1>2, <1>4
  <2>5. Mapped(q2, row, file, seals)
    <3> HIDE DEF q, q2, passes
    <3> QED BY <1>1, <1>2, <2>2, <2>3, <2>4 DEF Mapped
  <2>6. Mapped(q2, row', file', seals')
    <3> HIDE DEF q2
    <3> QED BY <1>1, <2>5
  <2>7. q2.pc # "log" /\ q.pc # "log"
    BY <1>1, <2>2
  <2> HIDE DEF q2
  <2> QED BY <1>1, <1>2, <2>1, <2>2, <2>6, <2>7, MappedStep, QuietMaps
<1> QED BY <1>3, <1>4

LEMMA CompareMaps ==
    ASSUME OneByOne, RefInv, SerialInv', NEW r \in Slots, Compare(r)
    PROVE  RefInv' /\ Maps
<1> DEFINE q == req[r]
           q2 == [q EXCEPT !.pc = "update", !.base = row]
<1>1. /\ q.pc = "save" /\ UNCHANGED <<row, file, seals, last, done>>
      /\ req' = [req EXCEPT ![r] = q2]
  BY DEF Compare, RefInv, SerialInv, IInv, RequestsSound
<1>2. q \in Requests /\ Mapped(q, row, file, seals) /\ file'.referrals <= MaxRows
  BY <1>1, RefRequest DEF RefInv
<1>3. /\ q2.name = q.name /\ q2.arg = q.arg /\ q2.role = q.role
      /\ q2.sealing = q.sealing /\ q2.pc = "update"
  BY <1>2 DEF Requests
<1>4. Mapped(q2, row, file, seals)
  <2> HIDE DEF q, q2
  <2> QED BY <1>1, <1>2, <1>3 DEF Mapped
<1>5. Mapped(q2, row', file', seals')
  <2> HIDE DEF q2
  <2> QED BY <1>1, <1>4
<1> HIDE DEF q2
<1> QED BY <1>1, <1>2, <1>3, <1>5, MappedStep, QuietMaps

\* The update is the step of CaseLifecycle: the operation itself, or the
\* completion of a seal on the assessment.
LEMMA UpdateMaps ==
    ASSUME OneByOne, RefInv, SerialInv', NEW r \in Slots, Update(r)
    PROVE  RefInv' /\ Maps
<1> DEFINE q == req[r]
           q2 == [q EXCEPT !.pc = "log", !.base = InitialRow]
<1>1. q.pc = "update" /\ UNCHANGED <<file, seals, last>>
  BY DEF Update
<1>2. /\ q \in Requests /\ Mapped(q, row, file, seals) /\ Guarded(q) /\ SealedWorkStays
      /\ row \in CaseRows /\ q.snap = row /\ q.want = row' /\ q.role \in Roles
      /\ Accepts(q.name, q.arg, q.role, row) /\ <<q.name, q.arg>> \in AllOps
      /\ file'.referrals <= MaxRows /\ seals \subseteq KnownSteps
  BY <1>1, RefRequest, UpdateWrites DEF RefInv, InStep, Requests
<1>3. row' = Edited(q.name, q.arg, row)
  BY UpdateWrites DEF RefInv
<1>4. ShownSeals = IF q.sealing THEN seals \ {"assessment"} ELSE seals
  BY <1>1, Shown DEF ShownSeals
<1>5. CASE q.name \in StatusOps
  <2>1. req' = [req EXCEPT ![r] = q2] /\ done' = done \cup MarksOfRequest(q)
    BY <1>5 DEF Update, RefInv, SerialInv, IInv, RequestsSound
  <2>2. req'[r] = q2
    BY <2>1 DEF RefInv, SerialInv, IInv, RequestsSound
  <2>3. /\ q2.name = q.name /\ q2.arg = q.arg /\ q2.role = q.role
        /\ q2.sealing = q.sealing /\ q2.pc = "log"
    BY <1>2 DEF Requests
  <2>4. Mapped(q2, row', file', seals')
    <3> HIDE DEF q, q2
    <3> QED BY <1>1, <1>2, <2>3 DEF Mapped
  <2>5. RefInv'
    BY <1>2, <2>1, <2>4, MappedStep
  <2>6. /\ ShownSeals' = seals
        /\ LastAuthor' = [role |-> q.role, kind |-> Kind(q.name)]
        /\ done' = done \cup MarksOf(row.status, row'.status, q.role, Kind(q.name))
    BY ZenonT(60), <1>1, <1>2, <2>1, <2>2, <2>3, Shown DEF ShownSeals, MarksOfRequest
  <2>7. CASE q.sealing
    <3>1. /\ "assessment" \in seals /\ q.arg = "assessed" /\ row.status = "enrolled"
          /\ q.name \in {"transition", "review"}
      BY <1>1, <1>2, <2>7 DEF Mapped
    <3>2. row' = [row EXCEPT !.status = "assessed"] /\ row'.status = "assessed"
      <4>1. row' = [row EXCEPT !.status = "assessed"]
        BY <1>3, <3>1 DEF Edited
      <4> QED BY <1>2, <4>1 DEF CaseRows
    <3>3. StepDone("assessment", row, file) /\ "assessment" \in StepsFor(row.assessment)
      <4>1. Recorded("assessment", row, file)
        BY <1>2, <3>1 DEF SealedWorkStays
      <4>2. Floor("assessment") <= Position[row.status]
        BY <3>1 DEF Floor, Position
      <4> QED BY <4>1, <4>2 DEF StepDone, Documented, StepsFor, CommonSteps
    <3>4. ShownSeals' = ShownSeals \cup {"assessment"}
      BY <1>4, <2>6, <2>7, <3>1
    <3>5. Kind(q.name) = "standard"
      BY <3>1 DEF Kind
    <3>6. Lifecycle!LockStep("assessment", q.role)
      BY <1>1, <2>6, <3>1, <3>2, <3>3, <3>4, <3>5, SameSteps, SameGates
         DEF Lifecycle!LockStep, Lifecycle!LogHistory, ShownSeals
    <3>7. "assessment" \in Lifecycle!KnownSteps /\ q.role \in Lifecycle!Roles
      BY <1>2, SameSets DEF KnownSteps, CommonSteps
    <3>8. Lifecycle!Next
      BY <3>6, <3>7 DEF Lifecycle!Next, Lifecycle!SealChange
    <3> QED BY <2>5, <3>8 DEF Maps
  <2>8. CASE ~q.sealing
    <3>1. ShownSeals' = ShownSeals /\ ShownSeals = seals
      BY <1>4, <2>6, <2>8
    <3>2. CASE q.name = "transition"
      <4>1. MayTransition(row, file, seals, q.arg, q.role) /\ q.arg \in Statuses
        BY <1>1, <1>2, <3>2, ArgsTyped DEF Mapped
      <4>2. row' = [row EXCEPT !.status = q.arg] /\ row'.status = q.arg
            /\ Kind(q.name) = "standard"
        <5>1. row' = [row EXCEPT !.status = q.arg]
          BY <1>3, <3>2 DEF Edited
        <5> QED BY <1>2, <3>2, <5>1 DEF CaseRows, Kind
      <4>3. Lifecycle!Transition(q.arg, q.role)
        BY <1>1, <2>6, <3>1, <4>1, <4>2, SameSteps, SameGates
           DEF Lifecycle!Transition, Lifecycle!LogHistory, ShownSeals
      <4> QED BY <1>2, <2>5, <4>1, <4>3, SameSets
              DEF Maps, Lifecycle!Next, Lifecycle!StatusChange
    <3>3. CASE q.name = "override"
      <4>1. q.arg \in Statuses /\ q.role = "admin"
        BY <1>2, <3>3, ArgsTyped DEF Accepts
      <4>2. row' = [row EXCEPT !.status = q.arg] /\ row'.status = q.arg
            /\ Kind(q.name) = "override"
        <5>1. row' = [row EXCEPT !.status = q.arg]
          BY <1>3, <3>3 DEF Edited
        <5> QED BY <1>2, <3>3, <5>1 DEF CaseRows, Kind
      <4>3. Lifecycle!OverrideStatus(q.arg)
        BY <1>1, <2>6, <3>1, <4>1, <4>2, SameSteps
           DEF Lifecycle!OverrideStatus, Lifecycle!LogHistory, ShownSeals
      <4> QED BY <2>5, <4>1, <4>3 DEF Maps, Lifecycle!Next, Lifecycle!StatusChange
    <3>4. CASE q.name = "review"
      <4>1. q.arg = "assessed" /\ q.role = "social_worker" /\ row.status = "enrolled"
            /\ Assessed(row)
        BY <1>2, <3>4, ArgsTyped DEF Accepts
      <4>2. row' = [row EXCEPT !.status = "assessed"] /\ row'.status = "assessed"
            /\ Kind(q.name) = "standard"
        <5>1. row' = [row EXCEPT !.status = "assessed"]
          BY <1>3, <3>4, <4>1 DEF Edited
        <5> QED BY <1>2, <3>4, <5>1 DEF CaseRows, Kind
      <4>3. Lifecycle!RequestReview
        BY <1>1, <2>6, <3>1, <4>1, <4>2, SameSteps
           DEF Lifecycle!RequestReview, Lifecycle!LogHistory, ShownSeals,
               Lifecycle!Assessed, Assessed
      <4> QED BY <2>5, <4>3 DEF Maps, Lifecycle!Next, Lifecycle!StatusChange
    <3>5. CASE q.name = "reject"
      <4>1. row.status \in Rejectable
        BY <1>2, <3>5 DEF Accepts
      <4>2. row' = [row EXCEPT !.status = "closed", !.outcome = TRUE]
            /\ row'.status = "closed" /\ Kind(q.name) = "standard"
        <5>1. row' = [row EXCEPT !.status = "closed", !.outcome = TRUE]
          BY <1>3, <3>5 DEF Edited
        <5> QED BY <1>2, <3>5, <5>1 DEF CaseRows, Kind
      <4>3. Lifecycle!Reject(q.role)
        BY <1>1, <2>6, <3>1, <4>1, <4>2, SameSteps, SameSets
           DEF Lifecycle!Reject, Lifecycle!LogHistory, ShownSeals
      <4> QED BY <1>2, <2>5, <4>3, SameSets DEF Maps, Lifecycle!Next, Lifecycle!StatusChange
    <3> QED BY <1>5, <3>2, <3>3, <3>4, <3>5 DEF StatusOps
  <2> QED BY <2>7, <2>8
<1>6. CASE q.name \notin StatusOps
  <2>1. req' = [req EXCEPT ![r] = Idle] /\ done' = done
    BY <1>6 DEF Update
  <2>2. RefInv'
    BY <1>2, <2>1, IdleMapped, MappedStep
  <2>3. ~q.sealing
    BY <1>1, <1>2, <1>6 DEF Mapped, StatusOps
  <2>4. req'[r] = Idle
    BY <2>1 DEF RefInv, SerialInv, IInv, RequestsSound
  <2>5. ShownSeals' = ShownSeals /\ ShownSeals = seals /\ LastAuthor' = LastAuthor
    BY <1>1, <1>4, <2>3, <2>4, IdleMapped, Shown DEF ShownSeals
  <2>6. CASE row' = row
    BY <1>1, <2>1, <2>2, <2>5, <2>6, Stutters
  <2>7. GuardStep(q.name, q.arg) \notin ShownSeals
    BY <1>1, <1>2, <2>5 DEF Guarded
  <2> DEFINE same == UNCHANGED <<file, ShownSeals, LastAuthor, done>>
  <2>8. same
    BY <1>1, <2>1, <2>5
  <2>9. CASE q.name = "assess"
    <3>1. q.arg \in AllCategories /\ row' = [row EXCEPT !.assessment = q.arg]
          /\ (row.status # "enrolled" => q.arg = row.assessment)
          /\ "assessment" \notin ShownSeals
      BY <1>2, <1>3, <2>7, <2>9, ArgsTyped DEF Edited, Accepts, GuardStep
    <3>2. Lifecycle!UpdateAssessment(q.arg)
      BY <2>8, <3>1 DEF Lifecycle!UpdateAssessment, ShownSeals
    <3> QED BY <2>2, <3>1, <3>2 DEF Maps, Lifecycle!Next, Lifecycle!RowWrite
  <2>10. CASE q.name = "plan"
    <3>1. row' = [row EXCEPT !.plan = (q.arg = "yes")] /\ "evaluate" \notin ShownSeals
      BY <1>3, <2>7, <2>10 DEF Edited, GuardStep
    <3>2. Lifecycle!UpdateTransitionPlan(q.arg = "yes")
      BY <2>8, <3>1 DEF Lifecycle!UpdateTransitionPlan, ShownSeals
    <3>3. (q.arg = "yes") \in BOOLEAN
      OBVIOUS
    <3> QED BY <2>2, <3>2, <3>3, Zenon DEF Maps, Lifecycle!Next, Lifecycle!RowWrite
  <2>11. CASE q.name \in {"need", "waive"}
    <3>1. q.arg \in DecisionSteps /\ q.arg \notin ShownSeals
      BY <1>2, <2>7, <2>11, ArgsTyped DEF GuardStep
    <3>2. /\ q.name = "need" => row' = [row EXCEPT !.notNeeded = @ \ {q.arg}]
          /\ q.name = "waive" => row' = [row EXCEPT !.notNeeded = @ \cup {q.arg}]
      BY <1>3 DEF Edited
    <3>3. CASE q.name = "need"
      <4>1. Lifecycle!UpdateDecision(q.arg, FALSE)
        BY <2>8, <3>1, <3>2, <3>3 DEF Lifecycle!UpdateDecision, ShownSeals
      <4> QED BY <2>2, <3>1, <4>1 DEF Maps, Lifecycle!Next, Lifecycle!RowWrite
    <3>4. CASE q.name = "waive"
      <4>1. Lifecycle!UpdateDecision(q.arg, TRUE)
        BY <2>8, <3>1, <3>2, <3>4 DEF Lifecycle!UpdateDecision, ShownSeals
      <4> QED BY <2>2, <3>1, <4>1 DEF Maps, Lifecycle!Next, Lifecycle!RowWrite
    <3> QED BY <2>11, <3>3, <3>4
  <2>12. CASE q.name = "category_step"
    <3>1. /\ q.arg \in DataSteps /\ q.arg \notin ShownSeals
          /\ row' = [row EXCEPT !.stepData = @ \cup {q.arg}]
          /\ q.arg \in StepsFor(row.assessment)
      BY <1>2, <1>3, <2>7, <2>12, ArgsTyped DEF GuardStep, Edited, Accepts
    <3>2. Lifecycle!UpdateCategoryStep(q.arg)
      BY <2>8, <3>1, SameSteps DEF Lifecycle!UpdateCategoryStep, ShownSeals
    <3> QED BY <2>2, <3>1, <3>2, SameSets DEF Maps, Lifecycle!Next, Lifecycle!RowWrite
  <2>13. CASE q.name = "closure"
    <3>1. row' = [row EXCEPT !.outcome = TRUE] /\ "closure" \notin ShownSeals
          /\ row.status = "transitioning"
      BY <1>2, <1>3, <2>7, <2>13 DEF GuardStep, Edited, Accepts
    <3>2. Lifecycle!UpdateClosure
      BY <2>8, <3>1 DEF Lifecycle!UpdateClosure, ShownSeals
    <3> QED BY <2>2, <3>2 DEF Maps, Lifecycle!Next, Lifecycle!RowWrite
  <2>14. q.name \notin {"assess", "plan", "need", "waive", "category_step", "closure"} =>
           row' = row
    BY <1>3, <1>6 DEF Edited, StatusOps
  <2> QED BY <2>6, <2>9, <2>10, <2>11, <2>12, <2>13, <2>14
<1> QED BY <1>5, <1>6

\* The trail counts as written when the row was.
LEMMA LogMaps ==
    ASSUME OneByOne, RefInv, SerialInv', NEW r \in Slots, Log(r)
    PROVE  RefInv' /\ Maps
<1> DEFINE q == req[r]
<1>1. /\ q.pc = "log" /\ UNCHANGED <<row, file, seals, done>>
      /\ last' = [to |-> q.want.status, role |-> q.role, kind |-> Kind(q.name)]
      /\ req' = [req EXCEPT ![r] = Idle]
  BY DEF Log
<1>2. req'[r] = Idle /\ file'.referrals <= MaxRows
  BY <1>1 DEF RefInv, SerialInv, IInv, RequestsSound
<1>3. LastAuthor' = LastAuthor /\ ShownSeals' = ShownSeals
  BY <1>1, <1>2, IdleMapped, Shown DEF ShownSeals
<1> QED BY <1>1, <1>2, <1>3, IdleMapped, MappedStep, Stutters

\* A seal shows at once, but for a new one on the assessment.
LEMMA SealMaps ==
    ASSUME OneByOne, RefInv, SerialInv', NEW r \in Slots, Seal(r)
    PROVE  RefInv' /\ Maps
<1> DEFINE q == req[r]
           q2 == [q EXCEPT !.pc = "advance", !.sealing = q.arg \notin seals]
<1>1. /\ q.pc = "seal" /\ seals' = seals \cup {q.arg}
      /\ UNCHANGED <<row, file, last, done>>
  BY DEF Seal
<1>2. /\ q \in Requests /\ Mapped(q, row, file, seals) /\ q.arg \in KnownSteps /\ q.role \in Roles
      /\ file'.referrals <= MaxRows
  BY <1>1, RefRequest DEF RefInv, Requests
<1>3. /\ ~q.sealing /\ StepDone(q.arg, row, file) /\ q.arg \in StepsFor(row.assessment)
  BY <1>1, <1>2 DEF Mapped
<1>4. ShownSeals = seals
  BY <1>1, <1>3, Shown DEF ShownSeals
<1>5. CASE q.arg = "assessment"
  <2>1. req' = [req EXCEPT ![r] = q2]
    BY <1>5 DEF Seal
  <2>2. req'[r] = q2
    BY <2>1 DEF RefInv, SerialInv, IInv, RequestsSound
  <2>3. q2.pc = "advance" /\ q2.sealing = (q.arg \notin seals)
    BY <1>2 DEF Requests
  <2>4. Mapped(q2, row', file', seals')
    <3> HIDE DEF q, q2
    <3> QED BY <1>1, <1>5, <2>3 DEF Mapped
  <2>5. ShownSeals' = ShownSeals /\ LastAuthor' = LastAuthor
    <3>1. Completing' <=> q.arg \notin seals
      BY <2>2, <2>3, Shown
    <3>2. ShownSeals' = seals
      BY <1>1, <1>5, <3>1 DEF ShownSeals
    <3>3. LastAuthor' = LastAuthor
      BY <1>1, <2>2, <2>3, Shown
    <3> QED BY <1>4, <3>2, <3>3
  <2> HIDE DEF q2
  <2> QED BY <1>1, <1>2, <2>1, <2>4, <2>5, MappedStep, Stutters
<1>6. CASE q.arg # "assessment"
  <2>1. req' = [req EXCEPT ![r] = Idle]
    BY <1>6 DEF Seal
  <2>2. req'[r] = Idle
    BY <2>1 DEF RefInv, SerialInv, IInv, RequestsSound
  <2>3. ShownSeals' = ShownSeals \cup {q.arg} /\ LastAuthor' = LastAuthor
    BY <1>1, <1>4, <2>2, IdleMapped, Shown DEF ShownSeals
  <2>4. Lifecycle!LockStep(q.arg, q.role)
    BY <1>1, <1>3, <1>6, <2>3, SameSteps, SameGates DEF Lifecycle!LockStep, ShownSeals
  <2>5. Maps
    BY <1>2, <2>4, SameSets DEF Maps, Lifecycle!Next, Lifecycle!SealChange
  <2> QED BY <1>2, <2>1, <2>5, IdleMapped, MappedStep
<1> QED BY <1>5, <1>6

\* A seal on the assessment of a case that is past `enrolled` ends here.
LEMMA AdvanceMaps ==
    ASSUME OneByOne, RefInv, SerialInv', NEW r \in Slots, Advance(r)
    PROVE  RefInv' /\ Maps
<1> DEFINE q == req[r]
           q2 == [q EXCEPT !.pc = "load", !.arg = "assessed",
                           !.name = IF q.role = "admin" THEN "transition" ELSE "review"]
<1>1. q.pc = "advance" /\ UNCHANGED <<row, file, seals, last, done>>
  BY DEF Advance
<1>2. /\ q \in Requests /\ Mapped(q, row, file, seals)
      /\ q.role \in Roles /\ file'.referrals <= MaxRows
      /\ SealedWorkStays /\ row \in CaseRows
  BY <1>1, RefRequest DEF RefInv, Requests
<1>3. CASE row.status = "enrolled"
  <2>1. req' = [req EXCEPT ![r] = q2]
    BY <1>3 DEF Advance
  <2>2. /\ q2.pc = "load" /\ q2.arg = "assessed" /\ q2.role = q.role
        /\ q2.name = (IF q.role = "admin" THEN "transition" ELSE "review")
        /\ q2.sealing = q.sealing
    BY <1>2 DEF Requests
  <2>3. Mapped(q2, row', file', seals')
    <3> HIDE DEF q, q2
    <3> QED BY <1>1, <1>2, <1>3, <2>2 DEF Mapped
  <2> HIDE DEF q2
  <2> QED BY <1>1, <1>2, <2>1, <2>2, <2>3, MappedStep, QuietMaps
<1>4. CASE row.status # "enrolled"
  <2>1. req' = [req EXCEPT ![r] = Idle]
    BY <1>4 DEF Advance
  <2>2. req'[r] = Idle
    BY <2>1 DEF RefInv, SerialInv, IInv, RequestsSound
  <2>3. RefInv'
    BY <1>2, <2>1, IdleMapped, MappedStep
  <2>4. CASE ~q.sealing
    <3>1. q.sealing = Idle.sealing
      BY <1>2, <2>4, IdleMapped DEF Requests, Idle
    <3> QED BY <1>1, <2>1, <2>3, <3>1, IdleMapped, QuietMaps
  <2>5. CASE q.sealing
    <3>1. "assessment" \in seals
      BY <1>2, <2>5 DEF Mapped
    <3>2. ShownSeals' = ShownSeals \cup {"assessment"} /\ LastAuthor' = LastAuthor
      BY <1>1, <2>2, <2>5, <3>1, IdleMapped, Shown DEF ShownSeals
    <3>3. StepDone("assessment", row, file) /\ "assessment" \in StepsFor(row.assessment)
      <4>1. Recorded("assessment", row, file)
        BY <1>2, <3>1 DEF SealedWorkStays
      <4>2. row.status \in Statuses
        BY <1>2 DEF CaseRows
      <4>3. Floor("assessment") <= Position[row.status]
        BY <4>2 DEF Floor, Position, Statuses
      <4> QED BY <4>1, <4>3 DEF StepDone, Documented, StepsFor, CommonSteps
    <3>4. Lifecycle!LockStep("assessment", q.role)
      BY <1>1, <1>4, <3>2, <3>3, SameSteps, SameGates DEF Lifecycle!LockStep, ShownSeals
    <3>5. "assessment" \in Lifecycle!KnownSteps /\ q.role \in Lifecycle!Roles
      BY <1>2, SameSets DEF KnownSteps, CommonSteps
    <3> QED BY <2>3, <3>4, <3>5 DEF Maps, Lifecycle!Next, Lifecycle!SealChange
  <2> QED BY <2>4, <2>5
<1> QED BY <1>3, <1>4

LEMMA UnsealMaps ==
    ASSUME OneByOne, RefInv, SerialInv', NEW r \in Slots, Unseal(r)
    PROVE  RefInv' /\ Maps
<1> DEFINE q == req[r]
<1>1. /\ q.pc = "unseal" /\ seals' = seals \ {q.arg} /\ req' = [req EXCEPT ![r] = Idle]
      /\ UNCHANGED <<row, file, last, done>>
  BY DEF Unseal
<1>2. Mapped(q, row, file, seals) /\ <<q.name, q.arg>> \in AllOps /\ file'.referrals <= MaxRows
  BY <1>1, RefRequest DEF RefInv
<1>3. ~q.sealing /\ q.arg \in KnownSteps
  BY <1>1, <1>2, ArgsTyped DEF Mapped
<1>4. req'[r] = Idle
  BY <1>1 DEF RefInv, SerialInv, IInv, RequestsSound
<1>5. ShownSeals' = ShownSeals \ {q.arg} /\ LastAuthor' = LastAuthor
  BY <1>1, <1>3, <1>4, IdleMapped, Shown DEF ShownSeals
<1>6. Lifecycle!UnlockStep(q.arg)
  BY <1>1, <1>5 DEF Lifecycle!UnlockStep, ShownSeals
<1>7. Maps
  BY <1>3, <1>6, SameSets DEF Maps, Lifecycle!Next, Lifecycle!SealChange
<1> QED BY <1>1, <1>2, <1>7, IdleMapped, MappedStep

LEMMA WriteRowMaps ==
    ASSUME OneByOne, RefInv, SerialInv', NEW r \in Slots, WriteRow(r)
    PROVE  RefInv' /\ Maps
<1> DEFINE q == req[r]
<1>1. /\ q.pc = "write" /\ file' = Written(q.name, q.arg)
      /\ req' = [req EXCEPT ![r] = Idle] /\ UNCHANGED <<row, seals, last, done>>
  BY DEF WriteRow
<1>2. /\ Mapped(q, row, file, seals) /\ Guarded(q)
      /\ q.name \in FileOps /\ <<q.name, q.arg>> \in AllOps
      /\ file \in CaseFiles /\ file.referrals <= MaxRows
  BY <1>1, RefRequest DEF RefInv
<1>3. file.referrals \in Nat /\ MaxRows \in Nat
  BY <1>2, RequestsAssumption DEF CaseFiles
<1>4. ~q.sealing
  BY <1>1, <1>2 DEF Mapped
<1>5. req'[r] = Idle
  BY <1>1 DEF RefInv, SerialInv, IInv, RequestsSound
<1>6. ShownSeals' = ShownSeals /\ LastAuthor' = LastAuthor /\ ShownSeals = seals
  BY <1>1, <1>4, <1>5, IdleMapped, Shown DEF ShownSeals
<1>7. GuardStep(q.name, q.arg) \notin ShownSeals
  BY <1>1, <1>2, <1>6 DEF Guarded
<1>8. CASE q.name = "log_intervention"
  <2>1. /\ file' = [file EXCEPT !.interventions = @ \cup {q.arg}] /\ q.arg \in Services
        /\ "interventions" \notin ShownSeals
    BY <1>1, <1>2, <1>7, <1>8, ArgsTyped DEF Written, GuardStep
  <2>2. /\ file' = [file EXCEPT !.interventions = @ \cup {q.arg},
                                !.referrals = file.referrals]
        /\ file'.referrals = file.referrals
    BY <1>2, <2>1 DEF CaseFiles
  <2>3. Lifecycle!LogIntervention(q.arg)
    BY <1>1, <1>2, <1>6, <2>1, <2>2
       DEF Lifecycle!LogIntervention, Lifecycle!WriteFile, ShownSeals
  <2>4. Maps
    BY <2>1, <2>3 DEF Maps, Lifecycle!Next, Lifecycle!FileWrite
  <2> QED BY <1>1, <1>2, <2>2, <2>4, IdleMapped, MappedStep
<1>9. CASE q.name = "remove_intervention"
  <2>1. /\ file' = [file EXCEPT !.interventions = @ \ {q.arg}] /\ q.arg \in Services
        /\ "interventions" \notin ShownSeals
    BY <1>1, <1>2, <1>7, <1>9, ArgsTyped DEF Written, GuardStep
  <2>2. file'.referrals = file.referrals
    BY <1>2, <2>1 DEF CaseFiles
  <2>3. ASSUME q.arg \in file.interventions PROVE Maps
    <3>1. Lifecycle!RemoveIntervention(q.arg)
      BY <1>1, <1>6, <2>1, <2>3
         DEF Lifecycle!RemoveIntervention, Lifecycle!WriteFile, ShownSeals
    <3> QED BY <2>1, <3>1 DEF Maps, Lifecycle!Next, Lifecycle!FileWrite
  <2>4. ASSUME q.arg \notin file.interventions PROVE Maps
    <3>1. file' = file
      BY <1>2, <2>1, <2>4 DEF CaseFiles
    <3> QED BY <1>1, <1>6, <3>1, Stutters
  <2>5. Maps
    BY <2>3, <2>4
  <2> QED BY <1>1, <1>2, <2>2, <2>5, IdleMapped, MappedStep
<1>10. CASE q.name = "issue_referral"
  <2>1. file' = IF file.referrals < MaxRows THEN [file EXCEPT !.referrals = @ + 1] ELSE file
    BY <1>1, <1>10 DEF Written
  <2>2. file'.referrals <= MaxRows
    BY <1>2, <1>3, <2>1 DEF CaseFiles
  <2>3. ASSUME file.referrals < MaxRows PROVE Maps
    <3>1. Lifecycle!IssueReferral
      BY <1>1, <1>6, <2>1, <2>3
         DEF Lifecycle!IssueReferral, Lifecycle!WriteFile, ShownSeals
    <3> QED BY <3>1 DEF Maps, Lifecycle!Next, Lifecycle!FileWrite
  <2>4. ASSUME ~(file.referrals < MaxRows) PROVE Maps
    BY <1>1, <1>6, <2>1, <2>4, Stutters
  <2>5. Maps
    BY <2>3, <2>4
  <2> QED BY <1>1, <2>2, <2>5, IdleMapped, MappedStep
<1>11. CASE q.name = "revoke_referral"
  <2>1. file' = IF file.referrals > 0 THEN [file EXCEPT !.referrals = @ - 1] ELSE file
    BY <1>1, <1>11 DEF Written
  <2>2. file'.referrals <= MaxRows
    BY <1>2, <1>3, <2>1 DEF CaseFiles
  <2>3. ASSUME file.referrals > 0 PROVE Maps
    <3>1. "referrals" \notin ShownSeals
      BY <1>7, <1>11 DEF GuardStep
    <3>2. Lifecycle!RevokeReferral
      BY <1>1, <1>6, <2>1, <2>3, <3>1
         DEF Lifecycle!RevokeReferral, Lifecycle!WriteFile, ShownSeals
    <3> QED BY <3>2 DEF Maps, Lifecycle!Next, Lifecycle!FileWrite
  <2>4. ASSUME ~(file.referrals > 0) PROVE Maps
    BY <1>1, <1>6, <2>1, <2>4, Stutters
  <2>5. Maps
    BY <2>3, <2>4
  <2> QED BY <1>1, <2>2, <2>5, IdleMapped, MappedStep
<1> QED BY <1>2, <1>8, <1>9, <1>10, <1>11 DEF FileOps

LEMMA RefInit == ASSUME OneByOne PROVE Init => RefInv /\ Lifecycle!Init
<1> SUFFICES ASSUME Init PROVE RefInv /\ Lifecycle!Init
  OBVIOUS
<1>1. \A r \in Slots : req[r] = Idle
  BY DEF Init
<1>2. RefInv
  BY <1>1, SerialInit, IdleMapped, RequestsAssumption DEF Init, RefInv
<1>3. ~Completing /\ LastAuthor = [role |-> last.role, kind |-> last.kind]
  BY <1>1, IdleMapped DEF Completing, LastAuthor
<1>4. PICK role \in Roles : last = [to |-> "enrolled", role |-> role, kind |-> "standard"]
  BY DEF Init
<1>5. LastAuthor = [role |-> role, kind |-> "standard"]
  BY <1>3, <1>4
<1>6. Lifecycle!Init
  BY <1>3, <1>5, SameSets DEF Init, InitialRow, Lifecycle!Init
<1> QED BY <1>2, <1>6

LEMMA RefNext ==
    ASSUME OneByOne, ~Failures
    PROVE  RefInv /\ [Next]_vars => RefInv' /\ Maps
<1> SUFFICES ASSUME RefInv, [Next]_vars PROVE RefInv' /\ Maps
  OBVIOUS
<1>0. SerialInv'
  BY SerialNext DEF RefInv
<1>1. ASSUME NEW r \in Slots, Proceed(r) PROVE RefInv' /\ Maps
  BY <1>0, <1>1, LoadMaps, CheckMaps, CompareMaps, UpdateMaps, LogMaps, SealMaps,
     AdvanceMaps, UnsealMaps, WriteRowMaps DEF Proceed
<1>2. CASE UNCHANGED vars
  <2>1. RefInv'
    BY <1>0, <1>2 DEF vars, RefInv, Mapped, StepDone, MayTransition, FileAllows, Recorded,
       Documented, SealDocs, Assessed, Activatable, ActivationDocs, Transitionable,
       GateSteps, StepsDueAt, StepsInImplementation, StepsFor
  <2>2. ShownSeals' = ShownSeals /\ LastAuthor' = LastAuthor
    BY <1>2 DEF vars, ShownSeals, Completing, LastAuthor
  <2> QED BY <1>2, <2>1, <2>2, Stutters DEF vars
<1>3. \A r \in Slots : ~Fail(r)
  BY DEF Fail
<1> QED BY <1>0, <1>1, <1>2, <1>3, BeginMaps DEF Next

\* Served one at a time and to the end, the handlers do to a case what the
\* atomic requests of CaseLifecycle do to it, nothing else: every await that
\* returns is a step of CaseLifecycle or none.
THEOREM Implements == ASSUME OneByOne, ~Failures PROVE Spec => ImplementsLifecycle
<1>1. Init => RefInv /\ Lifecycle!Init
  BY RefInit
<1>2. RefInv /\ [Next]_vars => RefInv' /\ [Lifecycle!Next]_(Lifecycle!vars)
  BY RefNext DEF Maps
<1> QED BY <1>1, <1>2, PTL DEF Spec, ImplementsLifecycle, Lifecycle!Spec

=============================================================================
