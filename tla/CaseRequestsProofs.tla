------------------------- MODULE CaseRequestsProofs -------------------------
(***************************************************************************)
(* What the handlers of a case keep however their requests interleave and  *)
(* wherever they die, for any number of requests in flight and any         *)
(* operations clients send.                                                *)
(***************************************************************************)
EXTENDS CaseRequests, TLAPS

\* What a status needs to have happened, marks being what has.
Allowed(status, marks) ==
    /\ status \in {"active", "transitioning"} =>
         marks \cap {"activated", "overridden"} # {}
    /\ status \in {"closed", "aftercare"} => marks # {}

\* A request in hand asks for one of the operations, and is where the
\* operation takes it.
WellFormed(q) ==
    /\ q \in Requests
    /\ q.pc # "idle" => <<q.name, q.arg>> \in AllOps
    /\ q.pc = "check" => q.name \in {"transition", "lock"}
    /\ q.pc = "seal" => q.arg \in KnownSteps
    /\ q.pc = "write" => q.name \in FileOps

\* What the request adds to the marks when it updates the row.
Adds(q) == IF q.name \in StatusOps THEN MarksOfRequest(q) ELSE {}

\* The status a request is about to write is allowed once it is written, and
\* what it is about to log has happened.
Sound(q, marks) ==
    /\ WellFormed(q)
    /\ q.pc \in {"check", "save", "update"} => Allowed(q.want.status, marks \cup Adds(q))
    /\ q.pc = "log" => MarksOfRequest(q) \subseteq marks

CaseTyped ==
    /\ row \in CaseRows
    /\ file \in CaseFiles
    /\ seals \subseteq KnownSteps
    /\ last \in [to: Statuses, role: Roles, kind: {"standard", "override"}]

RequestsSound ==
    /\ req \in [Slots -> Requests]
    /\ \A r \in Slots : Sound(req[r], done)

IInv ==
    /\ CaseTyped
    /\ RequestsSound
    /\ done \subseteq Marks /\ seen \subseteq done
    /\ Allowed(row.status, done)

-----------------------------------------------------------------------------
(* Operators *)

LEMMA OpsTyped ==
    ASSUME NEW name, NEW arg, <<name, arg>> \in AllOps
    PROVE  /\ name \in {op[1] : op \in AllOps}
           /\ arg \in {op[2] : op \in AllOps}
<1>1. <<name, arg>>[1] = name /\ <<name, arg>>[2] = arg
  OBVIOUS
<1> QED BY <1>1

\* Every operation takes the arguments it is made for.
LEMMA ArgsTyped ==
    ASSUME NEW name, NEW arg, <<name, arg>> \in AllOps
    PROVE  /\ name \in {"transition", "override"} => arg \in Statuses
           /\ name = "review" => arg = "assessed"
           /\ name = "assess" => arg \in AllCategories
           /\ name \in {"need", "waive"} => arg \in DecisionSteps
           /\ name = "category_step" => arg \in DataSteps
           /\ name \in {"lock", "unlock"} => arg \in KnownSteps
           /\ name \in {"log_intervention", "remove_intervention"} => arg \in Services
BY DEF AllOps

\* The entity a handler edits stays a legal row.
LEMMA EditedTyped ==
    ASSUME NEW name, NEW arg, <<name, arg>> \in AllOps, NEW c \in CaseRows
    PROVE  /\ Edited(name, arg, c) \in CaseRows
           /\ name \notin StatusOps => Edited(name, arg, c).status = c.status
           /\ name \in {"transition", "override", "review"} =>
                Edited(name, arg, c).status = arg
           /\ name = "reject" => Edited(name, arg, c).status = "closed"
<1>1. CASE name \in {"transition", "override", "review"}
  <2>1. arg \in Statuses
    BY <1>1, ArgsTyped DEF Statuses
  <2>2. Edited(name, arg, c) = [c EXCEPT !.status = arg]
    BY <1>1 DEF Edited
  <2> QED BY <1>1, <2>1, <2>2 DEF CaseRows, StatusOps
<1>2. CASE name = "reject"
  <2>1. Edited(name, arg, c) = [c EXCEPT !.status = "closed", !.outcome = TRUE]
    BY <1>2 DEF Edited
  <2> QED BY <1>2, <2>1 DEF CaseRows, Statuses, StatusOps
<1>3. CASE name = "assess"
  <2>1. arg \in DOMAIN CategoryStepsOf
    BY <1>3, ArgsTyped DEF AllCategories
  <2>2. Edited(name, arg, c) = [c EXCEPT !.assessment = arg]
    BY <1>3 DEF Edited
  <2> QED BY <1>3, <2>1, <2>2 DEF CaseRows
<1>4. CASE name = "plan"
  <2>1. Edited(name, arg, c) = [c EXCEPT !.plan = (arg = "yes")]
    BY <1>4 DEF Edited
  <2> QED BY <1>4, <2>1 DEF CaseRows
<1>5. CASE name \in {"need", "waive"}
  <2>1. arg \in DecisionSteps
    BY <1>5, ArgsTyped
  <2>2. Edited(name, arg, c) \in {[c EXCEPT !.notNeeded = @ \ {arg}],
                                  [c EXCEPT !.notNeeded = @ \cup {arg}]}
    BY <1>5 DEF Edited
  <2> QED BY <1>5, <2>1, <2>2 DEF CaseRows
<1>6. CASE name = "category_step"
  <2>1. arg \in DataSteps
    BY <1>6, ArgsTyped
  <2>2. Edited(name, arg, c) = [c EXCEPT !.stepData = @ \cup {arg}]
    BY <1>6 DEF Edited
  <2> QED BY <1>6, <2>1, <2>2 DEF CaseRows
<1>7. CASE name = "closure"
  <2>1. Edited(name, arg, c) = [c EXCEPT !.outcome = TRUE]
    BY <1>7 DEF Edited
  <2> QED BY <1>7, <2>1 DEF CaseRows
<1>8. CASE name \notin {"transition", "override", "review", "reject", "assess", "plan",
                        "need", "waive", "category_step", "closure"}
  <2>1. Edited(name, arg, c) = c
    BY <1>8 DEF Edited
  <2> QED BY <1>8, <2>1
<1> QED BY <1>1, <1>2, <1>3, <1>4, <1>5, <1>6, <1>7, <1>8

\* What an update leaves in the row comes from the entity or was there.
LEMMA MergeTyped ==
    ASSUME NEW want \in CaseRows, NEW base \in CaseRows, NEW now \in CaseRows
    PROVE  /\ MergeRow(want, base, now) \in CaseRows
           /\ MergeRow(want, base, now).status \in {want.status, now.status}
<1>1. MergeFlags(want.notNeeded, base.notNeeded, now.notNeeded) \subseteq DecisionSteps
  BY DEF MergeFlags, CaseRows
<1>2. MergeFlags(want.stepData, base.stepData, now.stepData) \subseteq DataSteps
  BY DEF MergeFlags, CaseRows
<1> QED BY <1>1, <1>2 DEF MergeRow, MergeColumn, CaseRows

LEMMA MarksTyped == ASSUME NEW q PROVE MarksOfRequest(q) \subseteq Marks
BY DEF MarksOfRequest, MarksOf, Marks

\* What has happened once allows for ever.
LEMMA AllowedGrows ==
    ASSUME NEW s, NEW m, NEW n, m \subseteq n, Allowed(s, m)
    PROVE  Allowed(s, n)
BY DEF Allowed

\* The checks a handler makes on the loaded row are the authority of what it
\* writes: an activation takes an admin, the statuses behind it only follow a
\* row that had been activated.
LEMMA AcceptedIsAllowed ==
    ASSUME NEW q, NEW c \in CaseRows, NEW m, Allowed(c.status, m),
           <<q.name, q.arg>> \in AllOps, q.role \in Roles,
           Accepts(q.name, q.arg, q.role, c),
           q.snap = c, q.want = Edited(q.name, q.arg, c)
    PROVE  Allowed(q.want.status, m \cup Adds(q))
<1>1. CASE q.name \notin StatusOps
  BY <1>1, EditedTyped, AllowedGrows
<1>2. CASE q.name = "override"
  <2>1. Adds(q) = {"overridden"}
    BY <1>2 DEF Adds, StatusOps, MarksOfRequest, MarksOf, Kind
  <2> QED BY <2>1 DEF Allowed
<1>3. CASE q.name = "review"
  <2>1. q.want.status = "assessed"
    BY <1>3, EditedTyped, ArgsTyped
  <2> QED BY <2>1 DEF Allowed
<1>4. CASE q.name = "reject"
  <2>1. q.want.status = "closed" /\ q.snap.status \in Rejectable
    BY <1>4, EditedTyped DEF Accepts
  <2>2. "rejected" \in Adds(q)
    BY <1>4, <2>1 DEF Adds, StatusOps, MarksOfRequest, MarksOf, Kind
  <2> QED BY <2>1, <2>2 DEF Allowed
<1>5. CASE q.name = "transition"
  <2>1. /\ q.want.status = q.arg /\ q.arg \in NextStatus[c.status]
        /\ CanTransition(c.status, q.role) /\ c.status \in Statuses
    BY <1>5, EditedTyped DEF Accepts, CaseRows
  <2>2. CASE c.status = "in_review"
    <3>1. q.arg = "active" /\ q.role = "admin"
      BY <2>1, <2>2 DEF NextStatus, CanTransition, WorkerStatuses, Roles
    <3>2. "activated" \in Adds(q)
      BY <1>5, <2>1, <3>1 DEF Adds, StatusOps, MarksOfRequest, MarksOf, Kind
    <3> QED BY <2>1, <3>1, <3>2 DEF Allowed
  <2>3. CASE c.status \in {"enrolled", "assessed"}
    BY <2>1, <2>3 DEF NextStatus, Allowed
  <2>4. CASE c.status \in {"active", "transitioning", "closed", "aftercare"}
    BY <2>1, <2>4 DEF NextStatus, Allowed
  <2> QED BY <2>1, <2>2, <2>3, <2>4 DEF Statuses
<1> QED BY <1>1, <1>2, <1>3, <1>4, <1>5 DEF StatusOps

LEMMA SoundGrows ==
    ASSUME NEW q, NEW m, NEW n, m \subseteq n, Sound(q, m)
    PROVE  Sound(q, n)
BY AllowedGrows DEF Sound, Allowed

LEMMA IdleSound == ASSUME NEW m PROVE Sound(Idle, m)
<1>1. InitialRow \in CaseRows
  BY DEF InitialRow, CaseRows, Statuses, CategoryStepsOf
<1>2. Idle \in Requests
  BY <1>1 DEF Idle, Requests, Points, Roles
<1> QED BY <1>2 DEF Sound, WellFormed, Idle

-----------------------------------------------------------------------------
(* Steps *)

\* A request that moves to a sound point disturbs no other.
LEMMA SlotStep ==
    ASSUME IInv, NEW r \in Slots, NEW q, Sound(q, done'),
           done \subseteq done', req' = [req EXCEPT ![r] = q]
    PROVE  RequestsSound'
<1>1. q \in Requests
  BY DEF Sound, WellFormed
<1>2. req' \in [Slots -> Requests] /\ req'[r] = q /\ \A s \in Slots \ {r} : req'[s] = req[s]
  BY <1>1 DEF IInv, RequestsSound
<1>3. ASSUME NEW s \in Slots PROVE Sound(req'[s], done')
  <2>1. CASE s = r
    BY <1>2, <2>1
  <2>2. CASE s # r
    BY <1>2, <2>2, SoundGrows DEF IInv, RequestsSound
  <2> QED BY <2>1, <2>2
<1> QED BY <1>2, <1>3 DEF RequestsSound

\* A request that goes on, leaving the case as it is.
LEMMA MoveStep ==
    ASSUME IInv, NEW r \in Slots, NEW q, Sound(q, done), req' = [req EXCEPT ![r] = q],
           UNCHANGED <<row, file, seals, last, seen, done>>
    PROVE  IInv'
<1>1. RequestsSound'
  BY SlotStep
<1> QED BY <1>1 DEF IInv, CaseTyped

LEMMA BeginKeeps ==
    ASSUME IInv, NEW r \in Slots, NEW op \in Ops, NEW role \in Roles,
           Begin(r, op[1], op[2], role)
    PROVE  IInv'
<1> DEFINE q == [Idle EXCEPT !.name = op[1], !.arg = op[2], !.role = role,
                   !.pc = CASE op[1] \in FileOps -> "write"
                            [] op[1] = "unlock"  -> "unseal"
                            [] OTHER            -> "load"]
<1>1. op \in AllOps
  BY RequestsAssumption
<1>2. op = <<op[1], op[2]>>
  <2>1. \A A, B : op \in A \X B => op = <<op[1], op[2]>>
    OBVIOUS
  <2>2. PICK A, B : op \in A \X B
    BY <1>1, Zenon DEF AllOps
  <2> QED BY <2>1, <2>2, Zenon
<1>3. <<op[1], op[2]>> \in AllOps
  BY <1>1, <1>2
<1>4. op[1] \in {o[1] : o \in AllOps} /\ op[2] \in {o[2] : o \in AllOps}
  BY <1>1
<1>5. (CASE op[1] \in FileOps -> "write"
         [] op[1] = "unlock"  -> "unseal"
         [] OTHER            -> "load") \in {"write", "unseal", "load"}
  BY DEF FileOps
<1>6. Idle \in Requests
  BY IdleSound DEF Sound, WellFormed
<1>7. q \in Requests /\ q.name = op[1] /\ q.arg = op[2]
      /\ q.pc \in {"write", "unseal", "load"}
      /\ (q.pc = "write" => op[1] \in FileOps)
  BY <1>4, <1>5, <1>6 DEF Requests, Points, FileOps
<1>8. Sound(q, done)
  BY <1>3, <1>7 DEF Sound, WellFormed
<1> QED BY <1>8, MoveStep DEF Begin

LEMMA LoadKeeps == ASSUME IInv, NEW r \in Slots, Load(r) PROVE IInv'
<1> DEFINE q == req[r]
           q2 == [q EXCEPT !.snap = row, !.want = Edited(q.name, q.arg, row),
                    !.pc = IF q.name \in {"transition", "lock"} THEN "check" ELSE "save"]
<1>1. Sound(q, done) /\ q.pc = "load" /\ row \in CaseRows /\ Allowed(row.status, done)
  BY DEF Load, IInv, RequestsSound, CaseTyped
<1>2. q \in Requests /\ <<q.name, q.arg>> \in AllOps /\ q.role \in Roles
  BY <1>1 DEF Sound, WellFormed, Requests
<1>3. CASE ~Accepts(q.name, q.arg, q.role, row)
  <2>1. req' = [req EXCEPT ![r] = Idle]
    BY <1>3 DEF Load
  <2> QED BY <2>1, IdleSound, MoveStep DEF Load
<1>4. CASE Accepts(q.name, q.arg, q.role, row)
  <2>1. req' = [req EXCEPT ![r] = q2]
    BY <1>4 DEF Load
  <2>2. Edited(q.name, q.arg, row) \in CaseRows
    BY <1>1, <1>2, EditedTyped
  <2>3. /\ q2 \in Requests /\ q2.name = q.name /\ q2.arg = q.arg /\ q2.role = q.role
        /\ q2.snap = row /\ q2.want = Edited(q.name, q.arg, row)
        /\ q2.pc \in {"check", "save"}
        /\ q2.pc = "check" => q.name \in {"transition", "lock"}
    BY <1>1, <1>2, <2>2 DEF Requests, Points
  <2>4. Allowed(q2.want.status, done \cup Adds(q2))
    <3> HIDE DEF q2, q
    <3> QED BY <1>1, <1>2, <1>4, <2>3, AcceptedIsAllowed
  <2>5. Sound(q2, done)
    BY <1>2, <2>3, <2>4 DEF Sound, WellFormed
  <2> QED BY <2>1, <2>5, MoveStep DEF Load
<1> QED BY <1>3, <1>4

\* A request that only moves on stays sound.
LEMMA AdvancedSound ==
    ASSUME NEW q, NEW m, Sound(q, m), NEW pc \in {"seal", "save"}, q.pc = "check",
           pc = "seal" => q.name = "lock"
    PROVE  Sound([q EXCEPT !.pc = pc], m)
<1> DEFINE q2 == [q EXCEPT !.pc = pc]
<1>1. q \in Requests /\ <<q.name, q.arg>> \in AllOps
  BY DEF Sound, WellFormed
<1>2. q2 \in Requests /\ q2.pc = pc /\ q2.name = q.name /\ q2.arg = q.arg /\ q2.role = q.role
      /\ q2.snap = q.snap /\ q2.want = q.want
  BY <1>1 DEF Requests, Points
<1>3. Adds(q2) = Adds(q)
  BY <1>2 DEF Adds, MarksOfRequest
<1>4. q.name = "lock" => q.arg \in KnownSteps
  BY <1>1, ArgsTyped
<1> QED BY <1>1, <1>2, <1>3, <1>4 DEF Sound, WellFormed

LEMMA CheckKeeps == ASSUME IInv, NEW r \in Slots, Check(r) PROVE IInv'
<1> DEFINE q == req[r]
<1>1. Sound(q, done) /\ q.pc = "check"
  BY DEF Check, IInv, RequestsSound
<1>2. PICK q2 \in {Idle, [q EXCEPT !.pc = IF q.name = "lock" THEN "seal" ELSE "save"]} :
        req' = [req EXCEPT ![r] = q2]
  BY DEF Check
<1>3. Sound([q EXCEPT !.pc = IF q.name = "lock" THEN "seal" ELSE "save"], done)
  BY <1>1, AdvancedSound
<1>4. Sound(q2, done)
  BY <1>2, <1>3, IdleSound
<1> QED BY <1>2, <1>4, MoveStep DEF Check

LEMMA CompareKeeps == ASSUME IInv, NEW r \in Slots, Compare(r) PROVE IInv'
<1> DEFINE q == req[r]
           q2 == [q EXCEPT !.pc = "update", !.base = row]
<1>1. Sound(q, done) /\ q.pc = "save" /\ row \in CaseRows /\ req' = [req EXCEPT ![r] = q2]
  BY DEF Compare, IInv, RequestsSound, CaseTyped
<1>2. q \in Requests /\ <<q.name, q.arg>> \in AllOps
  BY <1>1 DEF Sound, WellFormed
<1>3. q2 \in Requests /\ q2.pc = "update" /\ q2.name = q.name /\ q2.arg = q.arg
      /\ q2.role = q.role /\ q2.snap = q.snap /\ q2.want = q.want
  BY <1>1, <1>2 DEF Requests, Points
<1>4. Adds(q2) = Adds(q)
  BY <1>3 DEF Adds, MarksOfRequest
<1>5. Sound(q2, done)
  BY <1>1, <1>2, <1>3, <1>4 DEF Sound, WellFormed
<1> QED BY <1>1, <1>5, MoveStep DEF Compare

\* The update writes what the request was allowed to write, or puts back a
\* status the row has had.
LEMMA UpdateKeeps == ASSUME IInv, NEW r \in Slots, Update(r) PROVE IInv'
<1> DEFINE q == req[r]
           q2 == [q EXCEPT !.pc = "log", !.base = InitialRow]
<1>1. /\ Sound(q, done) /\ q.pc = "update" /\ row' = MergeRow(q.want, q.base, row)
      /\ UNCHANGED <<file, seals, last, seen>>
  BY DEF Update, IInv, RequestsSound
<1>2. q \in Requests /\ <<q.name, q.arg>> \in AllOps
      /\ q.want \in CaseRows /\ q.base \in CaseRows /\ row \in CaseRows
  BY <1>1 DEF Sound, WellFormed, Requests, IInv, CaseTyped
<1>3. row' \in CaseRows /\ row'.status \in {q.want.status, row.status}
  BY <1>1, <1>2, MergeTyped
<1>4. done' = done \cup Adds(q)
  BY DEF Update, Adds
<1>5. done \subseteq done' /\ done' \subseteq Marks /\ seen' \subseteq done'
  BY <1>1, <1>4, MarksTyped DEF IInv, Adds
<1>6. Allowed(row'.status, done')
  <2>1. Allowed(q.want.status, done')
    BY <1>1, <1>4 DEF Sound
  <2>2. Allowed(row.status, done')
    BY <1>5, AllowedGrows DEF IInv
  <2> QED BY <1>3, <2>1, <2>2
<1>7. RequestsSound'
  <2>1. CASE q.name \in StatusOps
    <3>1. req' = [req EXCEPT ![r] = q2]
      BY <2>1 DEF Update, IInv, RequestsSound
    <3>2. InitialRow \in CaseRows
      BY DEF InitialRow, CaseRows, Statuses, CategoryStepsOf
    <3>3. q2 \in Requests /\ q2.pc = "log" /\ q2.name = q.name /\ q2.arg = q.arg
          /\ q2.role = q.role /\ q2.snap = q.snap /\ q2.want = q.want
      BY <1>2, <3>2 DEF Requests, Points
    <3>4. MarksOfRequest(q2) \subseteq done'
      BY <1>4, <2>1, <3>3 DEF Adds, MarksOfRequest
    <3>5. Sound(q2, done')
      BY <1>2, <3>3, <3>4 DEF Sound, WellFormed
    <3> QED BY <1>5, <3>1, <3>5, SlotStep
  <2>2. CASE q.name \notin StatusOps
    <3>1. req' = [req EXCEPT ![r] = Idle]
      BY <2>2 DEF Update
    <3> QED BY <1>5, <3>1, IdleSound, SlotStep
  <2> QED BY <2>1, <2>2
<1>8. CaseTyped'
  BY <1>1, <1>3 DEF IInv, CaseTyped
<1> QED BY <1>5, <1>6, <1>7, <1>8 DEF IInv

LEMMA LogKeeps == ASSUME IInv, NEW r \in Slots, Log(r) PROVE IInv'
<1> DEFINE q == req[r]
<1>1. /\ Sound(q, done) /\ q.pc = "log" /\ req' = [req EXCEPT ![r] = Idle]
      /\ last' = [to |-> q.want.status, role |-> q.role, kind |-> Kind(q.name)]
      /\ seen' = seen \cup MarksOfRequest(q)
      /\ UNCHANGED <<row, file, seals, done>>
  BY DEF Log, IInv, RequestsSound
<1>2. q.want.status \in Statuses /\ q.role \in Roles
  BY <1>1 DEF Sound, WellFormed, Requests, CaseRows
<1>3. CaseTyped'
  BY <1>1, <1>2 DEF IInv, CaseTyped, Kind
<1>4. RequestsSound'
  BY <1>1, IdleSound, SlotStep
<1>5. seen' \subseteq done'
  BY <1>1 DEF Sound, IInv
<1> QED BY <1>1, <1>3, <1>4, <1>5 DEF IInv

LEMMA SealKeeps == ASSUME IInv, NEW r \in Slots, Seal(r) PROVE IInv'
<1> DEFINE q == req[r]
           q2 == [q EXCEPT !.pc = "advance", !.sealing = q.arg \notin seals]
<1>1. /\ Sound(q, done) /\ q.pc = "seal" /\ seals' = seals \cup {q.arg}
      /\ UNCHANGED <<row, file, last, seen, done>>
  BY DEF Seal, IInv, RequestsSound
<1>2. q \in Requests /\ <<q.name, q.arg>> \in AllOps /\ q.arg \in KnownSteps
  BY <1>1 DEF Sound, WellFormed
<1>3. q2 \in Requests /\ q2.pc = "advance" /\ q2.name = q.name /\ q2.arg = q.arg
  BY <1>2 DEF Requests, Points
<1>4. Sound(q2, done)
  BY <1>2, <1>3 DEF Sound, WellFormed
<1>5. PICK q3 \in {Idle, q2} : req' = [req EXCEPT ![r] = q3]
  BY DEF Seal
<1>6. RequestsSound'
  BY <1>1, <1>4, <1>5, IdleSound, SlotStep
<1>7. CaseTyped'
  BY <1>1, <1>2 DEF IInv, CaseTyped
<1> QED BY <1>1, <1>6, <1>7 DEF IInv

LEMMA AdvanceKeeps == ASSUME IInv, NEW r \in Slots, Advance(r) PROVE IInv'
<1> DEFINE q == req[r]
           name == IF q.role = "admin" THEN "transition" ELSE "review"
           q2 == [q EXCEPT !.pc = "load", !.arg = "assessed", !.name = name]
<1>1. Sound(q, done) /\ q \in Requests
  BY DEF IInv, RequestsSound, Sound, WellFormed
<1>2. <<name, "assessed">> \in AllOps
  BY DEF AllOps, Statuses
<1>3. name \in {op[1] : op \in AllOps} /\ "assessed" \in {op[2] : op \in AllOps}
  <2> HIDE DEF name
  <2> QED BY <1>2, OpsTyped
<1>4. q2 \in Requests /\ q2.pc = "load" /\ q2.name = name /\ q2.arg = "assessed"
  BY <1>1, <1>3 DEF Requests, Points
<1>5. Sound(q2, done)
  BY <1>2, <1>4 DEF Sound, WellFormed
<1>6. PICK q3 \in {Idle, q2} : req' = [req EXCEPT ![r] = q3]
  BY DEF Advance
<1> QED BY <1>5, <1>6, IdleSound, MoveStep DEF Advance

LEMMA UnsealKeeps == ASSUME IInv, NEW r \in Slots, Unseal(r) PROVE IInv'
<1>1. RequestsSound'
  BY IdleSound, SlotStep DEF Unseal
<1> QED BY <1>1 DEF Unseal, IInv, CaseTyped

LEMMA WriteRowKeeps == ASSUME IInv, NEW r \in Slots, WriteRow(r) PROVE IInv'
<1> DEFINE q == req[r]
<1>1. Sound(q, done) /\ q.pc = "write" /\ file' = Written(q.name, q.arg) /\ file \in CaseFiles
  BY DEF WriteRow, IInv, RequestsSound, CaseTyped
<1>2. q.name \in FileOps /\ <<q.name, q.arg>> \in AllOps
  BY <1>1 DEF Sound, WellFormed
<1>3. q.name \in {"log_intervention", "remove_intervention"} => q.arg \in Services
  BY <1>2, ArgsTyped
<1>4. file' \in CaseFiles
  <2>1. CASE q.name \in {"log_intervention", "remove_intervention"}
    <3>1. file' \in {[file EXCEPT !.interventions = @ \cup {q.arg}],
                     [file EXCEPT !.interventions = @ \ {q.arg}]}
      BY <1>1, <2>1 DEF Written
    <3> QED BY <1>1, <1>3, <2>1, <3>1 DEF CaseFiles
  <2>2. CASE q.name = "issue_referral"
    <3>1. file' \in {file, [file EXCEPT !.referrals = @ + 1]}
      BY <1>1, <2>2 DEF Written
    <3> QED BY <1>1, <3>1 DEF CaseFiles
  <2>3. CASE q.name = "revoke_referral"
    <3>1. file' = IF file.referrals > 0 THEN [file EXCEPT !.referrals = @ - 1] ELSE file
      BY <1>1, <2>3 DEF Written
    <3>2. file.referrals > 0 => file.referrals - 1 \in Nat
      BY <1>1 DEF CaseFiles
    <3> QED BY <1>1, <3>1, <3>2 DEF CaseFiles
  <2> QED BY <1>2, <2>1, <2>2, <2>3 DEF FileOps
<1>5. req' = [req EXCEPT ![r] = Idle] /\ UNCHANGED <<row, seals, last, seen, done>>
  BY DEF WriteRow
<1>6. RequestsSound'
  BY <1>5, IdleSound, SlotStep
<1> QED BY <1>4, <1>5, <1>6 DEF IInv, CaseTyped

-----------------------------------------------------------------------------
(* The invariant *)

LEMMA InitHolds == Init => IInv
<1> SUFFICES ASSUME Init PROVE IInv
  OBVIOUS
<1>1. row \in CaseRows /\ Allowed(row.status, done)
  BY DEF Init, InitialRow, CaseRows, Statuses, CategoryStepsOf, Allowed
<1>2. CaseTyped
  BY <1>1 DEF Init, CaseTyped, CaseFiles, Statuses
<1>3. Idle \in Requests
  BY IdleSound DEF Sound, WellFormed
<1>4. RequestsSound
  BY <1>3, IdleSound DEF Init, RequestsSound
<1> QED BY <1>1, <1>2, <1>4 DEF Init, IInv

LEMMA NextHolds == IInv /\ [Next]_vars => IInv'
<1> SUFFICES ASSUME IInv, [Next]_vars PROVE IInv'
  OBVIOUS
<1>1. ASSUME NEW r \in Slots, Proceed(r) PROVE IInv'
  BY <1>1, LoadKeeps, CheckKeeps, CompareKeeps, UpdateKeeps, LogKeeps, SealKeeps,
     AdvanceKeeps, UnsealKeeps, WriteRowKeeps DEF Proceed
<1>2. ASSUME NEW r \in Slots, Fail(r) PROVE IInv'
  BY <1>2, IdleSound, MoveStep DEF Fail
<1>3. CASE UNCHANGED vars
  BY <1>3 DEF vars, IInv, CaseTyped, RequestsSound
<1> QED BY <1>1, <1>2, <1>3, BeginKeeps DEF Next

\* The case, its trail and the requests in hand keep to their domains.
THEOREM TypeCorrect == Spec => []TypeOK
<1>1. IInv => TypeOK
  BY DEF IInv, CaseTyped, RequestsSound, TypeOK
<1> QED BY <1>1, InitHolds, NextHolds, PTL DEF Spec

\* Two pairs of eyes, for any number of requests in flight: no case is in
\* service delivery that no admin activated or overrode, and none is over that
\* nobody activated, rejected or overrode, although saves overwrite each other.
THEOREM DeliveryAuthorised == Spec => []DeliveryIsAuthorised
<1>1. IInv => DeliveryIsAuthorised
  BY DEF IInv, Allowed, DeliveryIsAuthorised
<1> QED BY <1>1, InitHolds, NextHolds, PTL DEF Spec

\* The history shows nothing that has not happened, wherever requests die.
THEOREM HistoryHonest == Spec => []HistoryIsHonest
<1>1. IInv => HistoryIsHonest
  BY DEF IInv, HistoryIsHonest
<1> QED BY <1>1, InitHolds, NextHolds, PTL DEF Spec

=============================================================================
