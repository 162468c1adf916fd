------------------------- MODULE ClientImportProofs -------------------------
(***************************************************************************)
(* For any list, any records on file and any number of workers, requests   *)
(* and failures: values stay in their domains, and the list is saved once  *)
(* but for the leases and requests ImportedOnceUnlessExcused counts.       *)
(***************************************************************************)
EXTENDS ClientImport, FiniteSetTheorems, TLAPS

Bodies == {"none", "keep", "keep other", "same", "same, last", "not the same",
           "waive", "confirm"}
ReqRecord == [pc : {"idle", "loaded"}, kind : AllAsked, r : Rows \cup {0}, body : Bodies,
              todo : SUBSET Targets, row : RowRecord]
WorkerPlaces == {"idle", "gate", "read", "save", "failed"}
WorkerRecord == [pc : WorkerPlaces, rows : [Rows -> RowRecord]]

-----------------------------------------------------------------------------
(* Types *)

\* What rows, requests and workers start from is typed.
LEMMA BlankTyped ==
    BlankRow \in RowRecord /\ IdleReq \in ReqRecord /\ IdleWorker \in WorkerRecord
<1>1. BlankRow \in RowRecord
  BY DEF BlankRow, RowRecord, RowStatuses
<1>2. IdleReq \in ReqRecord
  BY <1>1 DEF IdleReq, ReqRecord, AllAsked, Bodies
<1>3. IdleWorker \in WorkerRecord
  BY <1>1 DEF IdleWorker, WorkerRecord, WorkerPlaces
<1> QED BY <1>1, <1>2, <1>3

\* A row's status is derived from its matches, whatever they are.
LEMMA DerivedTyped == ASSUME NEW m, NEW r PROVE Derived(m, r) \in RowStatuses
BY DEF Derived, RowStatuses

LEMMA OnFileTyped ==
    ASSUME NEW s \in RowStatuses, NEW p PROVE OnFile(s, p) \in RowStatuses
BY DEF OnFile, RowStatuses

LEMMA AnsweredTyped ==
    ASSUME NEW mine \in RowRecord, NEW d \in {"none", "waive", "confirm"}
    PROVE  Answered(mine, d) \in {"none", "waive", "confirm"}
BY DEF Answered, RowRecord

LEMMA UploadedTyped ==
    ASSUME NEW c, NEW b \in Persons \cup {Nobody}, NEW v \in {"allowed", "recent", "intra"}
    PROVE  Uploaded(c, b, v) \in RowRecord
BY DEF Uploaded, RowRecord, RowStatuses

\* An eligibility request answers with a decision, and only the request to
\* finalize is about no row: the type alone does not say it.
Sane(request) ==
    /\ request.kind = "eligible" => request.body \in {"waive", "confirm"}
    /\ request.kind # "finalize" => request.r \in Rows

\* The type invariant by parts.
OpTyped == op \in [status : {"defined", "reviewing", "finalizing", "finalized"},
                   lease : {"none", "held", "stale"}]
MatchTyped == match \in [Rows -> [Targets -> MatchStatuses]]
RowTyped == row \in [Rows -> RowRecord]
ReqTyped ==
    /\ req \in [Requests -> ReqRecord]
    /\ \A q \in Requests : Sane(req[q])
WorkerTyped == worker \in [Workers -> WorkerRecord]
BoundsTyped == faults \in 0..MaxFaults /\ slow \in 0..MaxSlow /\ queued \in 0..MaxQueued
SavedTyped == /\ imports \in Nat
              /\ made \in [Rows -> Nat]
              /\ updated \in [Rows -> SUBSET (Persons \cup {New})]
              /\ skipped \in [Rows -> SUBSET RowStatuses]
AnswersTyped == /\ severed \in [Rows -> SUBSET Targets]
                /\ aside \subseteq Rows /\ crossed \subseteq Rows /\ cleared \subseteq Rows
ExcusedTyped == excused \in Nat

Typed == /\ OpTyped /\ MatchTyped /\ RowTyped /\ ReqTyped /\ WorkerTyped
         /\ BoundsTyped /\ SavedTyped /\ AnswersTyped /\ ExcusedTyped

LEMMA TypedIsTypeOK == Typed => TypeOK
BY DEF Typed, OpTyped, MatchTyped, RowTyped, ReqTyped, WorkerTyped, BoundsTyped, SavedTyped,
       AnswersTyped, ExcusedTyped, TypeOK, ReqRecord, Bodies, WorkerRecord, WorkerPlaces

LEMMA InitTyped == Init => Typed
<1> SUFFICES ASSUME Init PROVE Typed
  OBVIOUS
<1>1. OpTyped /\ MatchTyped
  BY DEF Init, OpTyped, MatchTyped, MatchStatuses
<1>2. RowTyped /\ WorkerTyped
  BY BlankTyped DEF Init, RowTyped, WorkerTyped
<1>3. ReqTyped
  BY BlankTyped DEF Init, ReqTyped, IdleReq, Sane
<1>4. BoundsTyped /\ SavedTyped /\ ExcusedTyped
  BY BoundsAssumption DEF Init, BoundsTyped, SavedTyped, ExcusedTyped
<1>5. AnswersTyped
  BY DEF Init, AnswersTyped
<1> QED BY <1>1, <1>2, <1>3, <1>4, <1>5 DEF Typed

\* A request that is answered is idle.
LEMMA DoneTyped ==
    ASSUME ReqTyped, NEW q \in Requests, Done(q) PROVE ReqTyped'
<1>1. req' \in [Requests -> ReqRecord]
  BY BlankTyped DEF Done, ReqTyped
<1>2. ASSUME NEW p \in Requests PROVE Sane(req'[p])
  BY DEF Done, ReqTyped, IdleReq, Sane
<1> QED BY <1>1, <1>2 DEF ReqTyped

LEMMA UploadTyped == ASSUME Typed, Upload PROVE Typed'
<1>1. OpTyped'
  BY DEF Typed, Upload, OpTyped
<1>2. PICK cand \in [Rows -> SUBSET Targets], best \in [Rows -> Persons \cup {Nobody}],
           verdict \in [Rows -> {"allowed", "recent", "intra"}] :
         /\ row' = [r \in Rows |-> Uploaded(cand[r], best[r], verdict[r])]
         /\ match' = [r \in Rows |-> [t \in Targets |->
              IF t \notin cand[r] THEN "absent"
              ELSE IF verdict[r] = "allowed" THEN "primary" ELSE "pending"]]
  BY DEF Upload
<1>3. RowTyped'
  BY <1>2, UploadedTyped DEF RowTyped
<1>4. MatchTyped'
  BY <1>2 DEF MatchTyped, MatchStatuses
<1> QED BY <1>1, <1>3, <1>4 DEF Typed, Upload, ReqTyped, WorkerTyped, BoundsTyped, SavedTyped,
       AnswersTyped, ExcusedTyped, bounds, saved, answers

\* A request is accepted with what it loads.
LEMMA AcceptTyped ==
    ASSUME Typed, NEW q \in Requests, NEW kind, NEW r \in Rows \cup {0}, NEW body \in Bodies,
           NEW todo \in SUBSET Targets, Accept(q, kind, r, body, todo),
           kind = "eligible" => body \in {"waive", "confirm"}, r \notin Rows => kind = "finalize",
           queued' \in 0..MaxQueued
    PROVE  Typed'
<1>1. (IF r = 0 THEN BlankRow ELSE row[r]) \in RowRecord
  BY BlankTyped DEF Typed, RowTyped
<1>2. req' \in [Requests -> ReqRecord]
  BY <1>1, AskedAssumption DEF Accept, Typed, ReqTyped, ReqRecord
<1>3. ASSUME NEW p \in Requests PROVE Sane(req'[p])
  BY DEF Accept, Typed, ReqTyped, Sane
<1>4. ReqTyped'
  BY <1>2, <1>3 DEF ReqTyped
<1>5. BoundsTyped'
  BY DEF Typed, BoundsTyped, Accept
<1> QED BY <1>4, <1>5 DEF Typed, Accept, OpTyped, MatchTyped, RowTyped, WorkerTyped,
       SavedTyped, AnswersTyped, ExcusedTyped, saved, answers

LEMMA AskTyped == ASSUME Typed, NEW q \in Requests, Ask(q) PROVE Typed'
<1>0. queued \in 0..MaxQueued
  BY DEF Typed, BoundsTyped
<1>1. ASSUME NEW r \in Rows, NEW t \in Targets,
             NEW body \in {"keep", "keep other", "same", "same, last", "not the same"},
             AskDecide(q, r, t, body)
      PROVE  Typed'
  <2>1. queued' = queued /\ Accept(q, "decide", r, body, {t})
    BY <1>1 DEF AskDecide
  <2>2. body \in Bodies /\ {t} \in SUBSET Targets /\ r \in Rows \cup {0} /\ "decide" # "eligible"
    BY <2>1 DEF Bodies
  <2>3. queued' \in 0..MaxQueued
    BY <1>0, <2>1
  <2> QED BY ONLY Typed, q \in Requests, <2>1, <2>2, <2>3, AcceptTyped
<1>2. ASSUME NEW r \in Rows, NEW t \in Targets, AskRevert(q, r, t) PROVE Typed'
  <2>1. queued' = queued /\ Accept(q, "revert", r, "none", {t})
    BY <1>2 DEF AskRevert
  <2>2. "none" \in Bodies /\ {t} \in SUBSET Targets /\ r \in Rows \cup {0} /\ "revert" # "eligible"
    BY DEF Bodies
  <2>3. queued' \in 0..MaxQueued
    BY <1>0, <2>1
  <2> QED BY ONLY Typed, q \in Requests, <2>1, <2>2, <2>3, AcceptTyped
<1>3. ASSUME NEW r \in Rows, AskUndo(q, r) PROVE Typed'
  <2>1. queued' = queued /\ Accept(q, "undo", r, "none", MatchesOf(match, r))
    BY <1>3 DEF AskUndo
  <2>2. /\ "none" \in Bodies /\ MatchesOf(match, r) \in SUBSET Targets
        /\ r \in Rows \cup {0} /\ "undo" # "eligible"
    BY DEF MatchesOf, Bodies
  <2>3. queued' \in 0..MaxQueued
    BY <1>0, <2>1
  <2> QED BY ONLY Typed, q \in Requests, <2>1, <2>2, <2>3, AcceptTyped
<1>4. ASSUME NEW r \in Rows, NEW d \in {"waive", "confirm"},
             NEW todo \in {MatchesOf(match, r)} \cup {{t} : t \in MatchesOf(match, r)},
             AskEligible(q, r, d, todo)
      PROVE Typed'
  <2>1. queued' = queued /\ Accept(q, "eligible", r, d, todo)
    BY <1>4 DEF AskEligible
  <2>2. d \in Bodies /\ todo \in SUBSET Targets /\ r \in Rows \cup {0}
    BY DEF MatchesOf, Bodies
  <2>3. queued' \in 0..MaxQueued
    BY <1>0, <2>1
  <2> QED BY ONLY Typed, q \in Requests, d \in {"waive", "confirm"}, <2>1, <2>2, <2>3, AcceptTyped
<1>5. ASSUME AskFinalize(q) PROVE Typed'
  <2>1. queued' \in 0..MaxQueued /\ Accept(q, "finalize", 0, "none", {})
    BY <1>0, <1>5, BoundsAssumption DEF AskFinalize
  <2>2. "none" \in Bodies /\ {} \in SUBSET Targets /\ 0 \in Rows \cup {0} /\ "finalize" # "eligible"
    BY DEF Bodies
  <2> QED BY ONLY Typed, q \in Requests, <2>1, <2>2, AcceptTyped
<1> QED BY <1>1, <1>2, <1>3, <1>4, <1>5 DEF Ask

-----------------------------------------------------------------------------
(* Types: the transactions of the review *)

LEMMA MatchSetTyped ==
    ASSUME MatchTyped, NEW r, NEW t, NEW s \in MatchStatuses
    PROVE  [match EXCEPT ![r][t] = s] \in [Rows -> [Targets -> MatchStatuses]]
BY DEF MatchTyped

\* The parts of the state a decision does not touch.
LEMMA RestTyped ==
    ASSUME Typed, RowTyped', MatchTyped', ReqTyped', AnswersTyped',
           UNCHANGED <<op, worker, bounds, saved, excused>>
    PROVE  Typed'
BY DEF Typed, OpTyped, WorkerTyped, BoundsTyped, SavedTyped, ExcusedTyped, bounds, saved

LEMMA ReqLoaded ==
    ASSUME ReqTyped, NEW q \in Requests
    PROVE  /\ req[q].row \in RowRecord /\ req[q].todo \in SUBSET Targets
           /\ req[q].r \in Rows \cup {0}
BY DEF ReqTyped, ReqRecord

LEMMA DecidePairTyped ==
    ASSUME Typed, NEW q \in Requests, NEW keep \in BOOLEAN, DecidePair(q, keep)
    PROVE  RowTyped' /\ MatchTyped'
<1> DEFINE mine == req[q].row
           r == req[q].r
           t == TheTarget(q)
           m == [match EXCEPT ![r][t] = IF keep THEN "primary" ELSE "deprioritized"]
           first == [row[t] EXCEPT
               !.status = IF keep THEN "deprioritized"
                          ELSE IF row[t].person # Nobody THEN "retained" ELSE "primary",
               !.decision = Answered(row[t], IF keep THEN "confirm" ELSE "waive")]
           second == [mine EXCEPT
               !.status = OnFile(Derived(m, r), mine.person),
               !.decision = Answered(mine, IF keep THEN "waive" ELSE "confirm")]
<1>1. match' = m /\ row' = [x \in Rows |-> IF x = r THEN second ELSE IF x = t THEN first ELSE row[x]]
  BY DEF DecidePair
<1>2. MatchTyped'
  <2>1. (IF keep THEN "primary" ELSE "deprioritized") \in MatchStatuses
    BY DEF MatchStatuses
  <2> QED BY <1>1, <2>1, MatchSetTyped DEF Typed, MatchTyped
<1>3. second \in RowRecord
  <2>1. mine \in RowRecord
    BY ReqLoaded DEF Typed
  <2>2. OnFile(Derived(m, r), mine.person) \in RowStatuses
    BY DerivedTyped, OnFileTyped
  <2>3. Answered(mine, IF keep THEN "waive" ELSE "confirm") \in {"none", "waive", "confirm"}
    BY <2>1, AnsweredTyped
  <2> QED BY <2>1, <2>2, <2>3 DEF RowRecord
<1>4. ASSUME t \in Rows PROVE first \in RowRecord
  <2>1. row[t] \in RowRecord
    BY <1>4 DEF Typed, RowTyped
  <2>2. Answered(row[t], IF keep THEN "confirm" ELSE "waive") \in {"none", "waive", "confirm"}
    BY <2>1, AnsweredTyped
  <2> QED BY <2>1, <2>2 DEF RowRecord, RowStatuses
<1>5. RowTyped'
  BY <1>1, <1>3, <1>4 DEF Typed, RowTyped
<1> QED BY <1>2, <1>5

LEMMA SeverTyped ==
    ASSUME Typed, NEW q \in Requests, Sever(q) PROVE RowTyped' /\ MatchTyped'
<1> DEFINE r == req[q].r
           m == [match EXCEPT ![r][TheTarget(q)] = "absent"]
           blank == [person |-> Nobody, eligibility |-> "allowed",
                     intra |-> FALSE, decision |-> "none", status |-> Derived(m, r)]
<1>1. match' = m /\ row' = [row EXCEPT ![r] = blank]
  BY DEF Sever
<1>2. blank \in RowRecord
  BY DerivedTyped DEF RowRecord
<1>3. MatchTyped'
  BY <1>1, MatchSetTyped DEF Typed, MatchTyped, MatchStatuses
<1> QED BY <1>1, <1>2, <1>3 DEF Typed, RowTyped

LEMMA ClaimTyped ==
    ASSUME Typed, NEW q \in Requests, NEW last \in BOOLEAN, Claim(q, last)
    PROVE  RowTyped' /\ MatchTyped'
<1> DEFINE mine == req[q].row
           r == req[q].r
           t == TheTarget(q)
           m == [match EXCEPT ![r][t] = IF last THEN "deprioritized" ELSE "primary"]
           person == IF t \in Persons THEN t ELSE mine.person
           decision == IF PendingOf(m, r) = {}
                       THEN Answered(mine, IF last THEN "confirm" ELSE "waive")
                       ELSE mine.decision
           linked == [mine EXCEPT !.person = person,
                                  !.status = OnFile(Derived(m, r), person),
                                  !.decision = decision]
<1>1. match' = m /\ row' = [row EXCEPT ![r] = linked]
  BY DEF Claim
<1>2. MatchTyped'
  <2>1. (IF last THEN "deprioritized" ELSE "primary") \in MatchStatuses
    BY DEF MatchStatuses
  <2> QED BY <1>1, <2>1, MatchSetTyped DEF Typed, MatchTyped
<1>3. linked \in RowRecord
  <2>1. mine \in RowRecord
    BY ReqLoaded DEF Typed
  <2>2. person \in Persons \cup {Nobody, New}
    BY <2>1 DEF RowRecord
  <2>3. OnFile(Derived(m, r), person) \in RowStatuses
    BY DerivedTyped, OnFileTyped
  <2>4. decision \in {"none", "waive", "confirm"}
    BY <2>1, AnsweredTyped DEF RowRecord
  <2> HIDE DEF person, decision
  <2> QED BY <2>1, <2>2, <2>3, <2>4 DEF RowRecord
<1> HIDE DEF linked, m
<1> QED BY <1>1, <1>2, <1>3 DEF Typed, RowTyped

LEMMA DecideTyped == ASSUME Typed, NEW q \in Requests, Decide(q) PROVE Typed'
<1>1. RowTyped' /\ MatchTyped'
  BY DecidePairTyped, SeverTyped, ClaimTyped, Zenon DEF Decide
<1>2. ReqTyped'
  BY DoneTyped DEF Decide, Typed
<1>3. AnswersTyped'
  <2>1. req[q].r \in Rows /\ req[q].todo \in SUBSET Targets
    BY ReqLoaded DEF Decide, Loaded, Typed, ReqTyped, Sane
  <2>2. severed' \in [Rows -> SUBSET Targets]
    BY <2>1 DEF Decide, Told, Typed, AnswersTyped
  <2>3. crossed' \subseteq Rows /\ cleared' \subseteq Rows /\ aside' \subseteq Rows
    BY <2>1 DEF Decide, Told, Typed, AnswersTyped
  <2> QED BY <2>2, <2>3 DEF AnswersTyped
<1>4. UNCHANGED <<op, worker, bounds, saved, excused>>
  BY DEF Decide
<1> QED BY <1>1, <1>2, <1>3, <1>4, RestTyped

LEMMA ReopenedTyped ==
    ASSUME NEW r, NEW m, NEW mine \in RowRecord PROVE Reopened(r, m, mine) \in RowRecord
BY DerivedTyped DEF Reopened, RowRecord

LEMMA RevertTyped == ASSUME Typed, NEW q \in Requests, Revert(q) PROVE Typed'
<1> DEFINE r == req[q].r
           t == TheTarget(q)
           m == [match EXCEPT ![r][t] = "pending"]
           mine == IF row[r].person = t THEN [row[r] EXCEPT !.person = Nobody] ELSE row[r]
<1>1. /\ match' = m
      /\ row' = [s \in Rows |-> IF s = r THEN Reopened(r, m, mine)
                                ELSE IF s = t THEN Reopened(t, m, row[t]) ELSE row[s]]
  BY DEF Revert
<1>2. MatchTyped'
  BY <1>1, MatchSetTyped DEF Typed, MatchTyped, MatchStatuses
<1>3. ASSUME r \in Rows PROVE mine \in RowRecord
  BY <1>3 DEF Typed, RowTyped, RowRecord
<1>4. \A s \in Rows : row[s] \in RowRecord
  BY DEF Typed, RowTyped
<1> HIDE DEF m, mine
<1>5. RowTyped'
  BY <1>1, <1>3, <1>4, ReopenedTyped DEF RowTyped
<1>6. ReqTyped'
  BY DoneTyped DEF Revert, Typed
<1>7. AnswersTyped' /\ UNCHANGED <<op, worker, bounds, saved, excused>>
  BY DEF Revert, Typed, AnswersTyped, answers
<1> QED BY <1>2, <1>5, <1>6, <1>7, RestTyped

LEMMA SaveMatchTyped ==
    ASSUME Typed, NEW q \in Requests, NEW t \in Targets, SaveMatch(q, t) PROVE Typed'
<1>1. MatchTyped'
  <2>1. MatchAnswer(q) \in MatchStatuses
    BY DEF MatchAnswer, MatchStatuses
  <2> QED BY <2>1, MatchSetTyped DEF SaveMatch, Typed, MatchTyped
<1>2. ReqTyped'
  <2>1. req' \in [Requests -> ReqRecord]
    BY DEF SaveMatch, Typed, ReqTyped, ReqRecord
  <2>2. \A p \in Requests : /\ req'[p].kind = req[p].kind /\ req'[p].body = req[p].body
                           /\ req'[p].r = req[p].r
    BY DEF SaveMatch, Typed, ReqTyped, ReqRecord
  <2> QED BY <2>1, <2>2 DEF Typed, ReqTyped, Sane
<1>3. AnswersTyped'
  <2>1. req[q].r \in Rows
    BY DEF SaveMatch, Loaded, Typed, ReqTyped, Sane
  <2> QED BY <2>1 DEF SaveMatch, Typed, AnswersTyped
<1>4. RowTyped' /\ UNCHANGED <<op, worker, bounds, saved, excused>>
  BY DEF SaveMatch, Typed, RowTyped
<1> QED BY <1>1, <1>2, <1>3, <1>4, RestTyped

LEMMA UndoTyped == ASSUME Typed, NEW q \in Requests, Undo(q) PROVE Typed'
<1>1. RowTyped'
  <2>1. [req[q].row EXCEPT !.decision = "none", !.status = Derived(match, req[q].r)] \in RowRecord
    BY ReqLoaded, DerivedTyped DEF Typed, RowRecord
  <2> QED BY <2>1 DEF Undo, Typed, RowTyped
<1>2. ReqTyped'
  BY DoneTyped DEF Undo, Typed
<1>3. MatchTyped' /\ AnswersTyped' /\ UNCHANGED <<op, worker, bounds, saved, excused>>
  BY DEF Undo, Typed, MatchTyped, AnswersTyped, answers
<1> QED BY <1>1, <1>2, <1>3, RestTyped

LEMMA EligibleTyped == ASSUME Typed, NEW q \in Requests, Eligible(q) PROVE Typed'
<1>1. RowTyped'
  <2> DEFINE status == IF ~\E t \in Targets : match[req[q].r][t] = "primary" THEN "deprioritized"
                       ELSE IF MatchesOf(match, req[q].r) \cap Persons # {} THEN "retained"
                       ELSE "primary"
             next == [req[q].row EXCEPT !.decision = req[q].body, !.status = status]
  <2>1. row' = row \/ row' = [row EXCEPT ![req[q].r] = next]
    BY DEF Eligible
  <2>2. status \in RowStatuses
    BY DEF RowStatuses
  <2>3. req[q].body \in {"waive", "confirm"}
    BY DEF Eligible, Loaded, Typed, ReqTyped, Sane
  <2> HIDE DEF status
  <2>4. next \in RowRecord
    BY <2>2, <2>3, ReqLoaded DEF Typed, RowRecord
  <2> HIDE DEF next
  <2> QED BY <2>1, <2>4 DEF Typed, RowTyped
<1>2. ReqTyped'
  BY DoneTyped DEF Eligible, Typed
<1>3. MatchTyped' /\ AnswersTyped' /\ UNCHANGED <<op, worker, bounds, saved, excused>>
  BY DEF Eligible, Typed, MatchTyped, AnswersTyped, answers
<1> QED BY <1>1, <1>2, <1>3, RestTyped

-----------------------------------------------------------------------------
(* Types: the queue and the worker *)

LEMMA EnqueueTyped == ASSUME Typed, NEW q \in Requests, Enqueue(q) PROVE Typed'
<1>1. ReqTyped'
  BY DoneTyped DEF Enqueue, Typed
<1>2. OpTyped' /\ ExcusedTyped'
  BY DEF Enqueue, Typed, OpTyped, ExcusedTyped
<1> QED BY <1>1, <1>2 DEF Enqueue, Typed, MatchTyped, RowTyped, WorkerTyped, BoundsTyped,
       SavedTyped, AnswersTyped, bounds, saved, answers

LEMMA CutTyped == ASSUME Typed, NEW q \in Requests, Cut(q) PROVE Typed'
<1>1. ReqTyped'
  BY DoneTyped DEF Cut, Typed
<1>2. BoundsTyped'
  BY BoundsAssumption DEF Cut, Typed, BoundsTyped
<1> QED BY <1>1, <1>2 DEF Cut, Typed, OpTyped, MatchTyped, RowTyped, WorkerTyped, SavedTyped,
       AnswersTyped, ExcusedTyped, saved, answers

LEMMA AtTyped ==
    ASSUME WorkerTyped, NEW w \in Workers, NEW pc \in WorkerPlaces, At(w, pc) PROVE WorkerTyped'
BY BlankTyped DEF WorkerTyped, WorkerRecord, At

\* A worker's step that is no save: it moves, and may write the operation.
LEMMA WorkerMoves ==
    ASSUME Typed, OpTyped', WorkerTyped', BoundsTyped',
           UNCHANGED <<match, row, req, saved, answers, excused>>
    PROVE  Typed'
BY DEF Typed, MatchTyped, RowTyped, ReqTyped, SavedTyped, AnswersTyped, ExcusedTyped, saved, answers

\* What the one transaction writes: the rows it makes persons of, and those of
\* which it writes the person on file, who may be gone.
Wrote(rows, created, written) ==
    /\ created = {r \in Rows : Creates(rows[r])}
    /\ written \subseteq {r \in Rows : Updates(rows[r])}
    /\ row' = [r \in Rows |-> IF r \in created THEN [rows[r] EXCEPT !.person = New]
                              ELSE IF r \in written THEN rows[r] ELSE row[r]]
    /\ made' = [r \in Rows |-> IF r \in created THEN made[r] + 1 ELSE made[r]]
    /\ updated' = [r \in Rows |-> IF r \in written THEN updated[r] \cup {rows[r].person}
                                  ELSE updated[r]]
    /\ skipped' = [r \in Rows |-> IF r \in created \cup written THEN skipped[r]
                                  ELSE skipped[r] \cup {rows[r].status}]

LEMMA SaveWrites ==
    ASSUME NEW w \in Workers, Save(w)
    PROVE  \E created, written : Wrote(worker[w].rows, created, written)
<1>1. PICK gone \in SUBSET Persons :
        LET rows == worker[w].rows
            created == {r \in Rows : Creates(rows[r])}
            written == {r \in Rows : Updates(rows[r]) /\ rows[r].person \notin gone}
        IN  /\ row' = [r \in Rows |->
                  IF r \in created THEN [rows[r] EXCEPT !.person = New]
                  ELSE IF r \in written THEN rows[r] ELSE row[r]]
            /\ made' = [r \in Rows |-> IF r \in created THEN made[r] + 1 ELSE made[r]]
            /\ updated' = [r \in Rows |-> IF r \in written THEN updated[r] \cup {rows[r].person}
                                          ELSE updated[r]]
            /\ skipped' = [r \in Rows |-> IF r \in created \cup written THEN skipped[r]
                                          ELSE skipped[r] \cup {rows[r].status}]
  BY DEF Save
<1>2. PICK created, written :
        /\ created = {r \in Rows : Creates(worker[w].rows[r])}
        /\ written = {r \in Rows : /\ Updates(worker[w].rows[r])
                                   /\ worker[w].rows[r].person \notin gone}
  OBVIOUS
<1>3. Wrote(worker[w].rows, created, written)
  BY <1>1, <1>2 DEF Wrote
<1> QED BY <1>3

LEMMA SaveTyped == ASSUME Typed, NEW w \in Workers, Save(w) PROVE Typed'
<1> DEFINE mine == worker[w].rows
<1>0. PICK created, written : Wrote(mine, created, written)
  BY SaveWrites
<1>1. \A r \in Rows : mine[r] \in RowRecord /\ row[r] \in RowRecord
  BY DEF Typed, RowTyped, WorkerTyped, WorkerRecord
<1>2. RowTyped'
  <2>1. \A r \in Rows : [mine[r] EXCEPT !.person = New] \in RowRecord
    BY <1>1 DEF RowRecord
  <2> QED BY <1>0, <1>1, <2>1 DEF RowTyped, Wrote
<1>3. SavedTyped'
  <2>1. imports' \in Nat
    BY DEF Save, Typed, SavedTyped
  <2>2. made' \in [Rows -> Nat]
    BY <1>0 DEF Typed, SavedTyped, Wrote
  <2>3. updated' \in [Rows -> SUBSET (Persons \cup {New})]
    <3>1. \A r \in written : mine[r].person \in Persons \cup {New}
      BY <1>0, <1>1 DEF Updates, RowRecord, Wrote
    <3> QED BY <1>0, <3>1 DEF Typed, SavedTyped, Wrote
  <2>4. skipped' \in [Rows -> SUBSET RowStatuses]
    <3>1. \A r \in Rows : mine[r].status \in RowStatuses
      BY <1>1 DEF RowRecord
    <3> QED BY <1>0, <3>1 DEF Typed, SavedTyped, Wrote
  <2> QED BY <2>1, <2>2, <2>3, <2>4 DEF SavedTyped
<1>4. OpTyped' /\ WorkerTyped'
  BY AtTyped DEF Save, Typed, OpTyped, WorkerPlaces
<1> QED BY <1>2, <1>3, <1>4 DEF Save, Typed, MatchTyped, ReqTyped, BoundsTyped, AnswersTyped,
       ExcusedTyped, bounds, answers

LEMMA WorkerTypedKept ==
    ASSUME Typed, NEW w \in Workers, WorkerStep(w) \/ SaveFails(w) \/ Stop(w) PROVE Typed'
<1>1. ASSUME ClaimJob(w) PROVE Typed'
  <2>1. OpTyped' /\ WorkerTyped' /\ BoundsTyped'
    BY <1>1, AtTyped DEF ClaimJob, Typed, OpTyped, WorkerPlaces, BoundsTyped, bounds
  <2> QED BY <1>1, <2>1, WorkerMoves DEF ClaimJob
<1>2. ASSUME Gate(w) PROVE Typed'
  <2>1. OpTyped' /\ WorkerTyped' /\ BoundsTyped'
    BY <1>2, AtTyped DEF Gate, Typed, OpTyped, WorkerPlaces, BoundsTyped, bounds
  <2> QED BY <1>2, <2>1, WorkerMoves DEF Gate
<1>3. ASSUME Read(w) PROVE Typed'
  <2>1. WorkerTyped'
    BY <1>3 DEF Read, Typed, RowTyped, WorkerTyped, WorkerRecord, WorkerPlaces
  <2>2. OpTyped' /\ BoundsTyped'
    BY <1>3 DEF Read, Typed, OpTyped, BoundsTyped, bounds
  <2> QED BY <1>3, <2>1, <2>2, WorkerMoves DEF Read
<1>4. ASSUME Save(w) PROVE Typed'
  BY <1>4, SaveTyped
<1>5. ASSUME RecordFailure(w) PROVE Typed'
  <2>1. OpTyped' /\ WorkerTyped' /\ BoundsTyped'
    BY <1>5, AtTyped DEF RecordFailure, Typed, OpTyped, WorkerPlaces, BoundsTyped, bounds
  <2> QED BY <1>5, <2>1, WorkerMoves DEF RecordFailure
<1>6. ASSUME SaveFails(w) PROVE Typed'
  <2>1. OpTyped' /\ WorkerTyped'
    BY <1>6, AtTyped DEF SaveFails, Typed, OpTyped, WorkerPlaces
  <2>2. BoundsTyped'
    BY <1>6, BoundsAssumption DEF SaveFails, Typed, BoundsTyped
  <2> QED BY <1>6, <2>1, <2>2, WorkerMoves DEF SaveFails
<1>7. ASSUME Stop(w) PROVE Typed'
  <2>1. OpTyped' /\ WorkerTyped'
    BY <1>7, AtTyped DEF Stop, Typed, OpTyped, WorkerPlaces
  <2>2. BoundsTyped'
    BY <1>7, BoundsAssumption DEF Stop, Typed, BoundsTyped
  <2> QED BY <1>7, <2>1, <2>2, WorkerMoves DEF Stop
<1> QED BY <1>1, <1>2, <1>3, <1>4, <1>5, <1>6, <1>7 DEF WorkerStep

LEMMA LeaseTyped == ASSUME Typed, Expire \/ Outlive PROVE Typed'
<1>1. OpTyped' /\ BoundsTyped' /\ ExcusedTyped'
  BY BoundsAssumption DEF Expire, Outlive, Typed, OpTyped, BoundsTyped, ExcusedTyped, bounds
<1> QED BY <1>1 DEF Expire, Outlive, Typed, MatchTyped, RowTyped, ReqTyped, WorkerTyped,
       SavedTyped, AnswersTyped, saved, answers

LEMMA NextTyped == ASSUME Typed, [Next]_vars PROVE Typed'
<1>1. ASSUME NEW q \in Requests, Ask(q) \/ RequestStep(q) \/ Cut(q) PROVE Typed'
  BY <1>1, AskTyped, DecideTyped, RevertTyped, UndoTyped, EligibleTyped, EnqueueTyped,
     SaveMatchTyped, CutTyped DEF RequestStep
<1>2. ASSUME UNCHANGED vars PROVE Typed'
  BY <1>2 DEF Typed, OpTyped, MatchTyped, RowTyped, ReqTyped, WorkerTyped, BoundsTyped,
       SavedTyped, AnswersTyped, ExcusedTyped, vars, bounds, saved, answers
<1> QED BY <1>1, <1>2, UploadTyped, WorkerTypedKept, LeaseTyped DEF Next

\* Every value the review and the worker write stays in its domain, whatever
\* the list, the records on file and the failures.
THEOREM TypeCorrect == Spec => []TypeOK
<1>1. Init => Typed
  BY InitTyped
<1>2. Typed /\ [Next]_vars => Typed'
  BY NextTyped
<1> QED BY <1>1, <1>2, TypedIsTypeOK, PTL DEF Spec

-----------------------------------------------------------------------------
(* The list is saved once *)

\* A save ahead: nobody is at the list, or its lease has run out, so that a
\* worker may still claim it.
Open == op.status # "finalized" /\ (op.lease # "held" \/ Busy = {})
Avail == IF Open THEN 1 ELSE 0

\* Saves made, saves under way and the save ahead are one, but for what
\* excused counts.  Every step passes this one token on.
Token == imports + Cardinality(Busy) + Avail <= 1 + excused

\* Only a queued operation carries a lease.
LeaseMeansQueued == op.lease # "none" => op.status = "finalizing"

OnceInv == Typed /\ LeaseMeansQueued /\ Token

LEMMA BusyFinite == IsFiniteSet(Busy) /\ Cardinality(Busy) \in Nat
<1>1. Busy \subseteq Workers
  BY DEF Busy
<1> QED BY <1>1, WorkersAssumption, FS_Subset, FS_CardinalityType

LEMMA NobodyBusy == (Busy = {}) <=> (Cardinality(Busy) = 0)
BY BusyFinite, FS_EmptySet

\* A worker that starts adds one, one that ends takes one away.
LEMMA BusyMore ==
    ASSUME NEW w \in Workers, w \notin Busy, Busy' = Busy \cup {w}
    PROVE  Cardinality(Busy') = Cardinality(Busy) + 1
BY BusyFinite, FS_AddElement

LEMMA BusyLess ==
    ASSUME NEW w \in Workers, w \in Busy, Busy' = Busy \ {w}
    PROVE  Cardinality(Busy') = Cardinality(Busy) - 1
BY BusyFinite, FS_RemoveElement

LEMMA AtIdle ==
    ASSUME WorkerTyped, NEW w \in Workers, At(w, "idle") PROVE Busy' = Busy \ {w}
BY DEF WorkerTyped, WorkerRecord, At, Busy, IdleWorker

LEMMA AtBusy ==
    ASSUME WorkerTyped, NEW w \in Workers, NEW pc, pc # "idle", At(w, pc)
    PROVE  Busy' = Busy \cup {w}
BY DEF WorkerTyped, WorkerRecord, At, Busy

\* The token stays where it is when nothing it counts changes.
LEMMA TokenKept ==
    ASSUME OnceInv, Busy' = Busy, op' = op, imports' = imports, excused' = excused
    PROVE  LeaseMeansQueued' /\ Token'
BY DEF OnceInv, LeaseMeansQueued, Token, Avail, Open

LEMMA NumbersTyped ==
    ASSUME Typed
    PROVE  imports \in Nat /\ excused \in Nat /\ Cardinality(Busy) \in Nat /\ Avail \in {0, 1}
BY BusyFinite DEF Typed, SavedTyped, ExcusedTyped, Avail

LEMMA InitOnce == Init => OnceInv
<1> SUFFICES ASSUME Init PROVE OnceInv
  OBVIOUS
<1>1. Busy = {}
  BY DEF Init, Busy, IdleWorker
<1> QED BY <1>1, NobodyBusy, InitTyped DEF Init, OnceInv, LeaseMeansQueued, Token, Avail

\* A request queues the list: of a list not claimed and not saved that is the
\* save ahead already there, else it is one more, and counted.
LEMMA EnqueueOnce ==
    ASSUME OnceInv, NEW q \in Requests, Enqueue(q) PROVE LeaseMeansQueued' /\ Token'
<1>1. Busy' = Busy /\ imports' = imports
  BY DEF Enqueue, Busy, saved
<1>2. op' = [status |-> "finalizing", lease |-> "none"]
  BY DEF Enqueue
<1>3. Avail' = 1
  BY <1>2 DEF Avail, Open
<1>4. CASE op.status = "finalized" \/ op.lease # "none"
  <2>1. excused' = excused + 1
    BY <1>4 DEF Enqueue
  <2> QED BY <1>1, <1>2, <1>3, <2>1, NumbersTyped DEF OnceInv, LeaseMeansQueued, Token
<1>5. CASE ~(op.status = "finalized" \/ op.lease # "none")
  <2>1. excused' = excused
    BY <1>5 DEF Enqueue
  <2>2. Avail = 1
    BY <1>5 DEF Avail, Open
  <2> QED BY <1>1, <1>2, <1>3, <2>1, <2>2 DEF OnceInv, LeaseMeansQueued, Token
<1> QED BY <1>4, <1>5

\* A claim turns the save ahead into a save under way.
LEMMA ClaimOnce ==
    ASSUME OnceInv, NEW w \in Workers, ClaimJob(w) PROVE LeaseMeansQueued' /\ Token'
<1>1. w \notin Busy /\ Busy' = Busy \cup {w}
  BY AtBusy DEF ClaimJob, OnceInv, Typed, Busy
<1>2. Cardinality(Busy') = Cardinality(Busy) + 1
  BY <1>1, BusyMore
<1>3. op' = [op EXCEPT !.lease = "held"] /\ imports' = imports /\ excused' = excused
  BY DEF ClaimJob, saved
<1>4. op'.lease = "held" /\ op'.status = "finalizing" /\ op.lease # "held"
  BY <1>3 DEF ClaimJob, Free, OnceInv, Typed, OpTyped
<1>5. Avail = 1 /\ Avail' = 0
  BY <1>1, <1>4 DEF ClaimJob, Avail, Open
<1> QED BY <1>2, <1>3, <1>4, <1>5, NumbersTyped DEF OnceInv, LeaseMeansQueued, Token

\* A save under way becomes a save made, and none is ahead.
LEMMA SaveOnce ==
    ASSUME OnceInv, NEW w \in Workers, Save(w) PROVE LeaseMeansQueued' /\ Token'
<1>1. w \in Busy /\ Busy' = Busy \ {w}
  BY AtIdle DEF Save, OnceInv, Typed, Busy
<1>2. Cardinality(Busy') = Cardinality(Busy) - 1
  BY <1>1, BusyLess
<1>3. /\ op' = [status |-> "finalized", lease |-> "none"]
      /\ imports' = imports + 1 /\ excused' = excused
  BY DEF Save
<1>4. Avail' = 0
  BY <1>3 DEF Avail, Open
<1> QED BY <1>2, <1>3, <1>4, NumbersTyped DEF OnceInv, LeaseMeansQueued, Token

\* A worker that gives up or dies hands its save back, at most.
LEMMA GiveUpOnce ==
    ASSUME OnceInv, NEW w \in Workers, RecordFailure(w) \/ Stop(w)
    PROVE  LeaseMeansQueued' /\ Token'
<1>1. w \in Busy /\ Busy' = Busy \ {w}
  BY AtIdle DEF RecordFailure, Stop, OnceInv, Typed, Busy
<1>2. Cardinality(Busy') = Cardinality(Busy) - 1
  BY <1>1, BusyLess
<1>3. imports' = imports /\ excused' = excused
  BY DEF RecordFailure, Stop, saved
<1>4. LeaseMeansQueued'
  BY DEF RecordFailure, Stop, OnceInv, LeaseMeansQueued
<1>5. Avail' \in {0, 1}
  BY DEF Avail
<1> QED BY <1>2, <1>3, <1>4, <1>5, NumbersTyped DEF OnceInv, Token

\* A lease that runs out under nobody opens nothing that was not open; under a
\* worker it opens one save more, and that is counted.
LEMMA LeaseOnce == ASSUME OnceInv, Expire \/ Outlive PROVE LeaseMeansQueued' /\ Token'
<1>1. Busy' = Busy /\ imports' = imports
  BY DEF Expire, Outlive, Busy, saved
<1>2. op'.lease = "stale" /\ op'.status = op.status /\ op.status = "finalizing"
  BY DEF Expire, Outlive, OnceInv, Typed, OpTyped, LeaseMeansQueued
<1>3. Avail' = 1
  BY <1>2 DEF Avail, Open
<1>4. CASE Expire
  <2>1. Avail = 1 /\ excused' = excused
    BY <1>2, <1>4 DEF Expire, Avail, Open
  <2> QED BY <1>1, <1>2, <1>3, <2>1 DEF OnceInv, LeaseMeansQueued, Token
<1>5. CASE Outlive
  <2>1. excused' = excused + 1
    BY <1>5 DEF Outlive
  <2> QED BY <1>1, <1>2, <1>3, <2>1, NumbersTyped DEF OnceInv, LeaseMeansQueued, Token
<1> QED BY <1>4, <1>5

LEMMA UploadOnce == ASSUME OnceInv, Upload PROVE LeaseMeansQueued' /\ Token'
<1>1. Busy' = Busy /\ imports' = imports /\ excused' = excused
  BY DEF Upload, Busy, saved
<1>2. op'.status = "reviewing" /\ op.status = "defined" /\ op'.lease = op.lease
  BY DEF Upload, OnceInv, Typed, OpTyped
<1> QED BY <1>1, <1>2 DEF OnceInv, LeaseMeansQueued, Token, Avail, Open

\* Asking, and answering in the review, moves no token ...
LEMMA AskOnce ==
    ASSUME OnceInv, NEW q \in Requests, Ask(q) PROVE LeaseMeansQueued' /\ Token'
<1> SUFFICES ASSUME NEW kind, NEW r, NEW body, NEW todo, Accept(q, kind, r, body, todo)
             PROVE  LeaseMeansQueued' /\ Token'
  BY DEF Ask, AskDecide, AskRevert, AskUndo, AskEligible, AskFinalize
<1>1. op' = op /\ imports' = imports /\ excused' = excused /\ Busy' = Busy
  BY DEF Accept, saved, Busy
<1> QED BY <1>1, TokenKept

LEMMA ReviewOnce ==
    ASSUME OnceInv, NEW q \in Requests,
           \/ Decide(q) \/ Revert(q) \/ Undo(q) \/ Eligible(q) \/ Cut(q)
           \/ \E t \in Targets : SaveMatch(q, t)
    PROVE  LeaseMeansQueued' /\ Token'
<1>1. op' = op /\ imports' = imports /\ excused' = excused /\ worker' = worker
  BY DEF Decide, Revert, Undo, Eligible, Cut, SaveMatch, saved
<1>2. Busy' = Busy
  BY <1>1 DEF Busy
<1> QED BY <1>1, <1>2, TokenKept

\* ... nor does a worker's way to its save.
LEMMA WayOnce ==
    ASSUME OnceInv, NEW w \in Workers, Gate(w) \/ Read(w) \/ SaveFails(w)
    PROVE  LeaseMeansQueued' /\ Token'
<1>1. op' = op /\ imports' = imports /\ excused' = excused
  BY DEF Gate, Read, SaveFails, saved
<1>2. w \in Busy
  BY DEF Gate, Read, SaveFails, Busy
<1>3. ASSUME Read(w) PROVE Busy' = Busy
  BY <1>3 DEF Read, OnceInv, Typed, WorkerTyped, WorkerRecord, Busy
<1>4. ASSUME Gate(w) \/ SaveFails(w) PROVE Busy' = Busy
  <2>1. PICK pc : pc # "idle" /\ At(w, pc)
    BY <1>4 DEF Gate, SaveFails
  <2> QED BY <1>2, <2>1, AtBusy DEF OnceInv, Typed
<1> QED BY <1>1, <1>3, <1>4, TokenKept

LEMMA NextOnce == ASSUME OnceInv, [Next]_vars PROVE OnceInv'
<1>1. Typed'
  BY NextTyped DEF OnceInv
<1>2. LeaseMeansQueued' /\ Token'
  <2>1. ASSUME NEW q \in Requests, Ask(q) \/ RequestStep(q) \/ Cut(q)
        PROVE  LeaseMeansQueued' /\ Token'
    BY <2>1, AskOnce, ReviewOnce, EnqueueOnce DEF RequestStep
  <2>2. ASSUME NEW w \in Workers, WorkerStep(w) \/ SaveFails(w) \/ Stop(w)
        PROVE  LeaseMeansQueued' /\ Token'
    BY <2>2, ClaimOnce, WayOnce, SaveOnce, GiveUpOnce DEF WorkerStep
  <2>3. ASSUME UNCHANGED vars PROVE LeaseMeansQueued' /\ Token'
    BY <2>3, TokenKept DEF vars, saved, Busy
  <2> QED BY <2>1, <2>2, <2>3, UploadOnce, LeaseOnce DEF Next
<1> QED BY <1>1, <1>2 DEF OnceInv

\* However many workers there are, however they stop, and whenever finalize is
\* asked for, the list is saved once but for the leases that ran out under a
\* worker at the list and the requests whose save came late.
THEOREM ImportedOnce == Spec => []ImportedOnceUnlessExcused
<1>1. Init => OnceInv
  BY InitOnce
<1>2. OnceInv /\ [Next]_vars => OnceInv'
  BY NextOnce
<1>3. OnceInv => ImportedOnceUnlessExcused
  BY NumbersTyped DEF OnceInv, Token, ImportedOnceUnlessExcused
<1> QED BY <1>1, <1>2, <1>3, PTL DEF Spec

=============================================================================
