---------------------- MODULE ClientImportReviewProofs ----------------------
(***************************************************************************)
(* For one operator, one worker or any number that keep within the lease,  *)
(* and any list, records on file, stops and failed saves: what is          *)
(* finalized has been decided, no undecided row is left out of a save, a   *)
(* record the operator said is somebody else's is not written, a row kept  *)
(* as somebody on file makes no second record, and of two rows that        *)
(* duplicate only each other one at most is saved where the operator was   *)
(* asked which to keep.                                                    *)
(***************************************************************************)
EXTENDS ClientImportProofs

OneWorker == \A v, w \in Workers : v = w

\* One operator, and one worker or any number of which none outlives its lease.
OneAtWork == /\ \A p, q \in Requests : p = q
             /\ OneWorker \/ MaxSlow = 0

-----------------------------------------------------------------------------
(* The invariant *)

\* The worker has the list only while it is being finalized, and a request is
\* in hand only during the review: they never meet.
Apart ==
    /\ \A w \in Workers : worker[w].pc # "idle" => op.status = "finalizing"
    /\ \A q \in Requests : req[q].pc = "loaded" => op.status = "reviewing"

\* No two workers are at the list: while nobody outlives the lease, who is
\* there holds it.
Single ==
    /\ \A v, w \in Workers : worker[v].pc # "idle" /\ worker[w].pc # "idle" => v = w
    /\ MaxSlow = 0 => \A w \in Workers : worker[w].pc # "idle" => op.lease = "held"

\* What the worker's gates let through stays ripe, and as the worker read it.
Gated ==
    /\ \A w \in Workers : worker[w].pc \in {"read", "save"} => Ripe
    /\ \A w \in Workers : worker[w].pc = "save" => worker[w].rows = row
    /\ op.status = "finalized" => Ripe

\* A request in hand is about matches that are there and the row as it is.
Fresh ==
    \A q \in Requests : req[q].pc = "loaded" /\ req[q].kind # "finalize" =>
        /\ req[q].todo \subseteq MatchesOf(match, req[q].r)
        /\ req[q].row = row[req[q].r]
        /\ req[q].kind \in {"decide", "revert"} => \E t \in Targets : req[q].todo = {t}

\* A severed record is neither matched nor pointed at.
Gone == \A r \in Rows : /\ severed[r] \cap MatchesOf(match, r) = {}
                        /\ row[r].person \notin severed[r]

\* Nothing is severed before the review, nothing written before the end.
InTime == /\ op.status = "defined" => \A r \in Rows : severed[r] = {}
          /\ \A r \in Rows : updated[r] # {} => op.status = "finalized"

\* A row is pending for a match that is, unless it was answered aside.
PendingIsMeant ==
    \A r \in Rows \ aside :
        row[r].status = "pending" /\ op.status # "defined" => PendingOf(match, r) # {}

ReviewInv == /\ Typed /\ Apart /\ Single /\ Gated /\ Fresh /\ Gone /\ InTime /\ PendingIsMeant
             /\ SeveredStaysSevered /\ NobodySkipped

-----------------------------------------------------------------------------
(* Facts about the operators *)

LEMMA DerivedPending ==
    ASSUME NEW m, NEW r, NEW p, OnFile(Derived(m, r), p) = "pending" \/ Derived(m, r) = "pending"
    PROVE  PendingOf(m, r) # {}
BY DEF OnFile, Derived

LEMMA TheTargetIs ==
    ASSUME NEW q, NEW t \in Targets, req[q].todo = {t} PROVE TheTarget(q) = t
BY DEF TheTarget

\* Answering a match that is there leaves every row the matches it had.
LEMMA MatchesKept ==
    ASSUME MatchTyped, NEW r \in Rows, NEW t \in MatchesOf(match, r), NEW s, s # "absent",
           match' = [match EXCEPT ![r][t] = s]
    PROVE  \A x \in Rows : MatchesOf(match', x) = MatchesOf(match, x)
BY DEF MatchTyped, MatchesOf

\* The other rows' matches are as they were.
LEMMA Elsewhere ==
    ASSUME MatchTyped, NEW r \in Rows, NEW t \in Targets, NEW s,
           match' = [match EXCEPT ![r][t] = s], NEW x \in Rows, x # r
    PROVE  MatchesOf(match', x) = MatchesOf(match, x) /\ PendingOf(match', x) = PendingOf(match, x)
BY DEF MatchTyped, MatchesOf, PendingOf

LEMMA InitReview == Init => ReviewInv
<1> SUFFICES ASSUME Init PROVE ReviewInv
  OBVIOUS
<1>1. Apart /\ Single /\ Gated /\ Fresh
  BY DEF Init, Apart, Single, Gated, Fresh, IdleReq, IdleWorker
<1>2. Gone /\ InTime /\ PendingIsMeant
  BY PersonsAssumption DEF Init, Gone, InTime, PendingIsMeant
<1>3. SeveredStaysSevered /\ NobodySkipped
  BY DEF Init, SeveredStaysSevered, NobodySkipped
<1> QED BY <1>1, <1>2, <1>3, InitTyped DEF ReviewInv

-----------------------------------------------------------------------------
(* The review *)

\* During the review no worker is at the list and nothing has been written, so
\* that a step has to keep what is severed gone, the row in hand fresh and the
\* statuses meant.
LEMMA ReviewStep ==
    ASSUME ReviewInv, Typed', op.status = "reviewing", UNCHANGED <<op, worker, saved>>,
           aside \subseteq aside', Fresh', Gone', PendingIsMeant'
    PROVE  ReviewInv'
<1>1. \A w \in Workers : worker[w].pc = "idle"
  BY DEF ReviewInv, Apart
<1>2. Apart' /\ Single' /\ Gated'
  BY <1>1 DEF ReviewInv, Apart, Single, Gated
<1>3. \A r \in Rows : updated'[r] = {}
  BY DEF ReviewInv, InTime, saved
<1>4. InTime' /\ SeveredStaysSevered'
  BY <1>3 DEF InTime, SeveredStaysSevered
<1>5. NobodySkipped'
  BY DEF ReviewInv, NobodySkipped, saved
<1> QED BY <1>2, <1>4, <1>5 DEF ReviewInv

LEMMA DoneFresh == ASSUME OneAtWork, ReqTyped, NEW q \in Requests, Done(q) PROVE Fresh'
<1>1. req'[q].pc = "idle"
  BY DEF Done, ReqTyped, IdleReq
<1> QED BY <1>1 DEF OneAtWork, Fresh

LEMMA InHand ==
    ASSUME ReviewInv, NEW q \in Requests, req[q].pc = "loaded"
    PROVE  op.status = "reviewing" /\ Typed
BY DEF ReviewInv, Apart

\* What a request for a row has in hand.
LEMMA OfRow ==
    ASSUME ReviewInv, NEW q \in Requests, req[q].pc = "loaded", req[q].kind # "finalize"
    PROVE  /\ req[q].r \in Rows
           /\ req[q].todo \subseteq MatchesOf(match, req[q].r)
           /\ req[q].row = row[req[q].r] /\ req[q].row \in RowRecord
BY DEF ReviewInv, Fresh, Typed, ReqTyped, ReqRecord, Sane

\* Statuses stay meant when the row answered about takes its status from its
\* matches and any other row keeps its own or is not pending.
LEMMA StatusMeant ==
    ASSUME ReviewInv, op.status = "reviewing", op' = op, aside \subseteq aside',
           NEW r \in Rows, NEW t \in Targets, NEW s, match' = [match EXCEPT ![r][t] = s],
           row'[r].status = "pending" => PendingOf(match', r) # {},
           \A x \in Rows \ {r} : \/ row'[x].status = row[x].status
                                 \/ row'[x].status # "pending"
                                 \/ PendingOf(match', x) # {}
    PROVE  PendingIsMeant'
<1> SUFFICES ASSUME NEW x \in Rows, x \notin aside', row'[x].status = "pending"
             PROVE  PendingOf(match', x) # {}
  BY DEF PendingIsMeant
<1>1. CASE x = r
  BY <1>1
<1>2. CASE x # r
  <2>1. PendingOf(match', x) = PendingOf(match, x)
    BY <1>2, Elsewhere DEF ReviewInv, Typed
  <2>2. CASE row[x].status = "pending"
    BY <2>1, <2>2 DEF ReviewInv, PendingIsMeant
  <2>3. CASE row[x].status # "pending"
    BY <1>2, <2>3
  <2> QED BY <2>2, <2>3
<1> QED BY <1>1, <1>2

\* No row's link changes to a severed record when the matches stay.
LEMMA GoneKept ==
    ASSUME ReviewInv, severed' = severed,
           \A x \in Rows : MatchesOf(match', x) = MatchesOf(match, x),
           \A x \in Rows : row'[x].person \in {row[x].person, Nobody} \cup MatchesOf(match, x)
    PROVE  Gone'
<1>1. \A x \in Rows : Nobody \notin severed[x]
  BY PersonsAssumption DEF ReviewInv, Typed, AnswersTyped, Targets
<1> QED BY <1>1 DEF ReviewInv, Gone

LEMMA AcceptReview ==
    ASSUME OneAtWork, ReviewInv, Typed', NEW q \in Requests, NEW kind, NEW r, NEW body, NEW todo,
           Accept(q, kind, r, body, todo),
           kind # "finalize" => r \in Rows /\ todo \subseteq MatchesOf(match, r),
           kind \in {"decide", "revert"} => \E t \in Targets : todo = {t}
    PROVE  ReviewInv'
<1>1. op.status = "reviewing" /\ UNCHANGED <<op, match, row, worker, saved, answers>>
  BY DEF Accept
<1>2. req'[q] = [pc |-> "loaded", kind |-> kind, r |-> r, body |-> body, todo |-> todo,
                 row |-> IF r = 0 THEN BlankRow ELSE row[r]]
  BY DEF Accept, ReviewInv, Typed, ReqTyped
<1>3. kind # "finalize" => req'[q].row = row[r]
  BY <1>2, RowsAssumption
<1>4. \A p \in Requests : p = q
  BY DEF OneAtWork
<1>5. Fresh'
  <2>1. MatchesOf(match', r) = MatchesOf(match, r) /\ row' = row
    BY <1>1
  <2> QED BY <1>2, <1>3, <1>4, <2>1 DEF Fresh
<1>6. Gone' /\ PendingIsMeant'
  BY <1>1 DEF ReviewInv, Gone, PendingIsMeant, answers
<1> QED BY <1>1, <1>5, <1>6, ReviewStep DEF answers

LEMMA AskReview ==
    ASSUME OneAtWork, ReviewInv, NEW q \in Requests, Ask(q) PROVE ReviewInv'
<1>0. Typed'
  BY AskTyped DEF ReviewInv
<1>1. ASSUME NEW r \in Rows, NEW t \in Targets, NEW body, AskDecide(q, r, t, body)
      PROVE  ReviewInv'
  <2>1. {t} \subseteq MatchesOf(match, r) /\ Accept(q, "decide", r, body, {t})
    BY <1>1 DEF AskDecide
  <2> QED BY <1>0, <2>1, AcceptReview
<1>2. ASSUME NEW r \in Rows, NEW t \in Targets, AskRevert(q, r, t) PROVE ReviewInv'
  <2>1. {t} \subseteq MatchesOf(match, r) /\ Accept(q, "revert", r, "none", {t})
    BY <1>2 DEF AskRevert
  <2> QED BY <1>0, <2>1, AcceptReview
<1>3. ASSUME NEW r \in Rows, AskUndo(q, r) PROVE ReviewInv'
  <2>1. Accept(q, "undo", r, "none", MatchesOf(match, r))
    BY <1>3 DEF AskUndo
  <2> QED BY <1>0, <2>1, AcceptReview
<1>4. ASSUME NEW r \in Rows, NEW d,
             NEW todo \in {MatchesOf(match, r)} \cup {{t} : t \in MatchesOf(match, r)},
             AskEligible(q, r, d, todo)
      PROVE  ReviewInv'
  <2>1. todo \subseteq MatchesOf(match, r) /\ Accept(q, "eligible", r, d, todo)
    BY <1>4 DEF AskEligible
  <2> QED BY <1>0, <2>1, AcceptReview
<1>5. ASSUME AskFinalize(q) PROVE ReviewInv'
  <2>1. Accept(q, "finalize", 0, "none", {})
    BY <1>5 DEF AskFinalize
  <2> QED BY <1>0, <2>1, AcceptReview
<1> QED BY <1>1, <1>2, <1>3, <1>4, <1>5 DEF Ask

\* Which transaction a decision is.
LEMMA DecideCases ==
    ASSUME NEW q, Decide(q)
    PROVE  \/ req[q].body = "keep" /\ DecidePair(q, TRUE) /\ severed' = severed
           \/ req[q].body = "keep other" /\ DecidePair(q, FALSE) /\ severed' = severed
           \/ /\ req[q].body = "not the same" /\ Sever(q)
              /\ severed' = [severed EXCEPT ![req[q].r] = @ \cup req[q].todo]
           \/ req[q].body = "same" /\ Claim(q, FALSE) /\ severed' = severed
           \/ /\ req[q].body \notin {"keep", "keep other", "not the same", "same"}
              /\ Claim(q, TRUE) /\ severed' = severed
BY Zenon DEF Decide, Told

LEMMA DecideReview ==
    ASSUME OneAtWork, ReviewInv, NEW q \in Requests, Decide(q) PROVE ReviewInv'
<1> DEFINE r == req[q].r
           t == TheTarget(q)
<1>1. /\ op.status = "reviewing" /\ Typed /\ r \in Rows /\ t \in MatchesOf(match, r)
      /\ req[q].todo = {t} /\ t \in Targets
      /\ req[q].row = row[r] /\ row[r] \in RowRecord
  <2>1. req[q].pc = "loaded" /\ req[q].kind = "decide"
    BY DEF Decide, Loaded
  <2>2. \E u \in Targets : req[q].todo = {u}
    BY <2>1 DEF ReviewInv, Fresh
  <2> QED BY <2>1, <2>2, InHand, OfRow, TheTargetIs
<1>2. Typed'
  BY DecideTyped DEF ReviewInv
<1>3. Fresh'
  BY DoneFresh DEF Decide, ReviewInv, Typed
<1> HIDE DEF t
<1>4. ASSUME NEW keep \in BOOLEAN, DecidePair(q, keep), severed' = severed
      PROVE  Gone' /\ PendingIsMeant'
  <2> DEFINE s == IF keep THEN "primary" ELSE "deprioritized"
             m == [match EXCEPT ![r][t] = s]
  <2>1. match' = m
    BY <1>4 DEF DecidePair, t
  <2>2. /\ \A x \in Rows : row'[x].person = row[x].person
        /\ \A x \in Rows \ {r} : row'[x].status = row[x].status \/ row'[x].status # "pending"
        /\ row'[r].status = OnFile(Derived(m, r), row[r].person)
    <3> DEFINE lost == [row[t] EXCEPT
                 !.status = IF keep THEN "deprioritized"
                            ELSE IF row[t].person # Nobody THEN "retained" ELSE "primary",
                 !.decision = Answered(row[t], IF keep THEN "confirm" ELSE "waive")]
               mine == [row[r] EXCEPT
                 !.status = OnFile(Derived(m, r), row[r].person),
                 !.decision = Answered(row[r], IF keep THEN "waive" ELSE "confirm")]
    <3>1. row' = [x \in Rows |-> IF x = r THEN mine ELSE IF x = t THEN lost ELSE row[x]]
      BY <1>1, <1>4 DEF DecidePair, t
    <3>2. t \in Rows => lost.person = row[t].person /\ lost.status # "pending"
      BY <1>1 DEF Typed, RowTyped, RowRecord
    <3>3. mine.person = row[r].person /\ mine.status = OnFile(Derived(m, r), row[r].person)
      BY <1>1 DEF RowRecord
    <3> HIDE DEF lost, mine, m
    <3> QED BY <1>1, <3>1, <3>2, <3>3 DEF Typed, RowTyped
  <2>3. Gone'
    BY <1>1, <1>4, <2>1, <2>2, MatchesKept, GoneKept DEF Typed
  <2>4. row'[r].status = "pending" => PendingOf(match', r) # {}
    BY <2>1, <2>2, DerivedPending
  <2> HIDE DEF m, s
  <2>5. PendingIsMeant'
    BY <1>1, <2>1, <2>2, <2>4, StatusMeant DEF m, Decide
  <2> QED BY <2>3, <2>5
<1>5. ASSUME NEW last \in BOOLEAN, Claim(q, last), severed' = severed
      PROVE  Gone' /\ PendingIsMeant'
  <2> DEFINE s == IF last THEN "deprioritized" ELSE "primary"
             m == [match EXCEPT ![r][t] = s]
             person == IF t \in Persons THEN t ELSE row[r].person
  <2>1. match' = m
    BY <1>5 DEF Claim, t
  <2>2. /\ \A x \in Rows \ {r} : row'[x] = row[x]
        /\ row'[r].person = person
        /\ row'[r].status = OnFile(Derived(m, r), person)
    BY <1>1, <1>5 DEF Claim, Typed, RowTyped, RowRecord, t
  <2>3. Gone'
    BY <1>1, <1>5, <2>1, <2>2, MatchesKept, GoneKept DEF Typed
  <2>4. row'[r].status = "pending" => PendingOf(match', r) # {}
    BY <2>1, <2>2, DerivedPending
  <2> HIDE DEF m, s, person
  <2>5. PendingIsMeant'
    BY <1>1, <2>1, <2>2, <2>4, StatusMeant DEF m, Decide
  <2> QED BY <2>3, <2>5
<1>6. ASSUME Sever(q), severed' = [severed EXCEPT ![r] = @ \cup req[q].todo]
      PROVE  Gone' /\ PendingIsMeant'
  <2> DEFINE m == [match EXCEPT ![r][t] = "absent"]
  <2>1. match' = m
    BY <1>6 DEF Sever, t
  <2>2. /\ \A x \in Rows \ {r} : row'[x] = row[x]
        /\ row'[r].person = Nobody /\ row'[r].status = Derived(m, r)
    BY <1>1, <1>6 DEF Sever, Typed, RowTyped, t
  <2>3. Gone'
    <3>1. MatchesOf(match', r) = MatchesOf(match, r) \ {t}
      BY <1>1, <2>1 DEF MatchesOf, Typed, MatchTyped
    <3>2. severed'[r] = severed[r] \cup {t} /\ \A x \in Rows \ {r} : severed'[x] = severed[x]
      BY <1>1, <1>6 DEF Typed, AnswersTyped
    <3>3. Nobody \notin severed'[r]
      BY <1>1, <3>2, PersonsAssumption DEF Typed, AnswersTyped, Targets
    <3>4. \A x \in Rows \ {r} : MatchesOf(match', x) = MatchesOf(match, x)
      BY <1>1, <2>1, Elsewhere DEF Typed
    <3> QED BY <1>1, <2>2, <3>1, <3>2, <3>3, <3>4 DEF ReviewInv, Gone
  <2>4. row'[r].status = "pending" => PendingOf(match', r) # {}
    BY <2>1, <2>2, DerivedPending
  <2> HIDE DEF m
  <2>5. PendingIsMeant'
    BY <1>1, <2>1, <2>2, <2>4, StatusMeant DEF m, Decide
  <2> QED BY <2>3, <2>5
<1>7. Gone' /\ PendingIsMeant'
  BY <1>4, <1>5, <1>6, DecideCases, Zenon
<1> QED BY <1>1, <1>2, <1>3, <1>7, ReviewStep DEF Decide

LEMMA RevertReview ==
    ASSUME OneAtWork, ReviewInv, NEW q \in Requests, Revert(q) PROVE ReviewInv'
<1> DEFINE r == req[q].r
           t == TheTarget(q)
           m == [match EXCEPT ![r][t] = "pending"]
<1>1. /\ op.status = "reviewing" /\ Typed /\ r \in Rows /\ t \in MatchesOf(match, r)
      /\ t \in Targets /\ \A x \in Rows : row[x] \in RowRecord
  <2>1. req[q].pc = "loaded" /\ req[q].kind = "revert"
    BY DEF Revert, Loaded
  <2>2. \E u \in Targets : req[q].todo = {u}
    BY <2>1 DEF ReviewInv, Fresh
  <2> QED BY <2>1, <2>2, InHand, OfRow, TheTargetIs DEF Typed, RowTyped
<1>2. Typed'
  BY RevertTyped DEF ReviewInv
<1>3. Fresh'
  BY DoneFresh DEF Revert, ReviewInv, Typed
<1> HIDE DEF t
<1>4. match' = m /\ severed' = severed /\ op' = op
  BY DEF Revert, t, answers
<1>5. /\ row'[r].person \in {row[r].person, Nobody} /\ row'[r].status = Derived(m, r)
      /\ \A x \in Rows \ {r} : /\ row'[x].person = row[x].person
                               /\ row'[x].status = row[x].status \/ row'[x].status = Derived(m, x)
  <2>1. \A x \in Rows : row'[x].status = row[x].status \/ row'[x].status = Derived(m, x)
    BY <1>1 DEF Revert, Reopened, RowRecord, t
  <2>2. row'[r].person \in {row[r].person, Nobody} /\ row'[r].status = Derived(m, r)
    <3> DEFINE mine == IF row[r].person = t THEN [row[r] EXCEPT !.person = Nobody] ELSE row[r]
    <3>1. row'[r] = Reopened(r, m, mine)
      BY <1>1 DEF Revert, t
    <3>2. mine \in RowRecord /\ mine.person \in {row[r].person, Nobody}
      BY <1>1 DEF RowRecord
    <3> HIDE DEF mine
    <3> QED BY <3>1, <3>2 DEF Reopened, RowRecord
  <2>3. \A x \in Rows \ {r} : row'[x].person = row[x].person
    BY <1>1 DEF Revert, Reopened, RowRecord, t
  <2> QED BY <2>1, <2>2, <2>3
<1>6. Gone'
  BY <1>1, <1>4, <1>5, MatchesKept, GoneKept DEF Typed
<1>7. PendingIsMeant'
  <2>1. row'[r].status = "pending" => PendingOf(match', r) # {}
    BY <1>4, <1>5, DerivedPending
  <2>2. \A x \in Rows \ {r} : \/ row'[x].status = row[x].status
                              \/ row'[x].status # "pending"
                              \/ PendingOf(match', x) # {}
    BY ZenonT(60), <1>4, <1>5, DerivedPending
  <2> QED BY ZenonT(60), <1>1, <1>4, <2>1, <2>2, StatusMeant DEF Revert, answers
<1> QED BY <1>1, <1>2, <1>3, <1>6, <1>7, ReviewStep DEF Revert, answers

LEMMA SaveMatchReview ==
    ASSUME OneAtWork, ReviewInv, NEW q \in Requests, NEW t \in Targets, SaveMatch(q, t)
    PROVE  ReviewInv'
<1> DEFINE r == req[q].r
<1>1. /\ op.status = "reviewing" /\ Typed /\ r \in Rows /\ t \in MatchesOf(match, r)
      /\ req[q].row = row[r] /\ req[q].todo \subseteq MatchesOf(match, r)
      /\ req[q].kind \notin {"decide", "revert"}
  BY InHand, OfRow DEF SaveMatch, Loaded
<1>2. match' = [match EXCEPT ![r][t] = MatchAnswer(q)] /\ MatchAnswer(q) # "absent"
  BY DEF SaveMatch, MatchAnswer
<1>3. \A x \in Rows : MatchesOf(match', x) = MatchesOf(match, x)
  BY <1>1, <1>2, MatchesKept DEF Typed
<1>4. row' = row /\ severed' = severed /\ op' = op
  BY DEF SaveMatch
<1>5. Fresh'
  <2>1. \A p \in Requests : p = q
    BY DEF OneAtWork
  <2>2. /\ req'[q].todo = req[q].todo \ {t} /\ req'[q].r = r /\ req'[q].row = req[q].row
        /\ req'[q].kind = req[q].kind
    BY DEF SaveMatch, ReviewInv, Typed, ReqTyped, ReqRecord
  <2> QED BY <1>1, <1>3, <1>4, <2>1, <2>2 DEF Fresh
<1>6. Gone'
  BY <1>3, <1>4, GoneKept
<1>7. PendingIsMeant'
  <2>1. aside' = aside \cup {r}
    BY DEF SaveMatch
  <2>2. \A x \in Rows \ {r} : PendingOf(match', x) = PendingOf(match, x)
    BY <1>1, <1>2, Elsewhere DEF Typed
  <2> QED BY <1>4, <2>1, <2>2 DEF ReviewInv, PendingIsMeant
<1> QED BY <1>1, <1>5, <1>6, <1>7, SaveMatchTyped, ReviewStep DEF SaveMatch, ReviewInv

\* The row is saved as it was loaded, with a new answer and status.
LEMMA AnswerReview ==
    ASSUME OneAtWork, ReviewInv, NEW q \in Requests, Undo(q) \/ Eligible(q) PROVE ReviewInv'
<1> DEFINE r == req[q].r
<1>1. /\ op.status = "reviewing" /\ Typed /\ r \in Rows
      /\ req[q].row = row[r] /\ row[r] \in RowRecord
  BY InHand, OfRow DEF Undo, Eligible, Loaded
<1>2. Typed'
  BY UndoTyped, EligibleTyped DEF ReviewInv
<1>3. Fresh'
  BY DoneFresh DEF Undo, Eligible, ReviewInv, Typed
<1>4. match' = match /\ severed' = severed /\ op' = op /\ aside' = aside
  BY DEF Undo, Eligible, answers
<1>5. /\ \A x \in Rows : row'[x].person = row[x].person
      /\ \A x \in Rows : \/ row'[x].status = row[x].status
                         \/ row'[x].status # "pending"
                         \/ PendingOf(match, x) # {}
  <2>1. CASE Undo(q)
    <3>1. row' = [row EXCEPT ![r] = [row[r] EXCEPT !.decision = "none",
                                                   !.status = Derived(match, r)]]
      BY <1>1, <2>1 DEF Undo
    <3>2. Derived(match, r) = "pending" => PendingOf(match, r) # {}
      BY DerivedPending
    <3> QED BY <1>1, <3>1, <3>2 DEF Typed, RowTyped, RowRecord
  <2>2. CASE Eligible(q)
    <3> DEFINE status == IF ~\E t \in Targets : match[r][t] = "primary" THEN "deprioritized"
                         ELSE IF MatchesOf(match, r) \cap Persons # {} THEN "retained"
                         ELSE "primary"
               mine == [row[r] EXCEPT !.decision = req[q].body, !.status = status]
    <3>1. row' = row \/ row' = [row EXCEPT ![r] = mine]
      BY <1>1, <2>2 DEF Eligible
    <3>2. mine.person = row[r].person /\ mine.status # "pending"
      BY <1>1 DEF RowRecord
    <3> HIDE DEF mine
    <3> QED BY <1>1, <3>1, <3>2 DEF Typed, RowTyped
  <2> QED BY <2>1, <2>2
<1>6. Gone'
  BY <1>4, <1>5, GoneKept
<1>7. PendingIsMeant'
  BY <1>4, <1>5 DEF ReviewInv, PendingIsMeant
<1> QED BY <1>1, <1>2, <1>3, <1>4, <1>6, <1>7, ReviewStep DEF Undo, Eligible

LEMMA CutReview ==
    ASSUME OneAtWork, ReviewInv, NEW q \in Requests, Cut(q) PROVE ReviewInv'
<1>1. op.status = "reviewing"
  BY DEF ReviewInv, Apart, Typed, ReqTyped, ReqRecord, Cut
<1>2. Fresh'
  BY DoneFresh DEF Cut, ReviewInv, Typed
<1>3. Gone' /\ PendingIsMeant'
  BY DEF Cut, ReviewInv, Gone, PendingIsMeant, answers
<1> QED BY <1>1, <1>2, <1>3, CutTyped, ReviewStep DEF Cut, ReviewInv, answers

\* The upload leaves no row pending and nothing severed.
LEMMA UploadReview == ASSUME ReviewInv, Upload PROVE ReviewInv'
<1>1. /\ op.status = "defined" /\ op'.status = "reviewing" /\ Typed
      /\ UNCHANGED <<req, worker, saved, answers>>
  BY DEF Upload, ReviewInv, Typed, OpTyped
<1>2. /\ \A w \in Workers : worker[w].pc = "idle"
      /\ \A q \in Requests : req[q].pc # "loaded"
  BY <1>1 DEF ReviewInv, Apart
<1>3. Apart' /\ Single' /\ Gated' /\ Fresh'
  BY <1>1, <1>2 DEF Apart, Single, Gated, Fresh
<1>4. /\ \A r \in Rows : severed'[r] = {} /\ updated'[r] = {}
      /\ \A r \in Rows : skipped'[r] = skipped[r] /\ aside' = aside
  BY <1>1 DEF ReviewInv, InTime, saved, answers
<1>5. Gone' /\ InTime' /\ SeveredStaysSevered' /\ NobodySkipped'
  BY <1>4 DEF Gone, InTime, SeveredStaysSevered, NobodySkipped, ReviewInv
<1>6. PendingIsMeant'
  <2>1. PICK cand, best, verdict :
          row' = [r \in Rows |-> Uploaded(cand[r], best[r], verdict[r])]
    BY DEF Upload
  <2>2. \A r \in Rows : row'[r].status # "pending"
    BY <2>1 DEF Uploaded
  <2> QED BY <2>2 DEF PendingIsMeant
<1> QED BY <1>3, <1>5, <1>6, UploadTyped DEF ReviewInv

-----------------------------------------------------------------------------
(* The queue and the worker *)

\* Queued from the review, the operator's one request is done.
LEMMA EnqueueReview ==
    ASSUME OneAtWork, ReviewInv, NEW q \in Requests, Enqueue(q) PROVE ReviewInv'
<1>1. op.status = "reviewing" /\ Typed
  BY InHand DEF Enqueue, Loaded
<1>2. /\ op'.status = "finalizing" /\ Done(q)
      /\ UNCHANGED <<match, row, worker, saved, answers>>
  BY DEF Enqueue
<1>3. \A w \in Workers : worker[w].pc = "idle"
  BY <1>1 DEF ReviewInv, Apart
<1>4. \A p \in Requests : req'[p].pc = "idle"
  BY <1>1, <1>2 DEF OneAtWork, Done, Typed, ReqTyped, IdleReq
<1>5. Apart' /\ Single' /\ Gated' /\ Fresh'
  BY <1>2, <1>3, <1>4 DEF Apart, Single, Gated, Fresh
<1>6. /\ Gone' /\ PendingIsMeant' /\ SeveredStaysSevered' /\ NobodySkipped'
  BY <1>1, <1>2 DEF ReviewInv, Gone, PendingIsMeant, SeveredStaysSevered, NobodySkipped,
                    saved, answers
<1>7. InTime'
  BY <1>1, <1>2 DEF ReviewInv, InTime, saved
<1> QED BY <1>5, <1>6, <1>7, EnqueueTyped DEF ReviewInv

\* A step of the worker, or of its lease, that saves nothing: what is left is
\* where the worker is and what let it there.
LEMMA WorkerStepReview ==
    ASSUME ReviewInv, Typed', Single', op.status = "finalizing", op'.status # "defined",
           op'.status # "finalized", UNCHANGED <<match, row, req, saved, answers>>,
           \A w \in Workers :
              /\ worker'[w].pc # "idle" => op'.status = "finalizing"
              /\ worker'[w].pc \in {"read", "save"} => Ripe
              /\ worker'[w].pc = "save" => worker'[w].rows = row
    PROVE  ReviewInv'
<1>1. \A q \in Requests : req[q].pc # "loaded"
  BY DEF ReviewInv, Apart
<1>2. Ripe' <=> Ripe
  BY DEF Ripe, PendingOf
<1>3. Apart' /\ Single' /\ Gated' /\ Fresh'
  BY <1>1, <1>2 DEF Apart, Single, Gated, Fresh
<1>4. /\ Gone' /\ PendingIsMeant' /\ SeveredStaysSevered' /\ NobodySkipped'
  BY DEF ReviewInv, Gone, PendingIsMeant, SeveredStaysSevered, NobodySkipped, saved, answers
<1>5. InTime'
  BY DEF ReviewInv, InTime, saved
<1> QED BY <1>3, <1>4, <1>5 DEF ReviewInv

LEMMA AtPc ==
    ASSUME Typed, NEW w \in Workers, NEW pc, At(w, pc)
    PROVE  /\ worker'[w].pc = pc
           /\ pc # "idle" => worker'[w].rows = worker[w].rows
BY DEF Typed, WorkerTyped, WorkerRecord, At, IdleWorker

\* The worker's steps up to the save, and those by which it gives up.
LEMMA WayReview ==
    ASSUME OneAtWork, ReviewInv, NEW w \in Workers,
           ClaimJob(w) \/ Gate(w) \/ Read(w) \/ SaveFails(w) \/ RecordFailure(w) \/ Stop(w)
    PROVE  ReviewInv'
<1>1. Typed /\ Typed'
  BY WorkerTypedKept DEF ReviewInv, WorkerStep
<1>2. op.status = "finalizing"
  BY DEF ReviewInv, Apart, ClaimJob, Gate, Read, SaveFails, RecordFailure, Stop
<1>3. UNCHANGED <<match, row, req, saved, answers>>
  BY DEF ClaimJob, Gate, Read, SaveFails, RecordFailure, Stop
<1>4. \A v \in Workers \ {w} : worker'[v].pc = "idle"
  <2>1. \A v \in Workers \ {w} : worker'[v] = worker[v]
    BY <1>1 DEF ClaimJob, Gate, Read, SaveFails, RecordFailure, Stop, At, Typed, WorkerTyped
  <2>2. worker[w].pc # "idle" \/ ClaimJob(w)
    BY DEF Gate, Read, SaveFails, RecordFailure, Stop
  <2>3. ClaimJob(w) => OneWorker \/ \A v \in Workers : worker[v].pc = "idle"
    BY DEF OneAtWork, ReviewInv, Single, ClaimJob, Free
  <2> QED BY <2>1, <2>2, <2>3 DEF ReviewInv, Single, OneWorker
<1>5. Single'
  <2>1. worker'[w].pc # "idle" => \/ worker[w].pc # "idle" /\ op'.lease = op.lease
                                 \/ op'.lease = "held"
    BY <1>1, AtPc DEF ClaimJob, Gate, Read, SaveFails, RecordFailure, Stop, Typed, OpTyped
  <2> QED BY <1>4, <2>1 DEF ReviewInv, Single
<1>6. CASE ClaimJob(w) \/ Gate(w) \/ SaveFails(w)
  <2>1. op'.status = "finalizing"
    BY <1>1, <1>2, <1>6 DEF ClaimJob, Gate, SaveFails, Typed, OpTyped
  <2>2. worker'[w].pc \in {"gate", "failed"} \/ (worker'[w].pc = "read" /\ Ripe)
    BY <1>1, <1>6, AtPc DEF ClaimJob, Gate, SaveFails
  <2> QED BY <1>1, <1>2, <1>3, <1>4, <1>5, <2>1, <2>2, WorkerStepReview
<1>7. CASE Read(w)
  <2>1. op' = op
    BY <1>7 DEF Read
  <2>2. worker'[w].pc = "save" /\ worker'[w].rows = row /\ Ripe
    BY <1>1, <1>7 DEF Read, ReviewInv, Gated, Typed, WorkerTyped
  <2> QED BY <1>1, <1>2, <1>3, <1>4, <1>5, <2>1, <2>2, WorkerStepReview
<1>8. CASE RecordFailure(w) \/ Stop(w)
  <2>1. op'.status \in {"reviewing", "finalizing"}
    BY <1>2, <1>8 DEF RecordFailure, Stop
  <2>2. worker'[w].pc = "idle"
    BY <1>1, <1>8, AtPc DEF RecordFailure, Stop
  <2> QED BY <1>1, <1>2, <1>3, <1>4, <1>5, <2>1, <2>2, WorkerStepReview
<1> QED BY <1>6, <1>7, <1>8

\* The rows saved are the rows as reviewed, all of them decided.
LEMMA SaveReview ==
    ASSUME OneAtWork, ReviewInv, NEW w \in Workers, Save(w) PROVE ReviewInv'
<1>0. PICK created, written : Wrote(worker[w].rows, created, written)
  BY SaveWrites
<1>1. /\ Typed /\ op.status = "finalizing" /\ Ripe /\ worker[w].rows = row
  BY DEF Save, ReviewInv, Apart, Gated
<1>2. /\ op'.status = "finalized" /\ UNCHANGED <<match, req, answers>>
      /\ row' = [r \in Rows |-> IF r \in created THEN [row[r] EXCEPT !.person = New] ELSE row[r]]
      /\ updated' = [r \in Rows |-> IF r \in written THEN updated[r] \cup {row[r].person}
                                    ELSE updated[r]]
      /\ skipped' = [r \in Rows |-> IF r \in created \cup written THEN skipped[r]
                                    ELSE skipped[r] \cup {row[r].status}]
  <2>1. Wrote(row, created, written)
    BY <1>0, <1>1
  <2>2. op'.status = "finalized" /\ UNCHANGED <<match, req, answers>>
    BY DEF Save
  <2>3. row' = [r \in Rows |-> IF r \in created THEN [row[r] EXCEPT !.person = New] ELSE row[r]]
    BY <1>1, <2>1 DEF Wrote, Typed, RowTyped
  <2> QED BY <2>1, <2>2, <2>3 DEF Wrote
<1>3. \A r \in Rows : /\ row'[r].status = row[r].status
                      /\ row'[r].eligibility = row[r].eligibility
                      /\ row'[r].decision = row[r].decision
                      /\ row'[r].person \in {row[r].person, New}
  <2>1. \A r \in Rows : row[r] \in RowRecord
    BY <1>1 DEF Typed, RowTyped
  <2> QED BY <1>2, <2>1 DEF RowRecord
<1>4. \A v \in Workers : worker'[v].pc = "idle"
  <2>1. \A v \in Workers \ {w} : worker'[v] = worker[v] /\ worker[v].pc = "idle"
    BY <1>1 DEF Save, At, Typed, WorkerTyped, ReviewInv, Single
  <2> QED BY <1>1, <2>1, AtPc DEF Save
<1>5. \A q \in Requests : req[q].pc # "loaded"
  BY <1>1 DEF ReviewInv, Apart
<1>6. Ripe'
  BY <1>1, <1>2, <1>3 DEF Ripe, PendingOf
<1>7. Apart' /\ Single' /\ Gated' /\ Fresh'
  BY <1>2, <1>4, <1>5, <1>6 DEF Apart, Single, Gated, Fresh
<1>8. Gone'
  <2>1. \A r \in Rows : New \notin severed[r]
    BY <1>1, PersonsAssumption DEF Typed, AnswersTyped, Targets
  <2> QED BY <1>2, <1>3, <2>1 DEF ReviewInv, Gone, answers
<1>9. InTime' /\ SeveredStaysSevered'
  <2>1. \A r \in Rows : updated'[r] \subseteq updated[r] \cup {row[r].person}
    BY <1>2
  <2> QED BY <1>2, <2>1 DEF ReviewInv, InTime, Gone, SeveredStaysSevered, answers
<1>10. PendingIsMeant'
  BY <1>1, <1>2, <1>3 DEF ReviewInv, PendingIsMeant, answers
<1>11. NobodySkipped'
  <2>1. \A r \in Rows : skipped'[r] \subseteq skipped[r] \cup {row[r].status}
    BY <1>2
  <2>2. \A r \in Rows \ aside : row[r].status # "pending"
    BY <1>1 DEF ReviewInv, PendingIsMeant, Ripe
  <2> QED BY <1>2, <2>1, <2>2 DEF ReviewInv, NobodySkipped, answers
<1> QED BY <1>7, <1>8, <1>9, <1>10, <1>11, WorkerTypedKept DEF ReviewInv, WorkerStep

LEMMA LeaseReview == ASSUME ReviewInv, Expire \/ Outlive, LeaseMeansQueued PROVE ReviewInv'
<1>1. op.status = "finalizing"
  BY DEF Expire, Outlive, LeaseMeansQueued
<1>2. op'.status = "finalizing" /\ worker' = worker
  BY <1>1 DEF Expire, Outlive, ReviewInv, Typed, OpTyped
<1>3. UNCHANGED <<match, row, req, saved, answers>>
  BY DEF Expire, Outlive
<1>4. Single'
  <2>1. CASE Expire
    BY <1>2, <2>1 DEF Expire, Busy, Single
  <2>2. CASE Outlive
    <3>1. MaxSlow # 0
      BY <2>2, BoundsAssumption DEF Outlive, ReviewInv, Typed, BoundsTyped
    <3> QED BY <1>2, <3>1 DEF ReviewInv, Single
  <2> QED BY <2>1, <2>2
<1> QED BY <1>1, <1>2, <1>3, <1>4, LeaseTyped, WorkerStepReview DEF ReviewInv, Apart, Gated

LEMMA NextReview ==
    ASSUME OneAtWork, OnceInv, ReviewInv, [Next]_vars PROVE ReviewInv'
<1>1. ASSUME NEW q \in Requests, Ask(q) \/ RequestStep(q) \/ Cut(q) PROVE ReviewInv'
  BY <1>1, AskReview, DecideReview, RevertReview, AnswerReview, SaveMatchReview,
     EnqueueReview, CutReview DEF RequestStep
<1>2. ASSUME NEW w \in Workers, WorkerStep(w) \/ SaveFails(w) \/ Stop(w) PROVE ReviewInv'
  BY <1>2, WayReview, SaveReview DEF WorkerStep
<1>3. ASSUME UNCHANGED vars PROVE ReviewInv'
  BY <1>3, NextTyped DEF vars, saved, answers, ReviewInv, Apart, Single, Gated, Fresh, Gone, InTime,
     PendingIsMeant, SeveredStaysSevered, NobodySkipped, Ripe, PendingOf, MatchesOf
<1> QED BY <1>1, <1>2, <1>3, UploadReview, LeaseReview DEF Next, OnceInv

LEMMA ReviewHolds == ASSUME OneAtWork PROVE Spec => []ReviewInv
<1>1. Init => OnceInv /\ ReviewInv
  BY InitOnce, InitReview
<1>2. OnceInv /\ ReviewInv /\ [Next]_vars => (OnceInv /\ ReviewInv)'
  BY NextOnce, NextReview
<1> QED BY <1>1, <1>2, PTL DEF Spec

\* A finalized list holds no open question, whatever was reverted, decided
\* anew, cut short or failed on the way.
THEOREM FinalizedDecided == ASSUME OneAtWork PROVE Spec => []FinalizedIsDecided
<1>1. ReviewInv => FinalizedIsDecided
  BY DEF ReviewInv, Gated, Ripe, FinalizedIsDecided
<1> QED BY <1>1, ReviewHolds, PTL

\* No client drops out of the list because its row was pending at the save.
THEOREM NoneSkipped == ASSUME OneAtWork PROVE Spec => []NobodySkipped
<1>1. ReviewInv => NobodySkipped
  BY DEF ReviewInv
<1> QED BY <1>1, ReviewHolds, PTL

\* A record the operator said is somebody else's is never overwritten.
THEOREM SeveredKept == ASSUME OneAtWork PROVE Spec => []SeveredStaysSevered
<1>1. ReviewInv => SeveredStaysSevered
  BY DEF ReviewInv
<1> QED BY <1>1, ReviewHolds, PTL

-----------------------------------------------------------------------------
(* One record and one winner: the invariant *)

\* A row matches rows of the list or records on file, never both.
Sorted == \A r \in Rows : MatchesOf(match, r) \cap Rows # {} => MatchesOf(match, r) \subseteq Rows

\* A request in hand passed the checks of its endpoint, and a row with but one
\* match, once that is saved, has it answered the way the row will be.
Apt ==
    \A q \in Requests : req[q].pc = "loaded" =>
        /\ req[q].kind = "decide" /\ req[q].body \in {"keep", "keep other"} =>
              req[q].todo \subseteq Rows
        /\ req[q].kind = "undo" => req[q].row.decision # "none"
        /\ req[q].kind = "eligible" => /\ req[q].row.eligibility = "disqualified"
                                       /\ req[q].body = "waive" => ~req[q].row.intra
        /\ req[q].kind \in {"undo", "eligible"} =>
              \A t \in Targets : MatchesOf(match, req[q].r) = {t} =>
                  t \in req[q].todo \/ match[req[q].r][t] = MatchAnswer(q)

\* Kept as some person on file.
Kept(m, r) == \E p \in Persons : m[r][p] = "primary"

\* A row kept as a person points at one and does not make another, unless a
\* person is still open.
Linked ==
    \A r \in Rows \ (aside \cup cleared) : Kept(match, r) =>
        \/ PendingOf(match, r) \cap Persons # {}
        \/ row[r].person # Nobody /\ row[r].status \notin {"no_match", "primary"}

Out(r) == row[r].status \in {"pending", "deprioritized"}

\* The later row of a lone pair cannot be waived back in, the earlier one needs
\* no answer of its own, and whichever stays in puts the other out.
Exclusive ==
    op.status # "finalized" =>
        \A r, e \in Rows : LonePair(r, e) =>
            /\ row[r].intra
            /\ row[e].eligibility = "allowed" /\ row[e].decision = "none"
            /\ r \in crossed \/ Out(r) \/ row[e].status = "deprioritized"

\* Nothing is made before the end.
MadeInTime == \A r \in Rows : made[r] > 0 => op.status = "finalized"

PairInv == /\ Sorted /\ Apt /\ Linked /\ Exclusive /\ MadeInTime
           /\ NoSecondRecord /\ LonePairSavedOnce

LEMMA InitPair == Init => PairInv
<1> SUFFICES ASSUME Init PROVE PairInv
  OBVIOUS
<1>1. /\ op.status = "defined" /\ \A r \in Rows : MatchesOf(match, r) = {} /\ made[r] = 0
      /\ \A q \in Requests : req[q].pc = "idle"
  BY DEF Init, MatchesOf, IdleReq
<1>2. Sorted /\ Apt /\ Linked
  <2>1. \A r \in Rows : ~Kept(match, r)
    BY DEF Init, Kept, Targets
  <2> QED BY <1>1, <2>1 DEF Sorted, Apt, Linked
<1>4. MadeInTime /\ NoSecondRecord /\ LonePairSavedOnce
  <2>1. \A r \in Rows : ~(made[r] > 0)
    BY <1>1
  <2> QED BY <1>1, <2>1 DEF MadeInTime, NoSecondRecord, LonePairSavedOnce
<1>3. Exclusive
  BY <1>1 DEF Exclusive, LonePair
<1> QED BY <1>2, <1>3, <1>4 DEF PairInv

-----------------------------------------------------------------------------
(* One record and one winner: facts about the operators *)

\* On file, a row's status follows from the answers: it is not a new client's.
LEMMA DerivedOnFile ==
    ASSUME NEW m, NEW r, NEW p, MatchesOf(m, r) # {}, MatchesOf(m, r) \cap Rows = {}
    PROVE  Derived(m, r) \notin {"no_match", "primary"}
           /\ OnFile(Derived(m, r), p) \notin {"no_match", "primary"}
BY DEF Derived, OnFile

\* A single match decides the status of its row.
LEMMA DerivedSingle ==
    ASSUME NEW m, NEW r, NEW t \in Targets, MatchesOf(m, r) = {t}
    PROVE  /\ m[r][t] = "pending" => Derived(m, r) = "pending"
           /\ m[r][t] = "deprioritized" => Derived(m, r) = "deprioritized"
<1>1. m[r][t] = "pending" => t \in PendingOf(m, r)
  BY DEF PendingOf
<1>2. PendingOf(m, r) \subseteq MatchesOf(m, r) /\ (t \in PendingOf(m, r) => m[r][t] = "pending")
  BY DEF PendingOf, MatchesOf
<1> QED BY <1>1, <1>2 DEF Derived

\* A row kept as a person has that person among its matches.
LEMMA KeptOnFile ==
    ASSUME NEW m, NEW r, Kept(m, r) PROVE MatchesOf(m, r) \cap Persons # {}
BY DEF Kept, MatchesOf, Targets

LEMMA KeptElsewhere ==
    ASSUME MatchTyped, NEW r \in Rows, NEW t \in Targets, NEW s,
           match' = [match EXCEPT ![r][t] = s], NEW x \in Rows, x # r
    PROVE  Kept(match', x) <=> Kept(match, x)
BY DEF MatchTyped, Kept

LEMMA SortedKept ==
    ASSUME Sorted, \A r \in Rows : MatchesOf(match', r) \subseteq MatchesOf(match, r)
    PROVE  Sorted'
BY DEF Sorted

\* Who is in a lone pair: two rows, the earlier with no match, and no other
\* row has a match with either.
LEMMA InPair ==
    ASSUME NEW r \in Rows, NEW e \in Rows, LonePair(r, e), NEW x \in Rows, NEW t \in MatchesOf(match, x)
    PROVE  /\ r # e /\ x # e
           /\ x = r => t = e
           /\ x # r => t # e /\ t # r
BY DEF LonePair, Candidates

LEMMA SamePairs ==
    ASSUME severed' = severed, \A r \in Rows : MatchesOf(match', r) = MatchesOf(match, r),
           NEW r \in Rows, NEW e \in Rows
    PROVE  LonePair(r, e)' <=> LonePair(r, e)
<1>1. \A x \in Rows : Candidates(x)' = Candidates(x)
  BY DEF Candidates
<1> QED BY <1>1 DEF LonePair

LEMMA DoneApt == ASSUME OneAtWork, ReqTyped, NEW q \in Requests, Done(q) PROVE Apt'
<1>1. req'[q].pc = "idle"
  BY DEF Done, ReqTyped, IdleReq
<1> QED BY <1>1 DEF OneAtWork, Apt

\* Before the end nothing is made, and there is no winner yet.
LEMMA NotYet ==
    ASSUME PairInv, op.status # "finalized", op'.status # "finalized", made' = made, SavedTyped,
           Sorted', Apt', Linked', Exclusive'
    PROVE  PairInv'
<1>1. \A r \in Rows : ~(made'[r] > 0)
  BY DEF PairInv, MadeInTime
<1> QED BY <1>1 DEF PairInv, MadeInTime, NoSecondRecord, LonePairSavedOnce

\* A step that answers nothing.
LEMMA NothingAnswered ==
    ASSUME PairInv, op.status # "finalized", UNCHANGED <<match, row, answers>>
    PROVE  Sorted' /\ Linked' /\ Exclusive'
<1>1. Sorted' /\ Linked'
  BY DEF PairInv, Sorted, Linked, Kept, MatchesOf, PendingOf, answers
<1>2. /\ \A r, e \in Rows : (LonePair(r, e)' <=> LonePair(r, e)) /\ (Out(r)' <=> Out(r))
      /\ crossed' = crossed
  BY DEF LonePair, Candidates, MatchesOf, Out, answers
<1>3. Exclusive'
  BY <1>2 DEF PairInv, Exclusive
<1> QED BY <1>1, <1>3

-----------------------------------------------------------------------------
(* One record and one winner: the review *)

LEMMA Accepted ==
    ASSUME ReqTyped, NEW q \in Requests, NEW kind, NEW r, NEW body, NEW todo,
           Accept(q, kind, r, body, todo)
    PROVE  /\ req'[q].kind = kind /\ req'[q].r = r /\ req'[q].body = body /\ req'[q].todo = todo
           /\ r \in Rows => req'[q].row = row[r]
<1>1. req'[q] = [pc |-> "loaded", kind |-> kind, r |-> r, body |-> body, todo |-> todo,
                 row |-> IF r = 0 THEN BlankRow ELSE row[r]]
  BY DEF Accept, ReqTyped
<1>2. 0 \notin Rows
  BY RowsAssumption
<1> QED BY <1>1, <1>2

LEMMA AcceptPair ==
    ASSUME OneAtWork, ReviewInv, PairInv, NEW q \in Requests, NEW kind, NEW r, NEW body, NEW todo,
           Accept(q, kind, r, body, todo), kind # "finalize" => r \in Rows,
           kind = "decide" /\ body \in {"keep", "keep other"} => todo \subseteq Rows,
           kind = "undo" => row[r].decision # "none",
           kind = "eligible" => row[r].eligibility = "disqualified" /\ (body = "waive" => ~row[r].intra),
           kind \in {"undo", "eligible"} =>
              todo = MatchesOf(match, r) \/ \E t \in MatchesOf(match, r) : todo = {t}
    PROVE  PairInv'
<1>1. op.status = "reviewing" /\ UNCHANGED <<op, match, row, saved, answers>>
  BY DEF Accept
<1>2. /\ req'[q].kind = kind /\ req'[q].r = r /\ req'[q].body = body /\ req'[q].todo = todo
      /\ r \in Rows => req'[q].row = row[r]
  <2>1. ReqTyped
    BY DEF ReviewInv, Typed
  <2> QED BY ONLY q \in Requests, Accept(q, kind, r, body, todo), <2>1, Accepted
<1>4. \A p \in Requests : p = q
  BY DEF OneAtWork
<1>5. Apt'
  <2>1. kind \in {"undo", "eligible"} =>
           \A t \in Targets : MatchesOf(match', r) = {t} => t \in todo
    <3>1. MatchesOf(match', r) = MatchesOf(match, r)
      BY <1>1
    <3> QED BY <3>1
  <2> QED BY <1>2, <1>4, <2>1 DEF Apt
<1>6. Sorted' /\ Linked' /\ Exclusive'
  BY <1>1, NothingAnswered
<1> QED BY <1>1, <1>5, <1>6, NotYet DEF saved, ReviewInv, Typed

LEMMA AskPair == ASSUME OneAtWork, ReviewInv, PairInv, NEW q \in Requests, Ask(q) PROVE PairInv'
<1>1. ASSUME NEW r \in Rows, NEW t \in Targets, NEW body, AskDecide(q, r, t, body)
      PROVE  PairInv'
  <2>1. /\ Accept(q, "decide", r, body, {t})
        /\ body \in {"keep", "keep other"} => {t} \subseteq Rows
    BY <1>1 DEF AskDecide
  <2> QED BY <2>1, AcceptPair
<1>2. ASSUME NEW r \in Rows, NEW t \in Targets, AskRevert(q, r, t) PROVE PairInv'
  <2>1. Accept(q, "revert", r, "none", {t})
    BY <1>2 DEF AskRevert
  <2> QED BY <2>1, AcceptPair
<1>3. ASSUME NEW r \in Rows, AskUndo(q, r) PROVE PairInv'
  <2>1. row[r].decision # "none" /\ Accept(q, "undo", r, "none", MatchesOf(match, r))
    BY <1>3 DEF AskUndo
  <2> QED BY <2>1, AcceptPair
<1>4. ASSUME NEW r \in Rows, NEW d, NEW todo, AskEligible(q, r, d, todo) PROVE PairInv'
  <2>1. /\ row[r].eligibility = "disqualified" /\ (d = "waive" => ~row[r].intra)
        /\ todo = MatchesOf(match, r) \/ \E t \in MatchesOf(match, r) : todo = {t}
        /\ Accept(q, "eligible", r, d, todo)
    BY <1>4 DEF AskEligible
  <2> QED BY <2>1, AcceptPair
<1>5. ASSUME AskFinalize(q) PROVE PairInv'
  <2>1. Accept(q, "finalize", 0, "none", {})
    BY <1>5 DEF AskFinalize
  <2> QED BY <2>1, AcceptPair
<1> QED BY <1>1, <1>2, <1>3, <1>4, <1>5 DEF Ask

\* What a request for a row has in hand passed its checks.
LEMMA AptNow ==
    ASSUME PairInv, NEW q \in Requests, req[q].pc = "loaded"
    PROVE  /\ req[q].kind = "decide" /\ req[q].body \in {"keep", "keep other"} =>
                 req[q].todo \subseteq Rows
           /\ req[q].kind = "undo" => req[q].row.decision # "none"
           /\ req[q].kind = "eligible" => /\ req[q].row.eligibility = "disqualified"
                                          /\ req[q].body = "waive" => ~req[q].row.intra
           /\ req[q].kind \in {"undo", "eligible"} =>
                 \A t \in Targets : MatchesOf(match, req[q].r) = {t} =>
                     t \in req[q].todo \/ match[req[q].r][t] = MatchAnswer(q)
BY DEF PairInv, Apt

\* What the invariant says of a lone pair.
LEMMA ExclusiveNow ==
    ASSUME PairInv, op.status # "finalized", NEW r \in Rows, NEW e \in Rows, LonePair(r, e)
    PROVE  /\ row[r].intra /\ row[e].eligibility = "allowed" /\ row[e].decision = "none"
           /\ r \in crossed \/ Out(r) \/ row[e].status = "deprioritized"
BY DEF PairInv, Exclusive

\* What the invariant says of a row kept as a person.
LEMMA LinkedNow ==
    ASSUME PairInv, NEW x \in Rows, x \notin aside, x \notin cleared, Kept(match, x)
    PROVE  \/ PendingOf(match, x) \cap Persons # {}
           \/ row[x].person # Nobody /\ row[x].status \notin {"no_match", "primary"}
BY DEF PairInv, Linked

\* What a decision about a row leaves of the answers to the others.
LEMMA ToldOthers ==
    ASSUME NEW q, Told(q), NEW x, x # req[q].r
    PROVE  (x \in crossed' <=> x \in crossed) /\ (x \in cleared' <=> x \in cleared)
BY DEF Told

\* A row that matches a person matches no row.
LEMMA NoRows ==
    ASSUME PairInv, NEW x \in Rows, MatchesOf(match, x) \cap Persons # {}
    PROVE  MatchesOf(match, x) # {} /\ MatchesOf(match, x) \cap Rows = {}
BY PersonsAssumption DEF PairInv, Sorted

\* What a decision or a reversal is about.
LEMMA OneMatch ==
    ASSUME ReviewInv, NEW q \in Requests, req[q].pc = "loaded", req[q].kind \in {"decide", "revert"}
    PROVE  /\ op.status = "reviewing" /\ Typed /\ req[q].r \in Rows
           /\ TheTarget(q) \in MatchesOf(match, req[q].r) /\ TheTarget(q) \in Targets
           /\ req[q].todo = {TheTarget(q)} /\ req[q].row = row[req[q].r]
           /\ \A x \in Rows : row[x] \in RowRecord
<1>1. \E u \in Targets : req[q].todo = {u}
  BY DEF ReviewInv, Fresh
<1>2. /\ req[q].r \in Rows /\ req[q].todo \subseteq MatchesOf(match, req[q].r)
      /\ req[q].row = row[req[q].r]
  BY OfRow
<1>3. op.status = "reviewing" /\ Typed
  BY InHand
<1> QED BY <1>1, <1>2, <1>3, TheTargetIs DEF Typed, RowTyped

\* The row kept stays in and the other goes out.
LEMMA KeepPair ==
    ASSUME OneAtWork, ReviewInv, PairInv, NEW q \in Requests, NEW keep \in BOOLEAN,
           req[q].pc = "loaded", req[q].kind = "decide", req[q].todo \subseteq Rows,
           req[q].body \in {"keep", "keep other"}, DecidePair(q, keep), Told(q),
           severed' = severed, aside' = aside
    PROVE  Sorted' /\ Linked' /\ Exclusive'
<1> DEFINE r == req[q].r
           t == TheTarget(q)
           s == IF keep THEN "primary" ELSE "deprioritized"
           m == [match EXCEPT ![r][t] = s]
<1>1. /\ op.status = "reviewing" /\ Typed /\ r \in Rows /\ t \in MatchesOf(match, r) /\ t \in Targets
      /\ t \in Rows /\ req[q].row = row[r] /\ \A x \in Rows : row[x] \in RowRecord
  BY OneMatch
<1> HIDE DEF t
<1>2. match' = m /\ s # "absent" /\ cleared' = cleared
  <2>1. t \notin Persons
    BY <1>1, PersonsAssumption
  <2>2. cleared' = cleared
    BY <2>1 DEF Told, t
  <2>3. match' = m /\ s # "absent"
    BY DEF DecidePair, t
  <2> QED BY <2>2, <2>3
<1>3. \A x \in Rows : MatchesOf(match', x) = MatchesOf(match, x)
  BY <1>1, <1>2, MatchesKept DEF Typed
<1>4. PICK lost, mine :
        /\ lost = [row[t] EXCEPT
             !.status = IF keep THEN "deprioritized"
                        ELSE IF row[t].person # Nobody THEN "retained" ELSE "primary",
             !.decision = Answered(row[t], IF keep THEN "confirm" ELSE "waive")]
        /\ mine = [row[r] EXCEPT
             !.status = OnFile(Derived(m, r), row[r].person),
             !.decision = Answered(row[r], IF keep THEN "waive" ELSE "confirm")]
  OBVIOUS
<1>5. row' = [x \in Rows |-> IF x = r THEN mine ELSE IF x = t THEN lost ELSE row[x]]
  BY <1>1, <1>4 DEF DecidePair, t
<1>6. /\ lost.person = row[t].person /\ lost.eligibility = row[t].eligibility
      /\ lost.decision = Answered(row[t], IF keep THEN "confirm" ELSE "waive")
      /\ lost.status = IF keep THEN "deprioritized"
                       ELSE IF row[t].person # Nobody THEN "retained" ELSE "primary"
  BY <1>1, <1>4 DEF RowRecord
<1>7. mine.intra = row[r].intra /\ mine.status = OnFile(Derived(m, r), row[r].person)
  BY <1>1, <1>4 DEF RowRecord
<1>8. /\ row'[r] = mine /\ (t # r => row'[t] = lost)
      /\ \A x \in Rows : x # r /\ x # t => row'[x] = row[x]
  BY <1>1, <1>5 DEF Typed, RowTyped
<1>9. Sorted'
  BY <1>3, SortedKept DEF PairInv
<1>10. Linked'
  <2> SUFFICES ASSUME NEW x \in Rows, x \notin aside, x \notin cleared, Kept(match', x)
               PROVE  \/ PendingOf(match', x) \cap Persons # {}
                      \/ row'[x].person # Nobody /\ row'[x].status \notin {"no_match", "primary"}
    BY <1>2 DEF Linked
  <2>1. x # r
    BY <1>1, <1>3, KeptOnFile, NoRows
  <2>2. PendingOf(match', x) = PendingOf(match, x) /\ Kept(match, x)
    BY <1>1, <1>2, <2>1, Elsewhere, KeptElsewhere DEF Typed
  <2>3. \/ PendingOf(match, x) \cap Persons # {}
        \/ row[x].person # Nobody /\ row[x].status \notin {"no_match", "primary"}
    BY <2>2, LinkedNow
  <2>4. CASE x = t
    BY <1>6, <1>8, <2>1, <2>2, <2>3, <2>4
  <2>5. CASE x # t
    BY <1>8, <2>1, <2>2, <2>3, <2>5
  <2> QED BY <2>4, <2>5
<1>11. Exclusive'
  <2> SUFFICES ASSUME NEW a \in Rows, NEW b \in Rows, LonePair(a, b)
               PROVE  /\ row'[a].intra
                      /\ row'[b].eligibility = "allowed" /\ row'[b].decision = "none"
                      /\ a \in crossed' \/ Out(a)' \/ row'[b].status = "deprioritized"
    BY <1>3, SamePairs DEF Exclusive
  <2>1. /\ row[a].intra /\ row[b].eligibility = "allowed" /\ row[b].decision = "none"
        /\ a \in crossed \/ Out(a) \/ row[b].status = "deprioritized"
    BY <1>1, ExclusiveNow
  <2>2. a # b /\ r # b /\ (r = a => t = b) /\ (r # a => t # b /\ t # a)
    BY ONLY <1>1, a \in Rows, b \in Rows, LonePair(a, b), InPair
  <2>3. CASE r = a
    <3>1. row'[b] = lost /\ row'[a] = mine /\ t = b
      BY <1>8, <2>2, <2>3
    <3>2. row'[b].eligibility = "allowed" /\ row'[b].decision = "none" /\ row'[a].intra
      BY <1>6, <1>7, <2>1, <2>3, <3>1 DEF Answered
    <3>3. keep => row'[b].status = "deprioritized"
      BY <1>6, <3>1
    <3>4. ~keep => Out(a)'
      <4>1. MatchesOf(m, r) = {t}
        BY <1>2, <1>3, <2>3, <3>1 DEF LonePair
      <4>2. ~keep => m[r][t] = "deprioritized"
        BY <1>1 DEF Typed, MatchTyped
      <4>3. ~keep => Derived(m, r) = "deprioritized"
        BY ONLY ZenonT(60), <1>1, <4>1, <4>2, DerivedSingle
      <4> QED BY <1>7, <2>3, <3>1, <4>3 DEF Out, OnFile
    <3> QED BY <3>2, <3>3, <3>4
  <2>4. CASE r # a
    <3>1. row'[a] = row[a] /\ row'[b] = row[b] /\ (a \in crossed => a \in crossed')
      BY <1>8, <2>2, <2>4, ToldOthers
    <3> QED BY <2>1, <3>1 DEF Out
  <2> QED BY <2>3, <2>4
<1> QED BY <1>9, <1>10, <1>11

\* The row points at the person chosen, and stays on file; of a pair it stays
\* in as the same person, or goes out.
LEMMA ClaimPair ==
    ASSUME OneAtWork, ReviewInv, PairInv, NEW q \in Requests, NEW last \in BOOLEAN,
           req[q].pc = "loaded", req[q].kind = "decide", Claim(q, last), Told(q),
           last <=> req[q].body # "same", req[q].body # "not the same",
           severed' = severed, aside' = aside
    PROVE  Sorted' /\ Linked' /\ Exclusive'
<1> DEFINE r == req[q].r
           t == TheTarget(q)
           s == IF last THEN "deprioritized" ELSE "primary"
           m == [match EXCEPT ![r][t] = s]
           person == IF t \in Persons THEN t ELSE row[r].person
<1>1. /\ op.status = "reviewing" /\ Typed /\ r \in Rows /\ t \in MatchesOf(match, r) /\ t \in Targets
      /\ req[q].row = row[r] /\ \A x \in Rows : row[x] \in RowRecord
  BY OneMatch
<1>2. /\ t \notin Persons => (r \in cleared' <=> r \in cleared)
      /\ t \in Rows /\ ~last => r \in crossed'
  BY DEF Told
<1> HIDE DEF t
<1>3. match' = m /\ s # "absent"
  BY DEF Claim, t
<1>4. \A x \in Rows : MatchesOf(match', x) = MatchesOf(match, x)
  BY <1>1, <1>3, MatchesKept DEF Typed
<1>5. /\ \A x \in Rows \ {r} : row'[x] = row[x]
      /\ row'[r].person = person /\ row'[r].status = OnFile(Derived(m, r), person)
      /\ row'[r].intra = row[r].intra
  BY <1>1 DEF Claim, Typed, RowTyped, RowRecord, t
<1>6. Sorted'
  BY <1>4, SortedKept DEF PairInv
<1>7. Linked'
  <2> SUFFICES ASSUME NEW x \in Rows, x \notin aside, x \notin cleared', Kept(match', x)
               PROVE  \/ PendingOf(match', x) \cap Persons # {}
                      \/ row'[x].person # Nobody /\ row'[x].status \notin {"no_match", "primary"}
    BY DEF Linked
  <2>1. CASE x # r
    <3>1. PendingOf(match', x) = PendingOf(match, x) /\ Kept(match, x)
      BY <1>1, <1>3, <2>1, Elsewhere, KeptElsewhere DEF Typed
    <3>2. x \notin cleared
      BY <2>1, ToldOthers
    <3> QED BY <1>5, <2>1, <3>1, <3>2, LinkedNow
  <2>2. CASE x = r
    <3>1. row'[r].status \notin {"no_match", "primary"}
      <4>1. MatchesOf(m, r) # {} /\ MatchesOf(m, r) \cap Rows = {}
        BY <1>3, <1>4, <2>2, KeptOnFile, NoRows
      <4>2. row'[r].status = OnFile(Derived(m, r), person)
        BY <1>5
      <4> HIDE DEF m, person
      <4>3. OnFile(Derived(m, r), person) \notin {"no_match", "primary"}
        BY <4>1, DerivedOnFile
      <4> QED BY <4>2, <4>3
    <3>2. CASE t \in Persons
      BY <1>5, <2>2, <3>1, <3>2, PersonsAssumption
    <3>3. CASE t \notin Persons
      <4>1. PendingOf(match, r) \cap Persons \subseteq PendingOf(match', r)
        BY <1>1, <1>3, <3>3 DEF PendingOf, Typed, MatchTyped
      <4>2. row'[r].person = row[r].person
        BY <1>5, <3>3
      <4>3. Kept(match, r)
        BY <1>1, <1>3, <2>2, <3>3 DEF Kept, Typed, MatchTyped, Targets
      <4> QED BY <1>2, <2>2, <3>1, <3>3, <4>1, <4>2, <4>3, LinkedNow
    <3> QED BY <3>2, <3>3
  <2> QED BY <2>1, <2>2
<1>8. Exclusive'
  <2> SUFFICES ASSUME NEW a \in Rows, NEW b \in Rows, LonePair(a, b)
               PROVE  /\ row'[a].intra
                      /\ row'[b].eligibility = "allowed" /\ row'[b].decision = "none"
                      /\ a \in crossed' \/ Out(a)' \/ row'[b].status = "deprioritized"
    BY <1>4, SamePairs DEF Exclusive
  <2>1. /\ row[a].intra /\ row[b].eligibility = "allowed" /\ row[b].decision = "none"
        /\ a \in crossed \/ Out(a) \/ row[b].status = "deprioritized"
    BY <1>1, ExclusiveNow
  <2>2. r # b /\ (r = a => t = b)
    BY ONLY <1>1, a \in Rows, b \in Rows, LonePair(a, b), InPair
  <2>3. row'[b] = row[b] /\ row'[a].intra
    BY <1>5, <2>1, <2>2
  <2>4. CASE a # r
    BY <1>5, <2>1, <2>3, <2>4, ToldOthers DEF Out
  <2>5. CASE a = r
    <3>1. last => Out(a)'
      <4>1. MatchesOf(m, r) = {t}
        BY <1>3, <1>4, <2>2, <2>5 DEF LonePair
      <4>2. last => m[r][t] = "deprioritized"
        BY <1>1 DEF Typed, MatchTyped
      <4> HIDE DEF m, s
      <4>3. last => Derived(m, r) = "deprioritized"
        BY ZenonT(60), <1>1, <4>1, <4>2, DerivedSingle
      <4> QED BY <1>5, <2>5, <4>3 DEF Out, OnFile
    <3>2. ~last => a \in crossed'
      BY <1>2, <2>2, <2>5
    <3> QED BY <2>1, <2>3, <3>1, <3>2
  <2> QED BY <2>4, <2>5
<1> QED BY <1>6, <1>7, <1>8

\* A row told it is not the person or row matched keeps the candidate to its
\* name: it is in no lone pair.
LEMMA SeverPair ==
    ASSUME OneAtWork, ReviewInv, PairInv, NEW q \in Requests,
           req[q].pc = "loaded", req[q].kind = "decide", Sever(q), Told(q),
           req[q].body = "not the same",
           severed' = [severed EXCEPT ![req[q].r] = @ \cup req[q].todo], aside' = aside
    PROVE  Sorted' /\ Linked' /\ Exclusive'
<1> DEFINE r == req[q].r
           t == TheTarget(q)
           m == [match EXCEPT ![r][t] = "absent"]
<1>1. /\ op.status = "reviewing" /\ Typed /\ r \in Rows /\ t \in MatchesOf(match, r) /\ t \in Targets
      /\ req[q].todo = {t} /\ req[q].row = row[r]
  BY OneMatch
<1>2. (\E p \in Persons \ {t} : match[r][p] = "primary") => r \in cleared'
  BY DEF Told
<1> HIDE DEF t
<1>3. match' = m
  BY DEF Sever, t
<1>4. /\ MatchesOf(match', r) = MatchesOf(match, r) \ {t}
      /\ \A x \in Rows \ {r} : MatchesOf(match', x) = MatchesOf(match, x)
                               /\ PendingOf(match', x) = PendingOf(match, x)
  <2>1. MatchesOf(match', r) = MatchesOf(match, r) \ {t}
    BY <1>1, <1>3 DEF MatchesOf, Typed, MatchTyped
  <2>2. \A x \in Rows \ {r} : MatchesOf(match', x) = MatchesOf(match, x)
                               /\ PendingOf(match', x) = PendingOf(match, x)
    BY <1>1, <1>3, Elsewhere DEF Typed
  <2> QED BY <2>1, <2>2
<1>5. /\ severed'[r] = severed[r] \cup {t} /\ \A x \in Rows \ {r} : severed'[x] = severed[x]
      /\ \A x \in Rows \ {r} : row'[x] = row[x]
  <2>1. severed'[r] = severed[r] \cup {t} /\ \A x \in Rows \ {r} : severed'[x] = severed[x]
    BY <1>1 DEF Typed, AnswersTyped
  <2>2. \A x \in Rows \ {r} : row'[x] = row[x]
    BY <1>1 DEF Sever, Typed, RowTyped
  <2> QED BY <2>1, <2>2
<1>6. Sorted'
  BY <1>4, SortedKept DEF PairInv
<1>7. Linked'
  <2> SUFFICES ASSUME NEW x \in Rows, x \notin aside, x \notin cleared', Kept(match', x)
               PROVE  \/ PendingOf(match', x) \cap Persons # {}
                      \/ row'[x].person # Nobody /\ row'[x].status \notin {"no_match", "primary"}
    BY DEF Linked
  <2>1. x # r
    <3>1. x = r => \E p \in Persons \ {t} : match[r][p] = "primary"
      BY <1>1, <1>3 DEF Kept, Typed, MatchTyped, Targets
    <3> QED BY <1>2, <3>1
  <2>2. Kept(match, x)
    BY <1>1, <1>3, <2>1, KeptElsewhere DEF Typed
  <2>3. x \notin cleared
    BY <2>1, ToldOthers
  <2> QED BY <1>4, <1>5, <2>1, <2>2, <2>3, LinkedNow
<1>8. \A x \in Rows : Candidates(x)' = Candidates(x)
  <2> SUFFICES ASSUME NEW x \in Rows PROVE Candidates(x)' = Candidates(x)
    OBVIOUS
  <2>1. CASE x = r
    BY <1>1, <1>4, <1>5, <2>1 DEF Candidates
  <2>2. CASE x # r
    BY <1>4, <1>5, <2>2 DEF Candidates
  <2> QED BY <2>1, <2>2
<1>9. Exclusive'
  <2> SUFFICES ASSUME NEW a \in Rows, NEW b \in Rows, LonePair(a, b)'
               PROVE  /\ row'[a].intra
                      /\ row'[b].eligibility = "allowed" /\ row'[b].decision = "none"
                      /\ a \in crossed' \/ Out(a)' \/ row'[b].status = "deprioritized"
    BY DEF Exclusive
  <2>1. b # r
    BY <1>1, <1>8 DEF LonePair, Candidates
  <2>2. a # r
    <3> SUFFICES ASSUME a = r PROVE FALSE
      OBVIOUS
    <3>1. t \in Candidates(a)
      BY <1>1 DEF Candidates
    <3>2. t \notin MatchesOf(match', a)
      BY <1>4
    <3>3. MatchesOf(match', a) = {b} /\ Candidates(a)' = {b}
      BY DEF LonePair
    <3>4. Candidates(a)' = Candidates(a)
      BY <1>8
    <3> QED BY <3>1, <3>2, <3>3, <3>4
  <2>3. LonePair(a, b)
    BY <1>4, <1>8, <2>1, <2>2 DEF LonePair
  <2>4. row'[a] = row[a] /\ row'[b] = row[b] /\ (a \in crossed => a \in crossed')
    BY <1>5, <2>1, <2>2, ToldOthers
  <2>5. /\ row[a].intra /\ row[b].eligibility = "allowed" /\ row[b].decision = "none"
        /\ a \in crossed \/ Out(a) \/ row[b].status = "deprioritized"
    BY <1>1, <2>3, ExclusiveNow
  <2> QED BY <2>4, <2>5 DEF Out
<1> QED BY <1>6, <1>7, <1>9

LEMMA DecidePairs ==
    ASSUME OneAtWork, ReviewInv, PairInv, NEW q \in Requests, Decide(q) PROVE PairInv'
<1>1. /\ req[q].pc = "loaded" /\ req[q].kind = "decide" /\ Done(q) /\ aside' = aside
      /\ op' = op /\ made' = made
  BY DEF Decide, Loaded, saved
<1>2. op.status = "reviewing" /\ Typed
  BY <1>1, InHand
<1>3. Apt'
  BY <1>1, <1>2, DoneApt DEF Typed
<1>4. req[q].body \in {"keep", "keep other"} => req[q].todo \subseteq Rows
  BY <1>1, AptNow
<1>5. Told(q)
  BY DEF Decide
<1>6. Sorted' /\ Linked' /\ Exclusive'
  <2>1. ASSUME NEW keep \in BOOLEAN, DecidePair(q, keep), severed' = severed,
               req[q].body \in {"keep", "keep other"}
        PROVE  Sorted' /\ Linked' /\ Exclusive'
    BY <1>1, <1>4, <1>5, <2>1, KeepPair
  <2>2. ASSUME Claim(q, FALSE), severed' = severed, req[q].body = "same"
        PROVE  Sorted' /\ Linked' /\ Exclusive'
    BY <1>1, <1>5, <2>2, ClaimPair
  <2>3. ASSUME Claim(q, TRUE), severed' = severed, req[q].body \notin {"same", "not the same"}
        PROVE  Sorted' /\ Linked' /\ Exclusive'
    BY <1>1, <1>5, <2>3, ClaimPair
  <2>4. ASSUME Sever(q), severed' = [severed EXCEPT ![req[q].r] = @ \cup req[q].todo],
               req[q].body = "not the same"
        PROVE  Sorted' /\ Linked' /\ Exclusive'
    BY <1>1, <1>5, <2>4, SeverPair
  <2> QED BY <2>1, <2>2, <2>3, <2>4, DecideCases
<1> QED BY <1>1, <1>2, <1>3, <1>6, NotYet DEF Typed

\* The later row of a pair is open again, the row on file too or still linked.
LEMMA RevertPair ==
    ASSUME OneAtWork, ReviewInv, PairInv, NEW q \in Requests, Revert(q) PROVE PairInv'
<1> DEFINE r == req[q].r
           t == TheTarget(q)
           m == [match EXCEPT ![r][t] = "pending"]
<1>1. /\ op.status = "reviewing" /\ Typed /\ r \in Rows /\ t \in MatchesOf(match, r) /\ t \in Targets
      /\ \A x \in Rows : row[x] \in RowRecord
  BY OneMatch DEF Revert, Loaded
<1> HIDE DEF t
<1>2. /\ match' = m /\ severed' = severed /\ aside' = aside /\ op' = op /\ made' = made
      /\ crossed' = crossed /\ cleared' = cleared
  BY DEF Revert, t, answers, saved
<1>3. \A x \in Rows : MatchesOf(match', x) = MatchesOf(match, x)
  BY <1>1, <1>2, MatchesKept DEF Typed
<1>4. /\ row'[r].person = IF row[r].person = t THEN Nobody ELSE row[r].person
      /\ row'[r].status = Derived(m, r) /\ row'[r].intra = row[r].intra
      /\ \A x \in Rows \ {r} : IF x = t THEN row'[x] = Reopened(x, m, row[x]) ELSE row'[x] = row[x]
  <2>1. \A x \in Rows :
           row'[x] = IF x = r
                     THEN Reopened(r, m, IF row[r].person = t THEN [row[r] EXCEPT !.person = Nobody]
                                                              ELSE row[r])
                     ELSE IF x = t THEN Reopened(t, m, row[t]) ELSE row[x]
    BY DEF Revert, t
  <2>2. PICK mine : mine = IF row[r].person = t THEN [row[r] EXCEPT !.person = Nobody] ELSE row[r]
    OBVIOUS
  <2>3. /\ mine \in RowRecord /\ mine.intra = row[r].intra
        /\ mine.person = IF row[r].person = t THEN Nobody ELSE row[r].person
    BY <1>1, <2>2 DEF RowRecord
  <2>4. row'[r] = Reopened(r, m, mine)
    BY <1>1, <2>1, <2>2
  <2> HIDE DEF m
  <2>5. /\ row'[r].person = mine.person /\ row'[r].status = Derived(m, r)
        /\ row'[r].intra = mine.intra
    BY <2>3, <2>4 DEF Reopened, RowRecord
  <2> QED BY <2>1, <2>3, <2>5
<1>5. \A x \in Rows : /\ Reopened(x, m, row[x]).person = row[x].person
                      /\ Reopened(x, m, row[x]).status = Derived(m, x)
                      /\ Reopened(x, m, row[x]).eligibility = row[x].eligibility
                      /\ row[x].decision = "none" => Reopened(x, m, row[x]).decision = "none"
  BY <1>1 DEF Reopened, RowRecord
<1>6. Sorted'
  BY <1>3, SortedKept DEF PairInv
<1>7. Linked'
  <2> SUFFICES ASSUME NEW x \in Rows, x \notin aside, x \notin cleared, Kept(match', x)
               PROVE  \/ PendingOf(match', x) \cap Persons # {}
                      \/ row'[x].person # Nobody /\ row'[x].status \notin {"no_match", "primary"}
    BY <1>2 DEF Linked
  <2>0. Kept(match, x)
    BY <1>1, <1>2 DEF Kept, Typed, MatchTyped
  <2>1. Derived(m, x) \notin {"no_match", "primary"}
    <3>1. MatchesOf(m, x) # {} /\ MatchesOf(m, x) \cap Rows = {}
      BY <1>2, <1>3, <2>0, KeptOnFile, NoRows
    <3> HIDE DEF m
    <3> QED BY <3>1, DerivedOnFile
  <2>2. PendingOf(match, x) \subseteq PendingOf(match', x)
    BY <1>1, <1>2 DEF PendingOf, Typed, MatchTyped
  <2>3. \/ PendingOf(match, x) \cap Persons # {}
        \/ row[x].person # Nobody /\ row[x].status \notin {"no_match", "primary"}
    BY <2>0, LinkedNow
  <2>4. CASE x = r
    <3>1. CASE t \in Persons
      <4>1. t \in PendingOf(match', r)
        BY <1>1, <1>2 DEF PendingOf, Typed, MatchTyped
      <4> QED BY <2>4, <3>1, <4>1
    <3>2. CASE t \notin Persons
      <4>1. row[r].person # t
        BY <1>1, <3>2, PersonsAssumption DEF Targets, RowRecord
      <4>2. row'[r].person = row[r].person /\ row'[r].status = Derived(m, r)
        BY <1>4, <4>1
      <4> HIDE DEF m
      <4> QED BY <2>1, <2>2, <2>3, <2>4, <4>2
    <3> QED BY <3>1, <3>2
  <2>5. CASE x # r
    <3>1. row'[x] = row[x] \/ (row'[x].person = row[x].person /\ row'[x].status = Derived(m, x))
      BY <1>4, <1>5, <2>5
    <3> HIDE DEF m
    <3> QED BY <2>1, <2>2, <2>3, <3>1
  <2> QED BY <2>4, <2>5
<1>8. Exclusive'
  <2> SUFFICES ASSUME NEW a \in Rows, NEW b \in Rows, LonePair(a, b)
               PROVE  /\ row'[a].intra
                      /\ row'[b].eligibility = "allowed" /\ row'[b].decision = "none"
                      /\ a \in crossed' \/ Out(a)' \/ row'[b].status = "deprioritized"
    BY <1>2, <1>3, SamePairs DEF Exclusive
  <2>1. /\ row[a].intra /\ row[b].eligibility = "allowed" /\ row[b].decision = "none"
        /\ a \in crossed \/ Out(a) \/ row[b].status = "deprioritized"
    BY <1>1, ExclusiveNow
  <2>2. a # b /\ r # b /\ (r = a => t = b) /\ (r # a => t # b /\ t # a)
    BY <1>1, InPair
  <2>3. CASE r = a
    <3>1. row'[b] = Reopened(b, m, row[b])
      BY <1>4, <2>2, <2>3
    <3>2. row'[b].eligibility = "allowed" /\ row'[b].decision = "none"
      BY <1>5, <2>1, <3>1
    <3>3. Out(a)'
      <4>1. MatchesOf(m, r) = {t}
        BY <1>2, <1>3, <2>2, <2>3 DEF LonePair
      <4>2. m[r][t] = "pending"
        BY <1>1 DEF Typed, MatchTyped
      <4> HIDE DEF m
      <4>3. Derived(m, r) = "pending"
        BY <1>1, <4>1, <4>2, DerivedSingle
      <4> QED BY <1>4, <2>3, <4>3 DEF Out
    <3> QED BY <1>4, <2>1, <2>3, <3>2, <3>3
  <2>4. CASE r # a
    <3>1. row'[a] = row[a] /\ row'[b] = row[b]
      BY <1>4, <2>2, <2>4
    <3> QED BY <1>2, <2>1, <3>1 DEF Out
  <2> QED BY <2>3, <2>4
<1>9. Apt'
  BY <1>1, DoneApt DEF Revert, Typed
<1> QED BY <1>1, <1>2, <1>6, <1>7, <1>8, <1>9, NotYet DEF Typed

LEMMA SaveMatchPair ==
    ASSUME OneAtWork, ReviewInv, PairInv, NEW q \in Requests, NEW t \in Targets, SaveMatch(q, t)
    PROVE  PairInv'
<1> DEFINE r == req[q].r
<1>1. /\ op.status = "reviewing" /\ Typed /\ r \in Rows /\ t \in MatchesOf(match, r)
      /\ req[q].row = row[r] /\ req[q].todo \subseteq MatchesOf(match, r)
      /\ req[q].pc = "loaded" /\ req[q].kind \in {"undo", "eligible"}
  BY InHand, OfRow DEF SaveMatch, Loaded
<1>2. match' = [match EXCEPT ![r][t] = MatchAnswer(q)] /\ MatchAnswer(q) # "absent"
  BY DEF SaveMatch, MatchAnswer
<1>3. \A x \in Rows : MatchesOf(match', x) = MatchesOf(match, x)
  BY <1>1, <1>2, MatchesKept DEF Typed
<1>4. /\ row' = row /\ severed' = severed /\ op' = op /\ made' = made /\ aside' = aside \cup {r}
      /\ crossed' = crossed /\ cleared' = cleared
  BY DEF SaveMatch, saved
<1>5. /\ req'[q].todo = req[q].todo \ {t} /\ req'[q].r = r /\ req'[q].row = req[q].row
      /\ req'[q].kind = req[q].kind /\ req'[q].body = req[q].body
  BY DEF SaveMatch, ReviewInv, Typed, ReqTyped, ReqRecord
<1>6. Apt'
  <2>1. \A u \in Targets : MatchesOf(match', r) = {u} =>
            u \in req'[q].todo \/ match'[r][u] = MatchAnswer(q)'
    <3> SUFFICES ASSUME NEW u \in Targets, MatchesOf(match, r) = {u}
                 PROVE  match'[r][u] = MatchAnswer(q)'
      BY <1>1, <1>3
    <3>1. u = t
      BY <1>1
    <3>2. MatchAnswer(q)' = MatchAnswer(q)
      BY <1>5 DEF MatchAnswer
    <3> QED BY <1>1, <1>2, <3>1, <3>2 DEF Typed, MatchTyped
  <2>2. \A p \in Requests : p = q
    BY DEF OneAtWork
  <2>3. /\ req[q].kind = "undo" => req[q].row.decision # "none"
        /\ req[q].kind = "eligible" => /\ req[q].row.eligibility = "disqualified"
                                       /\ req[q].body = "waive" => ~req[q].row.intra
    BY <1>1, AptNow
  <2> QED BY ZenonT(60), <1>1, <1>5, <2>1, <2>2, <2>3 DEF Apt
<1>7. Sorted'
  BY <1>3, SortedKept DEF PairInv
<1>8. Linked'
  <2>1. \A x \in Rows \ {r} : /\ PendingOf(match', x) = PendingOf(match, x)
                              /\ Kept(match', x) <=> Kept(match, x)
    BY <1>1, <1>2, Elsewhere, KeptElsewhere DEF Typed
  <2> QED BY <1>4, <2>1 DEF PairInv, Linked
<1>9. Exclusive'
  BY <1>1, <1>3, <1>4, SamePairs DEF PairInv, Exclusive, Out
<1> QED BY <1>1, <1>4, <1>6, <1>7, <1>8, <1>9, NotYet DEF Typed

\* Undone, the later row of a pair is open; confirmed, it is out; it cannot be
\* waived, and the earlier row has nothing to answer.
LEMMA AnswerPair ==
    ASSUME OneAtWork, ReviewInv, PairInv, NEW q \in Requests, Undo(q) \/ Eligible(q) PROVE PairInv'
<1> DEFINE r == req[q].r
<1>1. /\ op.status = "reviewing" /\ Typed /\ r \in Rows /\ req[q].row = row[r]
      /\ row[r] \in RowRecord /\ req[q].pc = "loaded" /\ req[q].todo = {}
      /\ Undo(q) => req[q].kind = "undo"
      /\ ~Undo(q) => req[q].kind = "eligible"
      /\ req[q].kind \in {"undo", "eligible"}
  BY InHand, OfRow DEF Undo, Eligible, Loaded
<1>2. /\ match' = match /\ severed' = severed /\ op' = op /\ aside' = aside /\ made' = made
      /\ crossed' = crossed /\ cleared' = cleared
  BY DEF Undo, Eligible, answers, saved
<1>3. PICK mine :
        /\ row' = row \/ row' = [row EXCEPT ![r] = mine]
        /\ mine.person = row[r].person /\ mine.intra = row[r].intra
        /\ Undo(q) => mine.status = Derived(match, r)
        /\ ~Undo(q) => mine.status = IF ~\E t \in Targets : match[r][t] = "primary" THEN "deprioritized"
                                     ELSE IF MatchesOf(match, r) \cap Persons # {} THEN "retained"
                                     ELSE "primary"
  <2>1. CASE Undo(q)
    <3>1. PICK x : x = [row[r] EXCEPT !.decision = "none", !.status = Derived(match, r)]
      OBVIOUS
    <3>2. row' = [row EXCEPT ![r] = x]
      BY <1>1, <2>1, <3>1 DEF Undo
    <3>3. x.person = row[r].person /\ x.intra = row[r].intra /\ x.status = Derived(match, r)
      BY <1>1, <3>1 DEF RowRecord
    <3> QED BY <2>1, <3>2, <3>3
  <2>2. CASE ~Undo(q)
    <3>1. PICK s : s = IF ~\E t \in Targets : match[r][t] = "primary" THEN "deprioritized"
                       ELSE IF MatchesOf(match, r) \cap Persons # {} THEN "retained"
                       ELSE "primary"
      OBVIOUS
    <3>2. PICK x : x = [row[r] EXCEPT !.decision = req[q].body, !.status = s]
      OBVIOUS
    <3>3. row' = row \/ row' = [row EXCEPT ![r] = x]
      BY <1>1, <2>2, <3>1, <3>2 DEF Eligible
    <3>4. x.person = row[r].person /\ x.intra = row[r].intra /\ x.status = s
      BY <1>1, <3>2 DEF RowRecord
    <3> QED BY <2>2, <3>1, <3>3, <3>4
  <2> QED BY <2>1, <2>2
<1>4. /\ \A x \in Rows \ {r} : row'[x] = row[x]
      /\ row'[r] = row[r] \/ row'[r] = mine
  BY <1>1, <1>3 DEF Typed, RowTyped
<1>5. Sorted'
  BY <1>2, SortedKept DEF PairInv
<1>6. Linked'
  <2> SUFFICES ASSUME NEW x \in Rows, x \notin aside, x \notin cleared, Kept(match, x)
               PROVE  \/ PendingOf(match, x) \cap Persons # {}
                      \/ row'[x].person # Nobody /\ row'[x].status \notin {"no_match", "primary"}
    BY <1>2 DEF Linked
  <2>1. \/ PendingOf(match, x) \cap Persons # {}
        \/ row[x].person # Nobody /\ row[x].status \notin {"no_match", "primary"}
    BY LinkedNow
  <2>2. CASE row'[x] = row[x]
    BY <2>1, <2>2
  <2>3. CASE row'[x] # row[x]
    <3>1. x = r /\ row'[r] = mine
      BY <1>4, <2>3
    <3>2. Derived(match, r) \notin {"no_match", "primary"}
      <4>1. MatchesOf(match, r) # {} /\ MatchesOf(match, r) \cap Rows = {}
        BY <3>1, KeptOnFile, NoRows
      <4> QED BY <4>1, DerivedOnFile
    <3>3. mine.status \notin {"no_match", "primary"}
      BY <1>3, <3>1, <3>2, KeptOnFile
    <3> QED BY <1>3, <2>1, <3>1, <3>3
  <2> QED BY <2>2, <2>3
<1>7. Exclusive'
  <2> SUFFICES ASSUME NEW a \in Rows, NEW b \in Rows, LonePair(a, b)
               PROVE  /\ row'[a].intra
                      /\ row'[b].eligibility = "allowed" /\ row'[b].decision = "none"
                      /\ a \in crossed \/ Out(a)' \/ row'[b].status = "deprioritized"
    BY <1>2, SamePairs DEF Exclusive
  <2>1. /\ row[a].intra /\ row[b].eligibility = "allowed" /\ row[b].decision = "none"
        /\ a \in crossed \/ Out(a) \/ row[b].status = "deprioritized"
    BY <1>1, ExclusiveNow
  <2>2. b # r /\ (a = r => ~(req[q].kind = "eligible" /\ req[q].body = "waive"))
    BY <1>1, <2>1, AptNow
  <2>3. row'[b] = row[b]
    BY <1>4, <2>2
  <2>4. CASE row'[a] = row[a]
    BY <2>1, <2>3, <2>4 DEF Out
  <2>5. CASE row'[a] # row[a]
    <3>1. a = r /\ row'[r] = mine
      BY <1>4, <2>5
    <3>2. MatchesOf(match, r) = {b} /\ b \in Targets
      BY <3>1 DEF LonePair, Targets
    <3>3. match[r][b] = MatchAnswer(q)
      BY <1>1, <3>2, AptNow
    <3>4. mine.status \in {"pending", "deprioritized"}
      <4>1. CASE Undo(q)
        <5>1. match[r][b] = "pending"
          <6>1. req[q].kind = "undo"
            BY <1>1, <4>1, Zenon
          <6>2. MatchAnswer(q) = "pending"
            BY <6>1 DEF MatchAnswer
          <6> QED BY <3>3, <6>2
        <5> QED BY <1>3, <3>2, <4>1, <5>1, DerivedSingle
      <4>2. CASE ~Undo(q)
        <5>1. match[r][b] = "deprioritized"
          BY <1>1, <2>2, <3>1, <3>3, <4>2 DEF MatchAnswer
        <5>2. ~\E t \in Targets : match[r][t] = "primary"
          BY <3>2, <5>1 DEF MatchesOf
        <5> QED BY <1>3, <4>2, <5>2
      <4> QED BY <4>1, <4>2
    <3> QED BY <1>3, <2>1, <2>3, <3>1, <3>4 DEF Out
  <2> QED BY <2>4, <2>5
<1>8. Apt'
  BY <1>1, DoneApt DEF Undo, Eligible, Typed
<1> QED BY <1>1, <1>2, <1>5, <1>6, <1>7, <1>8, NotYet DEF Typed

-----------------------------------------------------------------------------
(* One record and one winner: the upload, the queue and the worker *)

\* Cut or queued, the request is done; what it was about stays as it is.
LEMMA DonePair ==
    ASSUME OneAtWork, ReviewInv, PairInv, NEW q \in Requests, Cut(q) \/ Enqueue(q) PROVE PairInv'
<1>1. /\ op.status = "reviewing" /\ Typed
  BY InHand DEF ReviewInv, Apart, Typed, ReqTyped, ReqRecord, Cut, Enqueue, Loaded
<1>2. /\ Done(q) /\ UNCHANGED <<match, row, answers, made>>
      /\ op'.status \in {"reviewing", "finalizing"}
  BY <1>1 DEF Cut, Enqueue, saved
<1>3. Apt'
  BY <1>1, <1>2, DoneApt DEF Typed
<1> QED BY <1>1, <1>2, <1>3, NothingAnswered, NotYet DEF Typed

\* A step of the worker, or of its lease, that saves nothing.
LEMMA WaitPair ==
    ASSUME ReviewInv, PairInv, op.status = "finalizing", op'.status # "finalized",
           UNCHANGED <<match, row, req, saved, answers>>
    PROVE  PairInv'
<1>1. Apt'
  BY DEF ReviewInv, Apart, Apt
<1> QED BY <1>1, NothingAnswered, NotYet DEF saved, answers, ReviewInv, Typed

LEMMA WayPair ==
    ASSUME ReviewInv, PairInv, NEW w \in Workers,
           ClaimJob(w) \/ Gate(w) \/ Read(w) \/ SaveFails(w) \/ RecordFailure(w) \/ Stop(w)
    PROVE  PairInv'
<1>1. op.status = "finalizing" /\ Typed
  BY DEF ReviewInv, Apart, ClaimJob, Gate, Read, SaveFails, RecordFailure, Stop
<1>2. UNCHANGED <<match, row, req, saved, answers>>
  BY DEF ClaimJob, Gate, Read, SaveFails, RecordFailure, Stop
<1>3. op' = op \/ op' = [op EXCEPT !.lease = "held"] \/ op' = [status |-> "reviewing", lease |-> "none"]
  BY DEF ClaimJob, Gate, Read, SaveFails, RecordFailure, Stop
<1>4. op'.status # "finalized"
  BY <1>1, <1>3 DEF Typed, OpTyped
<1> QED BY <1>1, <1>2, <1>4, WaitPair

LEMMA LeasePair == ASSUME ReviewInv, PairInv, Expire \/ Outlive, LeaseMeansQueued PROVE PairInv'
<1>1. op.status = "finalizing" /\ op'.status = "finalizing"
  BY DEF Expire, Outlive, LeaseMeansQueued, ReviewInv, Typed, OpTyped
<1>2. UNCHANGED <<match, row, req, saved, answers>>
  BY DEF Expire, Outlive
<1> QED BY <1>1, <1>2, WaitPair

\* The one save makes persons of rows that are not linked, and of a lone pair
\* leaves one out.
LEMMA SavePair ==
    ASSUME OneAtWork, ReviewInv, PairInv, NEW w \in Workers, Save(w) PROVE PairInv'
<1>0. PICK created, written : Wrote(worker[w].rows, created, written)
  BY SaveWrites
<1>1. /\ Typed /\ op.status = "finalizing" /\ Ripe /\ worker[w].rows = row
      /\ \A r \in Rows : made[r] = 0 /\ updated[r] = {}
  BY DEF Save, ReviewInv, Apart, Gated, InTime, PairInv, MadeInTime, Typed, SavedTyped
<1>2. /\ op'.status = "finalized" /\ UNCHANGED <<match, req, answers>>
      /\ created = {r \in Rows : Creates(row[r])} /\ written \subseteq {r \in Rows : Updates(row[r])}
      /\ row' = [r \in Rows |-> IF r \in created THEN [row[r] EXCEPT !.person = New] ELSE row[r]]
      /\ made' = [r \in Rows |-> IF r \in created THEN made[r] + 1 ELSE made[r]]
      /\ updated' = [r \in Rows |-> IF r \in written THEN updated[r] \cup {row[r].person}
                                    ELSE updated[r]]
  <2>1. Wrote(row, created, written)
    BY <1>0, <1>1
  <2>2. op'.status = "finalized" /\ UNCHANGED <<match, req, answers>>
    BY DEF Save
  <2>3. row' = [r \in Rows |-> IF r \in created THEN [row[r] EXCEPT !.person = New] ELSE row[r]]
    BY <1>1, <2>1 DEF Wrote, Typed, RowTyped
  <2> QED BY <2>1, <2>2, <2>3 DEF Wrote
<1>3. \A r \in Rows : /\ row'[r].status = row[r].status
                      /\ row'[r].person \in {row[r].person, New}
  <2>1. \A r \in Rows : row[r] \in RowRecord
    BY <1>1 DEF Typed, RowTyped
  <2> QED BY <1>2, <2>1 DEF RowRecord
<1>4. \A r \in Rows : (made'[r] > 0 => Creates(row[r])) /\ (updated'[r] # {} => Updates(row[r]))
  BY <1>1, <1>2
<1>5. Sorted' /\ Apt'
  <2>1. Apt'
    BY <1>1, <1>2 DEF ReviewInv, Apart, Apt
  <2> QED BY <1>2, <2>1, SortedKept DEF PairInv
<1>6. Linked'
  <2> SUFFICES ASSUME NEW x \in Rows, x \notin aside, x \notin cleared, Kept(match, x)
               PROVE  row'[x].person # Nobody /\ row'[x].status \notin {"no_match", "primary"}
    BY <1>2 DEF Linked, answers
  <2>1. row[x].person # Nobody /\ row[x].status \notin {"no_match", "primary"}
    BY <1>1, LinkedNow DEF Ripe
  <2>2. row'[x] = row[x]
    BY <1>2, <2>1 DEF Creates
  <2> QED BY <2>1, <2>2
<1>7. Exclusive' /\ MadeInTime'
  BY <1>2 DEF Exclusive, MadeInTime
<1>8. NoSecondRecord'
  <2> SUFFICES ASSUME NEW r \in Rows, r \notin aside, r \notin cleared, made'[r] > 0,
                      NEW p \in Persons, match[r][p] = "primary"
               PROVE  FALSE
    BY <1>2 DEF NoSecondRecord, answers
  <2>1. Kept(match, r)
    BY DEF Kept
  <2>2. row[r].person # Nobody /\ row[r].status \notin {"no_match", "primary"}
    BY <1>1, <2>1, LinkedNow DEF Ripe
  <2> QED BY <1>4, <2>2 DEF Creates
<1>9. LonePairSavedOnce'
  <2> SUFFICES ASSUME NEW r \in Rows, NEW e \in Rows, r \notin crossed, LonePair(r, e),
                      Imported(r)', Imported(e)'
               PROVE  FALSE
    BY <1>2, SamePairs DEF LonePairSavedOnce, answers
  <2>1. \A x \in {r, e} : row[x].status \notin {"pending", "deprioritized"}
    BY <1>4 DEF Imported, Creates, Updates
  <2> QED BY <1>1, <2>1, ExclusiveNow DEF Out
<1> QED BY <1>5, <1>6, <1>7, <1>8, <1>9 DEF PairInv

LEMMA UploadedIs ==
    ASSUME NEW c, NEW b, NEW v
    PROVE  /\ Uploaded(c, b, v).person = b /\ Uploaded(c, b, v).decision = "none"
           /\ v = "intra" => Uploaded(c, b, v).intra
           /\ v = "allowed" => Uploaded(c, b, v).eligibility = "allowed"
           /\ v # "allowed" => Uploaded(c, b, v).status = "deprioritized"
           /\ v = "allowed" /\ c \cap Persons # {} => Uploaded(c, b, v).status = "retained"
BY DEF Uploaded

\* The sweep sorts the matches; who has a person on file points at the best,
\* and the later row of a pair is disqualified as its duplicate.
LEMMA UploadPair == ASSUME ReviewInv, PairInv, Upload PROVE PairInv'
<1>1. /\ op.status = "defined" /\ op'.status = "reviewing" /\ Typed
      /\ UNCHANGED <<req, made, answers>>
  BY DEF Upload, ReviewInv, Typed, OpTyped, saved
<1>2. PICK cand \in [Rows -> SUBSET Targets], best \in [Rows -> Persons \cup {Nobody}],
           verdict \in [Rows -> {"allowed", "recent", "intra"}] :
         /\ Swept(cand) /\ Best(cand, best) /\ Judged(cand, best, verdict)
         /\ row' = [r \in Rows |-> Uploaded(cand[r], best[r], verdict[r])]
         /\ match' = [r \in Rows |-> [t \in Targets |->
              IF t \notin cand[r] THEN "absent"
              ELSE IF verdict[r] = "allowed" THEN "primary" ELSE "pending"]]
  BY DEF Upload
<1>3. \A r \in Rows : /\ MatchesOf(match', r) = cand[r]
                      /\ verdict[r] # "allowed" => PendingOf(match', r) = cand[r]
                      /\ row'[r] = Uploaded(cand[r], best[r], verdict[r])
  BY <1>2 DEF MatchesOf, PendingOf
<1>4. Sorted'
  BY <1>2, <1>3 DEF Swept, Paired, Sorted
<1>5. Apt'
  BY <1>1 DEF ReviewInv, Apart, Apt
<1>6. Linked'
  <2> SUFFICES ASSUME NEW x \in Rows, cand[x] \cap Persons # {}
               PROVE  \/ PendingOf(match', x) \cap Persons # {}
                      \/ row'[x].person # Nobody /\ row'[x].status \notin {"no_match", "primary"}
    BY <1>3, KeptOnFile DEF Linked
  <2>1. best[x] # Nobody
    BY <1>2, PersonsAssumption DEF Best, Targets
  <2>2. CASE verdict[x] = "allowed"
    BY <1>3, <2>1, <2>2, UploadedIs
  <2>3. CASE verdict[x] # "allowed"
    BY <1>3, <2>3
  <2> QED BY <2>2, <2>3
<1>7. Exclusive'
  <2> SUFFICES ASSUME NEW r \in Rows, NEW e \in Rows, LonePair(r, e)'
               PROVE  /\ row'[r].intra
                      /\ row'[e].eligibility = "allowed" /\ row'[e].decision = "none"
                      /\ Out(r)'
    BY DEF Exclusive
  <2>1. cand[r] = {e} /\ cand[e] = {}
    BY <1>3 DEF LonePair, Candidates
  <2>2. verdict[r] = "intra"
    BY <1>2, <2>1 DEF Judged, Paired
  <2>3. verdict[e] = "allowed"
    BY <1>2, <2>1 DEF Judged, Paired, Best
  <2>4. row'[r].intra /\ row'[r].status = "deprioritized"
    BY <1>3, <2>2, UploadedIs
  <2>5. row'[e].eligibility = "allowed" /\ row'[e].decision = "none"
    BY <1>3, <2>3, UploadedIs
  <2> QED BY <2>4, <2>5 DEF Out
<1> QED BY <1>1, <1>4, <1>5, <1>6, <1>7, NotYet DEF Typed

LEMMA NextPair ==
    ASSUME OneAtWork, OnceInv, ReviewInv, PairInv, [Next]_vars PROVE PairInv'
<1>1. ASSUME NEW q \in Requests, Ask(q) \/ RequestStep(q) \/ Cut(q) PROVE PairInv'
  BY <1>1, AskPair, DecidePairs, RevertPair, AnswerPair, SaveMatchPair, DonePair DEF RequestStep
<1>2. ASSUME NEW w \in Workers, WorkerStep(w) \/ SaveFails(w) \/ Stop(w) PROVE PairInv'
  BY <1>2, WayPair, SavePair DEF WorkerStep
<1>3. CASE UNCHANGED vars
  <2>1. UNCHANGED <<op, match, row, req, made, updated, severed, aside, crossed, cleared>>
    BY <1>3 DEF vars, saved, answers
  <2>2. Sorted' /\ Apt' /\ Linked'
    <3>1. \A r \in Rows : /\ MatchesOf(match', r) = MatchesOf(match, r)
                          /\ PendingOf(match', r) = PendingOf(match, r)
                          /\ Kept(match', r) <=> Kept(match, r)
      BY <2>1 DEF MatchesOf, PendingOf, Kept
    <3>2. Sorted' /\ Linked'
      BY <2>1, <3>1 DEF PairInv, Sorted, Linked
    <3>3. \A q \in Requests : MatchAnswer(q)' = MatchAnswer(q)
      BY <2>1 DEF MatchAnswer
    <3>4. Apt'
      BY <2>1, <3>3 DEF PairInv, Apt, MatchesOf
    <3> QED BY <3>2, <3>4
  <2>3. /\ \A r, e \in Rows : LonePair(r, e)' <=> LonePair(r, e)
        /\ \A r \in Rows : (Out(r)' <=> Out(r)) /\ (Imported(r)' <=> Imported(r))
    BY <2>1 DEF LonePair, Candidates, MatchesOf, Out, Imported
  <2>4. Exclusive' /\ MadeInTime' /\ NoSecondRecord' /\ LonePairSavedOnce'
    BY <2>1, <2>3 DEF PairInv, Exclusive, MadeInTime, NoSecondRecord, LonePairSavedOnce
  <2> QED BY <2>2, <2>4 DEF PairInv
<1>4. CASE Next
  BY <1>1, <1>2, <1>4, UploadPair, LeasePair DEF Next, OnceInv
<1> QED BY <1>3, <1>4

LEMMA PairHolds == ASSUME OneAtWork PROVE Spec => []PairInv
<1>1. Init => OnceInv /\ ReviewInv /\ PairInv
  BY InitOnce, InitReview, InitPair
<1>2. OnceInv /\ ReviewInv /\ PairInv /\ [Next]_vars => (OnceInv /\ ReviewInv /\ PairInv)'
  BY NextOnce, NextReview, NextPair
<1> QED BY <1>1, <1>2, PTL DEF Spec

\* A row kept as the same person as one on file gets no second record, unless
\* its last such answer severed another candidate and with it the link.
THEOREM OneRecord == ASSUME OneAtWork PROVE Spec => []NoSecondRecord
<1>1. PairInv => NoSecondRecord
  BY DEF PairInv
<1> QED BY <1>1, PairHolds, PTL

\* Of two rows that duplicate each other and nothing else at most one is saved,
\* unless the operator's last answer kept the later as the same person.
THEOREM OneWinner == ASSUME OneAtWork PROVE Spec => []LonePairSavedOnce
<1>1. PairInv => LonePairSavedOnce
  BY DEF PairInv
<1> QED BY <1>1, PairHolds, PTL

=============================================================================
