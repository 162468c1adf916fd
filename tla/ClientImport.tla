---------------------------- MODULE ClientImport ----------------------------
(***************************************************************************)
(* One client-import operation: an uploaded list is matched against itself *)
(* and the records on file, the operator decides the candidate matches,    *)
(* and a background worker saves the whole list in one transaction.        *)
(*                                                                         *)
(* Requests load their entities first and save them whole later, so two of *)
(* them, or one and a worker, interleave between the two; a transaction is *)
(* one step.  A worker holds the operation by a ten-minute lease, which a  *)
(* slow batch outlives and a dead worker leaves behind.                    *)
(***************************************************************************)
EXTENDS Integers, FiniteSets

CONSTANTS
    Rows,        \* row numbers of the list, in its order
    Persons,     \* persons on file
    Households,  \* households on file
    Nobody, New, \* no person, and a person the save has created
    Requests,    \* requests of operators the server can have in hand (a bound)
    Workers,     \* server processes, one finalize worker each
    Asked,       \* the kinds of request operators send
    MaxFaults,   \* bound on stops of a process and failed saves
    MaxSlow,     \* bound on leases that run out while their worker is at it
    MaxQueued    \* bound on finalize requests

AllAsked == {"decide", "revert", "undo", "eligible", "finalize"}

ASSUME RowsAssumption == Rows \subseteq Nat \ {0} /\ IsFiniteSet(Rows)
ASSUME AskedAssumption == Asked \subseteq AllAsked
ASSUME WorkersAssumption == IsFiniteSet(Workers)
ASSUME BoundsAssumption == MaxFaults \in Nat /\ MaxSlow \in Nat /\ MaxQueued \in Nat

ASSUME PersonsAssumption ==
    /\ {Nobody, New} \cap (Persons \cup Households \cup Rows) = {}
    /\ Persons \cap (Rows \cup Households) = {} /\ Households \cap Rows = {}

\* What a candidate match can point at: a person or household on file, or an
\* earlier row of the same list.
Targets == Persons \cup Households \cup Rows

VARIABLES
    op,       \* the operation: status and the lease of `finalize_started_at`
    match,    \* match[r][t]: status of the match of row r with t, or absent
    row,      \* row[r]: the columns of the row the review decides about
    req,      \* req[q]: a request in hand and the row as it loaded it
    worker,   \* worker[w]: where the worker is, and the rows as it read them
    faults,   \* stops and failed saves so far
    slow,     \* leases that ran out under their worker so far
    queued,   \* finalize requests so far
    imports,  \* history: committed saves of the list
    made,     \* history: made[r]: persons created for the row
    updated,  \* history: updated[r]: persons on file written from the row
    skipped,  \* history: skipped[r]: statuses under which a save left the row out
    severed,  \* history: severed[r]: targets the operator said it is not
    aside,    \* history: rows whose matches an eligibility request has written
    crossed,  \* history: rows whose pair was last answered as "the same person"
    cleared,  \* history: rows a severed match left without the record kept
    excused   \* history: steps that let the list be saved once more

bounds  == <<faults, slow, queued>>
saved   == <<imports, made, updated, skipped>>
answers == <<severed, aside, crossed, cleared>>
vars    == <<op, match, row, req, worker, bounds, saved, answers, excused>>

RowStatuses   == {"pending", "no_match", "retained", "primary", "deprioritized"}
MatchStatuses == {"absent", "pending", "primary", "deprioritized"}
RowRecord == [status : RowStatuses, person : Persons \cup {Nobody, New},
              eligibility : {"allowed", "disqualified"}, intra : BOOLEAN,
              decision : {"none", "waive", "confirm"}]

BlankRow == [status |-> "pending", person |-> Nobody, eligibility |-> "allowed",
             intra |-> FALSE, decision |-> "none"]
IdleReq  == [pc |-> "idle", kind |-> "finalize", r |-> 0, body |-> "none",
             todo |-> {}, row |-> BlankRow]
IdleWorker == [pc |-> "idle", rows |-> [r \in Rows |-> BlankRow]]

\* create: the operation is defined, its list not uploaded yet.
Init ==
    /\ op = [status |-> "defined", lease |-> "none"]
    /\ match = [r \in Rows |-> [t \in Targets |-> "absent"]]
    /\ row = [r \in Rows |-> BlankRow]
    /\ req = [q \in Requests |-> IdleReq]
    /\ worker = [w \in Workers |-> IdleWorker]
    /\ faults = 0 /\ slow = 0 /\ queued = 0
    /\ imports = 0 /\ aside = {} /\ crossed = {} /\ cleared = {}
    /\ made = [r \in Rows |-> 0]
    /\ updated = [r \in Rows |-> {}]
    /\ skipped = [r \in Rows |-> {}]
    /\ severed = [r \in Rows |-> {}]
    /\ excused = 0

MatchesOf(m, r) == {t \in Targets : m[r][t] # "absent"}
PendingOf(m, r) == {t \in Targets : m[r][t] = "pending"}

\* deriveRowStatus.
Derived(m, r) ==
    IF MatchesOf(m, r) = {} THEN "no_match"
    ELSE IF PendingOf(m, r) # {} THEN "pending"
    ELSE IF \E t \in Targets : m[r][t] = "deprioritized" THEN "deprioritized"
    ELSE IF MatchesOf(m, r) \cap Rows # {} THEN "primary"
    ELSE "retained"

-----------------------------------------------------------------------------
(* Upload: the sweep, the eligibility rules and the rows they leave *)

Before(r) == {e \in Rows : e < r}
Paired(c) == c \cap Rows # {}

\* sweep: a row that duplicates earlier rows of the list gathers no candidates
\* on file; a household surfaces only through a person, which the cut to the
\* best three can leave out.
Swept(cand) ==
    \A r \in Rows :
        /\ cand[r] \cap Rows \subseteq Before(r)
        /\ Paired(cand[r]) => cand[r] \subseteq Rows
        /\ cand[r] \cap Households # {} =>
              cand[r] \cap Persons # {} \/ Cardinality(cand[r]) = 3
        /\ Cardinality(cand[r]) <= 3

\* The person of the best candidate on file is the row's from the start.
Best(cand, best) ==
    \A r \in Rows : IF cand[r] \cap Persons = {} THEN best[r] = Nobody
                                                ELSE best[r] \in cand[r]

\* computeEligibility: served lately, themselves or their household; else the
\* same person, household or identity as a row that got through before.
Judged(cand, best, verdict) ==
    \A r \in Rows :
        /\ Paired(cand[r]) => verdict[r] = "intra"
        /\ ~Paired(cand[r]) /\ best[r] = Nobody => verdict[r] = "allowed"
        /\ ~Paired(cand[r]) /\ verdict[r] = "intra" =>
              \E e \in Before(r) : best[e] # Nobody /\ verdict[e] = "allowed"
        /\ \A e \in Before(r) : best[r] # Nobody /\ best[e] = best[r] =>
              /\ verdict[e] = "recent" <=> verdict[r] = "recent"
              /\ ~(verdict[e] = "allowed" /\ verdict[r] = "allowed")

\* (mutant) the verdict itself is stored as the eligibility
UploadedVerdict(c, b, v) ==
    [status |-> IF v # "allowed" THEN "deprioritized" ELSE "retained",
     person |-> b, intra |-> v = "intra", decision |-> "none", eligibility |-> v]

\* The row as first stored: disqualified, matched on file, or a new client.
Uploaded(c, b, v) ==
    [status |-> IF v # "allowed" THEN "deprioritized"
                ELSE IF c \cap Persons # {} THEN "retained"
                ELSE IF c # {} THEN "primary" ELSE "no_match",
     person |-> b, intra |-> v = "intra", decision |-> "none",
     eligibility |-> IF v = "allowed" THEN "allowed" ELSE "disqualified"]

\* upload: the matches of a disqualified row wait for a decision, the others
\* are resolved at once.
Upload ==
    /\ op.status = "defined"
    /\ \E cand \in [Rows -> SUBSET Targets], best \in [Rows -> Persons \cup {Nobody}],
          verdict \in [Rows -> {"allowed", "recent", "intra"}] :
         /\ Swept(cand) /\ Best(cand, best) /\ Judged(cand, best, verdict)
         /\ row' = [r \in Rows |-> Uploaded(cand[r], best[r], verdict[r])]
         /\ match' = [r \in Rows |-> [t \in Targets |->
              IF t \notin cand[r] THEN "absent"
              ELSE IF verdict[r] = "allowed" THEN "primary" ELSE "pending"]]
    /\ op' = [op EXCEPT !.status = "reviewing"]
    /\ UNCHANGED <<req, worker, bounds, saved, answers, excused>>

-----------------------------------------------------------------------------
(* Requests: what each loads before it writes *)

Accept(q, kind, r, body, todo) ==
    /\ kind \in Asked
    /\ req[q].pc = "idle"
    /\ op.status = "reviewing"
    /\ req' = [req EXCEPT ![q] = [pc |-> "loaded", kind |-> kind, r |-> r, body |-> body,
                                  todo |-> todo, row |-> IF r = 0 THEN BlankRow ELSE row[r]]]
    /\ UNCHANGED <<op, match, row, worker, faults, slow, saved, answers, excused>>

\* decide: any match is answered with whether it is the same person and where
\* the row goes; which row of the two to keep is asked of a pair only.
AskDecide(q, r, t, body) ==
    /\ t \in MatchesOf(match, r)
    /\ body \in {"keep", "keep other"} => t \in Rows
    /\ Accept(q, "decide", r, body, {t}) /\ UNCHANGED queued

AskRevert(q, r, t) ==
    /\ t \in MatchesOf(match, r)
    /\ Accept(q, "revert", r, "none", {t}) /\ UNCHANGED queued

\* revertEligibility.
AskUndo(q, r) ==
    /\ row[r].decision # "none"
    /\ Accept(q, "undo", r, "none", MatchesOf(match, r)) /\ UNCHANGED queued

\* decideEligibility: one match or all of them; a duplicate is not waived.
AskEligible(q, r, decision, todo) ==
    /\ row[r].eligibility = "disqualified"
    /\ ~(row[r].intra /\ decision = "waive")
    /\ todo = MatchesOf(match, r) \/ \E t \in MatchesOf(match, r) : todo = {t}
    /\ Accept(q, "eligible", r, decision, todo) /\ UNCHANGED queued

\* (mutant) a pending match does not block the save
RipeRows == \A r \in Rows : ~(row[r].eligibility = "disqualified" /\ row[r].decision = "none")

\* (mutant) an undecided disqualification does not block the save
RipeMatches == \A r \in Rows : PendingOf(match, r) = {}

\* assertFinalizable.
Ripe ==
    /\ \A r \in Rows : PendingOf(match, r) = {}
    /\ \A r \in Rows : ~(row[r].eligibility = "disqualified" /\ row[r].decision = "none")

AskFinalize(q) ==
    /\ queued < MaxQueued
    /\ queued' = queued + 1
    /\ Ripe
    /\ Accept(q, "finalize", 0, "none", {})

-----------------------------------------------------------------------------
(* Requests: what each writes *)

Done(q) == req' = [req EXCEPT ![q] = IdleReq]

Loaded(q, kind) == req[q].pc = "loaded" /\ req[q].kind = kind

TheTarget(q) == CHOOSE t \in Targets : t \in req[q].todo

Answered(mine, decision) ==
    IF mine.eligibility = "disqualified" /\ mine.decision = "none"
    THEN decision ELSE mine.decision

\* A row imported on its own becomes an update when it has a record on file.
OnFile(status, person) ==
    IF status = "primary" /\ person # Nobody THEN "retained" ELSE status

\* (mutant) the row that lost the pair keeps the status it had
PairKeepsLoser(q, keep) ==
    LET mine == req[q].row
        r == req[q].r
        m == [match EXCEPT ![r][TheTarget(q)] = IF keep THEN "primary" ELSE "deprioritized"]
    IN  /\ match' = m
        /\ row' = [row EXCEPT ![r] = [mine EXCEPT
               !.status = OnFile(Derived(m, r), mine.person),
               !.decision = Answered(mine, IF keep THEN "waive" ELSE "confirm")]]

\* One row of a pair wins, the other is stamped with the opposite; each takes
\* the decision as its eligibility answer where it still needs one.
DecidePair(q, keep) ==
    LET mine == req[q].row
        r == req[q].r
        t == TheTarget(q)
        m == [match EXCEPT ![r][t] = IF keep THEN "primary" ELSE "deprioritized"]
        other == row[t]
    IN  /\ match' = m
        /\ row' = [x \in Rows |->
             IF x = r THEN [mine EXCEPT
               !.status = OnFile(Derived(m, r), mine.person),
               !.decision = Answered(mine, IF keep THEN "waive" ELSE "confirm")]
             ELSE IF x = t THEN [other EXCEPT
               !.status = IF keep THEN "deprioritized"
                          ELSE IF other.person # Nobody THEN "retained" ELSE "primary",
               !.decision = Answered(other, IF keep THEN "confirm" ELSE "waive")]
             ELSE row[x]]

\* (mutant) the row keeps the person it was told it is not
SeverMatchOnly(q) ==
    LET r == req[q].r
        m == [match EXCEPT ![r][TheTarget(q)] = "absent"]
    IN  /\ match' = m
        /\ row' = [row EXCEPT ![r] = [req[q].row EXCEPT !.eligibility = "allowed",
               !.intra = FALSE, !.decision = "none", !.status = Derived(m, r)]]

\* Not the same person: the match is deleted, the row a new client's.
Sever(q) ==
    LET r == req[q].r
        m == [match EXCEPT ![r][TheTarget(q)] = "absent"]
    IN  /\ match' = m
        /\ row' = [row EXCEPT ![r] = [person |-> Nobody, eligibility |-> "allowed",
               intra |-> FALSE, decision |-> "none", status |-> Derived(m, r)]]

\* (mutant) the row is not pointed at the person chosen
ClaimUnlinked(q, last) ==
    LET mine == req[q].row
        r == req[q].r
        m == [match EXCEPT ![r][TheTarget(q)] = IF last THEN "deprioritized" ELSE "primary"]
    IN  /\ match' = m
        /\ row' = [row EXCEPT ![r] = [mine EXCEPT
               !.status = OnFile(Derived(m, r), mine.person),
               !.decision = IF PendingOf(m, r) = {}
                            THEN Answered(mine, IF last THEN "confirm" ELSE "waive") ELSE @]]

\* The same person: the row is pointed at the record and keeps its place or
\* goes last; the answer decides the eligibility once nothing is pending.
Claim(q, last) ==
    LET mine == req[q].row
        r == req[q].r
        t == TheTarget(q)
        m == [match EXCEPT ![r][t] = IF last THEN "deprioritized" ELSE "primary"]
        person == IF t \in Persons THEN t ELSE mine.person
    IN  /\ match' = m
        /\ row' = [row EXCEPT ![r] = [mine EXCEPT
               !.person = person,
               !.status = OnFile(Derived(m, r), person),
               !.decision = IF PendingOf(m, r) = {}
                            THEN Answered(mine, IF last THEN "confirm" ELSE "waive") ELSE @]]

\* What the history keeps of a decision.
Told(q) ==
    LET r == req[q].r
        t == TheTarget(q)
        kept == \E p \in Persons \ {t} : match[r][p] = "primary"
    IN  /\ severed' = IF req[q].body = "not the same"
                      THEN [severed EXCEPT ![r] = @ \cup req[q].todo] ELSE severed
        /\ crossed' = IF t \in Rows /\ req[q].body = "same" THEN crossed \cup {r}
                      ELSE IF t \in Rows THEN crossed \ {r} ELSE crossed
        /\ cleared' = IF req[q].body = "not the same"
                      THEN IF kept THEN cleared \cup {r} ELSE cleared
                      ELSE IF t \in Persons THEN cleared \ {r} ELSE cleared

\* The transaction of decide, over the row as loaded before it began.
Decide(q) ==
    /\ Loaded(q, "decide")
    /\ CASE req[q].body = "keep"         -> DecidePair(q, TRUE)
         [] req[q].body = "keep other"   -> DecidePair(q, FALSE)
         [] req[q].body = "not the same" -> Sever(q)
         [] req[q].body = "same"         -> Claim(q, FALSE)
         [] OTHER                        -> Claim(q, TRUE)
    /\ Told(q)
    /\ Done(q)
    /\ UNCHANGED <<op, worker, bounds, saved, aside, excused>>

Reopened(r, m, mine) ==
    [mine EXCEPT !.status = Derived(m, r),
                 !.decision = IF mine.eligibility = "disqualified" THEN "none" ELSE @]

\* The transaction of revert: the match is pending again, the link it made is
\* undone, the row and its pair are derived anew from fresh copies.
Revert(q) ==
    /\ Loaded(q, "revert")
    /\ LET r == req[q].r
           t == TheTarget(q)
           m == [match EXCEPT ![r][t] = "pending"]
           mine == IF row[r].person = t THEN [row[r] EXCEPT !.person = Nobody] ELSE row[r]
       IN  /\ match' = m
           /\ row' = [s \in Rows |-> IF s = r THEN Reopened(r, m, mine)
                                     ELSE IF s = t THEN Reopened(t, m, row[t]) ELSE row[s]]
    /\ Done(q)
    /\ UNCHANGED <<op, worker, bounds, saved, answers, excused>>

\* revertEligibility and decideEligibility save the matches one by one ...
MatchAnswer(q) == IF req[q].kind = "undo" THEN "pending"
                  ELSE IF req[q].body = "waive" THEN "primary" ELSE "deprioritized"

SaveMatch(q, t) ==
    /\ Loaded(q, "undo") \/ Loaded(q, "eligible")
    /\ t \in req[q].todo
    /\ match' = [match EXCEPT ![req[q].r][t] = MatchAnswer(q)]
    /\ req' = [req EXCEPT ![q].todo = @ \ {t}]
    /\ aside' = aside \cup {req[q].r}
    /\ UNCHANGED <<op, row, worker, bounds, saved, severed, crossed, cleared, excused>>

\* ... and then the row as it was loaded, outside any transaction.
Undo(q) ==
    /\ Loaded(q, "undo") /\ req[q].todo = {}
    /\ row' = [row EXCEPT ![req[q].r] = [req[q].row EXCEPT
                 !.decision = "none", !.status = Derived(match, req[q].r)]]
    /\ Done(q)
    /\ UNCHANGED <<op, match, worker, bounds, saved, answers, excused>>

Eligible(q) ==
    LET r == req[q].r IN
    /\ Loaded(q, "eligible") /\ req[q].todo = {}
    /\ IF PendingOf(match, r) # {} THEN UNCHANGED row
       ELSE row' = [row EXCEPT ![r] = [req[q].row EXCEPT
              !.decision = req[q].body,
              !.status = IF ~\E t \in Targets : match[r][t] = "primary" THEN "deprioritized"
                         ELSE IF MatchesOf(match, r) \cap Persons # {} THEN "retained"
                         ELSE "primary"]]
    /\ Done(q)
    /\ UNCHANGED <<op, match, worker, bounds, saved, answers, excused>>

\* enqueueFinalize saves the operation as it loaded it, whatever it is by now.
\* A save more is due to it when the list was saved or claimed meanwhile.
Enqueue(q) ==
    /\ Loaded(q, "finalize")
    /\ op' = [status |-> "finalizing", lease |-> "none"]
    /\ excused' = IF op.status = "finalized" \/ op.lease # "none" THEN excused + 1
                                                                  ELSE excused
    /\ Done(q)
    /\ UNCHANGED <<match, row, worker, bounds, saved, answers>>

\* A request dies with its process; a transaction it had open is undone.
Cut(q) ==
    /\ req[q].pc # "idle" /\ faults < MaxFaults
    /\ faults' = faults + 1
    /\ Done(q)
    /\ UNCHANGED <<op, match, row, worker, slow, queued, saved, answers, excused>>

-----------------------------------------------------------------------------
(* The worker *)

Busy == {w \in Workers : worker[w].pc # "idle"}

At(w, pc) == worker' = [worker EXCEPT ![w] = IF pc = "idle" THEN IdleWorker
                                             ELSE [@ EXCEPT !.pc = pc]]

\* (mutant) a lease does not keep others away
FreeAlways == TRUE

\* (mutant) a lease, once taken, is never taken over
FreeNeverStale == op.lease = "none"

Free == op.lease # "held"

\* claim: the queued operation, if nobody holds it or its lease ran out.
ClaimJob(w) ==
    /\ worker[w].pc = "idle"
    /\ op.status = "finalizing" /\ Free
    /\ op' = [op EXCEPT !.lease = "held"]
    /\ At(w, "gate")
    /\ UNCHANGED <<match, row, req, bounds, saved, answers, excused>>

\* finalize: the status and the review gates, asked once more.
Gate(w) ==
    /\ worker[w].pc = "gate"
    /\ At(w, IF op.status \in {"reviewing", "finalizing"} /\ Ripe THEN "read" ELSE "failed")
    /\ UNCHANGED <<op, match, row, req, bounds, saved, answers, excused>>

Read(w) ==
    /\ worker[w].pc = "read"
    /\ worker' = [worker EXCEPT ![w] = [pc |-> "save", rows |-> row]]
    /\ UNCHANGED <<op, match, row, req, bounds, saved, answers, excused>>

Creates(mine) == \/ mine.status \in {"no_match", "primary"}
                 \/ mine.status = "retained" /\ mine.person = Nobody
Updates(mine) == mine.status = "retained" /\ mine.person # Nobody

\* The one transaction: new rows become persons, retained ones update theirs
\* where it has not been deleted meanwhile, the rest are left out, and the
\* operation is finalized.
Save(w) == \E gone \in SUBSET Persons :
    LET mine == worker[w].rows
        created == {r \in Rows : Creates(mine[r])}
        written == {r \in Rows : Updates(mine[r]) /\ mine[r].person \notin gone}
    IN  /\ worker[w].pc = "save"
        /\ row' = [r \in Rows |-> IF r \in created THEN [mine[r] EXCEPT !.person = New]
                                  ELSE IF r \in written THEN mine[r] ELSE row[r]]
        /\ made' = [r \in Rows |-> IF r \in created THEN made[r] + 1 ELSE made[r]]
        /\ updated' = [r \in Rows |-> IF r \in written THEN updated[r] \cup {mine[r].person}
                                      ELSE updated[r]]
        /\ skipped' = [r \in Rows |-> IF r \in created \cup written THEN skipped[r]
                                      ELSE skipped[r] \cup {mine[r].status}]
        /\ imports' = imports + 1
        /\ op' = [status |-> "finalized", lease |-> "none"]
        /\ At(w, "idle")
        /\ UNCHANGED <<match, req, bounds, answers, excused>>

SaveFails(w) ==
    /\ worker[w].pc = "save" /\ faults < MaxFaults
    /\ faults' = faults + 1
    /\ At(w, "failed")
    /\ UNCHANGED <<op, match, row, req, slow, queued, saved, answers, excused>>

\* recordFinalizeFailure: back to the review, if it is still being finalized.
RecordFailure(w) ==
    /\ worker[w].pc = "failed"
    /\ op' = IF op.status = "finalizing" THEN [status |-> "reviewing", lease |-> "none"] ELSE op
    /\ At(w, "idle")
    /\ UNCHANGED <<match, row, req, bounds, saved, answers, excused>>

\* A process stops: its worker forgets the job, the lease stays.
Stop(w) ==
    /\ worker[w].pc # "idle" /\ faults < MaxFaults
    /\ faults' = faults + 1
    /\ At(w, "idle")
    /\ UNCHANGED <<op, match, row, req, slow, queued, saved, answers, excused>>

\* Ten minutes pass since the claim, its worker gone ...
Expire ==
    /\ op.lease = "held" /\ Busy = {}
    /\ op' = [op EXCEPT !.lease = "stale"]
    /\ UNCHANGED <<match, row, req, worker, bounds, saved, answers, excused>>

\* ... or still at the batch.
Outlive ==
    /\ op.lease = "held" /\ Busy # {} /\ slow < MaxSlow
    /\ slow' = slow + 1
    /\ excused' = excused + 1
    /\ op' = [op EXCEPT !.lease = "stale"]
    /\ UNCHANGED <<match, row, req, worker, faults, queued, saved, answers>>

-----------------------------------------------------------------------------
\* A request in hand or an operation not under review accepts none of these.
Ask(q) ==
    /\ req[q].pc = "idle" /\ op.status = "reviewing"
    /\ \/ \E r \in Rows, t \in Targets :
             \/ \E body \in {"keep", "keep other", "same", "same, last", "not the same"} :
                   AskDecide(q, r, t, body)
             \/ AskRevert(q, r, t)
       \/ \E r \in Rows : AskUndo(q, r)
       \/ \E r \in Rows, decision \in {"waive", "confirm"} :
             \E todo \in {MatchesOf(match, r)} \cup {{t} : t \in MatchesOf(match, r)} :
                AskEligible(q, r, decision, todo)
       \/ AskFinalize(q)

RequestStep(q) ==
    \/ Decide(q) \/ Revert(q) \/ Undo(q) \/ Eligible(q) \/ Enqueue(q)
    \/ \E t \in Targets : SaveMatch(q, t)

WorkerStep(w) == ClaimJob(w) \/ Gate(w) \/ Read(w) \/ Save(w) \/ RecordFailure(w)

Next ==
    \/ Upload
    \/ \E q \in Requests : Ask(q) \/ RequestStep(q) \/ Cut(q)
    \/ \E w \in Workers : WorkerStep(w) \/ SaveFails(w) \/ Stop(w)
    \/ Expire \/ Outlive

\* The worker's interval ticks on, a claimed batch goes on, time passes.
Fairness == /\ \A w \in Workers : WF_vars(WorkerStep(w))
            /\ WF_vars(Expire)

Spec == Init /\ [][Next]_vars /\ Fairness

-----------------------------------------------------------------------------
(* Correctness *)

\* Values stay in their domains.
TypeOK ==
    /\ op \in [status : {"defined", "reviewing", "finalizing", "finalized"},
               lease : {"none", "held", "stale"}]
    /\ match \in [Rows -> [Targets -> MatchStatuses]]
    /\ row \in [Rows -> RowRecord]
    /\ req \in [Requests -> [pc : {"idle", "loaded"}, kind : AllAsked, r : Rows \cup {0},
                  body : {"none", "keep", "keep other", "same", "same, last",
                          "not the same", "waive", "confirm"},
                  todo : SUBSET Targets, row : RowRecord]]
    /\ worker \in [Workers -> [pc : {"idle", "gate", "read", "save", "failed"},
                               rows : [Rows -> RowRecord]]]
    /\ faults \in 0..MaxFaults /\ slow \in 0..MaxSlow /\ queued \in 0..MaxQueued
    /\ imports \in Nat /\ excused \in Nat
    /\ made \in [Rows -> Nat]
    /\ updated \in [Rows -> SUBSET (Persons \cup {New})]
    /\ skipped \in [Rows -> SUBSET RowStatuses]
    /\ severed \in [Rows -> SUBSET Targets]
    /\ aside \subseteq Rows /\ crossed \subseteq Rows /\ cleared \subseteq Rows

\* The list is saved at most once, and once more for every lease that ran out
\* under a worker still at the list and for every finalize request whose save
\* of the operation came after a claim of the list or its end.
ImportedOnceUnlessExcused == imports <= 1 + excused

\* With one operator at work, a finalized list holds no open question: no match
\* pending, no disqualified row without an answer, whatever was reverted,
\* decided anew, cut short or failed on the way.
FinalizedIsDecided ==
    op.status = "finalized" =>
        \A r \in Rows : /\ PendingOf(match, r) = {}
                       /\ row[r].eligibility = "disqualified" => row[r].decision # "none"

\* With one operator at work, no client drops out of the list because its row
\* was still pending when the save took the other branches; rows answered
\* through the eligibility endpoints, whose saves can be cut apart, excepted.
NobodySkipped == \A r \in Rows \ aside : "pending" \notin skipped[r]

\* With one operator at work, a record the operator said is somebody else's is
\* never overwritten from the row.
SeveredStaysSevered == \A r \in Rows : updated[r] \cap severed[r] = {}

\* With one operator at work, a row kept as the same person as a record on file
\* does not get a second record, in whatever order its other candidates were
\* severed, claimed and reopened; excepted a row whose last such answer severed
\* a candidate while it was kept as another: that clears the link.
NoSecondRecord ==
    \A r \in Rows \ (aside \cup cleared) :
        made[r] > 0 => \A p \in Persons : match[r][p] # "primary"

Imported(r) == made[r] > 0 \/ updated[r] # {}

\* What a row matches or was told it does not.
Candidates(r) == MatchesOf(match, r) \cup severed[r]

\* A pair in which neither row ever had another candidate and no third row had
\* either for its own.
LonePair(r, e) ==
    /\ MatchesOf(match, r) = {e} /\ Candidates(r) = {e} /\ Candidates(e) = {}
    /\ \A s \in Rows \ {r} : {r, e} \cap Candidates(s) = {}

\* With one operator at work, of two rows that duplicate each other and nothing
\* else at most one is saved, unless the pair was last answered with the
\* question for records on file: that keeps the later row, and does not stamp
\* the earlier.
LonePairSavedOnce ==
    op.status = "finalized" =>
        \A r \in Rows \ crossed : \A e \in Rows :
            LonePair(r, e) => ~(Imported(r) /\ Imported(e))

\* Of two rows that duplicate each other at most one is saved: "the pair has
\* exactly one winner", whatever else either row matches, where the pair was
\* answered with which row to keep.
PairHasOneWinner ==
    op.status = "finalized" =>
        \A r \in Rows \ crossed : \A e \in MatchesOf(match, r) \cap Rows :
            ~(Imported(r) /\ Imported(e))

\* A queued list is not left behind: it is saved or comes back to the review,
\* though its worker may die or its save fail.
QueuedIsWorkedOff == op.status = "finalizing" ~> op.status # "finalizing"

=============================================================================
