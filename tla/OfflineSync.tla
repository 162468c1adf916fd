---------------------------- MODULE OfflineSync ----------------------------
(***************************************************************************)
(* The offline queue of one device and its replay on the server.           *)
(*                                                                         *)
(* The browser keeps queued changes in localStorage, shared by its tabs,   *)
(* and sends the pending ones in signed batches: a timer in every tab, the *)
(* `online` event and the user all start such a run.  The server replays a *)
(* batch change by change, each in several awaited steps, and keeps a row  *)
(* per change in `sync_queue` to know a change it has met before.  Answers *)
(* get lost, requests outlive the client that gave up on them, the server  *)
(* restarts in the middle of a batch, tabs are closed, staff write the     *)
(* same records online and a coordinator rules on conflicts.               *)
(*                                                                         *)
(* Clocks agree and every write advances them: only whether a record was   *)
(* written after a change was queued is kept of the two timestamps.        *)
(***************************************************************************)
EXTENDS Integers, Sequences, FiniteSets

CONSTANTS
    Changes,     \* identities of queued changes (crypto.randomUUID)
    Runs,        \* what can run processDeltaSync at once: tabs, timers, events
    Slots,       \* requests the server can be working on at once (a bound)
    Kinds,       \* the kinds of change the user queues, a subset of QueuedKinds
    Top,         \* the last lifecycle position considered (a bound)
    BatchSize,   \* changes per batch: 50 in the code
    ByHand,      \* changes whose entry the user may send again or remove
    MaxFaults,   \* bound on outages, lost answers, timeouts, restarts, failed
                 \* saves, and entries sent again or removed by hand
    MaxRulings   \* bound on conflicts coordinators decide

ASSUME BoundsAssumption ==
    /\ Top \in Nat /\ MaxFaults \in Nat /\ MaxRulings \in Nat
    /\ BatchSize \in Nat \ {0}

\* transition: a status change of a case carrying `_fsmTransition`;
\* update: of a table without rules of its own; checklist: of
\* `case_requirements`; service: of a financial table; intake: an interview.
QueuedKinds == {"transition", "update", "checklist", "service", "intake"}

\* A process holds finitely many requests.
ASSUME SlotsAssumption == IsFiniteSet(Slots)

ASSUME KindsAssumption == Kinds \subseteq QueuedKinds

\* A copy is what a pull puts in the queue: the server's case row as it stood.
AllKinds == QueuedKinds \cup {"copy"}

Records == {"case", "person", "checklist", "service"}

RecordOf(kind) == CASE kind \in {"transition", "copy"} -> {"case"}
                    [] kind = "update"    -> {"person"}
                    [] kind = "intake"    -> {}
                    [] OTHER              -> {kind}

NoRun  == "no run"
ASSUME NoRunAssumption == NoRun \notin Runs

VARIABLES
    queue,    \* the localStorage array, as the ids in their order
    entry,    \* entry[c]: the kind of the change and the status it asks for
    mark,     \* mark[c]: the entry's status in the queue
    run,      \* run[r]: what a sync run of the client is doing
    slot,     \* slot[s]: what a request is doing on the server
    caseAt,   \* lifecycle position in the case row
    stale,    \* changes whose record was written after they were queued
    ledger,   \* ledger[c]: the `sync_queue` rows of this device for the change
    ruling,   \* conflicts being decided for the client: applied, row not closed
    faults,   \* faults and decisions by hand so far
    rulings,  \* conflicts decided so far
    applied,  \* history: how many times a replay of the change was applied
    excused   \* history: how many times something made a double apply possible

clientVars  == <<queue, entry, mark>>
recordVars  == <<caseAt, stale>>
historyVars == <<applied, excused>>
vars == <<queue, entry, mark, run, slot, caseAt, stale, ledger, ruling, faults,
          rulings, applied, excused>>

\* A removed entry is gone from the array: its id stays in `queue` as a place
\* nothing reads.
Marks    == {"unused", "pending", "synced", "conflict", "failed", "removed"}
Verdicts == {"none", "applied", "conflict", "failed", "aborted"}

IdleRun  == [pc |-> "idle", rest |-> <<>>, batch |-> <<>>,
             verdict |-> [c \in Changes |-> "none"]]
IdleSlot == [pc |-> "idle", client |-> NoRun, todo |-> <<>>,
             seen |-> [c \in Changes |-> "none"],
             verdict |-> [c \in Changes |-> "none"]]

Init ==
    /\ queue = <<>>
    /\ entry = [c \in Changes |-> [kind |-> "update", want |-> 0]]
    /\ mark = [c \in Changes |-> "unused"]
    /\ run = [r \in Runs |-> IdleRun]
    /\ slot = [s \in Slots |-> IdleSlot]
    /\ caseAt = 0
    /\ stale = {}
    /\ ledger = [c \in Changes |-> [applied |-> FALSE, conflict |-> 0, closed |-> FALSE]]
    /\ ruling = {}
    /\ faults = 0
    /\ rulings = 0
    /\ applied = [c \in Changes |-> 0]
    /\ excused = [c \in Changes |-> 0]

Queued == {c \in Changes : mark[c] # "unused"}

\* Every change queued so far for one of the records becomes older than it.
Overtaken(records) == stale \cup {c \in Queued : RecordOf(entry[c].kind) \cap records # {}}

-----------------------------------------------------------------------------
(* The queue in the browser *)

\* queueChange: pushed as pending, under the queue lock.
QueueChange(c, kind, want) ==
    /\ mark[c] = "unused"
    /\ queue' = Append(queue, c)
    /\ entry' = [entry EXCEPT ![c] = [kind |-> kind, want |-> want]]
    /\ mark' = [mark EXCEPT ![c] = "pending"]
    /\ UNCHANGED <<run, slot, recordVars, ledger, ruling, faults, rulings, historyVars>>

\* A worker queues work: a transition is asked for from the page, so it names
\* the next position as the page knew it.
Work(c) ==
    \E kind \in Kinds, want \in 0..Top :
        /\ kind # "transition" => want = 0
        /\ kind = "transition" => want \in {caseAt, caseAt + 1} \ {0}
        /\ QueueChange(c, kind, want)

\* Array.filter: the elements of a sequence that are in a set, in their order.
Only(seq, set) ==
    LET kept[i \in 0..Len(seq)] ==
            IF i = 0 THEN <<>>
            ELSE IF seq[i] \in set THEN Append(kept[i - 1], seq[i]) ELSE kept[i - 1]
    IN  kept[Len(seq)]

\* (mutant) the queue waits behind a conflict nobody has decided
PendingBehindConflict ==
    IF \E c \in Changes : mark[c] = "conflict" THEN <<>>
    ELSE Only(queue, {c \in Changes : mark[c] = "pending"})

\* getPendingChanges.
Pending == Only(queue, {c \in Changes : mark[c] = "pending"})

\* processDeltaSync takes its list once; an entry it takes stays pending.
StartRun(r) ==
    /\ run[r].pc = "idle"
    /\ Pending # <<>>
    /\ run' = [run EXCEPT ![r] = [IdleRun EXCEPT !.pc = "next", !.rest = Pending]]
    /\ UNCHANGED <<clientVars, slot, recordVars, ledger, ruling, faults, rulings, historyVars>>

Smaller(a, b) == IF a < b THEN a ELSE b

\* One batch goes out as a request of its own.
Send(r, s) ==
    /\ run[r].pc = "next" /\ run[r].rest # <<>>
    /\ slot[s].pc = "idle"
    /\ LET n == Smaller(BatchSize, Len(run[r].rest))
           batch == SubSeq(run[r].rest, 1, n)
       IN  /\ run' = [run EXCEPT ![r] = [@ EXCEPT !.pc = "waiting", !.batch = batch,
                                                  !.rest = SubSeq(run[r].rest, n + 1, Len(run[r].rest))]]
           /\ slot' = [slot EXCEPT ![s] = [IdleSlot EXCEPT !.pc = "arriving",
                                                 !.client = r, !.todo = batch]]
    /\ UNCHANGED <<clientVars, recordVars, ledger, ruling, faults, rulings, historyVars>>

\* The answer arrives: its results are marked one by one.
Receive(r, s) ==
    /\ run[r].pc = "waiting"
    /\ slot[s].pc = "answered" /\ slot[s].client = r
    /\ run' = [run EXCEPT ![r] = [@ EXCEPT !.pc = "marking", !.verdict = slot[s].verdict]]
    /\ slot' = [slot EXCEPT ![s] = IdleSlot]
    /\ UNCHANGED <<clientVars, recordVars, ledger, ruling, faults, rulings, historyVars>>

Orphaned(r) == [s \in Slots |-> IF slot[s].client # r THEN slot[s]
                                ELSE IF slot[s].pc = "answered" THEN IdleSlot
                                ELSE [slot[s] EXCEPT !.client = NoRun]]

\* The connection breaks (TypeError) or a proxy answers 5xx: the entries stay
\* pending and the run goes on; what the server was doing it goes on doing,
\* unless the request never reached it.
LoseAnswer(r) ==
    /\ run[r].pc = "waiting" /\ faults < MaxFaults
    /\ faults' = faults + 1
    /\ run' = [run EXCEPT ![r] = [@ EXCEPT !.pc = "next", !.batch = <<>>]]
    /\ \/ slot' = Orphaned(r)
       \/ \E s \in Slots : /\ slot[s].client = r /\ slot[s].pc = "arriving"
                           /\ slot' = [slot EXCEPT ![s] = IdleSlot]
    /\ UNCHANGED <<clientVars, recordVars, ledger, ruling, rulings, historyVars>>

\* One verdict for a whole batch.
ForAll(batch, verdict) ==
    [c \in Changes |-> IF \E i \in 1..Len(batch) : batch[i] = c THEN verdict ELSE "none"]

\* Ten seconds without an answer: the request is aborted, and an abort is
\* neither a TypeError nor a 5xx, so the whole batch is marked failed.
TimeOut(r) ==
    /\ run[r].pc = "waiting" /\ faults < MaxFaults
    /\ faults' = faults + 1
    /\ run' = [run EXCEPT ![r] = [@ EXCEPT !.pc = "marking",
                                             !.verdict = ForAll(run[r].batch, "aborted")]]
    /\ slot' = Orphaned(r)
    /\ UNCHANGED <<clientVars, recordVars, ledger, ruling, rulings, historyVars>>

\* (mutant) the server's word is stored as it came
MarkAsTold == [applied |-> "applied", conflict |-> "conflict", failed |-> "failed",
               aborted |-> "failed"]

MarkFor == [applied |-> "synced", conflict |-> "conflict", failed |-> "failed",
            aborted |-> "failed"]

\* markSynced, markConflict, markFailed: one locked rewrite per result, over
\* whatever status the entry has by then; an entry that is gone stays gone.
MarkOne(r) ==
    /\ run[r].pc = "marking" /\ run[r].batch # <<>>
    /\ LET c == Head(run[r].batch) IN
         mark' = [mark EXCEPT ![c] = IF run[r].verdict[c] = "none" \/ @ = "removed" THEN @
                                     ELSE MarkFor[run[r].verdict[c]]]
    /\ run' = [run EXCEPT ![r].batch = Tail(@)]
    /\ UNCHANGED <<queue, entry, slot, recordVars, ledger, ruling, faults, rulings, historyVars>>

\* All results are marked, or nothing is left to send.
EndBatch(r) ==
    /\ run[r].pc \in {"marking", "next"} /\ run[r].batch = <<>>
    /\ run[r].pc = "next" => run[r].rest = <<>>
    /\ run' = [run EXCEPT ![r] = [IdleRun EXCEPT
                 !.pc = IF run[r].rest = <<>> THEN "pulling" ELSE "next", !.rest = run[r].rest]]
    /\ UNCHANGED <<clientVars, slot, recordVars, ledger, ruling, faults, rulings, historyVars>>

\* Coming back online after an outage pulls even when nothing was pending.
StartPull(r) ==
    /\ run[r].pc = "idle" /\ faults < MaxFaults
    /\ faults' = faults + 1
    /\ run' = [run EXCEPT ![r].pc = "pulling"]
    /\ UNCHANGED <<clientVars, slot, recordVars, ledger, ruling, rulings, historyVars>>

\* pullFromServer queues every row the server names as a change of its own;
\* a failed pull, or a server with nothing recent, leaves the queue alone.
Pull(r) ==
    /\ run[r].pc = "pulling"
    /\ run' = [run EXCEPT ![r] = IdleRun]
    /\ \/ UNCHANGED clientVars
       \/ \E c \in Changes :
            /\ mark[c] = "unused"
            /\ queue' = Append(queue, c)
            /\ entry' = [entry EXCEPT ![c] = [kind |-> "copy", want |-> caseAt]]
            /\ mark' = [mark EXCEPT ![c] = "pending"]
    /\ UNCHANGED <<slot, recordVars, ledger, ruling, faults, rulings, historyVars>>

\* Retry in the queue panel, Keep Local and Keep Both in the conflict dialog:
\* the entry is pending again, under its old id and time, whatever became of it
\* since the panel was drawn or the dialog opened.
Retry(c) ==
    /\ c \in ByHand /\ mark[c] \in {"failed", "conflict", "synced"} /\ faults < MaxFaults
    /\ faults' = faults + 1
    /\ mark' = [mark EXCEPT ![c] = "pending"]
    /\ UNCHANGED <<queue, entry, run, slot, recordVars, ledger, ruling, rulings, historyVars>>

\* Remove, and Keep Server: the entry is dropped; a run that has read it goes
\* on with it.
Remove(c) ==
    /\ c \in ByHand /\ mark[c] \notin {"unused", "removed"} /\ faults < MaxFaults
    /\ faults' = faults + 1
    /\ mark' = [mark EXCEPT ![c] = "removed"]
    /\ UNCHANGED <<queue, entry, run, slot, recordVars, ledger, ruling, rulings, historyVars>>

\* A tab is closed; its request goes on.
CloseTab(r) ==
    /\ run[r].pc # "idle" /\ faults < MaxFaults
    /\ faults' = faults + 1
    /\ run' = [run EXCEPT ![r] = IdleRun]
    /\ slot' = Orphaned(r)
    /\ UNCHANGED <<clientVars, recordVars, ledger, ruling, rulings, historyVars>>

-----------------------------------------------------------------------------
(* The server works through a batch *)

Handling(s) == slot[s].pc \in {"look", "detect", "apply", "record"}

InHand(s) == {slot[s].todo[i] : i \in 1..Len(slot[s].todo)}

\* A change is in a batch once: what the lookup showed of it is not read again.
Answering(s, verdict) ==
    LET c == Head(slot[s].todo)
        rest == Tail(slot[s].todo)
    IN  [slot EXCEPT ![s] = [@ EXCEPT !.verdict[c] = verdict, !.seen[c] = "none", !.todo = rest,
                                        !.pc = IF rest = <<>> THEN "answered" ELSE "look"]]

\* The signature, the session or a meta field is refused: a 4xx for the batch.
Refuse(s) ==
    /\ slot[s].pc = "arriving"
    /\ slot' = [slot EXCEPT ![s] = [@ EXCEPT
                  !.pc = "answered", !.verdict = ForAll(slot[s].todo, "failed"), !.todo = <<>>]]
    /\ UNCHANGED <<clientVars, run, recordVars, ledger, ruling, faults, rulings, historyVars>>

\* (mutant) rows are kept under a key the next run does not use
SeenOfBatch(c) == {"none"}

\* What the one lookup of the batch may show of a change: where the device has
\* both an applied and a conflict row for it, either may end up in the map.
SeenOf(c) == {v \in {"none", "applied", "conflict"} :
                 CASE v = "applied"  -> ledger[c].applied
                   [] v = "conflict" -> ledger[c].conflict > 0
                   [] OTHER          -> ~ledger[c].applied /\ ledger[c].conflict = 0}

\* The lookup shows less of a change than is, or is about to be, recorded.
LooksBlind(s, c, seen) ==
    /\ seen # "applied"
    /\ \/ ledger[c].applied /\ ledger[c].conflict > 0
       \/ \E t \in Slots \ {s} : Handling(t) /\ c \in InHand(t)

\* The rows of `sync_queue` are read once, before the first change.
Load(s) ==
    /\ slot[s].pc = "arriving"
    /\ \E seen \in [InHand(s) -> {"none", "applied", "conflict"}] :
         /\ \A c \in InHand(s) : seen[c] \in SeenOf(c)
         /\ slot' = [slot EXCEPT ![s] = [@ EXCEPT !.pc = "look",
                  !.seen = [c \in Changes |-> IF c \in InHand(s) THEN seen[c] ELSE "none"]]]
         /\ excused' = [c \in Changes |->
               IF c \in InHand(s) /\ LooksBlind(s, c, seen[c]) THEN excused[c] + 1 ELSE excused[c]]
    /\ UNCHANGED <<clientVars, run, recordVars, ledger, ruling, faults, rulings, applied>>

\* (mutant) any row of the change counts as its application
SkipKnown(s) ==
    /\ slot[s].pc = "look" /\ slot[s].seen[Head(slot[s].todo)] # "none"
    /\ slot' = Answering(s, "applied")
    /\ UNCHANGED <<clientVars, run, recordVars, ledger, ruling, faults, rulings, historyVars>>

\* A change the lookup showed as applied is answered so and not replayed.
Skip(s) ==
    /\ slot[s].pc = "look" /\ slot[s].seen[Head(slot[s].todo)] = "applied"
    /\ slot' = Answering(s, "applied")
    /\ UNCHANGED <<clientVars, run, recordVars, ledger, ruling, faults, rulings, historyVars>>

\* isValidTransition: the lifecycle is a chain.
Follows(from, to) == to = from + 1

\* handleFsmTransition: a transition the case is not ready for is rejected;
\* the row it leaves is filed under no device of this queue.
RejectTransition(s) ==
    LET c == Head(slot[s].todo) IN
    /\ slot[s].pc = "look" /\ slot[s].seen[c] # "applied"
    /\ entry[c].kind = "transition" /\ ~Follows(caseAt, entry[c].want)
    /\ slot' = Answering(s, "conflict")
    /\ UNCHANGED <<clientVars, run, recordVars, ledger, ruling, faults, rulings, historyVars>>

\* An intake goes straight to submitIntake; a transition the case is ready for
\* and every other change go on to the conflict check.
PassLook(s) ==
    LET c == Head(slot[s].todo) IN
    /\ slot[s].pc = "look" /\ slot[s].seen[c] # "applied"
    /\ entry[c].kind = "transition" => Follows(caseAt, entry[c].want)
    /\ slot' = [slot EXCEPT ![s].pc = IF entry[c].kind = "intake" THEN "apply" ELSE "detect"]
    /\ UNCHANGED <<clientVars, run, recordVars, ledger, ruling, faults, rulings, historyVars>>

\* (mutant) the conflict is answered and not kept
ClashForgotten(s) ==
    LET c == Head(slot[s].todo) IN
    /\ slot[s].pc = "detect" /\ c \notin stale /\ entry[c].kind # "service"
    /\ slot' = Answering(s, "conflict")
    /\ UNCHANGED <<clientVars, run, recordVars, ledger, ruling, faults, rulings, historyVars>>

\* detectConflict: newer than the record of an ordinary table, the change is
\* held as a conflict for a coordinator.
Clash(s) ==
    LET c == Head(slot[s].todo) IN
    /\ slot[s].pc = "detect" /\ c \notin stale /\ entry[c].kind # "service"
    /\ ledger' = [ledger EXCEPT ![c].conflict = @ + 1]
    /\ slot' = Answering(s, "conflict")
    /\ UNCHANGED <<clientVars, run, recordVars, ruling, faults, rulings, historyVars>>

\* Older than the record, the change is no conflict.  A newer change of a
\* financial table writes the server's own row back and then goes on too.
PassDetect(s) ==
    LET c == Head(slot[s].todo) IN
    /\ slot[s].pc = "detect"
    /\ \/ c \in stale /\ stale' = stale
       \/ c \notin stale /\ entry[c].kind = "service"
          /\ stale' = Overtaken(RecordOf("service"))
    /\ slot' = [slot EXCEPT ![s].pc = "apply"]
    /\ UNCHANGED <<clientVars, run, caseAt, ledger, ruling, faults, rulings, historyVars>>

\* What a replay writes: the record becomes newer than all that is queued.
Write(c) ==
    /\ stale' = Overtaken(RecordOf(entry[c].kind))
    /\ caseAt' = IF entry[c].kind \in {"transition", "copy"} THEN entry[c].want ELSE caseAt

\* applyChange (or submitIntake) commits in a transaction of its own.  An update
\* of a row that is gone, or of columns that are all stripped, changes nothing of
\* what was asked and is counted as an application, as the server answers it.
Apply(s) ==
    LET c == Head(slot[s].todo) IN
    /\ slot[s].pc = "apply"
    /\ Write(c)
    /\ applied' = [applied EXCEPT ![c] = @ + 1]
    /\ slot' = [slot EXCEPT ![s].pc = "record"]
    /\ UNCHANGED <<clientVars, run, ledger, ruling, faults, rulings, excused>>

\* The replay throws: a sealed checklist, an intake that does not validate, a
\* database error, one while the conflict is kept or a financial row is written
\* back included.  The change fails, the rest of the batch goes on.
ApplyFails(s) ==
    /\ \/ slot[s].pc = "apply"
       \/ slot[s].pc = "detect" /\ Head(slot[s].todo) \notin stale
    /\ slot' = Answering(s, "failed")
    /\ UNCHANGED <<clientVars, run, recordVars, ledger, ruling, faults, rulings, historyVars>>

\* A check that cannot be made raises no objection: a database error in
\* handleFsmTransition or in fetchServerRecord is logged, and the change goes on
\* as if the case were ready for it, or the record not there.
CheckFails(s) ==
    LET c == Head(slot[s].todo) IN
    /\ faults < MaxFaults
    /\ faults' = faults + 1
    /\ \/ /\ slot[s].pc = "look" /\ slot[s].seen[c] # "applied"
          /\ entry[c].kind = "transition" /\ ~Follows(caseAt, entry[c].want)
          /\ slot' = [slot EXCEPT ![s].pc = "detect"]
       \/ /\ slot[s].pc = "detect" /\ c \notin stale
          /\ slot' = [slot EXCEPT ![s].pc = "apply"]
    /\ UNCHANGED <<clientVars, run, recordVars, ledger, ruling, rulings, historyVars>>

\* The change is recorded as applied, in another transaction.
Record(s) ==
    LET c == Head(slot[s].todo) IN
    /\ slot[s].pc = "record"
    /\ ledger' = [ledger EXCEPT ![c].applied = TRUE]
    /\ slot' = Answering(s, "applied")
    /\ UNCHANGED <<clientVars, run, recordVars, ruling, faults, rulings, historyVars>>

\* That save fails: the change stands applied and is answered as failed.
RecordFails(s) ==
    LET c == Head(slot[s].todo) IN
    /\ slot[s].pc = "record" /\ faults < MaxFaults
    /\ faults' = faults + 1
    /\ excused' = [excused EXCEPT ![c] = @ + 1]
    /\ slot' = Answering(s, "failed")
    /\ UNCHANGED <<clientVars, run, recordVars, ledger, ruling, rulings, applied>>

\* Nobody waits for the answer any more.
DropAnswer(s) ==
    /\ slot[s].pc = "answered" /\ slot[s].client = NoRun
    /\ slot' = [slot EXCEPT ![s] = IdleSlot]
    /\ UNCHANGED <<clientVars, run, recordVars, ledger, ruling, faults, rulings, historyVars>>

\* The server stops: every request dies where it is, the runs that wait see a
\* broken connection.
Restart ==
    /\ faults < MaxFaults
    /\ \E s \in Slots : slot[s].pc # "idle"
    /\ faults' = faults + 1
    /\ excused' = [c \in Changes |->
          excused[c] + Cardinality({s \in Slots : slot[s].pc = "record" /\ Head(slot[s].todo) = c})]
    /\ slot' = [s \in Slots |-> IdleSlot]
    /\ run' = [r \in Runs |-> IF run[r].pc = "waiting"
                              THEN [run[r] EXCEPT !.pc = "next", !.batch = <<>>] ELSE run[r]]
    /\ ruling' = {}
    /\ UNCHANGED <<clientVars, recordVars, ledger, rulings, applied>>

-----------------------------------------------------------------------------
(* Others at work on the same records *)

\* A worker moves the case on, or edits a record, over HTTP.
MoveOnline ==
    /\ caseAt < Top
    /\ caseAt' = caseAt + 1
    /\ stale' = Overtaken({"case"})
    /\ UNCHANGED <<clientVars, run, slot, ledger, ruling, faults, rulings, historyVars>>

EditOnline(record) ==
    /\ stale # Overtaken({record})
    /\ stale' = Overtaken({record})
    /\ UNCHANGED <<clientVars, run, slot, caseAt, ledger, ruling, faults, rulings, historyVars>>

\* resolveConflict looks the row up by its id and does not ask whether it was
\* decided before: a second coordinator can still have it listed.
Listed(c) == ledger[c].conflict > 0 \/ ledger[c].closed

Close(c) ==
    LET left == IF ledger[c].conflict > 0 THEN ledger[c].conflict - 1 ELSE 0
    IN  ledger' = [ledger EXCEPT ![c] =
                     [@ EXCEPT !.applied = TRUE, !.closed = TRUE, !.conflict = left]]

RuleForServer(c) ==
    /\ Listed(c) /\ rulings < MaxRulings
    /\ rulings' = rulings + 1
    /\ Close(c)
    /\ UNCHANGED <<clientVars, run, slot, recordVars, ruling, faults, historyVars>>

\* The client's payload is applied first, the row closed afterwards.
RuleForClient(c) ==
    /\ Listed(c) /\ c \notin ruling /\ rulings < MaxRulings
    /\ rulings' = rulings + 1
    /\ ruling' = ruling \cup {c}
    /\ Write(c)
    /\ UNCHANGED <<clientVars, run, slot, ledger, faults, historyVars>>

CloseForClient(c) ==
    /\ c \in ruling
    /\ ruling' = ruling \ {c}
    /\ Close(c)
    /\ UNCHANGED <<clientVars, run, slot, recordVars, faults, rulings, historyVars>>

-----------------------------------------------------------------------------
ClientStep(r) ==
    \/ StartRun(r) \/ MarkOne(r) \/ EndBatch(r) \/ Pull(r)
    \/ \E s \in Slots : Send(r, s) \/ Receive(r, s)

ServerStep(s) ==
    \/ Load(s) \/ Refuse(s) \/ Skip(s) \/ RejectTransition(s) \/ PassLook(s)
    \/ Clash(s) \/ PassDetect(s) \/ Apply(s) \/ ApplyFails(s) \/ Record(s) \/ DropAnswer(s)

Next ==
    \/ \E c \in Changes : Work(c) \/ Retry(c) \/ Remove(c)
    \/ \E r \in Runs : ClientStep(r) \/ StartPull(r)
    \/ \E s \in Slots : ServerStep(s)
    \/ \E r \in Runs : LoseAnswer(r) \/ TimeOut(r) \/ CloseTab(r)
    \/ \E s \in Slots : RecordFails(s) \/ CheckFails(s)
    \/ Restart
    \/ MoveOnline
    \/ \E record \in Records : EditOnline(record)
    \/ \E c \in Changes : RuleForServer(c) \/ RuleForClient(c) \/ CloseForClient(c)

\* The watcher's timer keeps starting runs while the page is open, a run goes
\* on until it is over, and the server works on what it has received.
Fairness ==
    /\ \A r \in Runs : WF_vars(ClientStep(r))
    /\ \A s \in Slots : WF_vars(ServerStep(s))

Spec == Init /\ [][Next]_vars /\ Fairness

-----------------------------------------------------------------------------
(* Correctness *)

IsQueueOf(q) == /\ \A i \in 1..Len(q) : q[i] \in Changes
                /\ \A i, j \in 1..Len(q) : q[i] = q[j] => i = j

\* Values stay in their domains; the queue holds an entry once and a batch
\* holds only entries of the queue.
TypeOK ==
    /\ queue \in Seq(Changes) /\ IsQueueOf(queue)
    /\ entry \in [Changes -> [kind : AllKinds, want : 0..Top]]
    /\ mark \in [Changes -> Marks]
    /\ run \in [Runs -> [pc : {"idle", "next", "waiting", "marking", "pulling"},
                         rest : Seq(Changes), batch : Seq(Changes),
                         verdict : [Changes -> Verdicts]]]
    /\ slot \in [Slots -> [pc : {"idle", "arriving", "look", "detect", "apply", "record", "answered"},
                           client : Runs \cup {NoRun}, todo : Seq(Changes),
                           seen : [Changes -> {"none", "applied", "conflict"}],
                           verdict : [Changes -> Verdicts]]]
    /\ caseAt \in 0..Top
    /\ stale \subseteq Changes
    /\ ledger \in [Changes -> [applied : BOOLEAN, conflict : Nat, closed : BOOLEAN]]
    /\ ruling \subseteq Changes
    /\ faults \in 0..MaxFaults
    /\ rulings \in 0..MaxRulings
    /\ applied \in [Changes -> Nat]
    /\ excused \in [Changes -> Nat]

\* An entry the device shows as synced has been replayed on the server, or a
\* coordinator has decided against it: no order of lost answers, overlapping
\* runs, retries, restarts and closed tabs makes the device call work synced that
\* nobody took.  (What a replay did to a row that was gone is Apply's remark.)
SyncedIsSettled ==
    \A c \in Changes : mark[c] = "synced" => applied[c] > 0 \/ ledger[c].closed

\* A change is replayed at most once, except once more for every time the
\* protocol has let it slip: a lookup made while another request was at work on
\* the change or that kept its conflict row over its applied one, and a restart
\* or failed save between the apply and its record.
AppliedOnceUnlessExcused ==
    \A c \in Changes : applied[c] <= 1 + excused[c]

\* An entry the device shows in conflict, other than a status change, is on
\* the coordinators' list for this device, or was, and has been decided.
ConflictSurfaces ==
    \A c \in Changes :
        mark[c] = "conflict" /\ entry[c].kind # "transition" => Listed(c)

\* Work queued offline does not stay pending for ever.
PendingIsSettled ==
    \A c \in Changes : mark[c] = "pending" ~> mark[c] # "pending"

=============================================================================
