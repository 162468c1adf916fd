-------------------------- MODULE OfflineSyncProofs --------------------------
(***************************************************************************)
(* For any number of changes, runs and requests, and any faults:           *)
(*                                                                         *)
(*   SyncedSettled     what a device shows as synced has reached the       *)
(*                     server's records, or a coordinator has decided it;  *)
(*   TypeCorrect       the types, the queue and every batch without a      *)
(*                     change twice;                                       *)
(*   ConflictsSurface  what a device shows in conflict was put on the      *)
(*                     coordinators' list;                                 *)
(*   AppliedOnce       a change is applied once, but for what is excused.  *)
(*                                                                         *)
(* For the first, "settled" is never taken back, so the argument follows   *)
(* the word "applied" from where it is first said to the mark in the       *)
(* queue; the third follows "conflict" the same way.  The types rest on    *)
(* what the filter of the queue returns, shown by least counterexample.    *)
(* The last is an account: every request that may still apply a change     *)
(* has an application left to give.                                        *)
(***************************************************************************)
EXTENDS OfflineSync, TLAPS, WellFoundedInduction, SequenceTheorems, FiniteSetTheorems

Settled(c) == applied[c] > 0 \/ ledger[c].closed

-----------------------------------------------------------------------------
(* The invariant *)

IsRun(x) == x \in [pc : {x.pc}, rest : {x.rest}, batch : {x.batch},
                   verdict : [Changes -> Verdicts]]

IsSlot(x) == x \in [pc : {x.pc}, client : {x.client}, todo : {x.todo},
                    seen : [Changes -> {"none", "applied", "conflict"}],
                    verdict : [Changes -> Verdicts]]

\* What the argument needs of the types.  Nothing is said of the sequences:
\* the queue may hold anything.
Shaped ==
    /\ mark \in [Changes -> Marks]
    /\ run = [r \in Runs |-> run[r]] /\ \A r \in Runs : IsRun(run[r])
    /\ slot = [s \in Slots |-> slot[s]] /\ \A s \in Slots : IsSlot(slot[s])
    /\ ledger \in [Changes -> [applied : BOOLEAN, conflict : Nat, closed : BOOLEAN]]
    /\ applied \in [Changes -> Nat]

\* Who says a change was applied, and is right: the queue, the answer a run is
\* marking, the answer a request prepares and what it looked up, the ledger.
MarksHonest   == \A c \in Changes : mark[c] = "synced" => Settled(c)
RunsHonest    == \A r \in Runs, c \in Changes : run[r].verdict[c] = "applied" => Settled(c)
AnswersHonest == \A s \in Slots, c \in Changes : slot[s].verdict[c] = "applied" => Settled(c)
LookupsHonest == \A s \in Slots, c \in Changes : slot[s].seen[c] = "applied" => Settled(c)
LedgerHonest  == \A c \in Changes : ledger[c].applied => Settled(c)

\* A change about to be recorded has been applied.
RecordsHonest ==
    \A s \in Slots, c \in Changes :
        slot[s].pc = "record" /\ c = Head(slot[s].todo) => applied[c] > 0

Honest == /\ MarksHonest /\ RunsHonest /\ AnswersHonest /\ LookupsHonest
          /\ LedgerHonest /\ RecordsHonest

Inv == Shaped /\ Honest

LEMMA InitInv == Init => Inv
<1> SUFFICES ASSUME Init PROVE Inv
  OBVIOUS
<1>1. IsRun(IdleRun) /\ IsSlot(IdleSlot)
  BY DEF IsRun, IsSlot, IdleRun, IdleSlot, Verdicts
<1>2. Shaped
  BY <1>1 DEF Init, Shaped, Marks
<1>3. Honest
  BY DEF Init, Honest, MarksHonest, RunsHonest, AnswersHonest, LookupsHonest, LedgerHonest,
         RecordsHonest, IdleRun, IdleSlot
<1> QED BY <1>2, <1>3 DEF Inv

\* Once settled, a change stays settled.
Kept == \A c \in Changes : /\ Settled(c) => Settled(c)'
                           /\ applied[c] > 0 => applied'[c] > 0

LEMMA NothingTakenBack ==
    ASSUME Inv, UNCHANGED <<applied, ledger>> PROVE Kept
BY DEF Kept, Settled

-----------------------------------------------------------------------------
(* The device *)

\* A step of the device alone leaves the server's side as it is, so that its
\* own words are what has to be right.
LEMMA DeviceStep ==
    ASSUME Inv, UNCHANGED <<ledger, applied>>,
           mark' \in [Changes -> Marks],
           run' = [r \in Runs |-> run'[r]], \A r \in Runs : IsRun(run'[r]),
           slot' = [s \in Slots |-> slot'[s]], \A s \in Slots : IsSlot(slot'[s]),
           \A c \in Changes : mark'[c] = "synced" => mark[c] = "synced" \/ Settled(c),
           \A r \in Runs, c \in Changes :
              run'[r].verdict[c] = "applied" => run[r].verdict[c] = "applied" \/ Settled(c),
           \A s \in Slots, c \in Changes :
              /\ slot'[s].verdict[c] = "applied" => slot[s].verdict[c] = "applied" \/ Settled(c)
              /\ slot'[s].seen[c] = "applied" => slot[s].seen[c] = "applied" \/ Settled(c)
              /\ slot'[s].pc = "record" /\ c = Head(slot'[s].todo) =>
                    (slot[s].pc = "record" /\ c = Head(slot[s].todo)) \/ applied[c] > 0
    PROVE  Inv'
<1>1. \A c \in Changes : Settled(c)' <=> Settled(c)
  BY DEF Settled
<1>2. Shaped'
  BY DEF Inv, Shaped
<1>3. MarksHonest' /\ LedgerHonest' /\ RunsHonest'
  BY <1>1 DEF Inv, Honest, MarksHonest, RunsHonest, LedgerHonest
<1>4. AnswersHonest' /\ LookupsHonest' /\ RecordsHonest'
  BY <1>1 DEF Inv, Honest, AnswersHonest, LookupsHonest, RecordsHonest
<1> QED BY <1>2, <1>3, <1>4 DEF Inv, Honest

LEMMA IdleShapes ==
    /\ IsRun(IdleRun) /\ IsSlot(IdleSlot)
    /\ \A c \in Changes : IdleRun.verdict[c] = "none" /\ IdleSlot.verdict[c] = "none"
                          /\ IdleSlot.seen[c] = "none"
    /\ IdleSlot.pc = "idle"
BY DEF IsRun, IsSlot, IdleRun, IdleSlot, Verdicts

\* One run changes, and says "applied" of nothing that is not settled.
RunTo(r, x) ==
    /\ run' = [q \in Runs |-> IF q = r THEN x ELSE run[q]]
    /\ IsRun(x)
    /\ \A c \in Changes : x.verdict[c] = "applied" => Settled(c)

\* A request changes and says "applied" of nothing that is not settled.
SlotTo(s, x) ==
    /\ slot' = [t \in Slots |-> IF t = s THEN x ELSE slot[t]]
    /\ IsSlot(x)
    /\ \A c \in Changes : x.verdict[c] = "applied" \/ x.seen[c] = "applied" => Settled(c)
    /\ x.pc # "record"

\* A run that keeps what it was told may go anywhere.
RunGoes(r, pc, batch, rest) ==
    run' = [q \in Runs |-> IF q = r
             THEN [run[r] EXCEPT !.pc = pc, !.batch = batch, !.rest = rest] ELSE run[q]]

LEMMA RunMoves ==
    ASSUME Inv, NEW r \in Runs, NEW pc, NEW batch, NEW rest, RunGoes(r, pc, batch, rest)
    PROVE  \E x : RunTo(r, x)
<1> DEFINE x == [run[r] EXCEPT !.pc = pc, !.batch = batch, !.rest = rest]
<1>1. IsRun(x) /\ x.verdict = run[r].verdict
  BY DEF Inv, Shaped, IsRun
<1> HIDE DEF x
<1>2. run' = [q \in Runs |-> IF q = r THEN x ELSE run[q]]
  BY DEF x, RunGoes
<1>3. RunTo(r, x)
  BY <1>1, <1>2 DEF RunTo, Inv, Honest, RunsHonest
<1> QED BY <1>3

\* What a run is told is settled where it says "applied".
LEMMA RunTold ==
    ASSUME Inv, NEW r \in Runs, NEW v \in [Changes -> Verdicts],
           \A c \in Changes : v[c] = "applied" => Settled(c),
           run' = [q \in Runs |-> IF q = r
                    THEN [run[r] EXCEPT !.pc = "marking", !.verdict = v] ELSE run[q]]
    PROVE  \E x : RunTo(r, x)
<1> DEFINE x == [run[r] EXCEPT !.pc = "marking", !.verdict = v]
<1>1. IsRun(x) /\ x.verdict = v
  BY DEF Inv, Shaped, IsRun
<1> HIDE DEF x
<1>2. run' = [q \in Runs |-> IF q = r THEN x ELSE run[q]]
  BY DEF x
<1>3. RunTo(r, x)
  BY <1>1, <1>2 DEF RunTo
<1> QED BY <1>3

LEMMA DeviceKept ==
    ASSUME Inv, UNCHANGED <<ledger, applied, mark>>,
           UNCHANGED run \/ \E r \in Runs : \E x : RunTo(r, x),
           UNCHANGED slot \/ \E s \in Slots : \E x : SlotTo(s, x)
    PROVE  Inv'
<1>1. /\ run' = [r \in Runs |-> run'[r]] /\ \A r \in Runs : IsRun(run'[r])
      /\ \A r \in Runs, c \in Changes :
            run'[r].verdict[c] = "applied" => run[r].verdict[c] = "applied" \/ Settled(c)
  <2>1. CASE UNCHANGED run
    BY <2>1 DEF Inv, Shaped
  <2>2. ASSUME NEW r \in Runs, NEW x, RunTo(r, x)
        PROVE  /\ run' = [q \in Runs |-> run'[q]] /\ \A q \in Runs : IsRun(run'[q])
               /\ \A q \in Runs, c \in Changes :
                     run'[q].verdict[c] = "applied" => run[q].verdict[c] = "applied" \/ Settled(c)
    BY <2>2 DEF RunTo, Inv, Shaped
  <2> QED BY <2>1, <2>2
<1>2. /\ slot' = [s \in Slots |-> slot'[s]] /\ \A s \in Slots : IsSlot(slot'[s])
      /\ \A s \in Slots, c \in Changes :
           /\ slot'[s].verdict[c] = "applied" => slot[s].verdict[c] = "applied" \/ Settled(c)
           /\ slot'[s].seen[c] = "applied" => slot[s].seen[c] = "applied" \/ Settled(c)
           /\ slot'[s].pc = "record" /\ c = Head(slot'[s].todo) =>
                 (slot[s].pc = "record" /\ c = Head(slot[s].todo)) \/ applied[c] > 0
  <2>1. CASE UNCHANGED slot
    BY <2>1 DEF Inv, Shaped
  <2>2. ASSUME NEW s \in Slots, NEW x, SlotTo(s, x)
        PROVE  /\ slot' = [t \in Slots |-> slot'[t]] /\ \A t \in Slots : IsSlot(slot'[t])
               /\ \A t \in Slots, c \in Changes :
                    /\ slot'[t].verdict[c] = "applied" =>
                          slot[t].verdict[c] = "applied" \/ Settled(c)
                    /\ slot'[t].seen[c] = "applied" => slot[t].seen[c] = "applied" \/ Settled(c)
                    /\ slot'[t].pc = "record" /\ c = Head(slot'[t].todo) =>
                          (slot[t].pc = "record" /\ c = Head(slot[t].todo)) \/ applied[c] > 0
    BY <2>2 DEF SlotTo, Inv, Shaped
  <2> QED BY <2>1, <2>2
<1> QED BY <1>1, <1>2, DeviceStep DEF Inv, Shaped

LEMMA StartRunInv == ASSUME Inv, NEW r \in Runs, StartRun(r) PROVE Inv'
<1> DEFINE x == [IdleRun EXCEPT !.pc = "next", !.rest = Pending]
<1>1. IsRun(x) /\ \A c \in Changes : x.verdict[c] # "applied"
  BY DEF IsRun, IdleRun, Verdicts
<1>2. run' = [q \in Runs |-> IF q = r THEN x ELSE run[q]]
  BY DEF StartRun, Inv, Shaped
<1>3. RunTo(r, x)
  BY <1>1, <1>2 DEF RunTo
<1> QED BY <1>3, DeviceKept DEF StartRun, clientVars, historyVars

LEMMA SendInv == ASSUME Inv, NEW r \in Runs, NEW s \in Slots, Send(r, s) PROVE Inv'
<1>1. PICK batch, rest :
        /\ run' = [run EXCEPT ![r] = [@ EXCEPT !.pc = "waiting", !.batch = batch, !.rest = rest]]
        /\ slot' = [slot EXCEPT ![s] = [IdleSlot EXCEPT !.pc = "arriving", !.client = r,
                                                        !.todo = batch]]
  BY DEF Send
<1>2. RunGoes(r, "waiting", batch, rest)
  BY <1>1 DEF RunGoes, Inv, Shaped
<1>3. SlotTo(s, [IdleSlot EXCEPT !.pc = "arriving", !.client = r, !.todo = batch])
  BY <1>1 DEF SlotTo, Inv, Shaped, IsSlot, IdleSlot, Verdicts
<1> QED BY <1>2, <1>3, RunMoves, DeviceKept DEF Send, clientVars, historyVars

LEMMA ReceiveInv == ASSUME Inv, NEW r \in Runs, NEW s \in Slots, Receive(r, s) PROVE Inv'
<1> DEFINE v == slot[s].verdict
<1>1. v \in [Changes -> Verdicts] /\ \A c \in Changes : v[c] = "applied" => Settled(c)
  BY DEF Inv, Shaped, IsSlot, Honest, AnswersHonest
<1>2. run' = [q \in Runs |-> IF q = r
        THEN [run[r] EXCEPT !.pc = "marking", !.verdict = v] ELSE run[q]]
  BY DEF Receive, Inv, Shaped
<1>3. SlotTo(s, IdleSlot)
  BY IdleShapes DEF Receive, SlotTo, Inv, Shaped
<1> HIDE DEF v
<1>4. \E x : RunTo(r, x)
  BY <1>1, <1>2, RunTold
<1> QED BY <1>3, <1>4, DeviceKept DEF Receive, clientVars, historyVars

LEMMA OrphanedShape ==
    ASSUME Inv, NEW r \in Runs, slot' = Orphaned(r)
    PROVE  /\ slot' = [s \in Slots |-> slot'[s]] /\ \A s \in Slots : IsSlot(slot'[s])
           /\ \A s \in Slots, c \in Changes :
                /\ slot'[s].verdict[c] = "applied" => slot[s].verdict[c] = "applied"
                /\ slot'[s].seen[c] = "applied" => slot[s].seen[c] = "applied"
                /\ slot'[s].pc = "record" /\ c = Head(slot'[s].todo) =>
                      slot[s].pc = "record" /\ c = Head(slot[s].todo)
<1>1. ASSUME NEW s \in Slots
      PROVE  /\ IsSlot(slot'[s])
             /\ slot'[s] = IdleSlot \/ /\ slot'[s].verdict = slot[s].verdict
                                       /\ slot'[s].seen = slot[s].seen
                                       /\ slot'[s].pc = slot[s].pc
                                       /\ slot'[s].todo = slot[s].todo
  <2>1. IsSlot(slot[s])
    BY DEF Inv, Shaped
  <2>2. slot'[s] \in {slot[s], IdleSlot, [slot[s] EXCEPT !.client = NoRun]}
    BY DEF Orphaned
  <2> QED BY <2>1, <2>2, IdleShapes DEF IsSlot
<1> QED BY <1>1, IdleShapes DEF Orphaned

\* The answer is lost, timed out, or nobody is left to read it.
LEMMA GiveUpInv ==
    ASSUME Inv, NEW r \in Runs, LoseAnswer(r) \/ TimeOut(r) \/ CloseTab(r) PROVE Inv'
<1>1. UNCHANGED <<ledger, applied, mark>>
  BY DEF LoseAnswer, TimeOut, CloseTab, clientVars, historyVars
<1>2. \E x : RunTo(r, x)
  <2>1. CASE LoseAnswer(r)
    <3>1. run' = [run EXCEPT ![r] = [@ EXCEPT !.pc = "next", !.batch = <<>>]]
      BY <2>1 DEF LoseAnswer
    <3>2. RunGoes(r, "next", <<>>, run[r].rest)
      BY <3>1 DEF RunGoes, Inv, Shaped, IsRun
    <3> QED BY <3>2, RunMoves
  <2>2. CASE TimeOut(r)
    <3> DEFINE v == ForAll(run[r].batch, "aborted")
    <3>1. v \in [Changes -> Verdicts] /\ \A c \in Changes : v[c] # "applied"
      BY DEF ForAll, Verdicts
    <3> HIDE DEF v
    <3>2. run' = [run EXCEPT ![r] = [@ EXCEPT !.pc = "marking", !.verdict = v]]
      BY <2>2 DEF TimeOut, v
    <3>3. run' = [q \in Runs |-> IF q = r
            THEN [run[r] EXCEPT !.pc = "marking", !.verdict = v] ELSE run[q]]
      BY <3>2 DEF Inv, Shaped
    <3> QED BY <3>1, <3>3, RunTold
  <2>3. CASE CloseTab(r)
    <3>1. RunTo(r, IdleRun)
      BY <2>3, IdleShapes DEF CloseTab, RunTo, Inv, Shaped
    <3> QED BY <3>1
  <2> QED BY <2>1, <2>2, <2>3
<1>3. /\ run' = [q \in Runs |-> run'[q]] /\ \A q \in Runs : IsRun(run'[q])
      /\ \A q \in Runs, c \in Changes :
            run'[q].verdict[c] = "applied" => run[q].verdict[c] = "applied" \/ Settled(c)
  BY <1>2 DEF RunTo, Inv, Shaped
<1>4. CASE slot' = Orphaned(r)
  BY <1>1, <1>3, <1>4, OrphanedShape, DeviceStep DEF Inv, Shaped
<1>5. CASE \E s \in Slots : slot' = [slot EXCEPT ![s] = IdleSlot]
  <2>1. PICK s \in Slots : slot' = [slot EXCEPT ![s] = IdleSlot]
    BY <1>5
  <2>2. SlotTo(s, IdleSlot)
    BY <2>1, IdleShapes DEF SlotTo, Inv, Shaped
  <2> QED BY <1>1, <1>2, <2>2, DeviceKept
<1> QED BY <1>4, <1>5 DEF LoseAnswer, TimeOut, CloseTab

\* A result is marked as the run was told.
LEMMA MarkOneInv == ASSUME Inv, NEW r \in Runs, MarkOne(r) PROVE Inv'
<1> DEFINE c == Head(run[r].batch)
           v == run[r].verdict[c]
<1>1. mark' = [mark EXCEPT ![c] = IF v = "none" \/ mark[c] = "removed" THEN mark[c] ELSE MarkFor[v]]
  BY DEF MarkOne
<1>2. ASSUME c \in Changes, v # "none"
      PROVE  MarkFor[v] \in Marks /\ (MarkFor[v] = "synced" => Settled(c))
  <2>1. v \in {"applied", "conflict", "failed", "aborted"} /\ (v = "applied" => Settled(c))
    BY <1>2 DEF Inv, Shaped, IsRun, Verdicts, Honest, RunsHonest
  <2> QED BY <2>1 DEF MarkFor, Marks
<1> HIDE DEF c, v
<1>3. /\ mark' \in [Changes -> Marks]
      /\ \A d \in Changes : mark'[d] = "synced" => mark[d] = "synced" \/ Settled(d)
  BY <1>1, <1>2 DEF Inv, Shaped
<1>4. /\ run' = [q \in Runs |-> run'[q]] /\ \A q \in Runs : IsRun(run'[q])
      /\ \A q \in Runs, d \in Changes :
            run'[q].verdict[d] = "applied" => run[q].verdict[d] = "applied" \/ Settled(d)
  BY DEF MarkOne, Inv, Shaped, IsRun
<1> QED BY <1>3, <1>4, DeviceStep DEF MarkOne, historyVars, Inv, Shaped

LEMMA EndBatchInv == ASSUME Inv, NEW r \in Runs, EndBatch(r) PROVE Inv'
<1>1. PICK pc : run' = [run EXCEPT ![r] = [IdleRun EXCEPT !.pc = pc, !.rest = run[r].rest]]
  BY DEF EndBatch
<1>2. RunTo(r, [IdleRun EXCEPT !.pc = pc, !.rest = run[r].rest])
  BY <1>1 DEF RunTo, Inv, Shaped, IsRun, IdleRun, Verdicts
<1> QED BY <1>2, DeviceKept DEF EndBatch, clientVars, historyVars

LEMMA PullInv == ASSUME Inv, NEW r \in Runs, StartPull(r) \/ Pull(r) PROVE Inv'
<1>1. \E x : RunTo(r, x)
  <2>1. CASE StartPull(r)
    <3>1. run' = [run EXCEPT ![r].pc = "pulling"]
      BY <2>1 DEF StartPull
    <3>2. RunGoes(r, "pulling", run[r].batch, run[r].rest)
      BY <3>1 DEF RunGoes, Inv, Shaped, IsRun
    <3> QED BY <3>2, RunMoves
  <2>2. CASE Pull(r)
    <3>1. RunTo(r, IdleRun)
      BY <2>2, IdleShapes DEF Pull, RunTo, Inv, Shaped
    <3> QED BY <3>1
  <2> QED BY <2>1, <2>2
<1>2. /\ run' = [q \in Runs |-> run'[q]] /\ \A q \in Runs : IsRun(run'[q])
      /\ \A q \in Runs, c \in Changes :
            run'[q].verdict[c] = "applied" => run[q].verdict[c] = "applied" \/ Settled(c)
  BY <1>1 DEF RunTo, Inv, Shaped
<1>3. /\ mark' \in [Changes -> Marks]
      /\ \A c \in Changes : mark'[c] = "synced" => mark[c] = "synced"
  BY DEF StartPull, Pull, clientVars, Inv, Shaped, Marks
<1>4. UNCHANGED <<slot, ledger, applied>>
  BY DEF StartPull, Pull, historyVars
<1> QED BY <1>2, <1>3, <1>4, DeviceStep DEF Inv, Shaped

LEMMA WorkInv == ASSUME Inv, NEW c \in Changes, Work(c) PROVE Inv'
<1>1. UNCHANGED <<run, slot, ledger, applied>>
  BY DEF Work, QueueChange, historyVars
<1>2. /\ mark' \in [Changes -> Marks]
      /\ \A d \in Changes : mark'[d] = "synced" => mark[d] = "synced"
  BY DEF Work, QueueChange, Inv, Shaped, Marks
<1> QED BY <1>1, <1>2, DeviceStep DEF Inv, Shaped

\* Sent again or removed, an entry says nothing of the server.
LEMMA ByHandMark ==
    ASSUME mark \in [Changes -> Marks], NEW c \in Changes, Retry(c) \/ Remove(c)
    PROVE  /\ mark' \in [Changes -> Marks]
           /\ \A d \in Changes : mark'[d] = mark[d] \/ mark'[d] \in {"pending", "removed"}
BY DEF Retry, Remove, Marks

LEMMA ByHandInv == ASSUME Inv, NEW c \in Changes, Retry(c) \/ Remove(c) PROVE Inv'
<1>1. UNCHANGED <<run, slot, ledger, applied>>
  BY DEF Retry, Remove, historyVars
<1>2. /\ mark' \in [Changes -> Marks]
      /\ \A d \in Changes : mark'[d] = "synced" => mark[d] = "synced"
  BY ByHandMark DEF Inv, Shaped
<1> QED BY <1>1, <1>2, DeviceStep DEF Inv, Shaped

-----------------------------------------------------------------------------
(* The server *)

\* A step of the server or of a coordinator: nothing settled is taken back,
\* and what it newly says was applied is settled after it.
LEMMA ServerStepInv ==
    ASSUME Inv, Kept, mark' = mark,
           applied' \in [Changes -> Nat],
           ledger' \in [Changes -> [applied : BOOLEAN, conflict : Nat, closed : BOOLEAN]],
           run' = [r \in Runs |-> run'[r]], \A r \in Runs : IsRun(run'[r]),
           \A r \in Runs : run'[r].verdict = run[r].verdict,
           slot' = [s \in Slots |-> slot'[s]], \A s \in Slots : IsSlot(slot'[s]),
           \A c \in Changes : ledger'[c].applied => ledger[c].applied \/ Settled(c)',
           \A s \in Slots, c \in Changes :
              /\ slot'[s].verdict[c] = "applied" => slot[s].verdict[c] = "applied" \/ Settled(c)'
              /\ slot'[s].seen[c] = "applied" => slot[s].seen[c] = "applied" \/ Settled(c)'
              /\ slot'[s].pc = "record" /\ c = Head(slot'[s].todo) =>
                    (slot[s].pc = "record" /\ c = Head(slot[s].todo)) \/ applied'[c] > 0
    PROVE  Inv'
<1>1. \A c \in Changes : (Settled(c) => Settled(c)') /\ (applied[c] > 0 => applied'[c] > 0)
  BY DEF Kept
<1>2. Shaped'
  BY DEF Inv, Shaped
<1>3. MarksHonest' /\ LedgerHonest' /\ RunsHonest'
  BY <1>1 DEF Inv, Honest, MarksHonest, RunsHonest, LedgerHonest
<1>4. AnswersHonest' /\ LookupsHonest' /\ RecordsHonest'
  BY <1>1 DEF Inv, Honest, AnswersHonest, LookupsHonest, RecordsHonest
<1> QED BY <1>2, <1>3, <1>4 DEF Inv, Honest

\* A change is answered: one word more, for the first of what is in hand.
LEMMA AnsweringShape ==
    ASSUME Inv, NEW s \in Slots, NEW v \in Verdicts, slot' = Answering(s, v)
    PROVE  /\ slot' = [t \in Slots |-> slot'[t]] /\ \A t \in Slots : IsSlot(slot'[t])
           /\ \A t \in Slots, c \in Changes :
                /\ slot'[t].verdict[c] = "applied" =>
                      \/ slot[t].verdict[c] = "applied"
                      \/ v = "applied" /\ t = s /\ c = Head(slot[s].todo)
                /\ slot'[t].seen[c] = "applied" => slot[t].seen[c] = "applied"
                /\ slot'[t].pc = "record" /\ c = Head(slot'[t].todo) =>
                      slot[t].pc = "record" /\ c = Head(slot[t].todo)
<1> DEFINE c == Head(slot[s].todo)
           rest == Tail(slot[s].todo)
           w == [slot[s].verdict EXCEPT ![c] = v]
           u == [slot[s].seen EXCEPT ![c] = "none"]
           x == [slot[s] EXCEPT !.verdict = w, !.seen = u, !.todo = rest,
                                !.pc = IF rest = <<>> THEN "answered" ELSE "look"]
<1>1. slot' = [t \in Slots |-> IF t = s THEN x ELSE slot[t]]
  BY DEF Answering, Inv, Shaped, IsSlot
<1>2. w \in [Changes -> Verdicts]
      /\ \A d \in Changes : w[d] = "applied" =>
            slot[s].verdict[d] = "applied" \/ (v = "applied" /\ d = c)
  BY DEF Inv, Shaped, IsSlot
<1>3. u \in [Changes -> {"none", "applied", "conflict"}]
      /\ \A d \in Changes : u[d] = "applied" => slot[s].seen[d] = "applied"
  BY DEF Inv, Shaped, IsSlot
<1> HIDE DEF w, u
<1>4. IsSlot(x) /\ x.verdict = w /\ x.seen = u /\ x.pc # "record"
  BY <1>2, <1>3 DEF Inv, Shaped, IsSlot
<1> HIDE DEF x
<1> QED BY <1>1, <1>2, <1>3, <1>4 DEF Inv, Shaped

\* Where a request goes on with what it knows.
WentTo(s, pc) ==
    /\ slot' = [t \in Slots |-> slot'[t]] /\ \A t \in Slots : IsSlot(slot'[t])
    /\ \A t \in Slots, c \in Changes :
         /\ slot'[t].verdict[c] = slot[t].verdict[c]
         /\ slot'[t].seen[c] = slot[t].seen[c]
         /\ slot'[t].todo = slot[t].todo
         /\ slot'[t].pc = IF t = s THEN pc ELSE slot[t].pc

LEMMA SlotGoes ==
    ASSUME Inv, NEW s \in Slots, NEW pc, slot' = [slot EXCEPT ![s].pc = pc]
    PROVE  WentTo(s, pc)
BY DEF WentTo, Inv, Shaped, IsSlot

\* Answers that apply nothing and close nothing.
LEMMA AnswerInv ==
    ASSUME Inv, NEW s \in Slots,
           Skip(s) \/ RejectTransition(s) \/ ApplyFails(s) \/ RecordFails(s) \/ Clash(s)
    PROVE  Inv'
<1>1. PICK v \in {"applied", "conflict", "failed"} :
        /\ slot' = Answering(s, v)
        /\ v = "applied" => slot[s].seen[Head(slot[s].todo)] = "applied"
  BY DEF Skip, RejectTransition, ApplyFails, RecordFails, Clash
<1>2. applied' = applied /\ mark' = mark /\ run' = run
  BY DEF Skip, RejectTransition, ApplyFails, RecordFails, Clash, clientVars, historyVars
<1>3. /\ ledger' \in [Changes -> [applied : BOOLEAN, conflict : Nat, closed : BOOLEAN]]
      /\ \A c \in Changes : /\ ledger'[c].applied = ledger[c].applied
                            /\ ledger'[c].closed = ledger[c].closed
  <2>1. CASE ledger' = ledger
    BY <2>1 DEF Inv, Shaped
  <2>2. ASSUME NEW c, ledger' = [ledger EXCEPT ![c].conflict = @ + 1]
        PROVE  /\ ledger' \in [Changes -> [applied : BOOLEAN, conflict : Nat, closed : BOOLEAN]]
               /\ \A d \in Changes : /\ ledger'[d].applied = ledger[d].applied
                                     /\ ledger'[d].closed = ledger[d].closed
    <3>1. CASE c \in Changes
      <4>1. ledger[c].conflict + 1 \in Nat
        BY <3>1 DEF Inv, Shaped
      <4> QED BY <2>2, <3>1, <4>1 DEF Inv, Shaped
    <3>2. CASE c \notin Changes
      <4>1. ledger' = ledger
        BY <2>2, <3>2 DEF Inv, Shaped
      <4> QED BY <4>1 DEF Inv, Shaped
    <3> QED BY <3>1, <3>2
  <2> QED BY <2>1, <2>2 DEF Skip, RejectTransition, ApplyFails, RecordFails, Clash
<1>4. Kept /\ \A c \in Changes : Settled(c)' <=> Settled(c)
  BY <1>2, <1>3 DEF Kept, Settled
<1>5. v \in Verdicts
  BY DEF Verdicts
<1>6. \A c \in Changes : v = "applied" /\ c = Head(slot[s].todo) => Settled(c)
  BY <1>1 DEF Inv, Honest, LookupsHonest
<1>7. \A r \in Runs : IsRun(run'[r]) /\ run' = [q \in Runs |-> run'[q]]
  BY <1>2 DEF Inv, Shaped
<1>8. /\ slot' = [t \in Slots |-> slot'[t]] /\ \A t \in Slots : IsSlot(slot'[t])
      /\ \A t \in Slots, c \in Changes :
           /\ slot'[t].verdict[c] = "applied" => slot[t].verdict[c] = "applied" \/ Settled(c)'
           /\ slot'[t].seen[c] = "applied" => slot[t].seen[c] = "applied"
           /\ slot'[t].pc = "record" /\ c = Head(slot'[t].todo) =>
                 slot[t].pc = "record" /\ c = Head(slot[t].todo)
  BY <1>1, <1>4, <1>5, <1>6, AnsweringShape
<1>9. run' = [r \in Runs |-> run'[r]] /\ applied' \in [Changes -> Nat]
  BY <1>2 DEF Inv, Shaped
<1> QED BY <1>2, <1>3, <1>4, <1>7, <1>8, <1>9, ServerStepInv

\* A refused batch fails as a whole; an unread answer goes.
LEMMA WholeBatchInv ==
    ASSUME Inv, NEW s \in Slots, Refuse(s) \/ DropAnswer(s) PROVE Inv'
<1>1. CASE Refuse(s)
  <2> DEFINE v == ForAll(slot[s].todo, "failed")
             x == [slot[s] EXCEPT !.pc = "answered", !.verdict = v, !.todo = <<>>]
  <2>1. v \in [Changes -> Verdicts] /\ \A c \in Changes : v[c] # "applied"
    BY DEF ForAll, Verdicts
  <2>2. slot' = [slot EXCEPT ![s] = [@ EXCEPT !.pc = "answered", !.verdict = v, !.todo = <<>>]]
    BY <1>1 DEF Refuse
  <2> HIDE DEF v
  <2>3. slot' = [t \in Slots |-> IF t = s THEN x ELSE slot[t]]
    BY <2>2 DEF Inv, Shaped
  <2>4. IsSlot(x) /\ x.verdict = v /\ x.seen = slot[s].seen /\ x.pc # "record"
    BY <2>1 DEF Inv, Shaped, IsSlot
  <2> HIDE DEF x
  <2>5. SlotTo(s, x)
    BY <2>1, <2>3, <2>4 DEF SlotTo, Inv, Honest, LookupsHonest
  <2> QED BY <1>1, <2>5, DeviceKept DEF Refuse, clientVars, historyVars
<1>2. CASE DropAnswer(s)
  <2>1. SlotTo(s, IdleSlot)
    BY <1>2, IdleShapes DEF DropAnswer, SlotTo, Inv, Shaped
  <2> QED BY <1>2, <2>1, DeviceKept DEF DropAnswer, clientVars, historyVars
<1> QED BY <1>1, <1>2

\* The lookup says "applied" of what the ledger says it of.
LEMMA LoadInv == ASSUME Inv, NEW s \in Slots, Load(s) PROVE Inv'
<1>1. PICK seen \in [InHand(s) -> {"none", "applied", "conflict"}] :
        /\ \A c \in InHand(s) : seen[c] \in SeenOf(c)
        /\ slot' = [slot EXCEPT ![s] = [@ EXCEPT !.pc = "look",
                      !.seen = [c \in Changes |-> IF c \in InHand(s) THEN seen[c] ELSE "none"]]]
  BY DEF Load
<1> DEFINE found == [c \in Changes |-> IF c \in InHand(s) THEN seen[c] ELSE "none"]
           x == [slot[s] EXCEPT !.pc = "look", !.seen = found]
<1>2. /\ found \in [Changes -> {"none", "applied", "conflict"}]
      /\ \A c \in Changes : found[c] = "applied" => Settled(c)
  <2>1. \A c \in Changes : c \in InHand(s) /\ seen[c] = "applied" => ledger[c].applied
    BY <1>1 DEF SeenOf
  <2> QED BY <2>1 DEF Inv, Honest, LedgerHonest
<1>3. slot' = [slot EXCEPT ![s] = [@ EXCEPT !.pc = "look", !.seen = found]]
  BY <1>1
<1> HIDE DEF found
<1>4. slot' = [t \in Slots |-> IF t = s THEN x ELSE slot[t]]
  BY <1>3 DEF Inv, Shaped
<1>5. IsSlot(x) /\ x.verdict = slot[s].verdict /\ x.seen = found /\ x.pc # "record"
  BY <1>2 DEF Inv, Shaped, IsSlot
<1> HIDE DEF x
<1>6. SlotTo(s, x)
  BY <1>2, <1>4, <1>5 DEF SlotTo, Inv, Honest, AnswersHonest
<1> QED BY <1>6, DeviceKept DEF Load, clientVars

LEMMA PassInv ==
    ASSUME Inv, NEW s \in Slots, PassLook(s) \/ PassDetect(s) \/ CheckFails(s) PROVE Inv'
<1>1. PICK pc \in {"apply", "detect"} : slot' = [slot EXCEPT ![s].pc = pc]
  BY DEF PassLook, PassDetect, CheckFails
<1>2. /\ UNCHANGED <<ledger, applied, mark, run>>
  BY DEF PassLook, PassDetect, CheckFails, clientVars, historyVars
<1>3. WentTo(s, pc)
  BY <1>1, SlotGoes
<1> QED BY <1>2, <1>3, DeviceStep DEF WentTo, Inv, Shaped

\* The replay counts the change before anything else is said of it.
LEMMA ApplyInv == ASSUME Inv, NEW s \in Slots, Apply(s) PROVE Inv'
<1>1. slot' = [slot EXCEPT ![s].pc = "record"]
  BY DEF Apply
<1>2. UNCHANGED <<ledger, mark, run>>
  BY DEF Apply, clientVars
<1>3. /\ applied' \in [Changes -> Nat]
      /\ \A c \in Changes : /\ applied[c] > 0 => applied'[c] > 0
                            /\ c = Head(slot[s].todo) => applied'[c] > 0
  <2> DEFINE c == Head(slot[s].todo)
  <2>1. applied' = [applied EXCEPT ![c] = @ + 1]
    BY DEF Apply
  <2> HIDE DEF c
  <2>2. CASE c \in Changes
    <3>1. applied[c] \in Nat /\ applied[c] + 1 \in Nat /\ applied[c] + 1 > 0
      BY <2>2 DEF Inv, Shaped
    <3>2. /\ applied' \in [Changes -> Nat] /\ applied'[c] = applied[c] + 1
          /\ \A d \in Changes \ {c} : applied'[d] = applied[d]
      BY <2>1, <2>2, <3>1 DEF Inv, Shaped
    <3> QED BY <3>1, <3>2 DEF c
  <2>3. CASE c \notin Changes
    <3>1. applied' = applied
      BY <2>1, <2>3 DEF Inv, Shaped
    <3> QED BY <2>3, <3>1 DEF Inv, Shaped, c
  <2> QED BY <2>2, <2>3
<1>4. Kept
  BY <1>2, <1>3 DEF Kept, Settled
<1>5. WentTo(s, "record")
  BY <1>1, SlotGoes
<1>6. /\ run' = [r \in Runs |-> run'[r]] /\ \A r \in Runs : IsRun(run'[r])
      /\ ledger' \in [Changes -> [applied : BOOLEAN, conflict : Nat, closed : BOOLEAN]]
  BY <1>2 DEF Inv, Shaped
<1> QED BY <1>2, <1>3, <1>4, <1>5, <1>6, ServerStepInv DEF WentTo

\* The ledger and the answer say "applied" of a change that was.
LEMMA RecordInv == ASSUME Inv, NEW s \in Slots, Record(s) PROVE Inv'
<1> DEFINE c == Head(slot[s].todo)
<1>1. /\ slot' = Answering(s, "applied") /\ ledger' = [ledger EXCEPT ![c].applied = TRUE]
      /\ UNCHANGED <<applied, mark, run>>
  BY DEF Record, clientVars, historyVars
<1>2. c \in Changes => Settled(c)
  BY DEF Record, Inv, Honest, RecordsHonest, Settled
<1>3. /\ ledger' \in [Changes -> [applied : BOOLEAN, conflict : Nat, closed : BOOLEAN]]
      /\ \A d \in Changes : /\ ledger'[d].closed = ledger[d].closed
                            /\ ledger'[d].applied => ledger[d].applied \/ d = c
  BY <1>1 DEF Inv, Shaped
<1>4. Kept /\ \A d \in Changes : Settled(d)' <=> Settled(d)
  BY <1>1, <1>3 DEF Kept, Settled
<1>5. "applied" \in Verdicts
  BY DEF Verdicts
<1>6. /\ slot' = [t \in Slots |-> slot'[t]] /\ \A t \in Slots : IsSlot(slot'[t])
      /\ \A t \in Slots, d \in Changes :
           /\ slot'[t].verdict[d] = "applied" => slot[t].verdict[d] = "applied" \/ Settled(d)'
           /\ slot'[t].seen[d] = "applied" => slot[t].seen[d] = "applied"
           /\ slot'[t].pc = "record" /\ d = Head(slot'[t].todo) =>
                 slot[t].pc = "record" /\ d = Head(slot[t].todo)
  BY <1>1, <1>2, <1>4, <1>5, AnsweringShape
<1>7. /\ run' = [r \in Runs |-> run'[r]] /\ \A r \in Runs : IsRun(run'[r])
      /\ applied' \in [Changes -> Nat]
  BY <1>1 DEF Inv, Shaped
<1> QED BY <1>1, <1>2, <1>3, <1>4, <1>6, <1>7, ServerStepInv

LEMMA RestartInv == ASSUME Inv, Restart PROVE Inv'
<1>1. /\ slot' = [s \in Slots |-> IdleSlot]
      /\ run' = [r \in Runs |-> IF run[r].pc = "waiting"
                   THEN [run[r] EXCEPT !.pc = "next", !.batch = <<>>] ELSE run[r]]
      /\ UNCHANGED <<ledger, applied, mark>>
  BY DEF Restart, clientVars
<1>2. /\ run' = [r \in Runs |-> run'[r]] /\ \A r \in Runs : IsRun(run'[r])
      /\ \A r \in Runs : run'[r].verdict = run[r].verdict
  BY <1>1 DEF Inv, Shaped, IsRun
<1>3. /\ slot' = [s \in Slots |-> slot'[s]] /\ \A s \in Slots : slot'[s] = IdleSlot
  BY <1>1
<1> QED BY <1>1, <1>2, <1>3, IdleShapes, DeviceStep DEF Inv, Shaped

\* A coordinator's decision settles the change.
LEMMA RulingInv ==
    ASSUME Inv, NEW c \in Changes, RuleForServer(c) \/ RuleForClient(c) \/ CloseForClient(c)
    PROVE  Inv'
<1>1. UNCHANGED <<applied, mark, run, slot>>
  BY DEF RuleForServer, RuleForClient, CloseForClient, clientVars, historyVars
<1>2. /\ ledger' \in [Changes -> [applied : BOOLEAN, conflict : Nat, closed : BOOLEAN]]
      /\ \A d \in Changes : /\ ledger[d].closed => ledger'[d].closed
                            /\ ledger'[d].applied => ledger[d].applied \/ ledger'[d].closed
  <2>1. CASE ledger' = ledger
    BY <2>1 DEF Inv, Shaped
  <2>2. CASE Close(c)
    <3> DEFINE less == IF ledger[c].conflict > 0 THEN ledger[c].conflict - 1 ELSE 0
    <3>1. less \in Nat
      BY DEF Inv, Shaped
    <3>2. ledger' = [ledger EXCEPT ![c] = [@ EXCEPT !.applied = TRUE, !.closed = TRUE,
                                                    !.conflict = less]]
      BY <2>2 DEF Close, Inv, Shaped
    <3> HIDE DEF less
    <3>3. \A d \in Changes \ {c} : ledger'[d] = ledger[d]
      BY <3>2 DEF Inv, Shaped
    <3>4. /\ ledger'[c] \in [applied : BOOLEAN, conflict : Nat, closed : BOOLEAN]
          /\ ledger'[c].closed
      BY <3>1, <3>2 DEF Inv, Shaped
    <3>5. ledger' = [d \in Changes |-> ledger'[d]]
      BY <3>2 DEF Inv, Shaped
    <3> QED BY SMTT(30), <3>3, <3>4, <3>5 DEF Inv, Shaped
  <2> QED BY <2>1, <2>2 DEF RuleForServer, RuleForClient, CloseForClient
<1>3. Kept /\ \A d \in Changes : ledger'[d].applied => ledger[d].applied \/ Settled(d)'
  BY <1>1, <1>2 DEF Kept, Settled
<1>4. /\ run' = [r \in Runs |-> run'[r]] /\ \A r \in Runs : IsRun(run'[r])
      /\ slot' = [s \in Slots |-> slot'[s]] /\ \A s \in Slots : IsSlot(slot'[s])
      /\ applied' \in [Changes -> Nat]
  BY <1>1 DEF Inv, Shaped
<1> QED BY <1>1, <1>2, <1>3, <1>4, ServerStepInv

LEMMA OnlineInv ==
    ASSUME Inv, MoveOnline \/ \E record \in Records : EditOnline(record) PROVE Inv'
<1>1. UNCHANGED <<ledger, applied, mark, run, slot>>
  BY DEF MoveOnline, EditOnline, clientVars, historyVars
<1> QED BY <1>1, DeviceKept

LEMMA NextInv == ASSUME Inv, [Next]_vars PROVE Inv'
<1>1. ASSUME NEW r \in Runs, ClientStep(r) \/ StartPull(r) PROVE Inv'
  BY <1>1, StartRunInv, SendInv, ReceiveInv, MarkOneInv, EndBatchInv, PullInv DEF ClientStep
<1>2. ASSUME NEW s \in Slots, ServerStep(s) \/ RecordFails(s) \/ CheckFails(s) PROVE Inv'
  BY <1>2, LoadInv, WholeBatchInv, AnswerInv, PassInv, ApplyInv, RecordInv DEF ServerStep
<1>3. ASSUME UNCHANGED vars PROVE Inv'
  BY <1>3, DeviceKept DEF vars
<1> QED BY <1>1, <1>2, <1>3, WorkInv, ByHandInv, GiveUpInv, RestartInv, OnlineInv, RulingInv DEF Next

\* No order of lost answers, overlapping runs, restarts, closed tabs and
\* rulings makes a device show work as synced that nobody kept.
THEOREM SyncedSettled == Spec => []SyncedIsSettled
<1>1. Init => Inv
  BY InitInv
<1>2. Inv /\ [Next]_vars => Inv'
  BY NextInv
<1>3. Inv => SyncedIsSettled
  BY DEF Inv, Honest, MarksHonest, Settled, SyncedIsSettled
<1> QED BY <1>1, <1>2, <1>3, PTL DEF Spec

-----------------------------------------------------------------------------
(* Sequences: what the filter of the queue returns                          *)

\* Every nonempty set of numbers has a least one: the form in which induction
\* is used below.
LEMMA LeastOfNat ==
    ASSUME NEW S, S \subseteq Nat, S # {}
    PROVE  \E m \in S : \A k \in S : m <= k
<1> DEFINE R == OpToRel(<, Nat)
<1>1. IsWellFoundedOn(R, Nat)
  BY NatLessThanWellFounded, Zenon
<1>2. R = {p \in Nat \X Nat : p[1] < p[2]}
  BY DEF OpToRel
<1> HIDE DEF R
<1>3. PICK x \in S : \A y \in S : ~(<<y, x>> \in R)
  BY <1>1, WFMin, Zenon
<1>4. \A y \in S : ~(y < x)
  BY <1>2, <1>3
<1> QED BY <1>4

\* The equation that defines the filter, up to an index.
KeptUpTo(seq, set, n, f) ==
    f = [i \in 0..n |-> IF i = 0 THEN <<>>
                        ELSE IF seq[i] \in set THEN Append(f[i - 1], seq[i]) ELSE f[i - 1]]

LEMMA KeptExists ==
    ASSUME NEW seq, NEW set, NEW n \in Nat PROVE \E f : KeptUpTo(seq, set, n, f)
<1> DEFINE Bad == {k \in Nat : ~\E f : KeptUpTo(seq, set, k, f)}
<1>1. ASSUME Bad # {} PROVE FALSE
  <2>1. PICK m \in Bad : \A k \in Bad : m <= k
    BY <1>1, LeastOfNat
  <2>2. CASE m = 0
    <3>1. KeptUpTo(seq, set, 0, [i \in 0..0 |-> <<>>])
      BY DEF KeptUpTo
    <3> QED BY <3>1, <2>1, <2>2
  <2>3. CASE m # 0
    <3>1. m - 1 \in Nat /\ m - 1 \notin Bad
      BY <2>1, <2>3
    <3>2. PICK f : KeptUpTo(seq, set, m - 1, f)
      BY <3>1
    <3> DEFINE next == IF seq[m] \in set THEN Append(f[m - 1], seq[m]) ELSE f[m - 1]
               g == [i \in 0..m |-> IF i = m THEN next ELSE f[i]]
    <3>3. ASSUME NEW i \in 0..m
          PROVE  g[i] = IF i = 0 THEN <<>>
                        ELSE IF seq[i] \in set THEN Append(g[i - 1], seq[i]) ELSE g[i - 1]
      <4>1. CASE i = m
        <5>1. g[i] = next /\ g[i - 1] = f[m - 1] /\ i # 0
          BY <4>1, <2>3, <3>1
        <5> QED BY <5>1, <4>1
      <4>2. CASE i # m
        <5>1. i \in 0..(m - 1) /\ g[i] = f[i] /\ (i # 0 => g[i - 1] = f[i - 1])
          BY <4>2, <3>1
        <5>2. f[i] = IF i = 0 THEN <<>>
                     ELSE IF seq[i] \in set THEN Append(f[i - 1], seq[i]) ELSE f[i - 1]
          BY <5>1, <3>2, Zenon DEF KeptUpTo
        <5> HIDE DEF g
        <5> QED BY <5>1, <5>2
      <4> QED BY <4>1, <4>2
    <3> HIDE DEF next
    <3>4. KeptUpTo(seq, set, m, g)
      BY <3>3 DEF KeptUpTo
    <3> QED BY <3>4, <2>1
  <2> QED BY <2>2, <2>3
<1> QED BY <1>1

LEMMA OnlyIsKept ==
    ASSUME NEW seq, NEW set, Len(seq) \in Nat
    PROVE  \E f : KeptUpTo(seq, set, Len(seq), f) /\ Only(seq, set) = f[Len(seq)]
<1> DEFINE kept[i \in 0..Len(seq)] ==
            IF i = 0 THEN <<>>
            ELSE IF seq[i] \in set THEN Append(kept[i - 1], seq[i]) ELSE kept[i - 1]
<1>1. Only(seq, set) = kept[Len(seq)]
  BY DEF Only
<1>2. KeptUpTo(seq, set, Len(seq), kept)
  <2>1. \E f : KeptUpTo(seq, set, Len(seq), f)
    BY KeptExists
  <2> QED BY <2>1, Zenon DEF KeptUpTo
<1> QED BY <1>1, <1>2

\* No element twice.
Distinct(seq) == \A i, j \in 1..Len(seq) : seq[i] = seq[j] => i = j

\* What is kept of the first n elements.
KeptWell(seq, set, T, n, s) ==
    /\ s \in Seq(T)
    /\ \A i \in 1..Len(s) : s[i] \in set /\ \E j \in 1..n : s[i] = seq[j]
    /\ Distinct(s)

\* The filter keeps elements of the sequence that are in the set, none twice
\* when the sequence holds none twice.
LEMMA OnlyKeeps ==
    ASSUME NEW T, NEW seq \in Seq(T), NEW set, Distinct(seq)
    PROVE  KeptWell(seq, set, T, Len(seq), Only(seq, set))
<1>1. PICK f : KeptUpTo(seq, set, Len(seq), f) /\ Only(seq, set) = f[Len(seq)]
  BY OnlyIsKept
<1>2. Len(seq) \in Nat /\ \A i \in 1..Len(seq) : seq[i] \in T
  OBVIOUS
<1>3. ASSUME NEW i \in 0..Len(seq)
      PROVE  f[i] = IF i = 0 THEN <<>>
                    ELSE IF seq[i] \in set THEN Append(f[i - 1], seq[i]) ELSE f[i - 1]
  BY <1>1, <1>3, Zenon DEF KeptUpTo
<1> DEFINE Bad == {k \in 0..Len(seq) : ~KeptWell(seq, set, T, k, f[k])}
<1>4. ASSUME Bad # {} PROVE FALSE
  <2> HIDE DEF Bad
  <2>0. Bad \subseteq Nat
    BY <1>2 DEF Bad
  <2>1. PICK m \in Bad : \A k \in Bad : m <= k
    BY <2>0, <1>4, LeastOfNat
  <2> USE DEF Bad
  <2>2. CASE m = 0
    <3>1. f[0] = <<>>
      BY <1>2, <1>3
    <3>2. Len(<<>>) = 0 /\ <<>> \in Seq(T)
      BY EmptySeq
    <3>3. KeptWell(seq, set, T, 0, <<>>)
      BY <3>2 DEF KeptWell, Distinct
    <3> QED BY <2>1, <2>2, <3>1, <3>3
  <2>3. CASE m # 0
    <3>1. /\ m - 1 \in 0..Len(seq) /\ m - 1 \notin Bad /\ m \in 1..Len(seq)
          /\ KeptWell(seq, set, T, m - 1, f[m - 1])
      BY <1>2, <2>1, <2>3
    <3>2. CASE seq[m] \notin set
      <4>1. f[m] = f[m - 1]
        BY <1>3, <2>3, <3>1, <3>2
      <4>2. KeptWell(seq, set, T, m, f[m])
        BY <3>1, <4>1 DEF KeptWell
      <4> QED BY <2>1, <4>2
    <3>3. CASE seq[m] \in set
      <4> DEFINE s == f[m - 1]
                 x == seq[m]
      <4>1. f[m] = Append(s, x)
        BY <1>3, <2>3, <3>1, <3>3
      <4>2. s \in Seq(T) /\ x \in T /\ x \in set
        BY <1>2, <3>1, <3>3 DEF KeptWell
      <4>3. /\ f[m] \in Seq(T) /\ Len(f[m]) = Len(s) + 1
            /\ f[m][Len(s) + 1] = x /\ Len(s) \in Nat
            /\ \A i \in 1..Len(s) : f[m][i] = s[i]
        BY <4>1, <4>2, AppendProperties
      <4>4. /\ \A i \in 1..Len(s) : s[i] \in set /\ \E j \in 1..(m - 1) : s[i] = seq[j]
            /\ Distinct(s)
        BY <3>1 DEF KeptWell
      <4>5. \A i \in 1..Len(s) : s[i] # x
        BY <3>1, <4>4, <1>2 DEF Distinct
      <4> HIDE DEF s, x
      <4>6. \A i \in 1..Len(f[m]) : i \in 1..Len(s) \/ i = Len(s) + 1
        BY <4>3
      <4>7. \A i \in 1..Len(f[m]) : f[m][i] \in set /\ \E j \in 1..m : f[m][i] = seq[j]
        <5>1. ASSUME NEW i \in 1..Len(s)
              PROVE  f[m][i] \in set /\ \E j \in 1..m : f[m][i] = seq[j]
          <6>1. PICK j \in 1..(m - 1) : s[i] = seq[j]
            BY <4>4
          <6>2. j \in 1..m
            BY <3>1
          <6> QED BY <4>3, <4>4, <6>1, <6>2
        <5>2. f[m][Len(s) + 1] \in set /\ \E j \in 1..m : f[m][Len(s) + 1] = seq[j]
          BY <4>2, <4>3, <3>1 DEF x
        <5> QED BY <4>6, <5>1, <5>2
      <4>8. Distinct(f[m])
        BY <4>3, <4>4, <4>5, <4>6 DEF Distinct
      <4> QED BY <2>1, <4>3, <4>7, <4>8 DEF KeptWell
    <3> QED BY <3>2, <3>3
  <2> QED BY <2>2, <2>3
<1> QED BY <1>1, <1>2, <1>4

\* What a sequence without repetitions is left with when it is cut.
LEMMA DistinctCuts ==
    ASSUME NEW T, NEW seq \in Seq(T), Distinct(seq), seq # <<>>
    PROVE  /\ Head(seq) \in T /\ Tail(seq) \in Seq(T) /\ Distinct(Tail(seq))
           /\ Len(Tail(seq)) = Len(seq) - 1
           /\ \A i \in 1..Len(Tail(seq)) : Tail(seq)[i] = seq[i + 1]
           /\ \A i \in 1..Len(Tail(seq)) : Tail(seq)[i] # Head(seq)
           /\ Head(seq) = seq[1] /\ Len(seq) \in Nat \ {0}
<1>1. /\ Head(seq) \in T /\ Tail(seq) \in Seq(T) /\ Head(seq) = seq[1]
      /\ Len(Tail(seq)) = Len(seq) - 1 /\ Len(seq) \in Nat \ {0}
      /\ \A i \in 1..Len(Tail(seq)) : Tail(seq)[i] = seq[i + 1]
  BY HeadTailProperties, EmptySeq
<1>2. ASSUME NEW i \in 1..Len(Tail(seq)), NEW j \in 1..Len(Tail(seq)),
             Tail(seq)[i] = Tail(seq)[j]
      PROVE  i = j
  <2>1. seq[i + 1] = seq[j + 1] /\ i + 1 \in 1..Len(seq) /\ j + 1 \in 1..Len(seq)
    BY <1>1, <1>2
  <2> QED BY <2>1 DEF Distinct
<1>3. ASSUME NEW i \in 1..Len(Tail(seq)) PROVE Tail(seq)[i] # Head(seq)
  <2>1. Tail(seq)[i] = seq[i + 1] /\ i + 1 \in 1..Len(seq) /\ 1 \in 1..Len(seq) /\ i + 1 # 1
    BY <1>1
  <2> QED BY <1>1, <2>1 DEF Distinct
<1> QED BY <1>1, <1>2, <1>3 DEF Distinct

LEMMA DistinctSub ==
    ASSUME NEW T, NEW seq \in Seq(T), Distinct(seq), NEW m \in Nat \ {0}, NEW n \in Nat,
           n <= Len(seq), m <= n + 1
    PROVE  /\ SubSeq(seq, m, n) \in Seq(T) /\ Distinct(SubSeq(seq, m, n))
           /\ Len(SubSeq(seq, m, n)) = n - m + 1
<1>1. /\ SubSeq(seq, m, n) \in Seq(T) /\ Len(SubSeq(seq, m, n)) = n - m + 1
      /\ \A i \in 1..(n - m + 1) : SubSeq(seq, m, n)[i] = seq[m + i - 1]
  <2>1. Len(seq) \in Nat
    OBVIOUS
  <2> QED BY <2>1, SubSeqProperties
<1>2. \A i \in 1..(n - m + 1) : m + i - 1 \in 1..Len(seq)
  OBVIOUS
<1>3. ASSUME NEW i \in 1..(n - m + 1), NEW j \in 1..(n - m + 1), seq[m + i - 1] = seq[m + j - 1]
      PROVE  i = j
  <2>1. m + i - 1 = m + j - 1
    BY <1>2, <1>3 DEF Distinct
  <2> QED BY <2>1
<1> QED BY <1>1, <1>3 DEF Distinct

-----------------------------------------------------------------------------
(* Types *)

RunType == [pc : {"idle", "next", "waiting", "marking", "pulling"},
            rest : Seq(Changes), batch : Seq(Changes), verdict : [Changes -> Verdicts]]

SlotType == [pc : {"idle", "arriving", "look", "detect", "apply", "record", "answered"},
             client : Runs \cup {NoRun}, todo : Seq(Changes),
             seen : [Changes -> {"none", "applied", "conflict"}],
             verdict : [Changes -> Verdicts]]

LedgerType == [applied : BOOLEAN, conflict : Nat, closed : BOOLEAN]

\* A run has no change twice, and a request that is not answered has one left.
RunOk(x)  == x \in RunType /\ Distinct(x.rest) /\ Distinct(x.batch)
SlotOk(x) == /\ x \in SlotType /\ Distinct(x.todo)
             /\ x.pc \in {"arriving", "look", "detect", "apply", "record"} => x.todo # <<>>

\* The queue holds a change once and never an unused one: an identity that is
\* drawn is new to the queue.
QueueOk == /\ queue \in Seq(Changes) /\ Distinct(queue)
           /\ \A i \in 1..Len(queue) : mark[queue[i]] # "unused"
           /\ entry \in [Changes -> [kind : AllKinds, want : 0..Top]]
           /\ mark \in [Changes -> Marks]
RunsOk  == run \in [Runs -> RunType] /\ \A r \in Runs : RunOk(run[r])
SlotsOk == slot \in [Slots -> SlotType] /\ \A s \in Slots : SlotOk(slot[s])
BooksOk == /\ caseAt \in 0..Top /\ stale \subseteq Changes
           /\ ledger \in [Changes -> LedgerType] /\ ruling \subseteq Changes
           /\ faults \in 0..MaxFaults /\ rulings \in 0..MaxRulings
           /\ applied \in [Changes -> Nat] /\ excused \in [Changes -> Nat]

TypeInv == QueueOk /\ RunsOk /\ SlotsOk /\ BooksOk

LEMMA TypeInvIsEnough == TypeInv => TypeOK
<1> SUFFICES ASSUME TypeInv PROVE TypeOK
  OBVIOUS
<1>1. IsQueueOf(queue)
  BY DEF TypeInv, QueueOk, IsQueueOf, Distinct
<1> QED BY <1>1 DEF TypeInv, QueueOk, RunsOk, SlotsOk, BooksOk, TypeOK, RunType, SlotType,
             LedgerType

LEMMA EmptyOk == \A T : <<>> \in Seq(T) /\ Len(<<>>) = 0 /\ Distinct(<<>>)
BY EmptySeq DEF Distinct

LEMMA IdleOk == RunOk(IdleRun) /\ SlotOk(IdleSlot)
<1>1. IdleRun \in RunType /\ IdleSlot \in SlotType
  BY EmptyOk DEF IdleRun, IdleSlot, RunType, SlotType, Verdicts
<1> QED BY <1>1, EmptyOk DEF RunOk, SlotOk, IdleRun, IdleSlot

LEMMA InitType == Init => TypeInv
<1> SUFFICES ASSUME Init PROVE TypeInv
  OBVIOUS
<1>1. QueueOk
  BY EmptyOk, BoundsAssumption DEF Init, QueueOk, AllKinds, QueuedKinds, Marks
<1>2. RunsOk /\ SlotsOk
  BY IdleOk DEF Init, RunsOk, SlotsOk, RunOk, SlotOk
<1>3. BooksOk
  BY BoundsAssumption DEF Init, BooksOk, LedgerType
<1> QED BY <1>1, <1>2, <1>3 DEF TypeInv

LEMMA OvertakenOk == \A records : stale \subseteq Changes => Overtaken(records) \subseteq Changes
BY DEF Overtaken, Queued

\* A change is queued under an identity that was not in use.
LEMMA PushOk ==
    ASSUME QueueOk, NEW c \in Changes, NEW kind \in AllKinds, NEW want \in 0..Top,
           mark[c] = "unused", queue' = Append(queue, c),
           entry' = [entry EXCEPT ![c] = [kind |-> kind, want |-> want]],
           mark' = [mark EXCEPT ![c] = "pending"]
    PROVE  QueueOk'
<1>1. /\ queue' \in Seq(Changes) /\ Len(queue') = Len(queue) + 1 /\ Len(queue) \in Nat
      /\ \A i \in 1..Len(queue) : queue'[i] = queue[i]
      /\ queue'[Len(queue) + 1] = c
  BY AppendProperties DEF QueueOk
<1>2. \A i \in 1..Len(queue') : i \in 1..Len(queue) \/ i = Len(queue) + 1
  BY <1>1
<1>3. \A i \in 1..Len(queue) : queue[i] # c /\ queue[i] \in Changes
  BY DEF QueueOk
<1>4. Distinct(queue')
  BY <1>1, <1>2, <1>3 DEF QueueOk, Distinct
<1>5. mark' \in [Changes -> Marks] /\ \A d \in Changes : mark'[d] = "unused" => mark[d] = "unused"
                                   /\ mark'[c] = "pending"
  BY DEF QueueOk, Marks
<1>6. \A i \in 1..Len(queue') : mark'[queue'[i]] # "unused"
  <2>1. \A i \in 1..Len(queue) : mark'[queue'[i]] # "unused"
    BY <1>1, <1>3, <1>5 DEF QueueOk
  <2>2. mark'[queue'[Len(queue) + 1]] # "unused"
    BY <1>1, <1>5
  <2> QED BY <1>2, <2>1, <2>2
<1>7. entry' \in [Changes -> [kind : AllKinds, want : 0..Top]]
  BY DEF QueueOk
<1> QED BY <1>1, <1>4, <1>5, <1>6, <1>7 DEF QueueOk

LEMMA QueueStep == ASSUME TypeInv, [Next]_vars PROVE QueueOk'
<1> USE DEF TypeInv
<1>1. CASE UNCHANGED clientVars
  BY <1>1 DEF clientVars, QueueOk
<1>2. ASSUME NEW c \in Changes, Work(c) PROVE QueueOk'
  <2>1. PICK kind \in Kinds, want \in 0..Top : QueueChange(c, kind, want)
    BY <1>2 DEF Work
  <2>2. kind \in AllKinds
    BY KindsAssumption DEF AllKinds
  <2> QED BY <2>1, <2>2, PushOk DEF QueueChange
<1>3. ASSUME NEW r \in Runs, Pull(r) PROVE QueueOk'
  <2>1. CASE UNCHANGED clientVars
    BY <2>1 DEF clientVars, QueueOk
  <2>2. ASSUME NEW c \in Changes, mark[c] = "unused", queue' = Append(queue, c),
               entry' = [entry EXCEPT ![c] = [kind |-> "copy", want |-> caseAt]],
               mark' = [mark EXCEPT ![c] = "pending"]
        PROVE  QueueOk'
    <3>1. "copy" \in AllKinds /\ caseAt \in 0..Top
      BY DEF AllKinds, BooksOk
    <3> QED BY <2>2, <3>1, PushOk
  <2> QED BY <1>3, <2>1, <2>2 DEF Pull
<1>4. ASSUME NEW r \in Runs, MarkOne(r) PROVE QueueOk'
  <2> DEFINE c == Head(run[r].batch)
             v == run[r].verdict[c]
  <2>1. /\ mark' = [mark EXCEPT ![c] =
                       IF v = "none" \/ mark[c] = "removed" THEN mark[c] ELSE MarkFor[v]]
        /\ queue' = queue /\ entry' = entry
    BY <1>4 DEF MarkOne
  <2>2. c \in Changes
    BY <1>4, DistinctCuts DEF MarkOne, RunsOk, RunOk, RunType
  <2>3. v \in Verdicts
    BY <2>2 DEF RunsOk, RunType
  <2>4. v # "none" => MarkFor[v] \in Marks \ {"unused"}
    BY <2>3 DEF MarkFor, Marks, Verdicts
  <2> HIDE DEF c, v
  <2>5. mark' \in [Changes -> Marks] /\ \A d \in Changes : mark'[d] = "unused" => mark[d] = "unused"
    BY <2>1, <2>2, <2>4 DEF QueueOk
  <2>6. \A i \in 1..Len(queue) : queue[i] \in Changes
    BY DEF QueueOk
  <2> QED BY <2>1, <2>5, <2>6 DEF QueueOk
<1>5. ASSUME NEW c \in Changes, Retry(c) \/ Remove(c) PROVE QueueOk'
  <2>1. /\ mark' \in [Changes -> Marks]
        /\ \A d \in Changes : mark'[d] = "unused" => mark[d] = "unused"
    BY <1>5, ByHandMark DEF QueueOk
  <2>2. queue' = queue /\ entry' = entry
    BY <1>5 DEF Retry, Remove
  <2>3. \A i \in 1..Len(queue) : queue[i] \in Changes
    BY DEF QueueOk
  <2> QED BY <2>1, <2>2, <2>3 DEF QueueOk
<1> QED BY <1>1, <1>2, <1>3, <1>4, <1>5 DEF Next, vars, ClientStep, ServerStep, StartRun, Send, Receive,
          EndBatch, StartPull, LoseAnswer, TimeOut, CloseTab, Load, Refuse, Skip, RejectTransition,
          PassLook, Clash, PassDetect, Apply, ApplyFails, Record, DropAnswer, RecordFails,
          CheckFails, Restart, MoveOnline, EditOnline, RuleForServer, RuleForClient, CloseForClient,
          clientVars

\* One run goes on.
LEMMA RunSet ==
    ASSUME RunsOk, NEW r \in Runs, NEW x, RunOk(x), run' = [run EXCEPT ![r] = x] PROVE RunsOk'
BY DEF RunsOk, RunOk

LEMMA RunsStep == ASSUME TypeInv, [Next]_vars PROVE RunsOk'
<1> USE DEF TypeInv
<1>1. CASE UNCHANGED run
  BY <1>1 DEF RunsOk, RunOk
<1>2. ASSUME NEW r \in Runs, StartRun(r) PROVE RunsOk'
  <2>1. Pending \in Seq(Changes) /\ Distinct(Pending)
    BY OnlyKeeps DEF Pending, QueueOk, KeptWell
  <2>2. RunOk([IdleRun EXCEPT !.pc = "next", !.rest = Pending])
    BY <2>1, EmptyOk DEF RunOk, RunType, IdleRun, Verdicts
  <2> QED BY <1>2, <2>2, RunSet DEF StartRun
<1>3. ASSUME NEW r \in Runs, NEW s \in Slots, Send(r, s) PROVE RunsOk'
  <2> DEFINE rest == run[r].rest
             n == Smaller(BatchSize, Len(rest))
  <2>1. rest \in Seq(Changes) /\ Distinct(rest) /\ rest # <<>>
    BY <1>3 DEF Send, RunsOk, RunOk, RunType
  <2>2. n \in Nat /\ n <= Len(rest) /\ Len(rest) \in Nat
    BY <2>1, BoundsAssumption DEF Smaller
  <2>3. run' = [run EXCEPT ![r] = [@ EXCEPT !.pc = "waiting", !.batch = SubSeq(rest, 1, n),
                           !.rest = SubSeq(rest, n + 1, Len(rest))]]
    BY <1>3 DEF Send
  <2> HIDE DEF n, rest
  <2>4. /\ SubSeq(rest, 1, n) \in Seq(Changes) /\ Distinct(SubSeq(rest, 1, n))
        /\ SubSeq(rest, n + 1, Len(rest)) \in Seq(Changes)
        /\ Distinct(SubSeq(rest, n + 1, Len(rest)))
    BY <2>1, <2>2, DistinctSub
  <2> DEFINE x == [run[r] EXCEPT !.pc = "waiting", !.batch = SubSeq(rest, 1, n),
                                 !.rest = SubSeq(rest, n + 1, Len(rest))]
  <2>5. RunOk(x)
    BY <2>4 DEF RunOk, RunType, RunsOk
  <2>6. run' = [run EXCEPT ![r] = x]
    BY <2>3 DEF RunsOk
  <2> QED BY <2>5, <2>6, RunSet
<1>4. ASSUME NEW r \in Runs, NEW pc \in {"marking"}, NEW v \in [Changes -> Verdicts],
             run' = [run EXCEPT ![r] = [@ EXCEPT !.pc = pc, !.verdict = v]]
      PROVE  RunsOk'
  <2>1. RunOk([run[r] EXCEPT !.pc = pc, !.verdict = v])
    BY DEF RunOk, RunType, RunsOk
  <2>2. run' = [run EXCEPT ![r] = [run[r] EXCEPT !.pc = pc, !.verdict = v]]
    BY <1>4 DEF RunsOk
  <2> QED BY <2>1, <2>2, RunSet
<1>5. ASSUME NEW r \in Runs, NEW s \in Slots, Receive(r, s) PROVE RunsOk'
  <2>1. slot[s].verdict \in [Changes -> Verdicts]
    BY DEF SlotsOk, SlotType
  <2> QED BY <1>4, <1>5, <2>1 DEF Receive
<1>6. ASSUME NEW r \in Runs, TimeOut(r) PROVE RunsOk'
  <2>1. ForAll(run[r].batch, "aborted") \in [Changes -> Verdicts]
    BY DEF ForAll, Verdicts
  <2> QED BY <1>4, <1>6, <2>1 DEF TimeOut
<1>7. ASSUME NEW r \in Runs PROVE RunOk([run[r] EXCEPT !.pc = "next", !.batch = <<>>])
  BY EmptyOk DEF RunOk, RunType, RunsOk
<1>8. ASSUME NEW r \in Runs, LoseAnswer(r) PROVE RunsOk'
  <2>1. run' = [run EXCEPT ![r] = [run[r] EXCEPT !.pc = "next", !.batch = <<>>]]
    BY <1>8 DEF LoseAnswer, RunsOk
  <2> QED BY <1>7, <2>1, RunSet
<1>9. CASE Restart
  <2>1. run' = [r \in Runs |-> IF run[r].pc = "waiting"
                 THEN [run[r] EXCEPT !.pc = "next", !.batch = <<>>] ELSE run[r]]
    BY <1>9 DEF Restart
  <2>2. \A r \in Runs : RunOk(run'[r])
    BY <1>7, <2>1 DEF RunsOk
  <2> QED BY <2>1, <2>2 DEF RunsOk, RunOk
<1>10. ASSUME NEW r \in Runs, MarkOne(r) PROVE RunsOk'
  <2>1. run[r].batch \in Seq(Changes) /\ Distinct(run[r].batch) /\ run[r].batch # <<>>
    BY <1>10 DEF MarkOne, RunsOk, RunOk, RunType
  <2>2. Tail(run[r].batch) \in Seq(Changes) /\ Distinct(Tail(run[r].batch))
    BY <2>1, DistinctCuts
  <2>3. RunOk([run[r] EXCEPT !.batch = Tail(run[r].batch)])
    BY <2>2 DEF RunOk, RunType, RunsOk
  <2>4. run' = [run EXCEPT ![r] = [run[r] EXCEPT !.batch = Tail(run[r].batch)]]
    BY <1>10 DEF MarkOne, RunsOk
  <2> QED BY <2>3, <2>4, RunSet
<1>11. ASSUME NEW r \in Runs, EndBatch(r) PROVE RunsOk'
  <2>1. PICK pc \in {"pulling", "next"} :
          run' = [run EXCEPT ![r] = [IdleRun EXCEPT !.pc = pc, !.rest = run[r].rest]]
    BY <1>11 DEF EndBatch
  <2>2. RunOk([IdleRun EXCEPT !.pc = pc, !.rest = run[r].rest])
    BY EmptyOk DEF RunOk, RunType, RunsOk, IdleRun, Verdicts
  <2> QED BY <2>1, <2>2, RunSet
<1>12. ASSUME NEW r \in Runs, StartPull(r) PROVE RunsOk'
  <2>1. RunOk([run[r] EXCEPT !.pc = "pulling"])
    BY DEF RunOk, RunType, RunsOk
  <2>2. run' = [run EXCEPT ![r] = [run[r] EXCEPT !.pc = "pulling"]]
    BY <1>12 DEF StartPull, RunsOk
  <2> QED BY <2>1, <2>2, RunSet
<1>13. ASSUME NEW r \in Runs, Pull(r) \/ CloseTab(r) PROVE RunsOk'
  BY <1>13, IdleOk, RunSet DEF Pull, CloseTab
<1>14. ASSUME Next PROVE RunsOk'
  BY <1>14, <1>1, <1>2, <1>3, <1>5, <1>6, <1>8, <1>9, <1>10, <1>11, <1>12, <1>13
     DEF Next, ClientStep, ServerStep, Work, QueueChange, Load, Refuse, Skip, RejectTransition,
         PassLook, Clash, PassDetect, Apply, ApplyFails, Record, DropAnswer, RecordFails,
         CheckFails, Retry, Remove, MoveOnline, EditOnline, RuleForServer, RuleForClient, CloseForClient
<1> QED BY <1>1, <1>14 DEF vars

LEMMA SlotSet ==
    ASSUME SlotsOk, NEW s \in Slots, NEW x, SlotOk(x), slot' = [slot EXCEPT ![s] = x]
    PROVE  SlotsOk'
BY DEF SlotsOk, SlotOk

\* What is in hand before and after a change is answered.
LEMMA AnsweringOk ==
    ASSUME SlotsOk, NEW s \in Slots, NEW v \in Verdicts,
           slot[s].pc \in {"look", "detect", "apply", "record"}, slot' = Answering(s, v)
    PROVE  SlotsOk'
<1> DEFINE c == Head(slot[s].todo)
           rest == Tail(slot[s].todo)
           w == [slot[s].verdict EXCEPT ![c] = v]
           u == [slot[s].seen EXCEPT ![c] = "none"]
           pc == IF rest = <<>> THEN "answered" ELSE "look"
           x == [slot[s] EXCEPT !.verdict = w, !.seen = u, !.todo = rest, !.pc = pc]
<1>1. slot[s].todo \in Seq(Changes) /\ Distinct(slot[s].todo) /\ slot[s].todo # <<>>
  BY DEF SlotsOk, SlotOk, SlotType
<1>2. rest \in Seq(Changes) /\ Distinct(rest)
  BY <1>1, DistinctCuts
<1>3. w \in [Changes -> Verdicts] /\ u \in [Changes -> {"none", "applied", "conflict"}]
  BY DEF SlotsOk, SlotType
<1>4. slot' = [slot EXCEPT ![s] = x]
  BY DEF Answering, SlotsOk, SlotType
<1> HIDE DEF rest, w, u
<1>5. pc \in {"answered", "look"} /\ (pc = "look" => rest # <<>>)
  OBVIOUS
<1> HIDE DEF pc
<1>6. SlotOk(x)
  BY <1>2, <1>3, <1>5 DEF SlotOk, SlotType, SlotsOk
<1> QED BY <1>4, <1>6, SlotSet

LEMMA OrphanedOk == ASSUME SlotsOk, NEW r \in Runs, slot' = Orphaned(r) PROVE SlotsOk'
<1>1. ASSUME NEW s \in Slots PROVE SlotOk(slot'[s])
  <2>1. slot'[s] \in {slot[s], IdleSlot, [slot[s] EXCEPT !.client = NoRun]}
    BY DEF Orphaned
  <2>2. SlotOk([slot[s] EXCEPT !.client = NoRun])
    BY DEF SlotOk, SlotType, SlotsOk
  <2> QED BY <2>1, <2>2, IdleOk DEF SlotsOk
<1>2. slot' = [s \in Slots |-> slot'[s]]
  BY DEF Orphaned
<1> QED BY <1>1, <1>2 DEF SlotsOk, SlotOk

\* A request goes on with what it has in hand.
LEMMA SlotGoesOk ==
    ASSUME SlotsOk, NEW s \in Slots, NEW pc \in {"look", "detect", "apply", "record"},
           slot[s].pc \in {"arriving", "look", "detect", "apply", "record"},
           slot' = [slot EXCEPT ![s].pc = pc]
    PROVE  SlotsOk'
<1>1. SlotOk([slot[s] EXCEPT !.pc = pc])
  BY DEF SlotOk, SlotType, SlotsOk
<1>2. slot' = [slot EXCEPT ![s] = [slot[s] EXCEPT !.pc = pc]]
  BY DEF SlotsOk
<1> QED BY <1>1, <1>2, SlotSet

LEMMA SlotsStep == ASSUME TypeInv, [Next]_vars PROVE SlotsOk'
<1> USE DEF TypeInv
<1>1. CASE UNCHANGED slot
  BY <1>1 DEF SlotsOk, SlotOk
<1>2. ASSUME NEW r \in Runs, NEW s \in Slots, Send(r, s) PROVE SlotsOk'
  <2> DEFINE rest == run[r].rest
             n == Smaller(BatchSize, Len(rest))
  <2>1. rest \in Seq(Changes) /\ Distinct(rest) /\ rest # <<>>
    BY <1>2 DEF Send, RunsOk, RunOk, RunType
  <2>2. n \in Nat \ {0} /\ n <= Len(rest)
    BY <2>1, BoundsAssumption, EmptySeq DEF Smaller
  <2>3. slot' = [slot EXCEPT ![s] = [IdleSlot EXCEPT !.pc = "arriving", !.client = r,
                                                     !.todo = SubSeq(rest, 1, n)]]
    BY <1>2 DEF Send
  <2> HIDE DEF n, rest
  <2>4. /\ SubSeq(rest, 1, n) \in Seq(Changes) /\ Distinct(SubSeq(rest, 1, n))
        /\ Len(SubSeq(rest, 1, n)) = n
    BY <2>1, <2>2, DistinctSub
  <2>5. SubSeq(rest, 1, n) # <<>>
    BY <2>2, <2>4, EmptyOk
  <2>6. SlotOk([IdleSlot EXCEPT !.pc = "arriving", !.client = r, !.todo = SubSeq(rest, 1, n)])
    BY <2>4, <2>5 DEF SlotOk, SlotType, IdleSlot, Verdicts
  <2> QED BY <2>3, <2>6, SlotSet
<1>3. ASSUME NEW s \in Slots, slot' = [slot EXCEPT ![s] = IdleSlot] PROVE SlotsOk'
  BY <1>3, IdleOk, SlotSet
<1>4. ASSUME NEW r \in Runs, LoseAnswer(r) \/ TimeOut(r) \/ CloseTab(r) PROVE SlotsOk'
  BY <1>3, <1>4, OrphanedOk DEF LoseAnswer, TimeOut, CloseTab
<1>5. ASSUME NEW s \in Slots, Refuse(s) PROVE SlotsOk'
  <2> DEFINE v == ForAll(slot[s].todo, "failed")
             x == [slot[s] EXCEPT !.pc = "answered", !.verdict = v, !.todo = <<>>]
  <2>1. v \in [Changes -> Verdicts]
    BY DEF ForAll, Verdicts
  <2>2. slot' = [slot EXCEPT ![s] = x]
    BY <1>5 DEF Refuse, SlotsOk
  <2> HIDE DEF v
  <2>3. SlotOk(x)
    BY <2>1, EmptyOk DEF SlotOk, SlotType, SlotsOk
  <2> QED BY <2>2, <2>3, SlotSet
<1>6. ASSUME NEW s \in Slots, Load(s) PROVE SlotsOk'
  <2>1. PICK seen \in [InHand(s) -> {"none", "applied", "conflict"}] :
          slot' = [slot EXCEPT ![s] = [@ EXCEPT !.pc = "look",
             !.seen = [c \in Changes |-> IF c \in InHand(s) THEN seen[c] ELSE "none"]]]
    BY <1>6 DEF Load
  <2> DEFINE found == [c \in Changes |-> IF c \in InHand(s) THEN seen[c] ELSE "none"]
             x == [slot[s] EXCEPT !.pc = "look", !.seen = found]
  <2>2. found \in [Changes -> {"none", "applied", "conflict"}]
    OBVIOUS
  <2>3. slot' = [slot EXCEPT ![s] = x]
    BY <2>1 DEF SlotsOk
  <2> HIDE DEF found
  <2>4. slot[s] \in SlotType /\ Distinct(slot[s].todo) /\ slot[s].todo # <<>>
    BY <1>6 DEF Load, SlotOk, SlotsOk
  <2>5. x \in SlotType /\ x.todo = slot[s].todo
    BY <2>2, <2>4 DEF SlotType
  <2> HIDE DEF x
  <2>6. SlotOk(x)
    BY <2>4, <2>5 DEF SlotOk
  <2> QED BY <2>3, <2>6, SlotSet
<1>7. ASSUME NEW s \in Slots,
             Skip(s) \/ RejectTransition(s) \/ Clash(s) \/ ApplyFails(s) \/ Record(s) \/ RecordFails(s)
      PROVE  SlotsOk'
  <2>1. PICK v \in {"applied", "conflict", "failed"} : slot' = Answering(s, v)
    BY <1>7 DEF Skip, RejectTransition, Clash, ApplyFails, Record, RecordFails
  <2>2. slot[s].pc \in {"look", "detect", "apply", "record"} /\ v \in Verdicts
    BY <1>7 DEF Skip, RejectTransition, Clash, ApplyFails, Record, RecordFails, Verdicts
  <2> QED BY <2>1, <2>2, AnsweringOk
<1>8. ASSUME NEW s \in Slots, PassLook(s) \/ PassDetect(s) \/ CheckFails(s) \/ Apply(s)
      PROVE  SlotsOk'
  <2>1. PICK pc \in {"look", "detect", "apply", "record"} : slot' = [slot EXCEPT ![s].pc = pc]
    BY <1>8 DEF PassLook, PassDetect, CheckFails, Apply
  <2> QED BY <1>8, <2>1, SlotGoesOk DEF PassLook, PassDetect, CheckFails, Apply
<1>9. CASE Restart
  BY <1>9, IdleOk DEF Restart, SlotsOk, SlotOk
<1>10. ASSUME Next PROVE SlotsOk'
  BY <1>10, <1>1, <1>2, <1>3, <1>4, <1>5, <1>6, <1>7, <1>8, <1>9
     DEF Next, ClientStep, ServerStep, Work, QueueChange, StartRun, Receive, MarkOne, EndBatch,
         Pull, StartPull, Retry, Remove, DropAnswer, MoveOnline, EditOnline, RuleForServer,
         RuleForClient, CloseForClient
<1> QED BY <1>1, <1>10 DEF vars

\* What a request is at work on is a queued change.
LEMMA HandOk ==
    ASSUME SlotsOk, NEW s \in Slots,
           slot[s].pc \in {"arriving", "look", "detect", "apply", "record"}
    PROVE  Head(slot[s].todo) \in Changes /\ Head(slot[s].todo) \in InHand(s)
<1>1. slot[s].todo \in Seq(Changes) /\ Distinct(slot[s].todo) /\ slot[s].todo # <<>>
  BY DEF SlotsOk, SlotOk, SlotType
<1> QED BY <1>1, DistinctCuts DEF InHand

LEMMA BooksStep == ASSUME TypeInv, [Next]_vars PROVE BooksOk'
<1> USE DEF TypeInv
<1>1. CASE UNCHANGED <<recordVars, ledger, ruling, faults, rulings, historyVars>>
  BY <1>1 DEF BooksOk, recordVars, historyVars
<1>2. CASE /\ UNCHANGED <<recordVars, ledger, ruling, rulings, historyVars>>
           /\ faults < MaxFaults /\ faults' = faults + 1
  BY <1>2, BoundsAssumption DEF BooksOk, recordVars, historyVars
<1>3. ASSUME NEW s \in Slots, Load(s) PROVE BooksOk'
  <2>1. PICK seen : excused' = [c \in Changes |->
               IF c \in InHand(s) /\ LooksBlind(s, c, seen[c]) THEN excused[c] + 1 ELSE excused[c]]
    BY <1>3 DEF Load
  <2>2. excused' \in [Changes -> Nat]
    BY <2>1 DEF BooksOk
  <2> QED BY <1>3, <2>2 DEF Load, BooksOk, recordVars
<1>4. ASSUME NEW s \in Slots, Clash(s) \/ Record(s) PROVE BooksOk'
  <2> DEFINE c == Head(slot[s].todo)
  <2>1. c \in Changes
    BY <1>4, HandOk DEF Clash, Record
  <2>2. ledger[c] \in LedgerType /\ ledger[c].conflict + 1 \in Nat
    BY <2>1 DEF BooksOk, LedgerType
  <2> HIDE DEF c
  <2>3. [ledger EXCEPT ![c].conflict = @ + 1] \in [Changes -> LedgerType]
    BY <2>1, <2>2 DEF BooksOk, LedgerType
  <2>4. [ledger EXCEPT ![c].applied = TRUE] \in [Changes -> LedgerType]
    BY <2>1 DEF BooksOk, LedgerType
  <2>5. ledger' \in [Changes -> LedgerType]
    BY <1>4, <2>3, <2>4 DEF Clash, Record, c
  <2> QED BY <1>4, <2>5 DEF Clash, Record, BooksOk, recordVars, historyVars
<1>5. ASSUME NEW s \in Slots, PassDetect(s) PROVE BooksOk'
  <2>1. stale' \subseteq Changes
    BY <1>5, OvertakenOk DEF PassDetect, BooksOk
  <2> QED BY <1>5, <2>1 DEF PassDetect, BooksOk, historyVars
<1>6. ASSUME NEW c \in Changes, Write(c) PROVE caseAt' \in 0..Top /\ stale' \subseteq Changes
  <2>1. stale' \subseteq Changes
    BY <1>6, OvertakenOk DEF Write, BooksOk
  <2>2. entry[c].want \in 0..Top
    BY DEF QueueOk
  <2>3. caseAt' = entry[c].want \/ caseAt' = caseAt
    BY <1>6 DEF Write
  <2> QED BY <2>1, <2>2, <2>3 DEF BooksOk
<1>7. ASSUME NEW s \in Slots, Apply(s) PROVE BooksOk'
  <2> DEFINE c == Head(slot[s].todo)
  <2>1. c \in Changes
    BY <1>7, HandOk DEF Apply
  <2>2. applied' = [applied EXCEPT ![c] = @ + 1] /\ Write(c)
    BY <1>7 DEF Apply
  <2> HIDE DEF c
  <2>3. applied' \in [Changes -> Nat]
    BY <2>1, <2>2 DEF BooksOk
  <2>4. caseAt' \in 0..Top /\ stale' \subseteq Changes
    BY <1>6, <2>1, <2>2
  <2> QED BY <1>7, <2>3, <2>4 DEF Apply, BooksOk
<1>8. ASSUME NEW s \in Slots, RecordFails(s) PROVE BooksOk'
  <2> DEFINE c == Head(slot[s].todo)
  <2>0. excused' = [excused EXCEPT ![c] = @ + 1] /\ faults' = faults + 1 /\ faults < MaxFaults
    BY <1>8 DEF RecordFails
  <2>3. c \in Changes
    BY <1>8, HandOk DEF RecordFails
  <2> HIDE DEF c
  <2>1. excused' \in [Changes -> Nat]
    BY <2>0, <2>3 DEF BooksOk
  <2>2. faults' \in 0..MaxFaults
    BY <2>0, BoundsAssumption DEF BooksOk
  <2> QED BY <1>8, <2>1, <2>2 DEF RecordFails, BooksOk, recordVars
<1>9. ASSUME Restart PROVE BooksOk'
  <2>1. \A c \in Changes : {s \in Slots : slot[s].pc = "record" /\ Head(slot[s].todo) = c} \in SUBSET Slots
    OBVIOUS
  <2>2. \A c \in Changes :
          Cardinality({s \in Slots : slot[s].pc = "record" /\ Head(slot[s].todo) = c}) \in Nat
    BY <2>1, SlotsAssumption, FS_Subset, FS_CardinalityType
  <2>3. excused' = [c \in Changes |->
          excused[c] + Cardinality({s \in Slots : slot[s].pc = "record" /\ Head(slot[s].todo) = c})]
    BY <1>9 DEF Restart
  <2>4. excused' \in [Changes -> Nat]
    BY <2>2, <2>3 DEF BooksOk
  <2>5. faults' \in 0..MaxFaults
    <3>1. faults' = faults + 1 /\ faults < MaxFaults
      BY <1>9 DEF Restart
    <3> QED BY <3>1, BoundsAssumption DEF BooksOk
  <2> QED BY <1>9, <2>4, <2>5 DEF Restart, BooksOk, recordVars
<1>10. CASE MoveOnline
  <2>1. caseAt' \in 0..Top /\ stale' \subseteq Changes
    BY <1>10, OvertakenOk, BoundsAssumption DEF MoveOnline, BooksOk
  <2> QED BY <1>10, <2>1 DEF MoveOnline, BooksOk, historyVars
<1>11. ASSUME NEW record, EditOnline(record) PROVE BooksOk'
  <2>1. stale' \subseteq Changes
    BY <1>11, OvertakenOk DEF EditOnline, BooksOk
  <2> QED BY <1>11, <2>1 DEF EditOnline, BooksOk, historyVars
<1>12. ASSUME NEW c \in Changes, Close(c) PROVE ledger' \in [Changes -> LedgerType]
  <2> DEFINE less == IF ledger[c].conflict > 0 THEN ledger[c].conflict - 1 ELSE 0
  <2>1. less \in Nat
    BY DEF BooksOk, LedgerType
  <2>2. ledger' = [ledger EXCEPT ![c] = [@ EXCEPT !.applied = TRUE, !.closed = TRUE,
                                                  !.conflict = less]]
    BY <1>12 DEF Close, BooksOk
  <2> HIDE DEF less
  <2> QED BY <2>1, <2>2 DEF BooksOk, LedgerType
<1>13. ASSUME NEW c \in Changes, RuleForServer(c) \/ RuleForClient(c) \/ CloseForClient(c)
       PROVE  BooksOk'
  <2>1. CASE RuleForServer(c)
    BY <1>12, <2>1, BoundsAssumption DEF RuleForServer, BooksOk, recordVars, historyVars
  <2>2. CASE RuleForClient(c)
    BY <1>6, <2>2, BoundsAssumption DEF RuleForClient, BooksOk, historyVars
  <2>3. CASE CloseForClient(c)
    BY <1>12, <2>3 DEF CloseForClient, BooksOk, recordVars, historyVars
  <2> QED BY <1>13, <2>1, <2>2, <2>3
<1>14. ASSUME NEW r \in Runs, ClientStep(r) \/ StartPull(r) \/ LoseAnswer(r) \/ TimeOut(r) \/ CloseTab(r)
       PROVE  BooksOk'
  BY <1>1, <1>2, <1>14 DEF ClientStep, StartRun, MarkOne, EndBatch, Pull, Send, Receive,
     StartPull, LoseAnswer, TimeOut, CloseTab
<1>15. ASSUME NEW s \in Slots, ServerStep(s) PROVE BooksOk'
  BY <1>1, <1>3, <1>4, <1>5, <1>7, <1>15 DEF ServerStep, Refuse, Skip, RejectTransition, PassLook,
     ApplyFails, DropAnswer
<1>16. ASSUME NEW c \in Changes, Work(c) PROVE BooksOk'
  <2>1. PICK kind, want : QueueChange(c, kind, want)
    BY <1>16 DEF Work
  <2> QED BY <1>1, <2>1 DEF QueueChange
<1>17. CASE UNCHANGED vars
  BY <1>1, <1>17 DEF vars, recordVars, historyVars
<1>18. ASSUME NEW s \in Slots, CheckFails(s) PROVE BooksOk'
  BY <1>2, <1>18 DEF CheckFails
<1>19. ASSUME NEW c \in Changes, Retry(c) \/ Remove(c) PROVE BooksOk'
  <2>1. UNCHANGED <<recordVars, ledger, ruling, rulings, historyVars>>
        /\ faults < MaxFaults /\ faults' = faults + 1
    BY <1>19 DEF Retry, Remove
  <2> QED BY <2>1, BoundsAssumption DEF BooksOk, recordVars, historyVars
<1>20. ASSUME Next PROVE BooksOk'
  BY <1>20, <1>8, <1>9, <1>10, <1>11, <1>13, <1>14, <1>15, <1>16, <1>18, <1>19 DEF Next
<1> QED BY <1>17, <1>20

LEMMA NextType == ASSUME TypeInv, [Next]_vars PROVE TypeInv'
BY QueueStep, RunsStep, SlotsStep, BooksStep DEF TypeInv

LEMMA TypeAlways == Spec => []TypeInv
<1>1. Init => TypeInv
  BY InitType
<1>2. TypeInv /\ [Next]_vars => TypeInv'
  BY NextType
<1> QED BY <1>1, <1>2, PTL DEF Spec

\* The queue holds a change once, and what a run sends and a request works on
\* are changes of the queue, whatever is lost, closed, restarted or overlaps.
THEOREM TypeCorrect == Spec => []TypeOK
<1>1. TypeInv => TypeOK
  BY TypeInvIsEnough
<1> QED BY <1>1, TypeAlways, PTL

-----------------------------------------------------------------------------
(* Conflicts reach the coordinators *)

\* On the coordinators' list, or a status change, whose row is filed elsewhere.
OnList(c) == Listed(c) \/ entry[c].kind = "transition"

\* Who says "conflict", and is right.  An identity not in use is no status
\* change yet, so that becoming one cannot take a change off the list.
Surfaced ==
    /\ \A c \in Changes : mark[c] = "unused" => entry[c].kind # "transition"
    /\ \A c \in Changes : mark[c] = "conflict" => OnList(c)
    /\ \A r \in Runs, c \in Changes : run[r].verdict[c] = "conflict" => OnList(c)
    /\ \A s \in Slots, c \in Changes : slot[s].verdict[c] = "conflict" => OnList(c)

LEMMA InitSurfaced == Init => Surfaced
BY DEF Init, Surfaced, IdleRun, IdleSlot

\* Once listed, a change stays listed or is decided: no row is taken back.
LEMMA ListedStays ==
    ASSUME TypeInv, [Next]_vars, NEW c \in Changes, Listed(c) PROVE Listed(c)'
<1> USE DEF TypeInv
<1>1. CASE UNCHANGED ledger
  BY <1>1 DEF Listed
<1>2. ASSUME NEW s \in Slots, Clash(s) \/ Record(s) PROVE Listed(c)'
  <2> DEFINE d == Head(slot[s].todo)
  <2>1. d \in Changes
    BY <1>2, HandOk DEF Clash, Record
  <2>2. \/ ledger' = [ledger EXCEPT ![d].conflict = @ + 1]
        \/ ledger' = [ledger EXCEPT ![d].applied = TRUE]
    BY <1>2 DEF Clash, Record
  <2>3. ledger[d].conflict \in Nat
    BY <2>1 DEF BooksOk, LedgerType
  <2> HIDE DEF d
  <2>4. ledger'[c].closed = ledger[c].closed
        /\ (ledger'[c].conflict = ledger[c].conflict
              \/ (c = d /\ ledger'[c].conflict = ledger[c].conflict + 1))
    BY <2>1, <2>2 DEF BooksOk, LedgerType
  <2> QED BY <2>3, <2>4 DEF Listed
<1>3. ASSUME NEW d \in Changes, Close(d) PROVE Listed(c)'
  <2>1. ledger'[c] = ledger[c] \/ ledger'[c].closed
    BY <1>3 DEF Close, BooksOk, LedgerType
  <2> QED BY <2>1 DEF Listed
<1>4. CASE Next
  BY <1>4, <1>1, <1>2, <1>3 DEF Next, ClientStep, ServerStep, Work, QueueChange, StartRun, Send,
     Receive, MarkOne, EndBatch, Pull, StartPull, LoseAnswer, TimeOut, CloseTab, Load, Refuse, Skip,
     RejectTransition, PassLook, PassDetect, Apply, ApplyFails, DropAnswer, RecordFails, CheckFails,
     Retry, Remove, Restart, MoveOnline, EditOnline, RuleForServer, RuleForClient, CloseForClient
<1> QED BY <1>1, <1>4 DEF vars

\* An entry changes only when its identity is drawn, and the mark with it.
LEMMA EntryStep ==
    ASSUME TypeInv, [Next]_vars, NEW c \in Changes
    PROVE  \/ entry'[c] = entry[c] /\ (mark'[c] = "unused" => mark[c] = "unused")
           \/ mark[c] = "unused" /\ mark'[c] = "pending"
<1> USE DEF TypeInv
<1>1. CASE UNCHANGED clientVars
  BY <1>1 DEF clientVars
<1>2. ASSUME NEW d \in Changes, NEW e, mark[d] = "unused", entry' = [entry EXCEPT ![d] = e],
             mark' = [mark EXCEPT ![d] = "pending"]
      PROVE  \/ entry'[c] = entry[c] /\ (mark'[c] = "unused" => mark[c] = "unused")
             \/ mark[c] = "unused" /\ mark'[c] = "pending"
  BY <1>2 DEF QueueOk
<1>3. ASSUME NEW r \in Runs, MarkOne(r)
      PROVE  entry'[c] = entry[c] /\ (mark'[c] = "unused" => mark[c] = "unused")
  <2> DEFINE d == Head(run[r].batch)
             v == run[r].verdict[d]
  <2>1. d \in Changes
    BY <1>3, DistinctCuts DEF MarkOne, RunsOk, RunOk, RunType
  <2>2. v \in Verdicts
    BY <2>1 DEF RunsOk, RunType
  <2>3. v # "none" => MarkFor[v] # "unused"
    BY <2>2 DEF MarkFor, Verdicts
  <2>4. /\ entry' = entry
        /\ mark' = [mark EXCEPT ![d] =
                       IF v = "none" \/ mark[d] = "removed" THEN mark[d] ELSE MarkFor[v]]
    BY <1>3 DEF MarkOne
  <2> HIDE DEF d, v
  <2> QED BY <2>1, <2>3, <2>4 DEF QueueOk
<1>4. ASSUME NEW r \in Runs, Pull(r)
      PROVE  \/ entry'[c] = entry[c] /\ (mark'[c] = "unused" => mark[c] = "unused")
             \/ mark[c] = "unused" /\ mark'[c] = "pending"
  BY <1>1, <1>2, <1>4 DEF Pull
<1>5. ASSUME NEW d \in Changes, Work(d)
      PROVE  \/ entry'[c] = entry[c] /\ (mark'[c] = "unused" => mark[c] = "unused")
             \/ mark[c] = "unused" /\ mark'[c] = "pending"
  BY <1>2, <1>5 DEF Work, QueueChange
<1>6. ASSUME NEW d \in Changes, Retry(d) \/ Remove(d)
      PROVE  entry'[c] = entry[c] /\ (mark'[c] = "unused" => mark[c] = "unused")
  <2>1. mark'[c] = mark[c] \/ mark'[c] \in {"pending", "removed"}
    BY <1>6, ByHandMark DEF QueueOk
  <2> QED BY <1>6, <2>1 DEF Retry, Remove
<1>7. CASE Next
  BY <1>7, <1>1, <1>3, <1>4, <1>5, <1>6 DEF Next, ClientStep, ServerStep, StartRun, Send, Receive,
     EndBatch, StartPull, LoseAnswer, TimeOut, CloseTab, Load, Refuse, Skip, RejectTransition,
     PassLook, Clash, PassDetect, Apply, ApplyFails, Record, DropAnswer, RecordFails, CheckFails,
     Restart, MoveOnline, EditOnline, RuleForServer, RuleForClient, CloseForClient
<1> QED BY <1>1, <1>7 DEF vars, clientVars

LEMMA OnListStays ==
    ASSUME TypeInv, Surfaced, [Next]_vars, NEW c \in Changes, OnList(c) PROVE OnList(c)'
<1>1. CASE Listed(c)
  BY <1>1, ListedStays DEF OnList
<1>2. CASE entry[c].kind = "transition"
  <2>1. mark[c] # "unused"
    BY <1>2 DEF Surfaced
  <2>2. entry'[c] = entry[c]
    BY <2>1, EntryStep
  <2> QED BY <1>2, <2>2 DEF OnList
<1> QED BY <1>1, <1>2 DEF OnList

\* The queue says "conflict" when a run was told so, a run when it was answered
\* so, and an answer when the change has just been put on the list.
LEMMA MarkSaysConflict ==
    ASSUME TypeInv, [Next]_vars, NEW c \in Changes, mark'[c] = "conflict"
    PROVE  mark[c] = "conflict" \/ \E r \in Runs : run[r].verdict[c] = "conflict"
<1> USE DEF TypeInv
<1>1. CASE UNCHANGED clientVars
  BY <1>1 DEF clientVars
<1>2. ASSUME NEW d \in Changes, mark' = [mark EXCEPT ![d] = "pending"]
      PROVE  mark[c] = "conflict"
  BY <1>2 DEF QueueOk
<1>3. ASSUME NEW r \in Runs, MarkOne(r)
      PROVE  mark[c] = "conflict" \/ run[r].verdict[c] = "conflict"
  <2> DEFINE d == Head(run[r].batch)
             v == run[r].verdict[d]
  <2>1. d \in Changes
    BY <1>3, DistinctCuts DEF MarkOne, RunsOk, RunOk, RunType
  <2>2. v \in Verdicts
    BY <2>1 DEF RunsOk, RunType
  <2>3. v # "none" /\ MarkFor[v] = "conflict" => v = "conflict"
    BY <2>2 DEF MarkFor, Verdicts
  <2>4. mark' = [mark EXCEPT ![d] =
                   IF v = "none" \/ mark[d] = "removed" THEN mark[d] ELSE MarkFor[v]]
    BY <1>3 DEF MarkOne
  <2>5. c = d => v = run[r].verdict[c]
    OBVIOUS
  <2> HIDE DEF d, v
  <2> QED BY <2>1, <2>3, <2>4, <2>5 DEF QueueOk
<1>4. ASSUME NEW d \in Changes, Retry(d) \/ Remove(d) PROVE mark[c] = "conflict"
  BY <1>4, ByHandMark DEF QueueOk
<1>5. CASE Next
  BY ZenonT(60), <1>5, <1>1, <1>2, <1>3, <1>4 DEF Next, ClientStep, ServerStep, Work, QueueChange,
     Pull, StartRun, Send, Receive, EndBatch, StartPull, LoseAnswer, TimeOut, CloseTab, Load, Refuse,
     Skip, RejectTransition, PassLook, Clash, PassDetect, Apply, ApplyFails, Record, DropAnswer,
     RecordFails, CheckFails, Restart, MoveOnline, EditOnline, RuleForServer, RuleForClient,
     CloseForClient
<1> QED BY <1>1, <1>5 DEF vars, clientVars

LEMMA RunSaysConflict ==
    ASSUME TypeInv, [Next]_vars, NEW r \in Runs, NEW c \in Changes,
           run'[r].verdict[c] = "conflict"
    PROVE  run[r].verdict[c] = "conflict" \/ \E s \in Slots : slot[s].verdict[c] = "conflict"
<1> USE DEF TypeInv, RunsOk, RunType
<1>1. CASE UNCHANGED run
  BY <1>1
<1>2. ASSUME NEW q \in Runs, NEW pc, NEW v,
             run' = [run EXCEPT ![q] = [@ EXCEPT !.pc = pc, !.verdict = v]]
      PROVE  run[r].verdict[c] = "conflict" \/ v[c] = "conflict"
  BY <1>2
<1>3. ASSUME NEW q \in Runs, NEW s \in Slots, Receive(q, s)
      PROVE  run[r].verdict[c] = "conflict" \/ slot[s].verdict[c] = "conflict"
  BY ZenonT(60), <1>2, <1>3 DEF Receive
<1>4. ASSUME NEW q \in Runs, TimeOut(q) PROVE run[r].verdict[c] = "conflict"
  <2>1. ForAll(run[q].batch, "aborted")[c] # "conflict"
    BY DEF ForAll
  <2> QED BY <1>2, <1>4, <2>1 DEF TimeOut
<1>5. ASSUME NEW q \in Runs, StartRun(q) \/ EndBatch(q) \/ Pull(q) \/ CloseTab(q)
      PROVE  run[r].verdict[c] = "conflict"
  <2>1. IdleRun.verdict[c] # "conflict"
    BY DEF IdleRun
  <2>2. ASSUME NEW pc, NEW rest, run' = [run EXCEPT ![q] = [IdleRun EXCEPT !.pc = pc, !.rest = rest]]
        PROVE  run[r].verdict[c] = "conflict"
    <3>1. [IdleRun EXCEPT !.pc = pc, !.rest = rest].verdict = IdleRun.verdict
      BY DEF IdleRun
    <3> QED BY <2>1, <2>2, <3>1
  <2>3. CASE StartRun(q)
    BY <2>2, <2>3 DEF StartRun
  <2>4. CASE EndBatch(q)
    <3>1. PICK pc : run' = [run EXCEPT ![q] = [IdleRun EXCEPT !.pc = pc, !.rest = run[q].rest]]
      BY <2>4 DEF EndBatch
    <3> QED BY <2>2, <3>1
  <2>5. CASE run' = [run EXCEPT ![q] = IdleRun]
    BY <2>1, <2>5
  <2> QED BY <1>5, <2>3, <2>4, <2>5 DEF Pull, CloseTab
<1>6. ASSUME NEW q \in Runs, NEW s \in Slots, Send(q, s) PROVE run[r].verdict[c] = "conflict"
  BY <1>6 DEF Send
<1>7. ASSUME NEW q \in Runs, LoseAnswer(q) \/ MarkOne(q) \/ StartPull(q)
      PROVE  run[r].verdict[c] = "conflict"
  <2>1. CASE LoseAnswer(q)
    BY <2>1 DEF LoseAnswer
  <2>2. CASE MarkOne(q)
    BY <2>2 DEF MarkOne
  <2>3. CASE StartPull(q)
    BY <2>3 DEF StartPull
  <2> QED BY <1>7, <2>1, <2>2, <2>3
<1>8. ASSUME Restart PROVE run[r].verdict[c] = "conflict"
  BY <1>8 DEF Restart
<1>9. CASE Next
  BY <1>9, <1>1, <1>3, <1>4, <1>5, <1>6, <1>7, <1>8 DEF Next, ClientStep, ServerStep, Work,
     QueueChange, Load, Refuse, Skip, RejectTransition, PassLook, Clash, PassDetect, Apply,
     ApplyFails, Record, DropAnswer, RecordFails, CheckFails, Retry, Remove, MoveOnline, EditOnline,
     RuleForServer, RuleForClient, CloseForClient
<1> QED BY <1>1, <1>9 DEF vars

LEMMA AnswerSays ==
    ASSUME SlotsOk, NEW s \in Slots, NEW v, slot' = Answering(s, v),
           NEW t \in Slots, NEW c \in Changes, slot'[t].verdict[c] # slot[t].verdict[c]
    PROVE  slot'[t].verdict[c] = v /\ t = s /\ c = Head(slot[s].todo)
<1> DEFINE w == [slot[s].verdict EXCEPT ![Head(slot[s].todo)] = v]
<1>1. slot'[t].verdict = IF t = s THEN w ELSE slot[t].verdict
  BY DEF Answering, SlotsOk, SlotType
<1>2. slot[s].verdict \in [Changes -> Verdicts]
  BY DEF SlotsOk, SlotType
<1> QED BY <1>1, <1>2

LEMMA SlotSaysConflict ==
    ASSUME TypeInv, [Next]_vars, NEW s \in Slots, NEW c \in Changes,
           slot'[s].verdict[c] = "conflict"
    PROVE  slot[s].verdict[c] = "conflict" \/ OnList(c)'
<1> USE DEF TypeInv
<1>1. CASE UNCHANGED slot
  BY <1>1
<1>2. ASSUME NEW t \in Slots, NEW x, slot' = [slot EXCEPT ![t] = x], x.verdict[c] # "conflict"
      PROVE  slot[s].verdict[c] = "conflict"
  BY <1>2 DEF SlotsOk
<1>3. IdleSlot.verdict[c] = "none"
  BY DEF IdleSlot
<1>4. ASSUME NEW r \in Runs, NEW t \in Slots, Send(r, t) \/ Receive(r, t)
      PROVE  slot[s].verdict[c] = "conflict"
  <2>1. CASE Send(r, t)
    <3> DEFINE n == Smaller(BatchSize, Len(run[r].rest))
               x == [IdleSlot EXCEPT !.pc = "arriving", !.client = r,
                                     !.todo = SubSeq(run[r].rest, 1, n)]
    <3>1. slot' = [slot EXCEPT ![t] = x]
      BY <2>1 DEF Send
    <3>2. x.verdict = IdleSlot.verdict
      BY DEF IdleSlot
    <3> HIDE DEF x
    <3> QED BY <1>2, <1>3, <3>1, <3>2
  <2>2. CASE Receive(r, t)
    BY <1>2, <1>3, <2>2 DEF Receive
  <2> QED BY <1>4, <2>1, <2>2
<1>5. ASSUME NEW r \in Runs, LoseAnswer(r) \/ TimeOut(r) \/ CloseTab(r)
      PROVE  slot[s].verdict[c] = "conflict"
  <2>1. CASE slot' = Orphaned(r)
    <3>1. slot'[s] \in {slot[s], IdleSlot, [slot[s] EXCEPT !.client = NoRun]}
      BY <2>1 DEF Orphaned
    <3> QED BY <1>3, <3>1 DEF SlotsOk, SlotType
  <2>2. ASSUME NEW t \in Slots, slot' = [slot EXCEPT ![t] = IdleSlot]
        PROVE  slot[s].verdict[c] = "conflict"
    BY <1>2, <1>3, <2>2
  <2> QED BY <1>5, <2>1, <2>2 DEF LoseAnswer, TimeOut, CloseTab
<1>6. ASSUME NEW t \in Slots, Refuse(t) PROVE slot[s].verdict[c] = "conflict"
  <2> DEFINE v == ForAll(slot[t].todo, "failed")
             x == [slot[t] EXCEPT !.pc = "answered", !.verdict = v, !.todo = <<>>]
  <2>1. v[c] # "conflict"
    BY DEF ForAll
  <2>2. slot' = [slot EXCEPT ![t] = x]
    BY <1>6 DEF Refuse, SlotsOk
  <2> HIDE DEF v
  <2>3. x.verdict = v
    BY DEF SlotsOk, SlotType
  <2> HIDE DEF x
  <2> QED BY <1>2, <2>1, <2>2, <2>3
<1>7. ASSUME NEW t \in Slots, Load(t) \/ PassLook(t) \/ PassDetect(t) \/ CheckFails(t) \/ Apply(t)
      PROVE  slot[s].verdict[c] = "conflict"
  <2>1. CASE Load(t)
    <3>1. PICK seen : slot' = [slot EXCEPT ![t] = [@ EXCEPT !.pc = "look", !.seen = seen]]
      BY <2>1 DEF Load
    <3> QED BY <3>1 DEF SlotsOk, SlotType
  <2>2. ASSUME NEW pc, slot' = [slot EXCEPT ![t].pc = pc] PROVE slot[s].verdict[c] = "conflict"
    BY <2>2 DEF SlotsOk, SlotType
  <2>3. CASE PassLook(t)
    <3>1. PICK pc : slot' = [slot EXCEPT ![t].pc = pc]
      BY <2>3 DEF PassLook
    <3> QED BY <2>2, <3>1
  <2>4. CASE PassDetect(t) \/ CheckFails(t) \/ Apply(t)
    BY <2>2, <2>4 DEF PassDetect, CheckFails, Apply
  <2> QED BY <1>7, <2>1, <2>3, <2>4
<1>8. ASSUME NEW t \in Slots, Skip(t) \/ ApplyFails(t) \/ Record(t) \/ RecordFails(t)
      PROVE  slot[s].verdict[c] = "conflict"
  <2>1. PICK v \in {"applied", "failed"} : slot' = Answering(t, v)
    BY <1>8 DEF Skip, ApplyFails, Record, RecordFails
  <2> QED BY <2>1, AnswerSays
<1>9. ASSUME NEW t \in Slots, RejectTransition(t)
      PROVE  slot[s].verdict[c] = "conflict" \/ OnList(c)'
  <2>1. slot' = Answering(t, "conflict") /\ entry[Head(slot[t].todo)].kind = "transition"
        /\ entry' = entry
    BY <1>9 DEF RejectTransition, clientVars
  <2> QED BY <2>1, AnswerSays DEF OnList
<1>10. ASSUME NEW t \in Slots, Clash(t) PROVE slot[s].verdict[c] = "conflict" \/ OnList(c)'
  <2> DEFINE d == Head(slot[t].todo)
  <2>1. d \in Changes
    BY <1>10, HandOk DEF Clash
  <2>2. slot' = Answering(t, "conflict") /\ ledger' = [ledger EXCEPT ![d].conflict = @ + 1]
    BY <1>10 DEF Clash
  <2>3. ledger[d].conflict \in Nat
    BY <2>1 DEF BooksOk, LedgerType
  <2>4. ledger'[d].conflict > 0
    BY <2>1, <2>2, <2>3 DEF BooksOk, LedgerType
  <2>5. slot'[s].verdict[c] = slot[s].verdict[c] \/ c = d
    BY <2>2, AnswerSays
  <2> HIDE DEF d
  <2>6. CASE c = d
    <3>1. ledger'[c].conflict > 0
      BY <2>4, <2>6
    <3> QED BY <3>1 DEF OnList, Listed
  <2>7. CASE slot'[s].verdict[c] = slot[s].verdict[c]
    BY <2>7
  <2> QED BY <2>5, <2>6, <2>7
<1>11. ASSUME Restart PROVE slot[s].verdict[c] = "conflict"
  BY <1>3, <1>11 DEF Restart
<1>12. ASSUME NEW t \in Slots, DropAnswer(t) PROVE slot[s].verdict[c] = "conflict"
  BY <1>2, <1>3, <1>12 DEF DropAnswer
<1>13. CASE Next
  BY <1>13, <1>1, <1>4, <1>5, <1>6, <1>7, <1>8, <1>9, <1>10, <1>11, <1>12 DEF Next, ClientStep,
     ServerStep, Work, QueueChange, StartRun, MarkOne, EndBatch, Pull, StartPull, Retry, Remove,
     MoveOnline, EditOnline, RuleForServer, RuleForClient, CloseForClient
<1> QED BY <1>1, <1>13 DEF vars

LEMMA NextSurfaced == ASSUME TypeInv, Surfaced, [Next]_vars PROVE Surfaced'
<1>1. \A c \in Changes : OnList(c) => OnList(c)'
  BY OnListStays
<1>2. \A c \in Changes : mark'[c] = "unused" => entry'[c].kind # "transition"
  BY EntryStep DEF Surfaced
<1>3. \A c \in Changes : mark'[c] = "conflict" => OnList(c)'
  BY <1>1, MarkSaysConflict DEF Surfaced
<1>4. \A r \in Runs, c \in Changes : run'[r].verdict[c] = "conflict" => OnList(c)'
  BY <1>1, RunSaysConflict DEF Surfaced
<1>5. \A s \in Slots, c \in Changes : slot'[s].verdict[c] = "conflict" => OnList(c)'
  BY <1>1, SlotSaysConflict DEF Surfaced
<1> QED BY <1>2, <1>3, <1>4, <1>5 DEF Surfaced

\* An entry a device shows in conflict, other than a status change, is on the
\* coordinators' list or was decided: no lost answer, restart or overlapping
\* run leaves a worker waiting for a decision nobody was asked for.
THEOREM ConflictsSurface == Spec => []ConflictSurfaces
<1>1. Init => Surfaced
  BY InitSurfaced
<1>2. TypeInv /\ Surfaced /\ [Next]_vars => Surfaced'
  BY NextSurfaced
<1>3. Surfaced => ConflictSurfaces
  BY DEF Surfaced, OnList, ConflictSurfaces
<1> QED BY <1>1, <1>2, <1>3, TypeAlways, PTL DEF Spec

-----------------------------------------------------------------------------
(* A change is applied once, but for what the protocol excuses *)

Hand(x) == {x.todo[i] : i \in 1..Len(x.todo)}

\* A request that has applied a change and not recorded it yet, and one that
\* may still apply it: it looked, saw no application, and has not come to it.
AtRecord(x, c) == x.pc = "record" /\ Head(x.todo) = c
MayApply(x, c) == /\ x.pc \in {"look", "detect", "apply", "record"} /\ c \in Hand(x)
                  /\ x.seen[c] # "applied" /\ ~AtRecord(x, c)

Recording(c) == {s \in Slots : AtRecord(slot[s], c)}
Applying(c)  == {s \in Slots : MayApply(slot[s], c)}

\* Past the lookup a change is one that was not seen as applied.
Looked(x) == x.pc \in {"detect", "apply", "record"} => x.seen[Head(x.todo)] # "applied"

\* Every request that may still apply a change has its application to give; a
\* change without an applied row was applied no more often than requests are
\* about to record it, but for what is excused.
Spent(c)   == applied[c] + Cardinality(Applying(c)) <= 1 + excused[c]
Written(c) == ledger[c].applied \/ applied[c] <= excused[c] + Cardinality(Recording(c))

OnceInv == /\ \A s \in Slots : Looked(slot[s])
           /\ \A c \in Changes : Spent(c) /\ Written(c)

LEMMA SlotSetsFinite ==
    ASSUME NEW c PROVE /\ IsFiniteSet(Applying(c)) /\ Cardinality(Applying(c)) \in Nat
                       /\ IsFiniteSet(Recording(c)) /\ Cardinality(Recording(c)) \in Nat
<1>1. Applying(c) \subseteq Slots /\ Recording(c) \subseteq Slots
  BY DEF Applying, Recording
<1> QED BY <1>1, SlotsAssumption, FS_Subset, FS_CardinalityType

LEMMA SlotSetsFiniteNext ==
    ASSUME NEW c PROVE /\ IsFiniteSet(Applying(c)') /\ Cardinality(Applying(c)') \in Nat
                       /\ IsFiniteSet(Recording(c)') /\ Cardinality(Recording(c)') \in Nat
<1>1. Applying(c)' \subseteq Slots /\ Recording(c)' \subseteq Slots
  BY DEF Applying, Recording
<1> QED BY <1>1, SlotsAssumption, FS_Subset, FS_CardinalityType

LEMMA InitOnce == Init => OnceInv
<1> SUFFICES ASSUME Init PROVE OnceInv
  OBVIOUS
<1>1. \A s \in Slots : slot[s].pc = "idle"
  BY DEF Init, IdleSlot
<1>2. \A s \in Slots : Looked(slot[s])
  BY <1>1 DEF Looked
<1>3. ASSUME NEW c \in Changes PROVE Spent(c) /\ Written(c)
  <2>1. Applying(c) = {} /\ Recording(c) = {}
    BY <1>1 DEF Applying, Recording, MayApply, AtRecord
  <2>2. applied[c] = 0 /\ excused[c] = 0
    BY DEF Init
  <2> QED BY <2>1, <2>2, FS_EmptySet DEF Spent, Written
<1> QED BY <1>2, <1>3 DEF OnceInv

\* A step after which no request may apply what it could not before, and the
\* same ones are about to record.
Calm(x, y) == /\ Looked(x) => Looked(y)
              /\ \A c \in Changes : /\ MayApply(y, c) => MayApply(x, c)
                                    /\ AtRecord(y, c) <=> AtRecord(x, c)

LEMMA CalmStep ==
    ASSUME TypeInv, OnceInv, \A s \in Slots : Calm(slot[s], slot'[s]), UNCHANGED historyVars,
           \A c \in Changes : ledger[c].applied => ledger'[c].applied
    PROVE  OnceInv'
<1>1. \A s \in Slots : Looked(slot'[s])
  BY DEF OnceInv, Calm
<1>2. ASSUME NEW c \in Changes PROVE Spent(c)' /\ Written(c)'
  <2>1. Recording(c)' = Recording(c) /\ Applying(c)' \subseteq Applying(c)
    BY DEF Recording, Applying, Calm
  <2>2. Cardinality(Applying(c)') <= Cardinality(Applying(c))
    BY <2>1, SlotSetsFinite, FS_Subset
  <2>3. Spent(c) /\ Written(c) /\ applied'[c] = applied[c] /\ excused'[c] = excused[c]
        /\ applied[c] \in Nat /\ excused[c] \in Nat /\ (ledger[c].applied => ledger'[c].applied)
    BY DEF OnceInv, historyVars, TypeInv, BooksOk
  <2>4. Spent(c)'
    BY <2>2, <2>3, SlotSetsFinite, SlotSetsFiniteNext DEF Spent
  <2>5. Written(c)'
    BY <2>1, <2>3 DEF Written
  <2> QED BY <2>4, <2>5
<1> QED BY <1>1, <1>2 DEF OnceInv

LEMMA CalmSame == \A x : Calm(x, x)
BY DEF Calm

\* Requests that are not at work owe nothing.
LEMMA CalmAtRest ==
    ASSUME NEW x, NEW y, x.pc \in {"idle", "arriving", "answered"},
           y.pc \in {"idle", "arriving", "answered"}
    PROVE  Calm(x, y)
BY DEF Calm, Looked, MayApply, AtRecord

\* What a request is answered with: the change it was at is out of its hand.
LEMMA AnswerCalms ==
    ASSUME SlotsOk, NEW s \in Slots, NEW v, slot' = Answering(s, v),
           slot[s].pc \in {"look", "detect", "apply", "record"}
    PROVE  /\ \A t \in Slots \ {s} : slot'[t] = slot[t]
           /\ Looked(slot'[s])
           /\ \A c \in Changes : /\ MayApply(slot'[s], c) => MayApply(slot[s], c)
                                 /\ ~AtRecord(slot'[s], c)
<1> DEFINE x == slot[s]
           y == slot'[s]
<1>1. /\ y.todo = Tail(x.todo) /\ y.pc \in {"answered", "look"}
      /\ y.seen = [x.seen EXCEPT ![Head(x.todo)] = "none"]
      /\ \A t \in Slots \ {s} : slot'[t] = slot[t]
  BY DEF Answering, SlotsOk, SlotType
<1>2. x.todo \in Seq(Changes) /\ Distinct(x.todo) /\ x.todo # <<>>
  BY DEF SlotsOk, SlotOk, SlotType
<1>3. /\ \A i \in 1..Len(Tail(x.todo)) : /\ Tail(x.todo)[i] = x.todo[i + 1]
                                         /\ Tail(x.todo)[i] # Head(x.todo)
      /\ Len(Tail(x.todo)) = Len(x.todo) - 1 /\ Len(x.todo) \in Nat \ {0}
  BY <1>2, DistinctCuts
<1>4. /\ x.pc \in {"look", "detect", "apply", "record"}
      /\ x.seen \in [Changes -> {"none", "applied", "conflict"}]
  BY DEF SlotsOk, SlotType
<1> HIDE DEF x, y
<1>5. \A c \in Changes : c # Head(x.todo) => y.seen[c] = x.seen[c]
  BY <1>1, <1>4
<1>6. \A c \in Hand(y) : c \in Hand(x) /\ c # Head(x.todo)
  <2>1. ASSUME NEW i \in 1..Len(y.todo) PROVE y.todo[i] \in Hand(x) /\ y.todo[i] # Head(x.todo)
    <3>1. y.todo[i] = x.todo[i + 1] /\ y.todo[i] # Head(x.todo) /\ i + 1 \in 1..Len(x.todo)
      BY <1>1, <1>3
    <3> QED BY <3>1 DEF Hand
  <2> QED BY <2>1 DEF Hand
<1>7. \A c \in Changes : ~AtRecord(y, c) /\ (MayApply(y, c) => MayApply(x, c))
  BY <1>1, <1>4, <1>5, <1>6 DEF MayApply, AtRecord
<1>8. Looked(y)
  BY <1>1 DEF Looked
<1> QED BY <1>1, <1>7, <1>8 DEF x, y

LEMMA AnswerCalm ==
    ASSUME SlotsOk, NEW s \in Slots, NEW v, slot' = Answering(s, v),
           slot[s].pc \in {"look", "detect", "apply"}
    PROVE  \A t \in Slots : Calm(slot[t], slot'[t])
<1>1. \A c \in Changes : ~AtRecord(slot[s], c)
  BY DEF AtRecord
<1>2. Calm(slot[s], slot'[s])
  BY <1>1, AnswerCalms DEF Calm
<1> QED BY <1>2, AnswerCalms, CalmSame

\* The request at s goes to x.
LEMMA OneCalm ==
    ASSUME SlotsOk, NEW s \in Slots, NEW x, slot' = [slot EXCEPT ![s] = x], Calm(slot[s], x)
    PROVE  \A t \in Slots : Calm(slot[t], slot'[t])
<1>1. \A t \in Slots : slot'[t] = IF t = s THEN x ELSE slot[t]
  BY DEF SlotsOk
<1> QED BY <1>1, CalmSame

LEMMA OrphanedCalm ==
    ASSUME SlotsOk, NEW r \in Runs, slot' = Orphaned(r)
    PROVE  \A t \in Slots : Calm(slot[t], slot'[t])
<1>1. SUFFICES ASSUME NEW t \in Slots PROVE Calm(slot[t], slot'[t])
  OBVIOUS
<1>2. CASE slot[t].client = r /\ slot[t].pc = "answered"
  <2>1. slot'[t] = IdleSlot /\ IdleSlot.pc = "idle"
    BY <1>2 DEF Orphaned, IdleSlot
  <2> QED BY <1>2, <2>1, CalmAtRest
<1>3. CASE slot[t].client = r /\ slot[t].pc # "answered"
  <2> DEFINE y == [slot[t] EXCEPT !.client = NoRun]
  <2>1. slot'[t] = y
    BY <1>3 DEF Orphaned
  <2>2. y.pc = slot[t].pc /\ y.todo = slot[t].todo /\ y.seen = slot[t].seen
    BY DEF SlotsOk, SlotType
  <2> HIDE DEF y
  <2> QED BY <2>1, <2>2 DEF Calm, Looked, MayApply, AtRecord, Hand
<1>4. CASE slot[t].client # r
  BY <1>4, CalmSame DEF Orphaned
<1> QED BY <1>2, <1>3, <1>4

\* On from a lookup that showed no application.
LEMMA GoesOnCalm ==
    ASSUME SlotsOk, NEW s \in Slots, NEW pc \in {"detect", "apply"},
           slot[s].pc \in {"look", "detect"},
           slot[s].seen[Head(slot[s].todo)] # "applied", slot' = [slot EXCEPT ![s].pc = pc]
    PROVE  \A t \in Slots : Calm(slot[t], slot'[t])
<1> DEFINE y == [slot[s] EXCEPT !.pc = pc]
<1>1. slot' = [slot EXCEPT ![s] = y]
  BY DEF SlotsOk
<1>2. y.pc = pc /\ y.todo = slot[s].todo /\ y.seen = slot[s].seen
  BY DEF SlotsOk, SlotType
<1> HIDE DEF y
<1>3. Calm(slot[s], y)
  BY <1>2 DEF Calm, Looked, MayApply, AtRecord, Hand
<1> QED BY <1>1, <1>3, OneCalm


LEMMA LoadOnce == ASSUME TypeInv, OnceInv, NEW s \in Slots, Load(s) PROVE OnceInv'
<1> USE DEF TypeInv
<1>1. PICK seen \in [InHand(s) -> {"none", "applied", "conflict"}] :
         /\ \A c \in InHand(s) : seen[c] \in SeenOf(c)
         /\ slot' = [slot EXCEPT ![s] = [@ EXCEPT !.pc = "look",
                       !.seen = [c \in Changes |-> IF c \in InHand(s) THEN seen[c] ELSE "none"]]]
         /\ excused' = [c \in Changes |->
               IF c \in InHand(s) /\ LooksBlind(s, c, seen[c]) THEN excused[c] + 1 ELSE excused[c]]
  BY DEF Load
<1> DEFINE all == [c \in Changes |-> IF c \in InHand(s) THEN seen[c] ELSE "none"]
           y == [slot[s] EXCEPT !.pc = "look", !.seen = all]
<1>2. slot' = [slot EXCEPT ![s] = y]
  BY <1>1 DEF SlotsOk
<1>3. slot[s].pc = "arriving" /\ applied' = applied /\ ledger' = ledger
  BY DEF Load
<1>4. y.pc = "look" /\ y.todo = slot[s].todo /\ y.seen = all
  BY DEF SlotsOk, SlotType
<1>5. \A c \in InHand(s) : c \in Changes => all[c] = seen[c]
  OBVIOUS
<1> HIDE DEF all, y
<1>6. \A t \in Slots : slot'[t] = IF t = s THEN y ELSE slot[t]
  BY <1>2 DEF SlotsOk
<1>7. \A t \in Slots : Looked(slot'[t])
  BY <1>4, <1>6 DEF OnceInv, Looked
<1>8. ASSUME NEW c \in Changes PROVE Spent(c)' /\ Written(c)'
  <2>1. Recording(c)' = Recording(c) /\ Applying(c)' \subseteq Applying(c) \cup {s}
        /\ s \notin Applying(c) /\ (~MayApply(y, c) => Applying(c)' \subseteq Applying(c))
    BY <1>3, <1>4, <1>6 DEF Recording, Applying, AtRecord, MayApply
  <2>2. /\ Cardinality(Applying(c)') <= Cardinality(Applying(c)) + 1
        /\ ~MayApply(y, c) => Cardinality(Applying(c)') <= Cardinality(Applying(c))
    <3>1. IsFiniteSet(Applying(c) \cup {s})
          /\ Cardinality(Applying(c) \cup {s}) = Cardinality(Applying(c)) + 1
      BY <2>1, SlotSetsFinite, FS_AddElement
    <3>2. Cardinality(Applying(c)') <= Cardinality(Applying(c) \cup {s})
      BY <2>1, <3>1, FS_Subset
    <3>3. ~MayApply(y, c) => Cardinality(Applying(c)') <= Cardinality(Applying(c))
      BY <2>1, SlotSetsFinite, FS_Subset
    <3> QED BY <3>1, <3>2, <3>3
  <2>3. /\ Spent(c) /\ Written(c) /\ applied[c] \in Nat /\ excused[c] \in Nat
        /\ applied'[c] = applied[c] /\ ledger'[c] = ledger[c]
        /\ excused'[c] = IF c \in InHand(s) /\ LooksBlind(s, c, seen[c]) THEN excused[c] + 1
                         ELSE excused[c]
    BY <1>1, <1>3 DEF OnceInv, BooksOk
  <2> USE SlotSetsFinite, SlotSetsFiniteNext
  <2>4. Written(c)'
    BY <2>1, <2>3 DEF Written
  <2>5. CASE c \in InHand(s) /\ LooksBlind(s, c, seen[c])
    <3>1. excused'[c] = excused[c] + 1
      BY <2>3, <2>5
    <3> QED BY <2>2, <2>3, <2>4, <3>1 DEF Spent
  <2>7. CASE ~MayApply(y, c)
    <3>1. excused'[c] = excused[c] \/ excused'[c] = excused[c] + 1
      BY <2>3
    <3> QED BY <2>2, <2>3, <2>4, <2>7, <3>1 DEF Spent
  <2>6. CASE MayApply(y, c) /\ ~LooksBlind(s, c, seen[c])
    <3>1. c \in InHand(s) /\ seen[c] # "applied" /\ seen[c] \in SeenOf(c)
          /\ seen[c] \in {"none", "applied", "conflict"}
      BY <1>1, <1>4, <1>5, <2>6 DEF MayApply, Hand, InHand
    <3>2. ~(ledger[c].applied /\ ledger[c].conflict > 0)
          /\ \A t \in Slots \ {s} : ~(Handling(t) /\ c \in InHand(t))
      BY <2>6, <3>1 DEF LooksBlind
    <3>3. ~ledger[c].applied
      BY <3>1, <3>2 DEF SeenOf
    <3>4. Applying(c) = {}
      BY <1>3, <3>2 DEF Applying, MayApply, Handling, Hand, InHand
    <3>5. ASSUME NEW t \in Slots, AtRecord(slot[t], c) PROVE FALSE
      <4>1. c \in InHand(t) /\ Handling(t) /\ t # s
        BY <1>3, <3>5, HandOk DEF AtRecord, Handling
      <4> QED BY <3>2, <4>1
    <3>6. Recording(c) = {}
      BY <3>5 DEF Recording
    <3>7. applied[c] <= excused[c]
      BY <2>3, <3>3, <3>6, FS_EmptySet DEF Written
    <3>8. Cardinality(Applying(c)') <= 1
      BY <2>2, <3>4, FS_EmptySet
    <3> QED BY <2>3, <2>4, <3>7, <3>8 DEF Spent
  <2>8. MayApply(y, c) => c \in InHand(s)
    BY <1>4 DEF MayApply, Hand, InHand
  <2> QED BY <2>4, <2>5, <2>6, <2>7, <2>8
<1> QED BY <1>7, <1>8 DEF OnceInv

LEMMA ApplyOnce == ASSUME TypeInv, OnceInv, NEW s \in Slots, Apply(s) PROVE OnceInv'
<1> USE DEF TypeInv
<1>0. PICK d \in Changes : d = Head(slot[s].todo) /\ d \in Hand(slot[s])
  BY HandOk DEF Apply, InHand, Hand
<1> DEFINE y == [slot[s] EXCEPT !.pc = "record"]
<1>1. /\ slot[s].pc = "apply" /\ applied' = [applied EXCEPT ![d] = @ + 1]
      /\ slot' = [slot EXCEPT ![s] = y] /\ excused' = excused /\ ledger' = ledger
  BY <1>0 DEF Apply, SlotsOk
<1>3. y.pc = "record" /\ y.todo = slot[s].todo /\ y.seen = slot[s].seen /\ Head(y.todo) = d
  BY <1>0 DEF SlotsOk, SlotType
<1>4. slot[s].seen[d] # "applied"
  BY <1>0, <1>1 DEF OnceInv, Looked
<1>5. applied[d] \in Nat /\ applied'[d] = applied[d] + 1
      /\ \A c \in Changes \ {d} : applied'[c] = applied[c]
  BY <1>1 DEF BooksOk
<1> HIDE DEF y
<1>6. \A t \in Slots : slot'[t] = IF t = s THEN y ELSE slot[t]
  BY <1>1 DEF SlotsOk
<1>7. \A t \in Slots : Looked(slot'[t])
  BY <1>3, <1>4, <1>6 DEF OnceInv, Looked
<1>8. \A c \in Changes : c # d =>
        (AtRecord(y, c) <=> AtRecord(slot[s], c)) /\ (MayApply(y, c) => MayApply(slot[s], c))
  BY <1>0, <1>1, <1>3 DEF AtRecord, MayApply, Hand
<1>9. ASSUME NEW c \in Changes, c # d PROVE Spent(c)' /\ Written(c)'
  <2>1. Recording(c)' = Recording(c) /\ Applying(c)' \subseteq Applying(c)
    BY <1>6, <1>8, <1>9 DEF Recording, Applying
  <2>2. Cardinality(Applying(c)') <= Cardinality(Applying(c))
    BY <2>1, SlotSetsFinite, FS_Subset
  <2>3. Spent(c) /\ Written(c) /\ applied'[c] = applied[c] /\ excused'[c] = excused[c]
        /\ applied[c] \in Nat /\ excused[c] \in Nat /\ ledger'[c] = ledger[c]
    BY <1>1, <1>5, <1>9 DEF OnceInv, BooksOk
  <2> QED BY <2>1, <2>2, <2>3, SlotSetsFinite, SlotSetsFiniteNext DEF Spent, Written
<1>10. Spent(d)' /\ Written(d)'
  <2>1. MayApply(slot[s], d) /\ ~AtRecord(slot[s], d) /\ AtRecord(y, d) /\ ~MayApply(y, d)
    BY <1>0, <1>1, <1>3, <1>4 DEF MayApply, AtRecord
  <2>2. Recording(d)' = Recording(d) \cup {s} /\ s \notin Recording(d)
        /\ Applying(d)' = Applying(d) \ {s} /\ s \in Applying(d)
    BY <1>6, <2>1 DEF Recording, Applying
  <2>3. Cardinality(Recording(d)') = Cardinality(Recording(d)) + 1
    BY <2>2, SlotSetsFinite, FS_AddElement
  <2>4. Cardinality(Applying(d)') = Cardinality(Applying(d)) - 1
    BY <2>2, SlotSetsFinite, FS_RemoveElement
  <2>5. Spent(d) /\ Written(d) /\ excused[d] \in Nat /\ excused' = excused /\ ledger' = ledger
    BY <1>1 DEF OnceInv, BooksOk
  <2> QED BY <1>5, <2>3, <2>4, <2>5, SlotSetsFinite DEF Spent, Written
<1> QED BY <1>7, <1>9, <1>10 DEF OnceInv


LEMMA RecordOnce ==
    ASSUME TypeInv, OnceInv, NEW s \in Slots, Record(s) \/ RecordFails(s) PROVE OnceInv'
<1> USE DEF TypeInv
<1>1. PICK d \in Changes : d = Head(slot[s].todo)
  BY HandOk DEF Record, RecordFails
<1>2. PICK v : slot' = Answering(s, v)
  BY DEF Record, RecordFails
<1>3. /\ slot[s].pc = "record" /\ applied' = applied
      /\ \/ excused' = excused /\ ledger' = [ledger EXCEPT ![d].applied = TRUE]
         \/ excused' = [excused EXCEPT ![d] = @ + 1] /\ ledger' = ledger
  BY <1>1 DEF Record, RecordFails, historyVars
<1>4. /\ \A t \in Slots \ {s} : slot'[t] = slot[t]
      /\ Looked(slot'[s])
      /\ \A c \in Changes : /\ MayApply(slot'[s], c) => MayApply(slot[s], c)
                            /\ ~AtRecord(slot'[s], c)
  BY <1>2, <1>3, AnswerCalms
<1>5. \A t \in Slots : Looked(slot'[t])
  BY <1>4 DEF OnceInv
<1>6. ASSUME NEW c \in Changes PROVE Spent(c)' /\ Written(c)'
  <2>1. Applying(c)' \subseteq Applying(c) /\ (c # d => Recording(c)' = Recording(c))
        /\ (c = d => Recording(c)' = Recording(c) \ {s} /\ s \in Recording(c))
    BY <1>1, <1>3, <1>4 DEF Recording, Applying, AtRecord
  <2>2. Cardinality(Applying(c)') <= Cardinality(Applying(c))
        /\ (c = d => Cardinality(Recording(c)') = Cardinality(Recording(c)) - 1)
    BY <2>1, SlotSetsFinite, FS_Subset, FS_RemoveElement
  <2>3. Spent(c) /\ Written(c) /\ applied'[c] = applied[c] /\ applied[c] \in Nat /\ excused[c] \in Nat
    BY <1>3 DEF OnceInv, BooksOk
  <2>4. /\ c = d => \/ excused'[c] = excused[c] /\ ledger'[c].applied
                    \/ excused'[c] = excused[c] + 1 /\ ledger'[c] = ledger[c]
        /\ c # d => excused'[c] = excused[c] /\ ledger'[c] = ledger[c]
    BY <1>3 DEF BooksOk, LedgerType
  <2> USE SlotSetsFinite, SlotSetsFiniteNext
  <2>5. CASE c = d
    BY <2>2, <2>3, <2>4, <2>5 DEF Spent, Written
  <2>6. CASE c # d
    BY <2>1, <2>2, <2>3, <2>4, <2>6 DEF Spent, Written
  <2> QED BY <2>5, <2>6
<1> QED BY <1>5, <1>6 DEF OnceInv

LEMMA RestartOnce == ASSUME TypeInv, OnceInv, Restart PROVE OnceInv'
<1> USE DEF TypeInv
<1>1. \A s \in Slots : slot'[s].pc = "idle"
  BY DEF Restart, IdleSlot
<1>2. \A s \in Slots : Looked(slot'[s])
  BY <1>1 DEF Looked
<1>3. ASSUME NEW c \in Changes PROVE Spent(c)' /\ Written(c)'
  <2>1. Applying(c)' = {} /\ Recording(c)' = {}
    BY <1>1 DEF Applying, Recording, MayApply, AtRecord
  <2>2. excused'[c] = excused[c] + Cardinality(Recording(c)) /\ applied' = applied /\ ledger' = ledger
    BY DEF Restart, Recording, AtRecord
  <2>3. Spent(c) /\ Written(c) /\ applied[c] \in Nat /\ excused[c] \in Nat
    BY DEF OnceInv, BooksOk
  <2> QED BY <2>1, <2>2, <2>3, SlotSetsFinite, FS_EmptySet DEF Spent, Written
<1> QED BY <1>2, <1>3 DEF OnceInv

\* Every other step of a request leaves the accounts as they are.
LEMMA ServerCalm ==
    ASSUME TypeInv, OnceInv, NEW s \in Slots,
           \/ Refuse(s) \/ Skip(s) \/ RejectTransition(s) \/ PassLook(s) \/ Clash(s)
           \/ PassDetect(s) \/ CheckFails(s) \/ ApplyFails(s) \/ DropAnswer(s)
    PROVE  \A t \in Slots : Calm(slot[t], slot'[t])
<1> USE DEF TypeInv
<1>1. CASE Refuse(s)
  <2> DEFINE x == [slot[s] EXCEPT !.pc = "answered", !.verdict = ForAll(slot[s].todo, "failed"),
                                  !.todo = <<>>]
  <2>1. slot' = [slot EXCEPT ![s] = x]
    BY <1>1 DEF Refuse, SlotsOk
  <2>2. x.pc = "answered"
    BY DEF SlotsOk, SlotType
  <2> HIDE DEF x
  <2>3. Calm(slot[s], x)
    BY <1>1, <2>2, CalmAtRest DEF Refuse
  <2> QED BY <2>1, <2>3, OneCalm
<1>2. CASE Skip(s) \/ RejectTransition(s) \/ Clash(s) \/ ApplyFails(s)
  BY <1>2, AnswerCalm DEF Skip, RejectTransition, Clash, ApplyFails
<1>3. CASE PassLook(s)
  BY <1>3, GoesOnCalm DEF PassLook
<1>4. CASE PassDetect(s) \/ CheckFails(s)
  <2>1. slot[s].seen[Head(slot[s].todo)] # "applied" /\ slot[s].pc \in {"look", "detect"}
    BY <1>4 DEF PassDetect, CheckFails, OnceInv, Looked
  <2>2. PICK pc \in {"detect", "apply"} : slot' = [slot EXCEPT ![s].pc = pc]
    BY <1>4 DEF PassDetect, CheckFails
  <2> QED BY <2>1, <2>2, GoesOnCalm
<1>5. CASE DropAnswer(s)
  <2>1. Calm(slot[s], IdleSlot)
    BY <1>5, CalmAtRest DEF DropAnswer, IdleSlot
  <2> QED BY <1>5, <2>1, OneCalm DEF DropAnswer
<1> QED BY <1>1, <1>2, <1>3, <1>4, <1>5

\* So does everything the device does.
LEMMA DeviceCalm ==
    ASSUME TypeInv, NEW r \in Runs,
           ClientStep(r) \/ StartPull(r) \/ LoseAnswer(r) \/ TimeOut(r) \/ CloseTab(r)
    PROVE  \A t \in Slots : Calm(slot[t], slot'[t])
<1> USE DEF TypeInv
<1>1. CASE UNCHANGED slot
  BY <1>1, CalmSame
<1>2. ASSUME NEW s \in Slots, Send(r, s) PROVE \A t \in Slots : Calm(slot[t], slot'[t])
  <2> DEFINE n == Smaller(BatchSize, Len(run[r].rest))
             x == [IdleSlot EXCEPT !.pc = "arriving", !.client = r,
                                   !.todo = SubSeq(run[r].rest, 1, n)]
  <2>1. slot' = [slot EXCEPT ![s] = x] /\ slot[s].pc = "idle"
    BY <1>2 DEF Send
  <2>2. x.pc = "arriving"
    BY DEF IdleSlot
  <2> HIDE DEF x
  <2>3. Calm(slot[s], x)
    BY <2>1, <2>2, CalmAtRest
  <2> QED BY <2>1, <2>3, OneCalm
<1>3. ASSUME NEW s \in Slots, slot[s].pc \in {"arriving", "answered"},
             slot' = [slot EXCEPT ![s] = IdleSlot]
      PROVE  \A t \in Slots : Calm(slot[t], slot'[t])
  <2>1. Calm(slot[s], IdleSlot)
    BY <1>3, CalmAtRest DEF IdleSlot
  <2> QED BY <1>3, <2>1, OneCalm
<1>4. ASSUME NEW s \in Slots, Receive(r, s) PROVE \A t \in Slots : Calm(slot[t], slot'[t])
  BY <1>3, <1>4 DEF Receive
<1>5. CASE slot' = Orphaned(r)
  BY <1>5, OrphanedCalm
<1>6. CASE LoseAnswer(r) \/ TimeOut(r) \/ CloseTab(r)
  BY <1>3, <1>5, <1>6 DEF LoseAnswer, TimeOut, CloseTab
<1>7. CASE ClientStep(r) \/ StartPull(r)
  BY <1>7, <1>1, <1>2, <1>4 DEF ClientStep, StartRun, MarkOne, EndBatch, Pull, StartPull
<1> QED BY <1>6, <1>7

\* An applied row stays one.
LEMMA AppliedStays ==
    ASSUME TypeInv, [Next]_vars, NEW c \in Changes, ledger[c].applied PROVE ledger'[c].applied
<1>1. CASE UNCHANGED ledger
  BY <1>1
<1>2. ASSUME NEW s \in Slots, Clash(s) \/ Record(s) PROVE ledger'[c].applied
  <2>1. PICK d : \/ ledger' = [ledger EXCEPT ![d].conflict = @ + 1]
                 \/ ledger' = [ledger EXCEPT ![d].applied = TRUE]
    BY <1>2 DEF Clash, Record
  <2> QED BY <2>1 DEF TypeInv, BooksOk, LedgerType
<1>3. ASSUME NEW d \in Changes, Close(d) PROVE ledger'[c].applied
  BY <1>3 DEF Close, TypeInv, BooksOk, LedgerType
<1>4. CASE Next
  BY ZenonT(60), <1>4, <1>1, <1>2, <1>3 DEF Next, ClientStep, ServerStep, Work, QueueChange,
     StartRun, Send, Receive, MarkOne, EndBatch, Pull, StartPull, LoseAnswer, TimeOut, CloseTab, Load,
     Refuse, Skip, RejectTransition, PassLook, PassDetect, Apply, ApplyFails, DropAnswer, RecordFails, CheckFails,
     Retry, Remove, Restart, MoveOnline, EditOnline, RuleForServer, RuleForClient, CloseForClient
<1> QED BY <1>1, <1>4 DEF vars

LEMMA NextOnce == ASSUME TypeInv, OnceInv, [Next]_vars PROVE OnceInv'
<1>1. \A c \in Changes : ledger[c].applied => ledger'[c].applied
  BY AppliedStays
<1>2. CASE UNCHANGED <<slot, historyVars>>
  <2>1. \A t \in Slots : Calm(slot[t], slot'[t])
    BY <1>2, CalmSame
  <2> QED BY <1>1, <1>2, <2>1, CalmStep
<1>3. ASSUME NEW s \in Slots, ServerStep(s) PROVE OnceInv'
  <2>1. CASE \/ Refuse(s) \/ Skip(s) \/ RejectTransition(s) \/ PassLook(s) \/ Clash(s)
             \/ PassDetect(s) \/ ApplyFails(s) \/ DropAnswer(s)
    <3>1. UNCHANGED historyVars
      BY <2>1 DEF Refuse, Skip, RejectTransition, PassLook, Clash, PassDetect, ApplyFails, DropAnswer
    <3>2. \A t \in Slots : Calm(slot[t], slot'[t])
      BY <2>1, ServerCalm
    <3> QED BY <1>1, <3>1, <3>2, CalmStep
  <2>2. CASE Load(s) \/ Apply(s) \/ Record(s)
    BY <2>2, LoadOnce, ApplyOnce, RecordOnce
  <2> QED BY <1>3, <2>1, <2>2 DEF ServerStep
<1>4. ASSUME NEW r \in Runs,
             ClientStep(r) \/ StartPull(r) \/ LoseAnswer(r) \/ TimeOut(r) \/ CloseTab(r)
      PROVE  OnceInv'
  <2>1. UNCHANGED historyVars
    BY <1>4 DEF ClientStep, StartRun, Send, Receive, MarkOne, EndBatch, Pull, StartPull,
       LoseAnswer, TimeOut, CloseTab
  <2> QED BY <1>1, <1>4, <2>1, DeviceCalm, CalmStep
<1>5. ASSUME NEW s \in Slots, RecordFails(s) PROVE OnceInv'
  BY <1>5, RecordOnce
<1>6. ASSUME NEW s \in Slots, CheckFails(s) PROVE OnceInv'
  <2>1. UNCHANGED historyVars
    BY <1>6 DEF CheckFails
  <2> QED BY <1>1, <1>6, <2>1, ServerCalm, CalmStep
<1>7. CASE Restart
  BY <1>7, RestartOnce
<1>8. CASE Next
  BY <1>8, <1>2, <1>3, <1>4, <1>5, <1>6, <1>7 DEF Next, Work, QueueChange, Retry, Remove,
     MoveOnline, EditOnline, RuleForServer, RuleForClient, CloseForClient
<1> QED BY <1>2, <1>8 DEF vars, historyVars

\* A change is applied at most once, and once more for each of the occasions the
\* protocol excuses: a blind lookup, or an application whose record was lost.
THEOREM AppliedOnce == Spec => []AppliedOnceUnlessExcused
<1>1. Init => OnceInv
  BY InitOnce
<1>2. TypeInv /\ OnceInv /\ [Next]_vars => OnceInv'
  BY NextOnce
<1>3. TypeInv /\ OnceInv => AppliedOnceUnlessExcused
  <2> SUFFICES ASSUME TypeInv, OnceInv, NEW c \in Changes PROVE applied[c] <= 1 + excused[c]
    BY DEF AppliedOnceUnlessExcused
  <2>1. Spent(c) /\ applied[c] \in Nat /\ excused[c] \in Nat /\ Cardinality(Applying(c)) \in Nat
    BY SlotSetsFinite DEF OnceInv, TypeInv, BooksOk
  <2> QED BY <2>1 DEF Spent
<1> QED BY <1>1, <1>2, <1>3, TypeAlways, PTL DEF Spec

=============================================================================
