------------------------ MODULE CaseRemindersProofs ------------------------
(***************************************************************************)
(* Nobody is reminded twice, and no claim is left unserved while nothing   *)
(* fails, for any events, visits, lead times, number of overlapping runs   *)
(* and number of failures.                                                 *)
(***************************************************************************)
EXTENDS CaseReminders, TLAPS

Gone(r) == r[1] \in Events /\ subject[r[1]].state = "gone"

\* A run that is at some reminder has a candidate and a round to be at.
RunsTyped ==
    /\ run \in [Runs -> RunStates]
    /\ \A d \in Runs : run[d].pc \in {"look", "claim", "deliver"} =>
         run[d].cur \in Candidates

LedgerTyped == sent \in [Reminders -> {0, 1}] /\ ledger \subseteq Reminders

\* What was delivered stays claimed, or its event is gone for good.
DeliveredStaysClaimed == \A r \in Reminders : sent[r] = 1 => r \in ledger \/ Gone(r)

\* A reminder about to be delivered was claimed, and is not delivered yet.
DeliveryIsClaimed ==
    \A d \in Runs : run[d].pc = "deliver" =>
        /\ Current(d) \in ledger \/ Gone(Current(d))
        /\ sent[Current(d)] = 0

\* No two runs are about to deliver the same.
DeliveriesDiffer ==
    \A c, d \in Runs : run[c].pc = "deliver" /\ run[d].pc = "deliver" /\ c # d =>
        Current(c) # Current(d)

\* Why once is enough.
Exclusive == LedgerTyped /\ DeliveredStaysClaimed /\ DeliveryIsClaimed /\ DeliveriesDiffer

RowsTyped ==
    /\ now \in 0 .. Horizon
    /\ subject \in [Subjects -> SubjectRows]

IInv == RowsTyped /\ RunsTyped /\ Exclusive

-----------------------------------------------------------------------------

\* Every round names a lead time and a channel.
LEMMA RoundsTyped ==
    /\ Len(Rounds) = 2 * Len(Offsets)
    /\ \A i \in 1 .. 2 * Len(Offsets) :
         Rounds[i] \in {Offsets[j] : j \in DOMAIN Offsets} \X Channels
<1> DEFINE n == Len(Offsets)
<1>1. n \in Nat /\ DOMAIN Offsets = 1 .. n
  BY RemindersAssumption
<1>2. ASSUME NEW i \in 1 .. 2 * n PROVE (i + 1) \div 2 \in 1 .. n
  BY <1>1, <1>2
<1>3. ASSUME NEW i \in 1 .. 2 * n
      PROVE  Rounds[i] = <<Offsets[(i + 1) \div 2], IF i % 2 = 1 THEN "in_app" ELSE "email">>
  BY DEF Rounds
<1>4. ASSUME NEW i \in 1 .. 2 * n
      PROVE  Rounds[i] \in {Offsets[j] : j \in DOMAIN Offsets} \X Channels
  <2>1. (i + 1) \div 2 \in DOMAIN Offsets
    BY <1>1, <1>2
  <2>2. Offsets[(i + 1) \div 2] \in {Offsets[j] : j \in DOMAIN Offsets}
    BY <2>1
  <2>3. (IF i % 2 = 1 THEN "in_app" ELSE "email") \in Channels
    BY DEF Channels
  <2>4. Rounds[i] = <<Offsets[(i + 1) \div 2], IF i % 2 = 1 THEN "in_app" ELSE "email">>
    BY <1>3
  <2>5. \A A, B, a, b : a \in A /\ b \in B => <<a, b>> \in A \X B
    OBVIOUS
  <2>6. <<Offsets[(i + 1) \div 2], IF i % 2 = 1 THEN "in_app" ELSE "email">>
          \in {Offsets[j] : j \in DOMAIN Offsets} \X Channels
    BY <2>2, <2>3, <2>5, Zenon
  <2> QED BY <2>4, <2>6, Zenon
<1>5. Len(Rounds) = 2 * n
  <2>1. Rounds = [i \in 1 .. 2 * n |-> Rounds[i]]
    BY DEF Rounds
  <2>2. DOMAIN Rounds = 1 .. 2 * n
    BY DEF Rounds
  <2>3. \A i \in 1 .. 2 * n : Rounds[i] \in {Offsets[j] : j \in DOMAIN Offsets} \X Channels
    BY <1>4
  <2> QED BY <1>1, <2>1, <2>2, <2>3
<1> QED BY <1>4, <1>5

\* The reminder a run is at is one of the reminders.
LEMMA CurrentTyped ==
    ASSUME RunsTyped, NEW d \in Runs, run[d].pc \in {"look", "claim", "deliver"}
    PROVE  Current(d) \in Reminders
<1>1. run[d].cur \in Subjects \X Dates /\ run[d].round \in 1 .. 2 * Len(Offsets)
  BY DEF RunsTyped, RunStates, Candidates
<1>2. run[d].cur[1] \in Subjects
  BY <1>1
<1>3. Rounds[run[d].round] \in {Offsets[j] : j \in DOMAIN Offsets} \X Channels
  BY <1>1, RoundsTyped
<1> QED BY <1>2, <1>3 DEF Current, Reminders

\* The round after a round keeps the candidate, or the run turns to the next.
LEMMA NextRoundTyped ==
    ASSUME RunsTyped, NEW d \in Runs, run[d].pc \in {"look", "claim", "deliver"}
    PROVE  /\ NextRound(d) \in RunStates
           /\ NextRound(d).pc \in {"look", "next"}
           /\ NextRound(d).pc = "look" => NextRound(d).cur \in Candidates
<1>1. Len(Rounds) = 2 * Len(Offsets) /\ Len(Offsets) \in Nat /\ Len(Offsets) > 0
  BY RoundsTyped, RemindersAssumption
<1>2. run[d] \in RunStates /\ run[d].cur \in Candidates
  BY DEF RunsTyped
<1>3. run[d].round \in 1 .. 2 * Len(Offsets)
  BY <1>2 DEF RunStates
<1>4. CASE run[d].round < Len(Rounds)
  <2>1. run[d].round + 1 \in 1 .. 2 * Len(Offsets)
    BY <1>1, <1>3, <1>4
  <2>2. NextRound(d) = [run[d] EXCEPT !.pc = "look", !.round = @ + 1]
    BY <1>4 DEF NextRound
  <2> QED BY <1>2, <2>1, <2>2 DEF RunStates
<1>5. CASE ~(run[d].round < Len(Rounds))
  <2>1. NextRound(d) = [run[d] EXCEPT !.pc = "next", !.round = 1, !.cur = <<>>]
    BY <1>5 DEF NextRound
  <2>2. 1 \in 1 .. 2 * Len(Offsets)
    BY <1>1
  <2> QED BY <1>2, <2>1, <2>2 DEF RunStates
<1> QED BY <1>4, <1>5

LEMMA AsleepTyped == Asleep \in RunStates
BY RemindersAssumption DEF Asleep, RunStates

\* What a run loads is something to go through.
LEMMA LoadedTyped ==
    ASSUME RowsTyped, NEW kind \in SUBSET Subjects
    PROVE  Loaded(kind) \in SUBSET Candidates
BY DEF RowsTyped, SubjectRows, Loaded, Candidates

-----------------------------------------------------------------------------
(* Steps that neither claim nor deliver *)

\* A run that moves on without claiming or delivering disturbs nobody.
LEMMA QuietStep ==
    ASSUME RunsTyped, Exclusive, NEW d \in Runs, NEW s \in RunStates,
           s.pc # "deliver",
           s.pc \in {"look", "claim"} => s.cur \in Candidates,
           run' = [run EXCEPT ![d] = s],
           UNCHANGED <<subject, ledger, sent>>
    PROVE  RunsTyped' /\ Exclusive'
<1>1. run' \in [Runs -> RunStates] /\ run'[d] = s
       /\ \A c \in Runs \ {d} : run'[c] = run[c]
  BY DEF RunsTyped
<1>2. RunsTyped'
  BY <1>1 DEF RunsTyped
<1>3. \A c \in Runs : run'[c].pc = "deliver" => c # d /\ run[c].pc = "deliver"
                                               /\ Current(c)' = Current(c)
  BY <1>1 DEF Current
<1>4. \A r \in Reminders : Gone(r)' <=> Gone(r)
  BY DEF Gone
<1>5. \A c \in Runs : run[c].pc = "deliver" => Current(c) \in Reminders
  BY CurrentTyped
<1>6. sent' = sent /\ ledger' = ledger
  OBVIOUS
<1>7. LedgerTyped'
  BY <1>6 DEF Exclusive, LedgerTyped
<1>8. DeliveredStaysClaimed'
  BY <1>4, <1>6 DEF Exclusive, DeliveredStaysClaimed
<1>9. DeliveryIsClaimed'
  <2> SUFFICES ASSUME NEW c \in Runs, run'[c].pc = "deliver"
               PROVE  (/\ Current(c) \in ledger \/ Gone(Current(c))
                       /\ sent[Current(c)] = 0)'
    BY DEF DeliveryIsClaimed
  <2>1. Current(c)' = Current(c) /\ Current(c) \in Reminders
        /\ run[c].pc = "deliver"
    BY <1>3, <1>5
  <2>2. (Current(c) \in ledger \/ Gone(Current(c))) /\ sent[Current(c)] = 0
    BY <2>1 DEF Exclusive, DeliveryIsClaimed
  <2> QED BY <1>4, <1>6, <2>1, <2>2
<1>10. DeliveriesDiffer'
  BY <1>3 DEF Exclusive, DeliveriesDiffer
<1>11. Exclusive'
  BY <1>7, <1>8, <1>9, <1>10 DEF Exclusive
<1> QED BY <1>2, <1>11

\* Work on the case file frees a claim only by taking the event away for good.
LEMMA CaseWorkKeeps ==
    ASSUME IInv, CaseWork
    PROVE  IInv'
<1>1. RowsTyped'
  <2>1. ASSUME NEW e \in Events, NEW state \in {"live", "off"}, NEW at \in Dates,
               EditEvent(e, state, at)
        PROVE  RowsTyped'
    BY <2>1 DEF EditEvent, IInv, RowsTyped, SubjectRows
  <2>2. ASSUME NEW e \in Events, DeleteEvent(e) PROVE RowsTyped'
    BY <2>2 DEF DeleteEvent, IInv, RowsTyped, SubjectRows
  <2>3. ASSUME NEW kept \in SUBSET Visits, SavePlan(kept) PROVE RowsTyped'
    BY <2>3 DEF SavePlan, IInv, RowsTyped, SubjectRows
  <2>4. ASSUME NEW channels \in Reachable, ChangeReach(channels) PROVE RowsTyped'
    BY <2>4 DEF ChangeReach, IInv, RowsTyped
  <2> QED BY <2>1, <2>2, <2>3, <2>4 DEF CaseWork
<1>2. sent' = sent /\ run' = run /\ ledger' \subseteq ledger
  BY DEF CaseWork, EditEvent, DeleteEvent, SavePlan, ChangeReach
<1>3. ASSUME NEW r \in Reminders, r \in ledger \/ Gone(r)
      PROVE  r \in ledger' \/ Gone(r)'
  <2>0. r[1] \in Subjects
    BY DEF Reminders
  <2>1. ASSUME NEW e \in Events, NEW state \in {"live", "off"}, NEW at \in Dates,
               EditEvent(e, state, at)
        PROVE  r \in ledger' \/ Gone(r)'
    BY <1>3, <2>0, <2>1 DEF EditEvent, Gone, IInv, RowsTyped
  <2>2. ASSUME NEW e \in Events, DeleteEvent(e)
        PROVE  r \in ledger' \/ Gone(r)'
    <3>1. subject'[e].state = "gone" /\ \A x \in Subjects \ {e} : subject'[x] = subject[x]
      BY <2>2 DEF DeleteEvent, IInv, RowsTyped, SubjectRows, Subjects
    <3>2. r[1] # e /\ r \in ledger => r \in ledger'
      BY <2>2 DEF DeleteEvent
    <3> QED BY <1>3, <2>0, <3>1, <3>2 DEF Gone
  <2>3. ASSUME NEW kept \in SUBSET Visits, SavePlan(kept)
        PROVE  r \in ledger' \/ Gone(r)'
    BY <1>3, <2>0, <2>3 DEF SavePlan, Gone
  <2>4. ASSUME NEW channels \in Reachable, ChangeReach(channels)
        PROVE  r \in ledger' \/ Gone(r)'
    BY <1>3, <2>4 DEF ChangeReach, Gone
  <2> QED BY <2>1, <2>2, <2>3, <2>4 DEF CaseWork
<1>4. RunsTyped'
  BY <1>2 DEF IInv, RunsTyped
<1>5. \A d \in Runs : run[d].pc = "deliver" => Current(d) \in Reminders
  BY CurrentTyped DEF IInv
<1>6. \A d \in Runs : Current(d)' = Current(d)
  BY <1>2 DEF Current
<1>7. LedgerTyped'
  BY <1>2 DEF IInv, Exclusive, LedgerTyped
<1>8. DeliveredStaysClaimed'
  BY <1>2, <1>3 DEF IInv, Exclusive, DeliveredStaysClaimed
<1>9. DeliveryIsClaimed'
  BY <1>2, <1>3, <1>5, <1>6 DEF IInv, Exclusive, DeliveryIsClaimed
<1>10. DeliveriesDiffer'
  BY <1>2, <1>6 DEF IInv, Exclusive, DeliveriesDiffer
<1> QED BY <1>1, <1>4, <1>7, <1>8, <1>9, <1>10 DEF IInv, Exclusive

-----------------------------------------------------------------------------
(* Claim and delivery *)

\* A claim is only made of what nobody claimed, and so nobody delivered.
LEMMA ClaimKeeps ==
    ASSUME IInv, NEW d \in Runs, Claim(d)
    PROVE  RunsTyped' /\ Exclusive'
<1> DEFINE r == Current(d)
           holds == r \notin ledger /\ (r[1] \in Events => subject[r[1]].state # "gone")
<1>1. run[d].pc = "claim" /\ subject' = subject /\ sent' = sent
  BY DEF Claim
<1>2. CASE ~holds
  <2>1. run' = [run EXCEPT ![d] = Asleep] /\ ledger' = ledger
    BY <1>2 DEF Claim
  <2>2. Asleep.pc = "asleep"
    BY DEF Asleep
  <2> QED BY <1>1, <2>1, <2>2, AsleepTyped, QuietStep DEF IInv
<1>3. CASE holds
  <2>1. /\ run' = [run EXCEPT ![d] = [run[d] EXCEPT !.pc = "deliver"]]
        /\ ledger' = ledger \cup {r}
    BY <1>3 DEF Claim
  <2>2. r \in Reminders /\ run[d] \in RunStates /\ run[d].cur \in Candidates
    BY <1>1, CurrentTyped DEF IInv, RunsTyped
  <2>3. /\ run'[d] = [run[d] EXCEPT !.pc = "deliver"] /\ run' \in [Runs -> RunStates]
        /\ \A c \in Runs \ {d} : run'[c] = run[c]
    BY <2>1, <2>2 DEF IInv, RunsTyped, RunStates
  <2>4. run'[d].pc = "deliver" /\ run'[d].cur = run[d].cur /\ run'[d].round = run[d].round
    BY <2>2, <2>3 DEF RunStates
  <2>5. \A c \in Runs : Current(c)' = Current(c)
    BY <2>3, <2>4 DEF Current
  <2>6. RunsTyped'
    BY <2>2, <2>3, <2>4 DEF IInv, RunsTyped
  <2>7. \A x \in Reminders : Gone(x)' <=> Gone(x)
    BY <1>1 DEF Gone
  <2>8. ~Gone(r) /\ r \notin ledger /\ sent[r] = 0
    <3>1. ~Gone(r) /\ r \notin ledger
      BY <1>3 DEF Gone
    <3>2. sent[r] # 1 /\ sent[r] \in {0, 1}
      BY <2>2, <3>1 DEF IInv, Exclusive, LedgerTyped, DeliveredStaysClaimed
    <3> QED BY <3>1, <3>2
  <2>9. ASSUME NEW c \in Runs, c # d, run[c].pc = "deliver"
        PROVE  Current(c) \in Reminders /\ Current(c) # r
    BY <2>8, <2>9, CurrentTyped DEF IInv, Exclusive, DeliveryIsClaimed
  <2>10. LedgerTyped'
    BY <1>1, <2>1, <2>2 DEF IInv, Exclusive, LedgerTyped
  <2>11. DeliveredStaysClaimed'
    BY <1>1, <2>1, <2>7 DEF IInv, Exclusive, DeliveredStaysClaimed
  <2>12. DeliveryIsClaimed'
    <3> SUFFICES ASSUME NEW c \in Runs, run'[c].pc = "deliver"
                 PROVE  (/\ Current(c) \in ledger \/ Gone(Current(c))
                         /\ sent[Current(c)] = 0)'
      BY DEF DeliveryIsClaimed
    <3>1. CASE c = d
      BY <1>1, <2>1, <2>5, <2>8, <3>1
    <3>2. CASE c # d
      <4>1. run[c].pc = "deliver" /\ Current(c) \in Reminders
        BY <2>3, <2>9, <3>2
      <4>2. (Current(c) \in ledger \/ Gone(Current(c))) /\ sent[Current(c)] = 0
        BY <4>1 DEF IInv, Exclusive, DeliveryIsClaimed
      <4> QED BY <1>1, <2>1, <2>5, <2>7, <4>1, <4>2
    <3> QED BY <3>1, <3>2
  <2>13. DeliveriesDiffer'
    <3> SUFFICES ASSUME NEW b \in Runs, NEW c \in Runs, b # c,
                        run'[b].pc = "deliver", run'[c].pc = "deliver"
                 PROVE  Current(b)' # Current(c)'
      BY DEF DeliveriesDiffer
    <3>1. CASE b = d
      BY <2>3, <2>5, <2>9, <3>1
    <3>2. CASE c = d
      BY <2>3, <2>5, <2>9, <3>2
    <3>3. CASE b # d /\ c # d
      BY <2>3, <2>5, <3>3 DEF IInv, Exclusive, DeliveriesDiffer
    <3> QED BY <3>1, <3>2, <3>3
  <2> QED BY <2>6, <2>10, <2>11, <2>12, <2>13 DEF Exclusive
<1> QED BY <1>2, <1>3

\* A delivery is the first one, and the only one under way.
LEMMA DeliverKeeps ==
    ASSUME IInv, NEW d \in Runs, Deliver(d)
    PROVE  RunsTyped' /\ Exclusive'
<1> DEFINE r == Current(d)
<1>1. /\ run[d].pc = "deliver" /\ subject' = subject /\ ledger' = ledger
      /\ sent' = [sent EXCEPT ![r] = @ + 1]
      /\ run' = [run EXCEPT ![d] = NextRound(d)]
  BY DEF Deliver
<1>2. r \in Reminders /\ NextRound(d) \in RunStates /\ NextRound(d).pc # "deliver"
      /\ (NextRound(d).pc \in {"look", "claim"} => NextRound(d).cur \in Candidates)
  BY <1>1, CurrentTyped, NextRoundTyped DEF IInv
<1>3. run' \in [Runs -> RunStates] /\ run'[d] = NextRound(d)
       /\ \A c \in Runs \ {d} : run'[c] = run[c]
  BY <1>1, <1>2 DEF IInv, RunsTyped
<1>4. RunsTyped'
  BY <1>2, <1>3 DEF IInv, RunsTyped
<1>5. /\ r \in ledger \/ Gone(r)
      /\ sent[r] = 0
  BY <1>1 DEF IInv, Exclusive, DeliveryIsClaimed
<1>6. sent'[r] = 1 /\ sent' \in [Reminders -> {0, 1}]
      /\ \A x \in Reminders \ {r} : sent'[x] = sent[x]
  BY <1>1, <1>2, <1>5 DEF IInv, Exclusive, LedgerTyped
<1>7. \A x \in Reminders : Gone(x)' <=> Gone(x)
  BY <1>1 DEF Gone
<1>8. ASSUME NEW c \in Runs, run'[c].pc = "deliver"
      PROVE  /\ c # d /\ run[c].pc = "deliver" /\ Current(c)' = Current(c)
             /\ Current(c) \in Reminders /\ Current(c) # r
  <2>1. c # d /\ run[c].pc = "deliver" /\ Current(c)' = Current(c)
    BY <1>2, <1>3, <1>8 DEF Current
  <2>2. Current(c) \in Reminders
    BY <2>1, CurrentTyped DEF IInv
  <2>3. Current(c) # r
    BY <1>1, <2>1 DEF IInv, Exclusive, DeliveriesDiffer
  <2> QED BY <2>1, <2>2, <2>3
<1>9. LedgerTyped'
  BY <1>1, <1>6 DEF IInv, Exclusive, LedgerTyped
<1>10. DeliveredStaysClaimed'
  BY <1>1, <1>5, <1>6, <1>7 DEF IInv, Exclusive, DeliveredStaysClaimed
<1>11. DeliveryIsClaimed'
  <2> SUFFICES ASSUME NEW c \in Runs, run'[c].pc = "deliver"
               PROVE  (/\ Current(c) \in ledger \/ Gone(Current(c))
                       /\ sent[Current(c)] = 0)'
    BY DEF DeliveryIsClaimed
  <2>1. (Current(c) \in ledger \/ Gone(Current(c))) /\ sent[Current(c)] = 0
    BY <1>8 DEF IInv, Exclusive, DeliveryIsClaimed
  <2> QED BY <1>1, <1>6, <1>7, <1>8, <2>1
<1>12. DeliveriesDiffer'
  BY <1>8 DEF IInv, Exclusive, DeliveriesDiffer
<1> QED BY <1>4, <1>9, <1>10, <1>11, <1>12 DEF Exclusive

-----------------------------------------------------------------------------
(* The invariant *)

LEMMA InitHolds == Init => IInv
<1> SUFFICES ASSUME Init PROVE IInv
  OBVIOUS
<1>1. RowsTyped
  BY RemindersAssumption DEF Init, RowsTyped
<1>2. \A d \in Runs : run[d] = Asleep
  BY DEF Init
<1>3. Asleep.pc = "asleep"
  BY DEF Asleep
<1>4. RunsTyped
  BY <1>2, <1>3, AsleepTyped DEF Init, RunsTyped
<1>5. Exclusive
  BY <1>2, <1>3 DEF Init, Exclusive, LedgerTyped, DeliveredStaysClaimed,
                    DeliveryIsClaimed, DeliveriesDiffer
<1> QED BY <1>1, <1>4, <1>5 DEF IInv

LEMMA RunKeeps ==
    ASSUME IInv, NEW d \in Runs, Start(d) \/ Proceed(d) \/ LoseMail(d) \/ Fail(d)
    PROVE  RunsTyped' /\ Exclusive'
<1>0. run[d] \in RunStates /\ now \in 0 .. Horizon
  BY DEF IInv, RunsTyped, RowsTyped
<1>1. CASE Start(d)
  <2> DEFINE s == [Asleep EXCEPT !.pc = "next", !.now = now, !.todo = Loaded(Events)]
  <2>1. Loaded(Events) \in SUBSET Candidates
    BY LoadedTyped DEF IInv, Subjects
  <2>2. s \in RunStates /\ s.pc = "next"
    BY <1>0, <2>1, AsleepTyped DEF RunStates, Asleep
  <2> QED BY <1>1, <2>2, QuietStep DEF Start, IInv
<1>2. CASE Pick(d)
  <2>1. PICK c \in run[d].todo :
          LET skipped == "in_app" \notin reach \/ c[2] <= run[d].now
          IN  run' = [run EXCEPT ![d] = [@ EXCEPT
                   !.todo = run[d].todo \ {c},
                   !.cur = IF skipped THEN <<>> ELSE c,
                   !.pc = IF skipped THEN "next" ELSE "look"]]
    BY <1>2 DEF Pick
  <2> DEFINE skipped == "in_app" \notin reach \/ c[2] <= run[d].now
             s == [run[d] EXCEPT !.todo = run[d].todo \ {c}, !.cur = IF skipped THEN <<>> ELSE c,
                                 !.pc = IF skipped THEN "next" ELSE "look"]
  <2>2. c \in Candidates
    BY <1>0 DEF RunStates
  <2>3. s \in RunStates /\ s.pc \in {"next", "look"} /\ (s.pc = "look" => s.cur \in Candidates)
    BY <1>0, <2>2 DEF RunStates
  <2>4. run' = [run EXCEPT ![d] = s]
    BY <2>1 DEF IInv, RunsTyped
  <2>5. UNCHANGED <<subject, ledger, sent>>
    BY <1>2 DEF Pick
  <2> QED BY <2>3, <2>4, <2>5, QuietStep DEF IInv
<1>3. CASE Turn(d)
  <2> DEFINE s == IF run[d].phase = "visits" THEN Asleep
                  ELSE [run[d] EXCEPT !.phase = "visits", !.todo = Loaded(Visits)]
  <2>1. Loaded(Visits) \in SUBSET Candidates
    BY LoadedTyped DEF IInv, Subjects
  <2>2. run[d].pc = "next" /\ Asleep.pc = "asleep"
    BY <1>3 DEF Turn, Asleep
  <2>3. s \in RunStates /\ s.pc \in {"next", "asleep"}
    BY <1>0, <2>1, <2>2, AsleepTyped DEF RunStates
  <2>4. run' = [run EXCEPT ![d] = s] /\ UNCHANGED <<subject, ledger, sent>>
    BY <1>3 DEF Turn, IInv, RunsTyped
  <2> QED BY <2>3, <2>4, QuietStep DEF IInv
<1>4. CASE Look(d)
  <2>1. PICK s : /\ s \in {[run[d] EXCEPT !.pc = "claim"], NextRound(d)}
                 /\ run' = [run EXCEPT ![d] = s]
    BY <1>4 DEF Look, IInv, RunsTyped
  <2>2. run[d].pc = "look" /\ run[d].cur \in Candidates /\ UNCHANGED <<subject, ledger, sent>>
    BY <1>4 DEF Look, IInv, RunsTyped
  <2>3. s \in RunStates /\ s.pc # "deliver"
        /\ (s.pc \in {"look", "claim"} => s.cur \in Candidates)
    BY <1>0, <2>1, <2>2, NextRoundTyped DEF IInv, RunStates
  <2> QED BY <2>1, <2>2, <2>3, QuietStep DEF IInv
<1>5. CASE Claim(d)
  BY <1>5, ClaimKeeps
<1>6. CASE Deliver(d)
  BY <1>6, DeliverKeeps
<1>7. CASE LoseMail(d)
  <2>1. NextRound(d) \in RunStates /\ NextRound(d).pc # "deliver"
        /\ (NextRound(d).pc \in {"look", "claim"} => NextRound(d).cur \in Candidates)
    BY <1>7, NextRoundTyped DEF LoseMail, IInv
  <2> QED BY <1>7, <2>1, QuietStep DEF LoseMail, IInv
<1>8. CASE Fail(d)
  <2>1. Asleep.pc = "asleep"
    BY DEF Asleep
  <2> QED BY <1>8, <2>1, AsleepTyped, QuietStep DEF Fail, IInv
<1> QED BY <1>1, <1>2, <1>3, <1>4, <1>5, <1>6, <1>7, <1>8 DEF Proceed

LEMMA NextHolds == IInv /\ [Next]_vars => IInv'
<1> SUFFICES ASSUME IInv, [Next]_vars PROVE IInv'
  OBVIOUS
<1>1. CASE CaseWork
  BY <1>1, CaseWorkKeeps
<1>2. CASE \E d \in Runs : Start(d) \/ Proceed(d) \/ LoseMail(d) \/ Fail(d)
  <2>1. PICK d \in Runs : Start(d) \/ Proceed(d) \/ LoseMail(d) \/ Fail(d)
    BY <1>2
  <2>2. UNCHANGED <<now, subject>>
    BY <2>1 DEF Start, Proceed, Pick, Turn, Look, Claim, Deliver, LoseMail, Fail
  <2>3. RowsTyped'
    BY <2>2 DEF IInv, RowsTyped
  <2> QED BY <2>1, <2>3, RunKeeps DEF IInv
<1>3. CASE Pass
  <2>1. RowsTyped'
    BY <1>3, RemindersAssumption DEF Pass, IInv, RowsTyped
  <2>2. UNCHANGED <<subject, ledger, sent, run>>
    BY <1>3 DEF Pass
  <2>3. RunsTyped' /\ Exclusive'
    BY <2>2 DEF IInv, RunsTyped, Exclusive, LedgerTyped, DeliveredStaysClaimed,
                DeliveryIsClaimed, DeliveriesDiffer, Gone, Current
  <2> QED BY <2>1, <2>3 DEF IInv
<1>4. CASE UNCHANGED vars
  BY <1>4 DEF vars, IInv, RowsTyped, RunsTyped, Exclusive, LedgerTyped,
              DeliveredStaysClaimed, DeliveryIsClaimed, DeliveriesDiffer, Gone, Current
<1> QED BY <1>1, <1>2, <1>3, <1>4 DEF Next

\* Whatever is deleted, regenerated, edited, interrupted or run twice at the
\* same time, no reminder reaches its recipients more than once.
THEOREM AtMostOnce == Spec => []RemindedAtMostOnce
<1>1. IInv => RemindedAtMostOnce
  BY DEF IInv, Exclusive, LedgerTyped, RemindedAtMostOnce
<1> QED BY <1>1, InitHolds, NextHolds, PTL DEF Spec

-----------------------------------------------------------------------------
(* Types, and claims that are served *)

\* The two parts of the type that no other invariant needs.
Counted == reach \in Reachable /\ failures \in 0 .. MaxFailures

LEMMA CountedHolds == Init => Counted
BY RemindersAssumption DEF Init, Counted

LEMMA CountedKeeps == Counted /\ [Next]_vars => Counted'
<1> SUFFICES ASSUME Counted, [Next]_vars PROVE Counted'
  OBVIOUS
<1>1. CASE Pass
  BY <1>1 DEF Pass, Counted
<1>2. CASE CaseWork
  BY <1>2 DEF CaseWork, EditEvent, DeleteEvent, SavePlan, ChangeReach, Counted
<1>3. ASSUME NEW d \in Runs, Start(d) \/ Proceed(d) PROVE Counted'
  BY <1>3 DEF Start, Proceed, Pick, Turn, Look, Claim, Deliver, Counted
<1>4. ASSUME NEW d \in Runs, LoseMail(d) \/ Fail(d) PROVE Counted'
  BY <1>4, RemindersAssumption DEF LoseMail, Fail, Counted
<1>5. CASE UNCHANGED vars
  BY <1>5 DEF vars, Counted
<1> QED BY <1>1, <1>2, <1>3, <1>4, <1>5 DEF Next

\* The clock, the case file, the claims and the runs keep to their domains,
\* whatever the dispatcher and the staff do.
THEOREM TypeCorrect == Spec => []TypeOK
<1>1. IInv /\ Counted => TypeOK
  BY DEF IInv, Counted, RowsTyped, RunsTyped, Exclusive, LedgerTyped, TypeOK
<1> QED BY <1>1, InitHolds, NextHolds, CountedHolds, CountedKeeps, PTL DEF Spec

\* A run that is not delivering serves no claim, whatever it does.
LEMMA QuietServes ==
    ASSUME RunsTyped, ClaimedIsDelivered, NEW d \in Runs, NEW s,
           run[d].pc # "deliver",
           run' = [run EXCEPT ![d] = s],
           UNCHANGED <<ledger, sent, failures>>
    PROVE  ClaimedIsDelivered'
<1>1. \A c \in Runs \ {d} : run'[c] = run[c]
  BY DEF RunsTyped
<1>2. \A c \in Runs : run[c].pc = "deliver" => c # d /\ run'[c].pc = "deliver"
                                              /\ Current(c)' = Current(c)
  BY <1>1 DEF Current
<1> QED BY <1>2 DEF ClaimedIsDelivered

\* The claim that is made is served by the run that made it.
LEMMA ClaimServes ==
    ASSUME IInv, ClaimedIsDelivered, NEW d \in Runs, Claim(d)
    PROVE  ClaimedIsDelivered'
<1> DEFINE r == Current(d)
           holds == r \notin ledger /\ (r[1] \in Events => subject[r[1]].state # "gone")
<1>1. run[d].pc = "claim" /\ UNCHANGED <<sent, failures>>
  BY DEF Claim
<1>2. CASE ~holds
  <2>1. run' = [run EXCEPT ![d] = Asleep] /\ ledger' = ledger
    BY <1>2 DEF Claim
  <2>2. run[d].pc # "deliver"
    BY <1>1
  <2> QED BY <1>1, <2>1, <2>2, QuietServes DEF IInv
<1>3. CASE holds
  <2>1. /\ run' = [run EXCEPT ![d] = [run[d] EXCEPT !.pc = "deliver"]]
        /\ ledger' = ledger \cup {r}
    BY <1>3 DEF Claim
  <2>2. /\ run'[d] = [run[d] EXCEPT !.pc = "deliver"] /\ run[d] \in RunStates
        /\ \A c \in Runs \ {d} : run'[c] = run[c]
    BY <2>1 DEF IInv, RunsTyped
  <2>3. run'[d].pc = "deliver" /\ run'[d].cur = run[d].cur /\ run'[d].round = run[d].round
    BY <2>2 DEF RunStates
  <2>4. \A c \in Runs : Current(c)' = Current(c)
    BY <2>2, <2>3 DEF Current
  <2>5. \A c \in Runs : run[c].pc = "deliver" => run'[c].pc = "deliver"
    BY <2>2, <2>3
  <2> SUFFICES ASSUME failures' = 0, NEW x \in ledger'
               PROVE  sent'[x] > 0 \/ \E c \in Runs : run'[c].pc = "deliver" /\ Current(c)' = x
    BY DEF ClaimedIsDelivered
  <2>6. CASE x = r
    BY <2>3, <2>4, <2>6
  <2>7. CASE x \in ledger
    BY <1>1, <2>4, <2>5, <2>7 DEF ClaimedIsDelivered
  <2> QED BY <2>1, <2>6, <2>7
<1> QED BY <1>2, <1>3

\* What is delivered needs no service any more.
LEMMA DeliverServes ==
    ASSUME IInv, ClaimedIsDelivered, NEW d \in Runs, Deliver(d)
    PROVE  ClaimedIsDelivered'
<1> DEFINE r == Current(d)
<1>1. /\ run[d].pc = "deliver" /\ UNCHANGED <<ledger, failures>>
      /\ sent' = [sent EXCEPT ![r] = @ + 1]
      /\ run' = [run EXCEPT ![d] = NextRound(d)]
  BY DEF Deliver
<1>2. r \in Reminders
  BY <1>1, CurrentTyped DEF IInv
<1>3. sent'[r] > 0 /\ \A x \in Reminders \ {r} : sent'[x] = sent[x]
  BY <1>1, <1>2 DEF IInv, Exclusive, LedgerTyped
<1>4. \A c \in Runs \ {d} : run'[c] = run[c]
  BY <1>1 DEF IInv, RunsTyped
<1>5. \A c \in Runs \ {d} : Current(c)' = Current(c)
  BY <1>4 DEF Current
<1> SUFFICES ASSUME failures' = 0, NEW x \in ledger'
             PROVE  sent'[x] > 0 \/ \E c \in Runs : run'[c].pc = "deliver" /\ Current(c)' = x
  BY DEF ClaimedIsDelivered
<1>6. x \in Reminders /\ x \in ledger
  BY <1>1 DEF IInv, Exclusive, LedgerTyped
<1>7. CASE x = r
  BY <1>3, <1>7
<1>8. CASE x # r
  <2>1. sent[x] > 0 \/ \E c \in Runs : run[c].pc = "deliver" /\ Current(c) = x
    BY <1>1, <1>6 DEF ClaimedIsDelivered
  <2>2. CASE sent[x] > 0
    BY <1>3, <1>6, <1>8, <2>2
  <2>3. ASSUME NEW c \in Runs, run[c].pc = "deliver", Current(c) = x
        PROVE  c # d /\ run'[c].pc = "deliver" /\ Current(c)' = x
    BY <1>4, <1>5, <1>8, <2>3
  <2> QED BY <2>1, <2>2, <2>3
<1> QED BY <1>7, <1>8

LEMMA ServedKeeps ==
    IInv /\ Counted /\ ClaimedIsDelivered /\ [Next]_vars => ClaimedIsDelivered'
<1> SUFFICES ASSUME IInv, Counted, ClaimedIsDelivered, [Next]_vars
             PROVE  ClaimedIsDelivered'
  OBVIOUS
<1>1. CASE Pass \/ CaseWork \/ UNCHANGED vars
  <2>1. UNCHANGED <<sent, run, failures>> /\ ledger' \subseteq ledger
    BY <1>1 DEF Pass, CaseWork, EditEvent, DeleteEvent, SavePlan, ChangeReach, vars
  <2>2. \A d \in Runs : Current(d)' = Current(d)
    BY <2>1 DEF Current
  <2> QED BY <2>1, <2>2 DEF ClaimedIsDelivered
<1>2. ASSUME NEW d \in Runs, Start(d) PROVE ClaimedIsDelivered'
  <2>1. run[d].pc # "deliver" /\ UNCHANGED <<ledger, sent, failures>>
    BY <1>2 DEF Start
  <2> QED BY <1>2, <2>1, QuietServes DEF Start, IInv
<1>3. ASSUME NEW d \in Runs, Pick(d) PROVE ClaimedIsDelivered'
  <2>1. run[d].pc # "deliver" /\ UNCHANGED <<ledger, sent, failures>>
    BY <1>3 DEF Pick
  <2>2. PICK c \in run[d].todo :
          LET skipped == "in_app" \notin reach \/ c[2] <= run[d].now
          IN  run' = [run EXCEPT ![d] = [@ EXCEPT
                   !.todo = run[d].todo \ {c},
                   !.cur = IF skipped THEN <<>> ELSE c,
                   !.pc = IF skipped THEN "next" ELSE "look"]]
    BY <1>3 DEF Pick
  <2>3. PICK s : run' = [run EXCEPT ![d] = s]
    BY <2>2 DEF IInv, RunsTyped
  <2> QED BY <2>1, <2>3, QuietServes DEF IInv
<1>4. ASSUME NEW d \in Runs, Turn(d) PROVE ClaimedIsDelivered'
  <2>1. run[d].pc # "deliver" /\ UNCHANGED <<ledger, sent, failures>>
    BY <1>4 DEF Turn
  <2>2. PICK s : run' = [run EXCEPT ![d] = s]
    BY <1>4 DEF Turn, IInv, RunsTyped
  <2> QED BY <2>1, <2>2, QuietServes DEF IInv
<1>5. ASSUME NEW d \in Runs, Look(d) PROVE ClaimedIsDelivered'
  <2>1. run[d].pc # "deliver" /\ UNCHANGED <<ledger, sent, failures>>
    BY <1>5 DEF Look
  <2>2. PICK s : run' = [run EXCEPT ![d] = s]
    BY <1>5 DEF Look, IInv, RunsTyped
  <2> QED BY <2>1, <2>2, QuietServes DEF IInv
<1>6. ASSUME NEW d \in Runs, LoseMail(d) \/ Fail(d) PROVE ClaimedIsDelivered'
  BY <1>6 DEF LoseMail, Fail, Counted, ClaimedIsDelivered
<1> QED BY <1>1, <1>2, <1>3, <1>4, <1>5, <1>6, ClaimServes, DeliverServes DEF Next, Proceed

\* As long as nothing fails, no claim is left unserved, however many runs
\* collide over it, abort on a refused insert or find the events deleted.
THEOREM ClaimsServed == Spec => []ClaimedIsDelivered
<1>1. Init => ClaimedIsDelivered
  BY DEF Init, ClaimedIsDelivered
<1> QED BY <1>1, InitHolds, NextHolds, CountedHolds, CountedKeeps, ServedKeeps, PTL DEF Spec

=============================================================================
