--------------------------- MODULE CaseReminders ---------------------------
(***************************************************************************)
(* The reminders of a case's hearings and visits.  A cron job wakes the    *)
(* dispatcher again and again; a run loads the upcoming events, then the   *)
(* follow-up visits, and for each of them goes through the lead times and  *)
(* channels in order: a row of `case_event_reminders` is inserted first    *)
(* (the claim, unique by subject, lead time and channel), the reminder is  *)
(* delivered next.  Nothing holds the next run back while one is under     *)
(* way, and staff keep editing the case file.  The stamp a delivered claim *)
(* gets is read by nobody and left out.                                    *)
(***************************************************************************)
EXTENDS Integers, Sequences, FiniteSets

CONSTANTS
    Events,       \* hearings and home visits: rows of `case_events`
    Visits,       \* follow-up visits, by their stable key <case|date|type>
    Offsets,      \* the lead times in force, a sequence, largest first; with
                  \* none configured the dispatcher has nothing to do
    Horizon,      \* bound: the last instant modelled
    Runs,         \* runs of the dispatcher that may be under way at once
    MaxFailures   \* bound: deliveries and runs that fail

ASSUME RemindersAssumption ==
    /\ Events \cap Visits = {}
    /\ Offsets \in Seq(Nat) /\ Len(Offsets) > 0
    /\ Horizon \in Nat
    /\ MaxFailures \in Nat

VARIABLES
    now,       \* the clock
    subject,   \* the event and visit rows
    reach,     \* channels on which there is somebody to remind: the case's
               \* worker for events, client accounts for events and visits
    ledger,    \* the claims: keys of `case_event_reminders`
    sent,      \* how often each reminder reached its recipients (auxiliary)
    run,       \* the dispatcher's runs
    failures   \* failures so far

vars == <<now, subject, reach, ledger, sent, run, failures>>

Subjects == Events \cup Visits

Channels == {"in_app", "email"}

\* A reminder is claimed under this key.
Reminders == Subjects \X {Offsets[i] : i \in DOMAIN Offsets} \X Channels

Dates == 1 .. Horizon + 1

\* "live" is a planned event (a hearing only if the office attends it) or a
\* visit that is in the plan; "off" an event that is done, cancelled or not
\* attended; "gone" a row that is not there.
SubjectRows == [state: {"live", "off", "gone"}, at: Dates]

\* An email goes to people who are reminded in the application anyway.
Reachable == {{}, {"in_app"}, {"in_app", "email"}}

\* A run goes through every lead time, in the application first.
Rounds == [i \in 1 .. 2 * Len(Offsets) |->
             <<Offsets[(i + 1) \div 2], IF i % 2 = 1 THEN "in_app" ELSE "email">>]

Candidates == Subjects \X Dates

Asleep == [pc |-> "asleep", now |-> 0, phase |-> "events", todo |-> {},
           cur |-> <<>>, round |-> 1]

Init ==
    /\ now = 0
    /\ subject \in [Subjects -> {s \in SubjectRows : s.state = "live"}]
    /\ reach \in Reachable
    /\ ledger = {}
    /\ sent = [r \in Reminders |-> 0]
    /\ run = [d \in Runs |-> Asleep]
    /\ failures = 0

-----------------------------------------------------------------------------
(* The case file changes *)

Pass ==
    /\ now < Horizon
    /\ now' = now + 1
    /\ UNCHANGED <<subject, reach, ledger, sent, run, failures>>

\* An event is moved, cancelled, attended to, or planned again.
EditEvent(e, state, at) ==
    /\ subject[e].state # "gone"
    /\ subject' = [subject EXCEPT ![e] = [state |-> state, at |-> at]]
    /\ UNCHANGED <<now, reach, ledger, sent, run, failures>>

\* A deleted event takes its claims with it (ON DELETE CASCADE).
DeleteEvent(e) ==
    /\ subject[e].state # "gone"
    /\ subject' = [subject EXCEPT ![e].state = "gone"]
    /\ ledger' = {r \in ledger : r[1] # e}
    /\ UNCHANGED <<now, reach, sent, run, failures>>

\* Saving the transition plan replaces the visit rows; their claims stay.
SavePlan(kept) ==
    /\ subject' = [s \in Subjects |->
         IF s \in Events THEN subject[s]
         ELSE [subject[s] EXCEPT !.state = IF s \in kept THEN "live" ELSE "gone"]]
    /\ UNCHANGED <<now, reach, ledger, sent, run, failures>>

\* Another worker, another consent, another address.
ChangeReach(channels) ==
    /\ reach' = channels
    /\ UNCHANGED <<now, subject, ledger, sent, run, failures>>

-----------------------------------------------------------------------------
(* A run of the dispatcher *)

Loaded(kind) ==
    {<<s, subject[s].at>> : s \in {x \in kind : subject[x].state = "live"}}

\* The reminder the run is at.
Current(d) == <<run[d].cur[1], Rounds[run[d].round][1], Rounds[run[d].round][2]>>

\* The clock is read, and the planned events are loaded.
Start(d) ==
    /\ run[d].pc = "asleep"
    /\ run' = [run EXCEPT ![d] = [Asleep EXCEPT !.pc = "next", !.now = now,
                                                !.todo = Loaded(Events)]]
    /\ UNCHANGED <<now, subject, reach, ledger, sent, failures>>

\* The next one, as it was when it was loaded: in the past, or with nobody to
\* remind, it is skipped.
Pick(d) ==
    /\ run[d].pc = "next"
    /\ \E c \in run[d].todo :
         LET skipped == "in_app" \notin reach \/ c[2] <= run[d].now
         IN  run' = [run EXCEPT ![d] = [@ EXCEPT
                  !.todo = run[d].todo \ {c},
                  !.cur = IF skipped THEN <<>> ELSE c,
                  !.pc = IF skipped THEN "next" ELSE "look"]]
    /\ UNCHANGED <<now, subject, reach, ledger, sent, failures>>

\* After the events come the visits, after the visits the run is over.
Turn(d) ==
    /\ run[d].pc = "next" /\ run[d].todo = {}
    /\ run' = [run EXCEPT ![d] =
         IF run[d].phase = "visits" THEN Asleep
         ELSE [@ EXCEPT !.phase = "visits", !.todo = Loaded(Visits)]]
    /\ UNCHANGED <<now, subject, reach, ledger, sent, failures>>

\* (mutant) one round too many
NextRoundBeyond(d) ==
    IF run[d].round <= Len(Rounds)
    THEN [run[d] EXCEPT !.pc = "look", !.round = @ + 1]
    ELSE [run[d] EXCEPT !.pc = "next", !.round = 1, !.cur = <<>>]

NextRound(d) ==
    IF run[d].round < Len(Rounds)
    THEN [run[d] EXCEPT !.pc = "look", !.round = @ + 1]
    ELSE [run[d] EXCEPT !.pc = "next", !.round = 1, !.cur = <<>>]

\* (mutant) the ledger is asked for the lead time, whatever the channel
LookAnyChannel(d) ==
    LET r == Current(d)
        open == /\ run[d].cur[2] - r[2] <= run[d].now
                /\ \A c \in Channels : <<r[1], r[2], c>> \notin ledger
                /\ r[3] = "email" => "email" \in reach
    IN
    /\ run[d].pc = "look"
    /\ run' = [run EXCEPT ![d] = IF open THEN [@ EXCEPT !.pc = "claim"] ELSE NextRound(d)]
    /\ UNCHANGED <<now, subject, reach, ledger, sent, failures>>

\* Due, not claimed yet, and somebody to deliver to: the targets are resolved
\* before the claim is made.
Look(d) ==
    LET r == Current(d)
        open == /\ run[d].cur[2] - r[2] <= run[d].now
                /\ r \notin ledger
                /\ r[3] = "email" => "email" \in reach
    IN
    /\ run[d].pc = "look"
    /\ run' = [run EXCEPT ![d] = IF open THEN [@ EXCEPT !.pc = "claim"] ELSE NextRound(d)]
    /\ UNCHANGED <<now, subject, reach, ledger, sent, failures>>

\* (mutant) the claim is an upsert
ClaimAnyway(d) ==
    /\ run[d].pc = "claim"
    /\ ledger' = ledger \cup {Current(d)}
    /\ run' = [run EXCEPT ![d].pc = "deliver"]
    /\ UNCHANGED <<now, subject, reach, sent, failures>>

\* (mutant) both channels are claimed at once
ClaimChannels(d) ==
    LET r == Current(d)
        holds == r \notin ledger /\ (r[1] \in Events => subject[r[1]].state # "gone")
    IN
    /\ run[d].pc = "claim"
    /\ ledger' = IF holds THEN ledger \cup {<<r[1], r[2], c>> : c \in Channels} ELSE ledger
    /\ run' = [run EXCEPT ![d] = IF holds THEN [@ EXCEPT !.pc = "deliver"] ELSE Asleep]
    /\ UNCHANGED <<now, subject, reach, sent, failures>>

\* The insert is refused when another run was first, or the event's row is
\* gone; the exception ends the whole run.
Claim(d) ==
    LET r == Current(d)
        holds == r \notin ledger /\ (r[1] \in Events => subject[r[1]].state # "gone")
    IN
    /\ run[d].pc = "claim"
    /\ ledger' = IF holds THEN ledger \cup {r} ELSE ledger
    /\ run' = [run EXCEPT ![d] = IF holds THEN [@ EXCEPT !.pc = "deliver"] ELSE Asleep]
    /\ UNCHANGED <<now, subject, reach, sent, failures>>

Deliver(d) ==
    /\ run[d].pc = "deliver"
    /\ sent' = [sent EXCEPT ![Current(d)] = @ + 1]
    /\ run' = [run EXCEPT ![d] = NextRound(d)]
    /\ UNCHANGED <<now, subject, reach, ledger, failures>>

\* A mail that cannot be sent is given up, its claim stays.
LoseMail(d) ==
    /\ run[d].pc = "deliver"
    /\ Current(d)[3] = "email"
    /\ failures < MaxFailures
    /\ failures' = failures + 1
    /\ run' = [run EXCEPT ![d] = NextRound(d)]
    /\ UNCHANGED <<now, subject, reach, ledger, sent>>

\* The process stops, or a statement or a notification throws.
Fail(d) ==
    /\ run[d].pc # "asleep"
    /\ failures < MaxFailures
    /\ failures' = failures + 1
    /\ run' = [run EXCEPT ![d] = Asleep]
    /\ UNCHANGED <<now, subject, reach, ledger, sent>>

-----------------------------------------------------------------------------
(* The specification *)

Proceed(d) ==
    \/ Pick(d)  \/ Turn(d) \/ Look(d) \/ Claim(d) \/ Deliver(d)

CaseWork ==
    \/ \E e \in Events, state \in {"live", "off"}, at \in Dates : EditEvent(e, state, at)
    \/ \E e \in Events : DeleteEvent(e)
    \/ \E kept \in SUBSET Visits : SavePlan(kept)
    \/ \E channels \in Reachable : ChangeReach(channels)

Next ==
    \/ Pass
    \/ CaseWork
    \/ \E d \in Runs : Start(d) \/ Proceed(d) \/ LoseMail(d) \/ Fail(d)

\* The scheduler fires for ever, and a run that has begun goes on.
Fairness == \A d \in Runs : WF_vars(Start(d)) /\ WF_vars(Proceed(d))

Spec == Init /\ [][Next]_vars /\ Fairness

-----------------------------------------------------------------------------
(* Properties *)

RunStates ==
    [pc: {"asleep", "next", "look", "claim", "deliver"}, now: 0 .. Horizon,
     phase: {"events", "visits"}, todo: SUBSET Candidates, cur: Candidates \cup {<<>>},
     round: 1 .. 2 * Len(Offsets)]

TypeOK ==
    /\ now \in 0 .. Horizon
    /\ subject \in [Subjects -> SubjectRows]
    /\ reach \in Reachable
    /\ ledger \subseteq Reminders
    /\ sent \in [Reminders -> Nat]
    /\ run \in [Runs -> RunStates]
    /\ failures \in 0 .. MaxFailures

\* Overlapping runs, restarts, deletions and regenerated visit rows: nobody is
\* ever reminded twice of the same subject at the same lead time on the same
\* channel.  The insert of the claim decides, and a claim that a deletion took
\* away cannot be made again.
RemindedAtMostOnce == \A r \in Reminders : sent[r] <= 1

\* A claim is worth a reminder: as long as nothing fails, every claim that is
\* not being served has been delivered, although runs collide and abort.
ClaimedIsDelivered ==
    failures = 0 =>
        \A r \in ledger :
            sent[r] > 0 \/ \E d \in Runs : run[d].pc = "deliver" /\ Current(d) = r

\* The window of the reminder is open, and there is somebody to remind.
Due(r) ==
    /\ subject[r[1]].state = "live"
    /\ now < subject[r[1]].at /\ subject[r[1]].at - r[2] <= now
    /\ {"in_app", r[3]} \subseteq reach

\* A reminder that stays due is claimed in the end: aborted runs and lost
\* collisions are made up for by later ones ("the next tick retries anything
\* not yet claimed").
DueIsClaimed == \A r \in Reminders : <>[]Due(r) => <>(r \in ledger)

=============================================================================
