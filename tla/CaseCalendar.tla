---------------------------- MODULE CaseCalendar ----------------------------
(***************************************************************************)
(* The staff calendar as a mirror of one case: every event that belongs    *)
(* there and every follow-up visit has a block on the calendar of the      *)
(* case's worker.                                                          *)
(*                                                                         *)
(* No handler here runs in a transaction.  Each writes its own record      *)
(* first and the blocks afterwards, one awaited statement at a time, over  *)
(* what it loaded in the beginning; `save` writes an entity whole and      *)
(* inserts it again when its row is gone; nothing keeps the blocks of an   *)
(* event down to one but the lookup before the save.  A foreign key ties a *)
(* block to its event: deleting the event leaves the block behind, untied. *)
(***************************************************************************)
EXTENDS Integers, FiniteSets

CONSTANTS
    Events,     \* events of the case, created or not
    Staff,      \* workers the case can be assigned to
    Nobody,     \* no worker, no event, no block
    Blocks,     \* identities of calendar blocks (a bound)
    Requests,   \* requests the server can have in hand (a bound)
    MaxVisits,  \* bound on the visits of a follow-up plan
    MaxOverlaps,\* bound on requests that begin while another is in hand
    MaxCuts     \* bound on requests that die half-way

ASSUME NobodyAssumption == Nobody \notin Events \cup Staff \cup Blocks
ASSUME StaffAssumption == IsFiniteSet(Staff)
ASSUME EventsAssumption == "plan" \notin Events
ASSUME BoundsAssumption == MaxVisits \in Nat /\ MaxOverlaps \in Nat /\ MaxCuts \in Nat

VARIABLES
    event,     \* event[e]: none yet, due, off (over, cancelled, not attended), gone
    assigned,  \* the worker in the case row
    block,     \* block[b]: the event a block was made for, whether `source_ref`
               \* still names it, and the worker it is for
    visits,    \* visits of the follow-up plan
    visitOf,   \* visitOf[w]: blocks of follow-up visits for worker w
    req,       \* req[q]: what a request is doing and what it has loaded
    overlaps,  \* requests begun beside another so far
    cuts,      \* requests cut so far
    blurred    \* history: what overlapping or cut requests have touched

vars == <<event, assigned, block, visits, visitOf, req, overlaps, cuts, blurred>>

Kinds      == {"create", "update", "remove", "assign", "plan"}
EventState == {"none", "due", "off", "gone"}

Idle == [pc |-> "idle", kind |-> "plan", e |-> Nobody, to |-> "none", who |-> Nobody,
         was |-> Nobody, found |-> Nobody, left |-> 0, todo |-> {},
         seen |-> [e \in Events |-> "none"]]

NoBlock == [event |-> Nobody, tied |-> FALSE, owner |-> Nobody]

Init ==
    /\ event = [e \in Events |-> "none"]
    /\ assigned \in Staff \cup {Nobody}
    /\ block = [b \in Blocks |-> NoBlock]
    /\ visits = 0
    /\ visitOf = [w \in Staff |-> 0]
    /\ req = [q \in Requests |-> Idle]
    /\ overlaps = 0 /\ cuts = 0
    /\ blurred = {}

\* shouldSyncCaseEvent: planned, and a home visit or a hearing the office attends.
Belongs(state) == state = "due"

Exists(e) == event[e] \in {"due", "off"}

\* The blocks a query by event finds.
BlocksOf(e) == {b \in Blocks : block[b].event = e /\ block[b].tied}

\* What a request reads or writes of the mirror: events, and the plan.
Touched(kind, e) == CASE kind = "assign" -> Events \cup {"plan"}
                      [] kind = "plan"   -> {"plan"}
                      [] OTHER           -> {e}

InHand == {q \in Requests : req[q].pc # "idle"}

\* Two requests in hand at once blur what both touch; a plan and an assignment
\* both save the case row, and with it the worker, so they blur everything.
Overlap(kind, e) ==
    UNION {LET other == req[q].kind IN
             IF {kind, other} \in {{"plan", "assign"}, {"assign"}} THEN Events \cup {"plan"}
             ELSE Touched(kind, e) \cap Touched(other, req[q].e) : q \in InHand}

Begin(q, kind, e, start) ==
    /\ req[q].pc = "idle"
    /\ InHand # {} => overlaps < MaxOverlaps
    /\ overlaps' = IF InHand = {} THEN overlaps ELSE overlaps + 1
    /\ req' = [req EXCEPT ![q] = start]
    /\ blurred' = blurred \cup Overlap(kind, e)
    /\ UNCHANGED <<event, assigned, block, visits, visitOf, cuts>>

-----------------------------------------------------------------------------
(* The requests and what they load *)

\* create loads the case, so the worker, before the event is saved.
AskCreate(q, e, to) ==
    /\ event[e] = "none"
    /\ \A p \in InHand : req[p].e # e
    /\ Begin(q, "create", e, [Idle EXCEPT !.pc = "event", !.kind = "create", !.e = e,
                                          !.to = to, !.who = assigned])

\* update and remove load the event.
AskUpdate(q, e, to) ==
    /\ Exists(e)
    /\ Begin(q, "update", e, [Idle EXCEPT !.pc = "event", !.kind = "update", !.e = e, !.to = to])

AskRemove(q, e) ==
    /\ Exists(e)
    /\ Begin(q, "remove", e, [Idle EXCEPT !.pc = "clear", !.kind = "remove", !.e = e])

\* updateCaseMeta and updateTransitionPlan load the case.
AskAssign(q, who) ==
    Begin(q, "assign", Nobody, [Idle EXCEPT !.pc = "case", !.kind = "assign",
                                            !.who = who, !.was = assigned])

AskPlan(q, n) ==
    Begin(q, "plan", Nobody, [Idle EXCEPT !.pc = "case", !.kind = "plan",
                                          !.who = assigned, !.left = n])

-----------------------------------------------------------------------------
(* Their steps *)

Goto(q, pc) == req' = [req EXCEPT ![q] = IF pc = "idle" THEN Idle ELSE [@ EXCEPT !.pc = pc]]

\* (mutant) an event that no longer belongs there keeps its block
AfterEventKeeps(q) ==
    IF req[q].kind = "create"
    THEN IF req[q].who = Nobody \/ ~Belongs(req[q].to) THEN "idle" ELSE "find"
    ELSE IF Belongs(req[q].to) THEN "who" ELSE "idle"

AfterEvent(q) ==
    IF req[q].kind = "create"
    THEN IF req[q].who = Nobody \/ ~Belongs(req[q].to) THEN "idle" ELSE "find"
    ELSE IF Belongs(req[q].to) THEN "who" ELSE "clear"

\* The save of the event.  One deleted since it was loaded is inserted again,
\* with an id of its own; here it comes back as the event it was, which is
\* blurred by then.
SaveEvent(q) ==
    /\ req[q].pc = "event"
    /\ event' = [event EXCEPT ![req[q].e] = req[q].to]
    /\ Goto(q, AfterEvent(q))
    /\ UNCHANGED <<assigned, block, visits, visitOf, overlaps, cuts, blurred>>

\* update loads the case when the event is saved; no worker, no block.
LoadWorker(q) ==
    /\ req[q].pc = "who"
    /\ req' = [req EXCEPT ![q] = IF assigned = Nobody THEN Idle
                                 ELSE [@ EXCEPT !.pc = "find", !.who = assigned]]
    /\ UNCHANGED <<event, assigned, block, visits, visitOf, overlaps, cuts, blurred>>

AfterClear(q) ==
    CASE req[q].kind = "update" -> "idle"
      [] req[q].kind = "remove" -> "delete"
      [] OTHER -> IF req[q].who # Nobody /\ Belongs(req[q].seen[req[q].e]) THEN "find" ELSE "next"

\* removeForEvent.
Clear(q) ==
    /\ req[q].pc = "clear"
    /\ block' = [b \in Blocks |-> IF b \in BlocksOf(req[q].e) THEN NoBlock ELSE block[b]]
    /\ Goto(q, AfterClear(q))
    /\ UNCHANGED <<event, assigned, visits, visitOf, overlaps, cuts, blurred>>

\* The event's row goes; ON DELETE SET NULL unties a block it has by now.
DeleteEvent(q) ==
    /\ req[q].pc = "delete"
    /\ event' = [event EXCEPT ![req[q].e] = "gone"]
    /\ block' = [b \in Blocks |-> IF b \in BlocksOf(req[q].e)
                                  THEN [block[b] EXCEPT !.tied = FALSE] ELSE block[b]]
    /\ Goto(q, "idle")
    /\ UNCHANGED <<assigned, visits, visitOf, overlaps, cuts, blurred>>

\* upsertForEvent: blockForEvent, any block of the event ...
Find(q) ==
    /\ req[q].pc = "find"
    /\ \E b \in IF BlocksOf(req[q].e) = {} THEN {Nobody} ELSE BlocksOf(req[q].e) :
         req' = [req EXCEPT ![q] = [@ EXCEPT !.pc = "put", !.found = b]]
    /\ UNCHANGED <<event, assigned, block, visits, visitOf, overlaps, cuts, blurred>>

Fresh == {b \in Blocks : block[b] = NoBlock /\ \A q \in Requests : req[q].found # b}

SaveBlock(q) ==
    /\ \E b \in IF req[q].found = Nobody THEN Fresh ELSE {req[q].found} :
         block' = [block EXCEPT ![b] = [event |-> req[q].e, tied |-> TRUE, owner |-> req[q].who]]
    /\ req' = [req EXCEPT ![q] = IF req[q].kind = "assign"
                                 THEN [@ EXCEPT !.pc = "next", !.found = Nobody] ELSE Idle]
    /\ UNCHANGED <<event, assigned, visits, visitOf, overlaps, cuts, blurred>>

\* (mutant) no foreign key
PutUntied(q) == req[q].pc = "put" /\ SaveBlock(q)

\* ... which is saved over, inserted again if it is gone, or a new one.
Put(q) == req[q].pc = "put" /\ Exists(req[q].e) /\ SaveBlock(q)

\* The event is gone: the foreign key refuses the block, the request fails
\* where it is, and a reassignment leaves the other events as they are.
PutRefused(q) ==
    /\ req[q].pc = "put" /\ ~Exists(req[q].e)
    /\ Goto(q, "idle")
    /\ blurred' = blurred \cup Touched(req[q].kind, req[q].e)
    /\ UNCHANGED <<event, assigned, block, visits, visitOf, overlaps, cuts>>

\* The case row is saved whole: an assignment sets the worker, a plan puts back
\* the one it loaded.
SaveCase(q) ==
    /\ req[q].pc = "case"
    /\ assigned' = req[q].who
    /\ Goto(q, IF req[q].kind = "plan" THEN "visits"
               ELSE IF req[q].who = req[q].was THEN "idle" ELSE "events")
    /\ UNCHANGED <<event, block, visits, visitOf, overlaps, cuts, blurred>>

\* moveForCase reads the events once and takes them in turn.
ReadEvents(q) ==
    /\ req[q].pc = "events"
    /\ req' = [req EXCEPT ![q] = [@ EXCEPT !.pc = "next", !.seen = event,
                                             !.todo = {e \in Events : Exists(e)}]]
    /\ UNCHANGED <<event, assigned, block, visits, visitOf, overlaps, cuts, blurred>>

NextEvent(q) ==
    /\ req[q].pc = "next"
    /\ \E e \in req[q].todo :
         req' = [req EXCEPT ![q] = [@ EXCEPT !.pc = "clear", !.e = e, !.todo = req[q].todo \ {e}]]
    /\ UNCHANGED <<event, assigned, block, visits, visitOf, overlaps, cuts, blurred>>

Total == LET f[S \in SUBSET Staff] ==
                 IF S = {} THEN 0 ELSE LET w == CHOOSE x \in S : TRUE IN visitOf[w] + f[S \ {w}]
         IN  f[Staff]

\* (mutant) the blocks of the visits stay with the former worker
MoveNoVisits(q) == visitOf

\* The blocks of the visits go to the new worker, or go when there is none.
MovedVisits(q) == [w \in Staff |-> IF w = req[q].who THEN Total ELSE 0]

MoveVisits(q) ==
    /\ req[q].pc = "next" /\ req[q].todo = {}
    /\ visitOf' = MovedVisits(q)
    /\ Goto(q, "idle")
    /\ UNCHANGED <<event, assigned, block, visits, overlaps, cuts, blurred>>

\* The visits of the plan are replaced ...
SaveVisits(q) ==
    /\ req[q].pc = "visits"
    /\ visits' = req[q].left
    /\ Goto(q, "clear visits")
    /\ UNCHANGED <<event, assigned, block, visitOf, overlaps, cuts, blurred>>

\* ... syncFollowUpVisitsForCase deletes their blocks ...
ClearVisits(q) ==
    /\ req[q].pc = "clear visits"
    /\ visitOf' = [w \in Staff |-> 0]
    /\ Goto(q, IF req[q].who = Nobody \/ req[q].left = 0 THEN "idle" ELSE "put visit")
    /\ UNCHANGED <<event, assigned, block, visits, overlaps, cuts, blurred>>

\* ... and saves new ones, one by one.
PutVisit(q) ==
    /\ req[q].pc = "put visit"
    /\ visitOf' = [visitOf EXCEPT ![req[q].who] = @ + 1]
    /\ req' = IF req[q].left = 1 THEN [req EXCEPT ![q] = Idle] ELSE [req EXCEPT ![q].left = @ - 1]
    /\ UNCHANGED <<event, assigned, block, visits, overlaps, cuts, blurred>>

\* The server stops or a statement fails: what is written stays written.
Cut(q) ==
    /\ req[q].pc # "idle" /\ cuts < MaxCuts
    /\ cuts' = cuts + 1
    /\ Goto(q, "idle")
    /\ blurred' = blurred \cup Touched(req[q].kind, req[q].e)
    /\ UNCHANGED <<event, assigned, block, visits, visitOf, overlaps>>

-----------------------------------------------------------------------------
Ask(q) ==
    \/ \E e \in Events : \/ \E to \in {"due", "off"} : AskCreate(q, e, to) \/ AskUpdate(q, e, to)
                         \/ AskRemove(q, e)
    \/ \E who \in Staff \cup {Nobody} : AskAssign(q, who)
    \/ \E n \in 0..MaxVisits : AskPlan(q, n)

Step(q) ==
    \/ SaveEvent(q) \/ LoadWorker(q) \/ Clear(q) \/ DeleteEvent(q) \/ Find(q) \/ Put(q) \/ PutRefused(q)
    \/ SaveCase(q) \/ ReadEvents(q) \/ NextEvent(q) \/ MoveVisits(q)
    \/ SaveVisits(q) \/ ClearVisits(q) \/ PutVisit(q)

Next == \E q \in Requests : Ask(q) \/ Step(q) \/ Cut(q)

Spec == Init /\ [][Next]_vars

-----------------------------------------------------------------------------
(* Correctness *)

\* Values stay in their domains; what a block is tied to exists.
TypeOK ==
    /\ event \in [Events -> EventState]
    /\ assigned \in Staff \cup {Nobody}
    /\ block \in [Blocks -> [event : Events \cup {Nobody}, tied : BOOLEAN,
                          owner : Staff \cup {Nobody}]]
    /\ visits \in 0..MaxVisits
    /\ visitOf \in [Staff -> Nat]
    /\ req \in [Requests ->
         [pc : {"idle", "event", "who", "clear", "delete", "find", "put", "case", "events",
                "next", "visits", "clear visits", "put visit"},
          kind : Kinds, e : Events \cup {Nobody}, to : EventState,
          who : Staff \cup {Nobody}, was : Staff \cup {Nobody}, found : Blocks \cup {Nobody},
          left : 0..MaxVisits, todo : SUBSET Events, seen : [Events -> EventState]]]
    /\ overlaps \in 0..MaxOverlaps /\ cuts \in 0..MaxCuts
    /\ blurred \subseteq Events \cup {"plan"}
    /\ \A b \in Blocks : block[b].tied => block[b].event \in Events /\ Exists(block[b].event)

Quiet == InHand = {}

\* Every block made for an event and not deleted, tied to it or not.
MadeFor(e) == {b \in Blocks : block[b].event = e}

\* When nothing is in hand, an event that belongs on the calendar has exactly
\* one block, on the calendar of the case's worker, and any other has none,
\* through any sequence of edits, removals and reassignments and with other
\* events edited at the same time; events touched by two requests at once or
\* by one cut half-way are excepted.
EventsMirrored ==
    Quiet => \A e \in Events \ blurred :
        IF Belongs(event[e]) /\ assigned # Nobody
        THEN \E b \in Blocks : MadeFor(e) = {b} /\ block[b].tied /\ block[b].owner = assigned
        ELSE MadeFor(e) = {}

\* Blocks of follow-up visits, where there are any, are those of the plan and on
\* the calendar of the case's worker.
VisitsNeverAstray ==
    Quiet /\ "plan" \notin blurred =>
        \A w \in Staff : visitOf[w] > 0 => w = assigned /\ visitOf[w] = visits

=============================================================================
