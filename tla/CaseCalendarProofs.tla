------------------------- MODULE CaseCalendarProofs -------------------------
(***************************************************************************)
(* For any events, workers, blocks and requests in hand at once: what no   *)
(* two requests touched at once, and no cut one, is mirrored.              *)
(*                                                                         *)
(* An event that is not blurred has one request at most at work on it, and *)
(* that request's place in its handler says how far the mirror has got.    *)
(*                                                                         *)
(* The blocks of follow-up visits are counted.  A request at the plan that *)
(* overlaps no other and is not cut has them all with one worker, and its  *)
(* place in the handler says with whom and how many are still to be put.   *)
(* Moving them adds them up: the sum is a recursive function, so that its  *)
(* equation, and what it is when all but one worker have none, is proved   *)
(* first, from the least size of a set for which it would fail.            *)
(***************************************************************************)
EXTENDS CaseCalendar, TLAPS, WellFoundedInduction, FiniteSetTheorems

-----------------------------------------------------------------------------
(* The mirror of one event *)

Bare(e)  == MadeFor(e) = {}
Sole(e)  == \E b \in Blocks : MadeFor(e) = {b} /\ block[b].tied
Loose(e) == Bare(e) \/ Sole(e)
On(e, w) == \E b \in Blocks : MadeFor(e) = {b} /\ block[b].tied /\ block[b].owner = w

Mirrored(e, w) == IF Belongs(event[e]) /\ w # Nobody THEN On(e, w) ELSE Bare(e)

Touches(q, e) == e \in Touched(req[q].kind, req[q].e)

-----------------------------------------------------------------------------
(* The invariant *)

BlockRecord == [event : Events \cup {Nobody}, tied : BOOLEAN, owner : Staff \cup {Nobody}]

\* The places of each handler.
Places(kind) == CASE kind = "create" -> {"event", "find", "put"}
                  [] kind = "update" -> {"event", "who", "clear", "find", "put"}
                  [] kind = "remove" -> {"clear", "delete"}
                  [] kind = "assign" -> {"case", "events", "next", "clear", "find", "put"}
                  [] OTHER           -> {"case", "visits", "clear visits", "put visit"}

AllPlaces == {"idle", "event", "who", "clear", "delete", "find", "put", "case", "events",
              "next", "visits", "clear visits", "put visit"}

ReqRecord == [pc : AllPlaces, kind : Kinds, e : Events \cup {Nobody}, to : EventState,
              who : Staff \cup {Nobody}, was : Staff \cup {Nobody},
              found : Blocks \cup {Nobody}, left : Int, todo : SUBSET Events,
              seen : [Events -> EventState]]

Typed ==
    /\ event \in [Events -> EventState]
    /\ assigned \in Staff \cup {Nobody}
    /\ block \in [Blocks -> BlockRecord]
    /\ req \in [Requests -> ReqRecord]
    /\ \A q \in Requests :
         /\ req[q].pc = "idle" \/ req[q].pc \in Places(req[q].kind)
         /\ req[q].kind \in {"create", "update", "remove"} => req[q].e \in Events
         /\ req[q].kind = "assign" /\ req[q].pc \in {"clear", "find", "put"} => req[q].e \in Events

\* A block a request has found is its event's until it saves it, or nobody's.
FoundIsOurs ==
    \A q \in Requests : req[q].found # Nobody =>
        /\ req[q].pc = "put" /\ req[q].found \in Blocks
        /\ block[req[q].found].event \in {req[q].e, Nobody}
        /\ block[req[q].found].event = Nobody => block[req[q].found] = NoBlock
        /\ \A p \in Requests : req[p].found = req[q].found => req[p].e = req[q].e

\* What is not blurred, one request at most is at.
Alone(e) ==
    \A p, q \in InHand : p # q =>
        /\ ~(Touches(p, e) /\ Touches(q, e))
        /\ {req[p].kind, req[q].kind} \notin {{"plan", "assign"}, {"assign"}}

\* A plan puts the worker back who is there.
PlanKeepsWorker == \A q \in InHand : req[q].kind = "plan" /\ req[q].pc = "case" => req[q].who = assigned

\* How far a request has brought the mirror of an event it touches.
CreatePhase(x, e) ==
    /\ x.who = assigned /\ Bare(e) /\ x.found = Nobody
    /\ x.pc \in {"find", "put"} => Belongs(event[e]) /\ x.who # Nobody

UpdatePhase(x, e) ==
    /\ x.pc = "event" => Mirrored(e, assigned)
    /\ x.pc = "who" => Belongs(event[e]) /\ Loose(e) /\ (assigned = Nobody => Bare(e))
    /\ x.pc \in {"find", "put"} =>
         Belongs(event[e]) /\ x.who = assigned /\ assigned # Nobody /\ Loose(e)
    /\ x.pc = "put" => MadeFor(e) = IF x.found = Nobody THEN {} ELSE {x.found}
    /\ x.pc = "clear" => ~Belongs(event[e]) /\ Loose(e)

RemovePhase(x, e) == /\ x.pc = "clear" => Loose(e)
                     /\ x.pc = "delete" => Bare(e)

AssignPhase(x, e) ==
    /\ x.pc = "case" => Mirrored(e, assigned) /\ x.was = assigned
    /\ x.pc = "events" => Mirrored(e, x.was)
    /\ x.pc # "case" => assigned = x.who
    /\ x.pc \in {"clear", "find", "put"} => x.e \notin x.todo
    /\ x.pc \in {"next", "clear", "find", "put"} =>
         IF e \in x.todo \/ (e = x.e /\ x.pc = "clear") THEN Loose(e) /\ x.seen[e] = event[e]
         ELSE IF e = x.e /\ x.pc \in {"find", "put"}
         THEN Bare(e) /\ Belongs(event[e]) /\ x.who # Nobody /\ x.found = Nobody
         ELSE Mirrored(e, x.who)

Phase(x, e) == /\ x.kind = "create" => CreatePhase(x, e)
               /\ x.kind = "update" => UpdatePhase(x, e)
               /\ x.kind = "remove" => RemovePhase(x, e)
               /\ x.kind = "assign" => AssignPhase(x, e)

Followed(e) ==
    /\ Alone(e) /\ PlanKeepsWorker
    /\ (\A q \in InHand : ~Touches(q, e)) => Mirrored(e, assigned)
    /\ \A q \in InHand : Touches(q, e) => Phase(req[q], e)

Inv == Typed /\ FoundIsOurs /\ \A e \in Events \ blurred : Followed(e)

LEMMA InitInv == Init => Inv
<1> SUFFICES ASSUME Init PROVE Inv
  OBVIOUS
<1>1. \A q \in Requests : req[q] = Idle
  BY DEF Init
<1>2. Typed
  <2>1. Idle \in ReqRecord
    BY BoundsAssumption DEF Idle, ReqRecord, AllPlaces, Kinds, EventState
  <2>2. NoBlock \in BlockRecord
    BY DEF NoBlock, BlockRecord
  <2> QED BY <1>1, <2>1, <2>2 DEF Init, Typed, EventState, Idle
<1>3. FoundIsOurs /\ InHand = {}
  BY <1>1 DEF FoundIsOurs, Idle, InHand
<1>4. \A e \in Events : Bare(e) /\ ~Belongs(event[e])
  BY NobodyAssumption DEF Init, Bare, MadeFor, NoBlock, Belongs
<1>5. \A e \in Events : Followed(e)
  BY <1>3, <1>4 DEF Followed, Alone, PlanKeepsWorker, Mirrored
<1> QED BY <1>2, <1>3, <1>5 DEF Inv

-----------------------------------------------------------------------------
(* A step that is elsewhere *)

\* The mirror of the event is as it was.
Same(e) == /\ event'[e] = event[e]
           /\ \A b \in Blocks : /\ block'[b].event = e <=> block[b].event = e
                                /\ block[b].event = e => block'[b] = block[b]

LEMMA SameMirror ==
    ASSUME NEW e, Same(e)
    PROVE  /\ MadeFor(e)' = MadeFor(e) /\ event'[e] = event[e]
           /\ Bare(e)' <=> Bare(e)
           /\ Loose(e)' <=> Loose(e)
           /\ \A b \in MadeFor(e) : block'[b] = block[b]
<1>1. MadeFor(e)' = MadeFor(e) /\ \A b \in MadeFor(e) : block'[b] = block[b]
  BY DEF Same, MadeFor
<1>2. Sole(e)' <=> Sole(e)
  BY <1>1 DEF Sole
<1> QED BY <1>1, <1>2 DEF Same, Bare, Loose

LEMMA SameOn ==
    ASSUME NEW e, Same(e), NEW w, NEW v, v = w
    PROVE  /\ On(e, v)' <=> On(e, w)
           /\ Mirrored(e, v)' <=> Mirrored(e, w)
<1>1. MadeFor(e)' = MadeFor(e) /\ \A b \in MadeFor(e) : block'[b] = block[b]
  BY SameMirror
<1>2. On(e, v)' <=> On(e, w)
  BY <1>1 DEF On
<1> QED BY <1>2, SameMirror DEF Mirrored, Belongs

\* A request that did not move has brought the mirror as far as it had.
LEMMA SamePhase ==
    ASSUME NEW e, Same(e), assigned' = assigned, NEW p, req'[p] = req[p], Phase(req[p], e)
    PROVE  Phase(req[p], e)'
<1>1. /\ MadeFor(e)' = MadeFor(e) /\ event'[e] = event[e]
      /\ Bare(e)' <=> Bare(e)
      /\ Loose(e)' <=> Loose(e)
      /\ Belongs(event[e])' <=> Belongs(event[e])
  BY SameMirror DEF Belongs
<1>2. /\ Mirrored(e, assigned)' <=> Mirrored(e, assigned)
      /\ Mirrored(e, req[p].who)' <=> Mirrored(e, req[p].who)
      /\ Mirrored(e, req[p].was)' <=> Mirrored(e, req[p].was)
  <2>1. \A b \in MadeFor(e) : block'[b] = block[b]
    BY SameMirror
  <2> QED BY <1>1, <2>1 DEF Mirrored, On
<1>3. CreatePhase(req[p], e) => CreatePhase(req[p], e)'
  BY <1>1 DEF CreatePhase
<1>4. UpdatePhase(req[p], e) => UpdatePhase(req[p], e)'
  BY <1>1, <1>2 DEF UpdatePhase
<1>5. RemovePhase(req[p], e) => RemovePhase(req[p], e)'
  BY <1>1 DEF RemovePhase
<1>6. AssignPhase(req[p], e) => AssignPhase(req[p], e)'
  BY <1>1, <1>2, Zenon DEF AssignPhase
<1> QED BY <1>3, <1>4, <1>5, <1>6 DEF Phase

\* What a step of a request has to do: to leave alone what it does not touch,
\* and to bring the mirror of what it touches to its next phase, or to its end.
Outcome(q, e) ==
    /\ req[q].kind # "assign" => assigned' = assigned
    /\ ~Touches(q, e) => Same(e)
    /\ Touches(q, e) => IF req'[q].pc = "idle" THEN Mirrored(e, assigned)' ELSE Phase(req[q], e)'

LEMMA StepKeeps ==
    ASSUME Inv, Typed', FoundIsOurs', NEW q \in InHand,
           \A p \in Requests \ {q} : req'[p] = req[p],
           req'[q].pc # "case",
           \/ req'[q].pc = "idle"
           \/ req'[q].kind = req[q].kind /\ (req'[q].e = req[q].e \/ req[q].kind = "assign"),
           blurred \subseteq blurred',
           \A e \in Events \ blurred' : Outcome(q, e)
    PROVE  Inv'
<1> SUFFICES ASSUME NEW e \in Events, e \notin blurred' PROVE Followed(e)'
  BY DEF Inv
<1>1. Followed(e) /\ Outcome(q, e)
  BY DEF Inv
<1>2. \A p \in InHand' : p = q \/ (p \in InHand /\ req'[p] = req[p])
  BY DEF InHand
<1>3. \A p \in InHand' : (Touches(p, e)' <=> Touches(p, e)) /\ req'[p].kind = req[p].kind
  <2>1. q \in InHand' => (Touches(q, e)' <=> Touches(q, e)) /\ req'[q].kind = req[q].kind
    BY DEF Touches, Touched, InHand
  <2> QED BY <1>2, <2>1 DEF Touches
<1>4. InHand' \subseteq InHand
  BY <1>2
<1>5. Alone(e)'
  BY <1>1, <1>3, <1>4 DEF Followed, Alone
<1>6. PlanKeepsWorker'
  <2> SUFFICES ASSUME NEW p \in InHand', req'[p].kind = "plan", req'[p].pc = "case"
               PROVE  req'[p].who = assigned'
    BY DEF PlanKeepsWorker
  <2>1. p # q /\ p \in InHand /\ req'[p] = req[p]
    BY <1>2
  <2>2. req[q].kind # "assign"
    BY <1>1, <2>1 DEF Followed, Alone
  <2> QED BY <1>1, <2>1, <2>2 DEF Followed, PlanKeepsWorker, Outcome
<1>7. ASSUME NEW p \in InHand', Touches(p, e)' PROVE Phase(req[p], e)'
  <2>1. CASE p = q
    BY <1>1, <1>3, <1>7, <2>1 DEF Outcome, InHand
  <2>2. CASE p # q
    <3>1. p \in InHand /\ req'[p] = req[p] /\ Touches(p, e)
      BY <1>2, <1>3, <1>7, <2>2
    <3>2. ~Touches(q, e) /\ Phase(req[p], e)
      BY <1>1, <2>2, <3>1 DEF Followed, Alone
    <3>3. req[q].kind # "assign"
      BY <3>2 DEF Touches, Touched
    <3> QED BY <1>1, <3>1, <3>2, <3>3, SamePhase DEF Outcome
  <2> QED BY <2>1, <2>2
<1>8. ASSUME \A p \in InHand' : ~Touches(p, e)' PROVE Mirrored(e, assigned)'
  <2>1. CASE Touches(q, e)
    <3>1. req'[q].pc = "idle"
      BY <1>3, <1>8, <2>1 DEF InHand
    <3> QED BY <1>1, <2>1, <3>1 DEF Outcome
  <2>2. CASE ~Touches(q, e)
    <3>1. \A p \in InHand : ~Touches(p, e)
      <4> SUFFICES ASSUME NEW p \in InHand, p # q PROVE ~Touches(p, e)
        BY <2>2
      <4>1. p \in InHand'
        BY DEF InHand
      <4> QED BY <1>3, <1>8, <4>1
    <3>2. Mirrored(e, assigned)
      BY <1>1, <3>1 DEF Followed
    <3>3. Same(e) /\ assigned' = assigned
      BY <1>1, <2>2 DEF Outcome, Touches, Touched
    <3>4. MadeFor(e)' = MadeFor(e) /\ (\A b \in MadeFor(e) : block'[b] = block[b])
          /\ event'[e] = event[e]
      BY <3>3, SameMirror
    <3> QED BY <3>2, <3>3, <3>4 DEF Mirrored, On, Bare, Belongs
  <2> QED BY <2>1, <2>2
<1> QED BY <1>5, <1>6, <1>7, <1>8 DEF Followed

-----------------------------------------------------------------------------
(* The steps of the requests *)

LEMMA IdleIsTyped == Idle \in ReqRecord /\ NoBlock \in BlockRecord
  BY BoundsAssumption DEF Idle, NoBlock, ReqRecord, BlockRecord, AllPlaces, Kinds, EventState

\* What a request may have found is still its event's, or nobody's.
FindsKept(q) ==
    \A p \in Requests \ {q} : req[p].found # Nobody =>
        /\ block'[req[p].found].event \in {req[p].e, Nobody}
        /\ block'[req[p].found].event = Nobody => block'[req[p].found] = NoBlock

\* No block turns into another event's.
LEMMA FindsStay ==
    ASSUME Inv, NEW q,
           \A b \in Blocks : block'[b] = NoBlock \/ block'[b].event = block[b].event,
           \A b \in Blocks : block[b] = NoBlock => block'[b] = NoBlock
    PROVE  FindsKept(q)
<1> SUFFICES ASSUME NEW p \in Requests \ {q}, req[p].found # Nobody
             PROVE  /\ block'[req[p].found].event \in {req[p].e, Nobody}
                    /\ block'[req[p].found].event = Nobody => block'[req[p].found] = NoBlock
  BY DEF FindsKept
<1>1. /\ req[p].found \in Blocks
      /\ block[req[p].found].event \in {req[p].e, Nobody}
      /\ block[req[p].found].event = Nobody => block[req[p].found] = NoBlock
  BY DEF Inv, FoundIsOurs
<1>2. CASE block'[req[p].found] = NoBlock
  BY <1>2 DEF NoBlock
<1>3. CASE block'[req[p].found] # NoBlock
  BY <1>1, <1>3
<1> QED BY <1>2, <1>3

\* A request goes on with another record, and holds no block.
LEMMA MoveKeeps ==
    ASSUME Inv, NEW q \in InHand, NEW x \in ReqRecord, req' = [req EXCEPT ![q] = x],
           x.pc = "idle" \/ x.pc \in Places(x.kind), x.found = Nobody,
           x.kind \in {"create", "update", "remove"} => x.e \in Events,
           x.kind = "assign" /\ x.pc \in {"clear", "find", "put"} => x.e \in Events,
           event' \in [Events -> EventState], assigned' \in Staff \cup {Nobody},
           block' \in [Blocks -> BlockRecord], FindsKept(q)
    PROVE  /\ Typed' /\ FoundIsOurs'
           /\ \A p \in Requests \ {q} : req'[p] = req[p]
           /\ req'[q] = x
<1>1. q \in Requests /\ req \in [Requests -> ReqRecord]
  BY DEF InHand, Inv, Typed
<1>2. /\ \A p \in Requests \ {q} : req'[p] = req[p]
      /\ req'[q] = x
      /\ req' \in [Requests -> ReqRecord]
  BY <1>1
<1>3. Typed'
  <2>1. \A p \in Requests :
          /\ req'[p].pc = "idle" \/ req'[p].pc \in Places(req'[p].kind)
          /\ req'[p].kind \in {"create", "update", "remove"} => req'[p].e \in Events
          /\ req'[p].kind = "assign" /\ req'[p].pc \in {"clear", "find", "put"} => req'[p].e \in Events
    <3> SUFFICES ASSUME NEW p \in Requests
                 PROVE  /\ req'[p].pc = "idle" \/ req'[p].pc \in Places(req'[p].kind)
                        /\ req'[p].kind \in {"create", "update", "remove"} => req'[p].e \in Events
                        /\ req'[p].kind = "assign" /\ req'[p].pc \in {"clear", "find", "put"}
                              => req'[p].e \in Events
      OBVIOUS
    <3>1. CASE p # q
      BY <1>2, <3>1 DEF Inv, Typed
    <3>2. CASE p = q
      BY <1>2, <3>2
    <3> QED BY <3>1, <3>2
  <2> QED BY <1>2, <2>1 DEF Typed
<1>4. FoundIsOurs'
  <2> SUFFICES ASSUME NEW p \in Requests, req'[p].found # Nobody
               PROVE  /\ req'[p].pc = "put" /\ req'[p].found \in Blocks
                      /\ block'[req'[p].found].event \in {req'[p].e, Nobody}
                      /\ block'[req'[p].found].event = Nobody => block'[req'[p].found] = NoBlock
                      /\ \A r \in Requests : req'[r].found = req'[p].found => req'[r].e = req'[p].e
    BY DEF FoundIsOurs
  <2>1. p # q /\ req'[p] = req[p]
    BY <1>2
  <2>2. /\ req[p].pc = "put" /\ req[p].found \in Blocks
        /\ \A r \in Requests : req[r].found = req[p].found => req[r].e = req[p].e
    BY <2>1 DEF Inv, FoundIsOurs
  <2>3. \A r \in Requests : req'[r].found = req'[p].found => req'[r] = req[r]
    BY <1>2
  <2>4. /\ block'[req[p].found].event \in {req[p].e, Nobody}
        /\ block'[req[p].found].event = Nobody => block'[req[p].found] = NoBlock
    BY <2>1 DEF FindsKept
  <2> QED BY <2>1, <2>2, <2>3, <2>4
<1> QED BY <1>2, <1>3, <1>4

\* A request goes to another place, or ends.
LEMMA GotoKeeps ==
    ASSUME Inv, NEW q \in InHand, NEW pc \in AllPlaces, Goto(q, pc),
           pc = "idle" \/ (pc \in Places(req[q].kind) /\ req[q].found = Nobody),
           req[q].kind = "assign" /\ pc \in {"clear", "find", "put"} => req[q].e \in Events,
           event' \in [Events -> EventState], assigned' \in Staff \cup {Nobody},
           block' \in [Blocks -> BlockRecord], FindsKept(q)
    PROVE  /\ Typed' /\ FoundIsOurs'
           /\ \A p \in Requests \ {q} : req'[p] = req[p]
           /\ req'[q] = IF pc = "idle" THEN Idle ELSE [req[q] EXCEPT !.pc = pc]
           /\ req'[q].pc = pc
           /\ pc = "idle" \/ (req'[q].kind = req[q].kind /\ req'[q].e = req[q].e)
<1> DEFINE x == IF pc = "idle" THEN Idle ELSE [req[q] EXCEPT !.pc = pc]
<1>1. q \in Requests /\ req \in [Requests -> ReqRecord] /\ req[q] \in ReqRecord
      /\ (req[q].kind \in {"create", "update", "remove"} => req[q].e \in Events)
  BY DEF InHand, Inv, Typed
<1>2. req' = [req EXCEPT ![q] = x] /\ x \in ReqRecord /\ x.pc = pc
      /\ (pc = "idle" \/ (x.kind = req[q].kind /\ x.e = req[q].e /\ x.found = req[q].found))
      /\ (pc = "idle" => x.found = Nobody /\ x.kind = "plan")
  <2>1. CASE pc = "idle"
    BY <1>1, <2>1, IdleIsTyped DEF Goto, Idle
  <2>2. CASE pc # "idle"
    BY <1>1, <2>2 DEF Goto, ReqRecord
  <2> QED BY <2>1, <2>2
<1>3. x.pc = "idle" \/ x.pc \in Places(x.kind)
  BY <1>2
<1>4. /\ x.found = Nobody
      /\ x.kind \in {"create", "update", "remove"} => x.e \in Events
      /\ x.kind = "assign" /\ x.pc \in {"clear", "find", "put"} => x.e \in Events
  BY <1>1, <1>2
<1>5. /\ Typed' /\ FoundIsOurs'
      /\ \A p \in Requests \ {q} : req'[p] = req[p]
      /\ req'[q] = x
  <2> HIDE DEF x
  <2> QED BY <1>2, <1>3, <1>4, MoveKeeps
<1> QED BY <1>2, <1>5

\* One request at most is at an event that is not blurred, and it is in its phase.
LEMMA AtWork ==
    ASSUME Inv, NEW q \in InHand, NEW e \in Events, e \notin blurred
    PROVE  /\ Touches(q, e) => Phase(req[q], e)
           /\ req[q].kind = "plan" => ~Touches(q, e)
           /\ req[q].kind = "assign" => Touches(q, e)
           /\ req[q].kind \in {"create", "update", "remove"} => (Touches(q, e) <=> e = req[q].e)
<1>1. Touches(q, e) => Phase(req[q], e)
  BY DEF Inv, Followed
<1> QED BY <1>1, EventsAssumption DEF Touches, Touched

LEMMA SaveEventKeeps == ASSUME Inv, NEW q \in Requests, SaveEvent(q) PROVE Inv'
<1>1. q \in InHand /\ req[q] \in ReqRecord /\ req[q].kind \in {"create", "update"} /\ req[q].e \in Events
      /\ req[q].found = Nobody /\ event[req[q].e] \in EventState
  BY DEF SaveEvent, InHand, Inv, Typed, FoundIsOurs, Places, ReqRecord, Kinds
<1>2. AfterEvent(q) \in AllPlaces \cap ({"idle"} \cup Places(req[q].kind)) /\ AfterEvent(q) # "case"
  <2>1. CASE req[q].kind = "create"
    <3>1. AfterEvent(q) \in {"idle", "find"}
      BY <2>1 DEF AfterEvent
    <3>2. {"event", "find", "put"} = Places(req[q].kind)
      BY <2>1 DEF Places
    <3> QED BY <3>1, <3>2 DEF AllPlaces
  <2>2. CASE req[q].kind = "update"
    <3>1. AfterEvent(q) \in {"who", "clear"}
      BY <2>2 DEF AfterEvent
    <3>2. {"event", "who", "clear", "find", "put"} = Places(req[q].kind)
      BY <2>2 DEF Places
    <3> QED BY <3>1, <3>2 DEF AllPlaces
  <2> QED BY <1>1, <2>1, <2>2
<1>3. event' \in [Events -> EventState] /\ event' = [event EXCEPT ![req[q].e] = req[q].to]
      /\ assigned' = assigned /\ block' = block /\ blurred' = blurred /\ Goto(q, AfterEvent(q))
  BY <1>1 DEF SaveEvent, Inv, Typed, ReqRecord
<1>4. /\ assigned \in Staff \cup {Nobody} /\ block \in [Blocks -> BlockRecord]
      /\ event \in [Events -> EventState]
  BY DEF Inv, Typed
<1>7. FindsKept(q)
  BY <1>3, FindsStay
<1>5. /\ Typed' /\ FoundIsOurs'
      /\ \A p \in Requests \ {q} : req'[p] = req[p]
      /\ req'[q] = IF AfterEvent(q) = "idle" THEN Idle ELSE [req[q] EXCEPT !.pc = AfterEvent(q)]
      /\ req'[q].pc = AfterEvent(q)
      /\ AfterEvent(q) = "idle" \/ (req'[q].kind = req[q].kind /\ req'[q].e = req[q].e)
  BY <1>1, <1>2, <1>3, <1>4, <1>7, GotoKeeps
<1>6. ASSUME NEW e \in Events, e \notin blurred PROVE Outcome(q, e)
  <2>1. (Touches(q, e) <=> e = req[q].e) /\ (Touches(q, e) => Phase(req[q], e))
    BY <1>1, <1>6, AtWork
  <2>2. ~Touches(q, e) => Same(e)
    BY <1>3, <1>4, <2>1 DEF Same
  <2>3. CASE Touches(q, e)
    <3>1. /\ event'[e] = req[q].to /\ MadeFor(e)' = MadeFor(e) /\ (Bare(e)' <=> Bare(e))
          /\ (Loose(e)' <=> Loose(e)) /\ (Belongs(event[e])' <=> Belongs(req[q].to))
      BY <1>3, <1>4, <2>1, <2>3 DEF MadeFor, Bare, Loose, Sole, Belongs
    <3>2. CASE req[q].kind = "create"
      <4>1. req[q].who = assigned /\ Bare(e)
        BY <2>1, <2>3, <3>2 DEF Phase, CreatePhase
      <4>2. CASE req[q].who = Nobody \/ ~Belongs(req[q].to)
        <5>1. Mirrored(e, assigned)'
          BY <1>3, <3>1, <4>1, <4>2 DEF Mirrored
        <5>2. req'[q].pc = "idle"
          BY <1>5, <3>2, <4>2 DEF AfterEvent
        <5> QED BY <1>3, <2>3, <5>1, <5>2 DEF Outcome
      <4>3. CASE ~(req[q].who = Nobody \/ ~Belongs(req[q].to))
        <5>1. AfterEvent(q) = "find"
          BY <3>2, <4>3 DEF AfterEvent
        <5>2. /\ req'[q].pc = "find" /\ req'[q].kind = "create"
              /\ req'[q].who = req[q].who /\ req'[q].found = Nobody
          BY <1>1, <1>5, <3>2, <5>1 DEF ReqRecord
        <5>3. Phase(req[q], e)'
          BY <1>3, <3>1, <4>1, <4>3, <5>2 DEF Phase, CreatePhase
        <5> QED BY <1>3, <2>3, <5>2, <5>3 DEF Outcome
      <4> QED BY <4>2, <4>3
    <3>3. CASE req[q].kind = "update"
      <4>1. Mirrored(e, assigned)
        BY <2>1, <2>3, <3>3 DEF Phase, UpdatePhase, SaveEvent
      <4>2. Loose(e) /\ (assigned = Nobody => Bare(e))
        BY <4>1 DEF Mirrored, On, Loose, Sole
      <4> QED BY <1>1, <1>3, <1>5, <2>3, <3>1, <3>3, <4>2
              DEF Outcome, AfterEvent, Phase, UpdatePhase, ReqRecord
    <3> QED BY <1>1, <3>2, <3>3
  <2> QED BY <1>3, <2>2, <2>3 DEF Outcome
<1> QED BY <1>1, <1>2, <1>3, <1>5, <1>6, StepKeeps

LEMMA LoadWorkerKeeps == ASSUME Inv, NEW q \in Requests, LoadWorker(q) PROVE Inv'
<1> DEFINE x == IF assigned = Nobody THEN Idle ELSE [req[q] EXCEPT !.pc = "find", !.who = assigned]
<1>1. /\ q \in InHand /\ req[q] \in ReqRecord /\ req[q].kind = "update" /\ req[q].e \in Events
      /\ req[q].found = Nobody /\ req[q].pc = "who"
  BY DEF LoadWorker, InHand, Inv, Typed, FoundIsOurs, Places, ReqRecord, Kinds
<1>2. /\ event' = event /\ assigned' = assigned /\ block' = block /\ blurred' = blurred
      /\ req' = [req EXCEPT ![q] = x]
      /\ event \in [Events -> EventState] /\ assigned \in Staff \cup {Nobody}
      /\ block \in [Blocks -> BlockRecord]
  BY DEF LoadWorker, Inv, Typed
<1>3. /\ x \in ReqRecord /\ x.found = Nobody
      /\ x.pc = "idle" \/ (x.pc = "find" /\ x.kind = "update" /\ x.e = req[q].e)
      /\ x.kind \in {"create", "update", "remove"} => x.e \in Events
      /\ x.kind # "assign"
      /\ assigned = Nobody => x.pc = "idle"
      /\ assigned # Nobody => x.pc = "find" /\ x.who = assigned
  <2>1. CASE assigned = Nobody
    BY <2>1, IdleIsTyped DEF Idle
  <2>2. CASE assigned # Nobody
    BY <1>1, <1>2, <2>2 DEF ReqRecord, AllPlaces
  <2> QED BY <2>1, <2>2
<1> HIDE DEF x
<1>4. x.pc = "idle" \/ x.pc \in Places(x.kind)
  BY <1>3 DEF Places
<1>5. FindsKept(q)
  BY <1>2, FindsStay
<1>6. Typed' /\ FoundIsOurs' /\ (\A p \in Requests \ {q} : req'[p] = req[p]) /\ req'[q] = x
  BY <1>1, <1>2, <1>3, <1>4, <1>5, MoveKeeps
<1>7. ASSUME NEW e \in Events, e \notin blurred PROVE Outcome(q, e)
  <2>1. (Touches(q, e) => Phase(req[q], e)) /\ Same(e)
    BY <1>1, <1>2, <1>7, AtWork DEF Same
  <2>2. ASSUME Touches(q, e)
        PROVE  IF x.pc = "idle" THEN Mirrored(e, assigned)' ELSE Phase(req[q], e)'
    <3>1. Belongs(event[e]) /\ Loose(e) /\ (assigned = Nobody => Bare(e))
      BY <1>1, <2>1, <2>2 DEF Phase, UpdatePhase
    <3>2. /\ Belongs(event[e])' /\ Loose(e)' /\ (assigned = Nobody => Bare(e)')
      BY <1>2, <2>1, <3>1, SameMirror DEF Belongs
    <3>3. CASE assigned = Nobody
      BY <1>2, <1>3, <3>2, <3>3 DEF Mirrored
    <3>4. CASE assigned # Nobody
      <4>1. UpdatePhase(req[q], e)'
        BY <1>2, <1>3, <1>6, <3>2, <3>4 DEF UpdatePhase
      <4> QED BY <1>3, <1>6, <3>4, <4>1 DEF Phase
    <3> QED BY <3>3, <3>4
  <2> QED BY <1>2, <1>6, <2>1, <2>2 DEF Outcome
<1> QED BY <1>1, <1>2, <1>3, <1>6, <1>7, StepKeeps

\* Deleting the blocks of an event leaves it bare, and the others alone.
LEMMA Cleared ==
    ASSUME Inv, NEW f \in Events,
           block' = [b \in Blocks |-> IF b \in BlocksOf(f) THEN NoBlock ELSE block[b]]
    PROVE  /\ Loose(f) => Bare(f)'
           /\ \A e \in Events \ {f} : event'[e] = event[e] => Same(e)
           /\ block' \in [Blocks -> BlockRecord]
           /\ \A q : FindsKept(q)
<1>1. block \in [Blocks -> BlockRecord] /\ Nobody \notin Events
  BY NobodyAssumption DEF Inv, Typed
<1>2. \A b \in Blocks : block'[b] = IF b \in BlocksOf(f) THEN NoBlock ELSE block[b]
  OBVIOUS
<1>3. block' \in [Blocks -> BlockRecord]
  BY <1>1, IdleIsTyped
<1>4. \A e \in Events \ {f} : event'[e] = event[e] => Same(e)
  BY <1>1, <1>2 DEF Same, BlocksOf, NoBlock
<1>5. Loose(f) => Bare(f)'
  <2>1. ASSUME Loose(f) PROVE MadeFor(f) = BlocksOf(f)
    BY <2>1 DEF Loose, Bare, Sole, MadeFor, BlocksOf
  <2> QED BY <1>1, <1>2, <2>1 DEF Bare, MadeFor, NoBlock
<1>6. \A q : FindsKept(q)
  <2>1. \A b \in Blocks : block'[b] = NoBlock \/ block'[b].event = block[b].event
    BY <1>2
  <2>2. \A b \in Blocks : block[b] = NoBlock => block'[b] = NoBlock
    BY <1>2
  <2> QED BY <2>1, <2>2, FindsStay
<1> QED BY <1>3, <1>4, <1>5, <1>6

LEMMA ClearKeeps == ASSUME Inv, NEW q \in Requests, Clear(q) PROVE Inv'
<1>1. /\ q \in InHand /\ req[q] \in ReqRecord /\ req[q].kind \in {"update", "remove", "assign"}
      /\ req[q].e \in Events /\ req[q].found = Nobody /\ req[q].pc = "clear"
  BY DEF Clear, InHand, Inv, Typed, FoundIsOurs, Places, ReqRecord, Kinds
<1>2. /\ event' = event /\ assigned' = assigned /\ blurred' = blurred /\ Goto(q, AfterClear(q))
      /\ block' = [b \in Blocks |-> IF b \in BlocksOf(req[q].e) THEN NoBlock ELSE block[b]]
      /\ event \in [Events -> EventState] /\ assigned \in Staff \cup {Nobody}
  BY DEF Clear, Inv, Typed
<1>3. /\ AfterClear(q) \in AllPlaces /\ AfterClear(q) # "case"
      /\ AfterClear(q) = "idle" \/ AfterClear(q) \in Places(req[q].kind)
  <2>1. CASE req[q].kind = "update"
    BY <2>1 DEF AfterClear, AllPlaces
  <2>2. CASE req[q].kind = "remove"
    BY <2>2 DEF AfterClear, AllPlaces, Places
  <2>3. CASE req[q].kind = "assign"
    <3>1. AfterClear(q) \in {"find", "next"}
      BY <2>3 DEF AfterClear
    <3> QED BY <2>3, <3>1 DEF AllPlaces, Places
  <2> QED BY <1>1, <2>1, <2>2, <2>3
<1>4. /\ \A e \in Events : e = req[q].e /\ Loose(e) => Bare(e)'
      /\ \A e \in Events \ {req[q].e} : Same(e)
      /\ block' \in [Blocks -> BlockRecord] /\ FindsKept(q)
  <2>1. PICK f \in Events : f = req[q].e
    BY <1>1
  <2>2. /\ Loose(f) => Bare(f)'
        /\ \A e \in Events \ {f} : event'[e] = event[e] => Same(e)
        /\ block' \in [Blocks -> BlockRecord]
        /\ FindsKept(q)
    BY <1>2, <2>1, Cleared
  <2> QED BY <1>2, <2>1, <2>2
<1>5. /\ Typed' /\ FoundIsOurs'
      /\ \A p \in Requests \ {q} : req'[p] = req[p]
      /\ req'[q] = IF AfterClear(q) = "idle" THEN Idle ELSE [req[q] EXCEPT !.pc = AfterClear(q)]
      /\ req'[q].pc = AfterClear(q)
      /\ AfterClear(q) = "idle" \/ (req'[q].kind = req[q].kind /\ req'[q].e = req[q].e)
  BY <1>1, <1>2, <1>3, <1>4, GotoKeeps
<1>6. ASSUME NEW e \in Events, e \notin blurred PROVE Outcome(q, e)
  <2>1. /\ Touches(q, e) => Phase(req[q], e)
        /\ req[q].kind = "assign" => Touches(q, e)
        /\ req[q].kind \in {"update", "remove"} => (Touches(q, e) <=> e = req[q].e)
    BY <1>1, <1>6, AtWork
  <2>2. ~Touches(q, e) => Same(e)
    BY <1>1, <1>4, <2>1
  <2>3. CASE req[q].kind = "update" /\ Touches(q, e)
    <3>1. ~Belongs(event[e]) /\ Loose(e) /\ e = req[q].e
      BY <1>1, <2>1, <2>3 DEF Phase, UpdatePhase
    <3>2. AfterClear(q) = "idle"
      BY <2>3 DEF AfterClear
    <3>3. Mirrored(e, assigned)'
      BY <1>2, <1>4, <3>1 DEF Mirrored, Belongs
    <3> QED BY <1>2, <1>5, <2>3, <3>2, <3>3 DEF Outcome
  <2>4. CASE req[q].kind = "remove" /\ Touches(q, e)
    <3>1. Bare(e)'
      BY <1>1, <1>4, <2>1, <2>4 DEF Phase, RemovePhase
    <3>2. AfterClear(q) = "delete"
      BY <2>4 DEF AfterClear
    <3>3. Phase(req[q], e)'
      BY <1>5, <2>4, <3>1, <3>2 DEF Phase, RemovePhase
    <3> QED BY <1>2, <1>5, <2>4, <3>2, <3>3 DEF Outcome
  <2>5. CASE req[q].kind = "assign"
    <3>1. /\ assigned = req[q].who /\ req[q].e \notin req[q].todo
          /\ e \in req[q].todo \/ e = req[q].e => Loose(e) /\ req[q].seen[e] = event[e]
          /\ e \notin req[q].todo /\ e # req[q].e => Mirrored(e, req[q].who)
      BY <1>1, <2>1, <2>5 DEF Phase, AssignPhase
    <3>2. /\ AfterClear(q) \in {"find", "next"}
          /\ AfterClear(q) = "find" <=> req[q].who # Nobody /\ Belongs(req[q].seen[req[q].e])
      BY <2>5 DEF AfterClear
    <3>3. /\ req'[q].who = req[q].who /\ req'[q].todo = req[q].todo /\ req'[q].seen = req[q].seen
          /\ req'[q].found = Nobody /\ req'[q].e = req[q].e /\ req'[q].kind = "assign"
          /\ req'[q].pc \in {"find", "next"}
      BY <1>1, <1>5, <2>5, <3>2 DEF ReqRecord
    <3>4. CASE e # req[q].e
      <4>1. /\ Same(e) /\ (Loose(e)' <=> Loose(e)) /\ (Mirrored(e, req[q].who)' <=> Mirrored(e, req[q].who))
        <5>1. Same(e) /\ req'[q].who = req[q].who
          BY <1>4, <3>3, <3>4
        <5> QED BY <5>1, SameMirror, SameOn
      <4>2. AssignPhase(req[q], e)'
        BY <1>2, <3>1, <3>3, <3>4, <4>1 DEF AssignPhase
      <4> QED BY <1>2, <2>1, <2>5, <3>3, <4>2 DEF Outcome, Phase
    <3>5. CASE e = req[q].e
      <4>1. Bare(e)' /\ event'[e] = event[e]
        BY <1>2, <1>4, <3>1, <3>5
      <4>2. req'[q].pc = "next" => Mirrored(e, req[q].who)'
        BY <1>5, <3>1, <3>2, <3>3, <3>5, <4>1 DEF Mirrored
      <4>3. req'[q].pc = "find" => Belongs(event[e])' /\ req'[q].who # Nobody
        BY <1>2, <1>5, <3>1, <3>2, <3>3, <3>5 DEF Belongs
      <4>4. AssignPhase(req[q], e)'
        BY <1>2, <3>1, <3>3, <3>5, <4>1, <4>2, <4>3 DEF AssignPhase
      <4> QED BY <1>2, <2>1, <2>5, <3>3, <4>4 DEF Outcome, Phase
    <3> QED BY <3>4, <3>5
  <2> QED BY <1>1, <1>2, <2>1, <2>2, <2>3, <2>4, <2>5 DEF Outcome
<1> QED BY <1>1, <1>2, <1>3, <1>5, <1>6, StepKeeps

LEMMA DeleteEventKeeps == ASSUME Inv, NEW q \in Requests, DeleteEvent(q) PROVE Inv'
<1>1. /\ q \in InHand /\ req[q] \in ReqRecord /\ req[q].kind = "remove" /\ req[q].e \in Events
      /\ req[q].pc = "delete"
  BY DEF DeleteEvent, InHand, Inv, Typed, Places, ReqRecord, Kinds
<1>2. /\ event' = [event EXCEPT ![req[q].e] = "gone"] /\ assigned' = assigned /\ blurred' = blurred
      /\ Goto(q, "idle")
      /\ \A b \in Blocks : block'[b] = IF b \in BlocksOf(req[q].e)
                                     THEN [block[b] EXCEPT !.tied = FALSE] ELSE block[b]
      /\ event \in [Events -> EventState] /\ assigned \in Staff \cup {Nobody}
      /\ block \in [Blocks -> BlockRecord]
      /\ event' \in [Events -> EventState] /\ block' \in [Blocks -> BlockRecord]
  BY <1>1 DEF DeleteEvent, Inv, Typed, EventState, BlockRecord
<1>3. FindsKept(q)
  <2>1. \A b \in Blocks : block'[b].event = block[b].event
    BY <1>2 DEF BlockRecord
  <2>2. \A b \in Blocks : block[b] = NoBlock => block'[b] = NoBlock
    BY <1>1, <1>2, NobodyAssumption DEF BlocksOf, NoBlock
  <2> QED BY <2>1, <2>2, FindsStay
<1>4. "idle" \in AllPlaces
  BY DEF AllPlaces
<1>5. /\ Typed' /\ FoundIsOurs'
      /\ \A p \in Requests \ {q} : req'[p] = req[p]
      /\ req'[q].pc = "idle"
  BY <1>1, <1>2, <1>3, <1>4, GotoKeeps
<1>6. ASSUME NEW e \in Events, e \notin blurred PROVE Outcome(q, e)
  <2>1. (Touches(q, e) => Phase(req[q], e)) /\ (Touches(q, e) <=> e = req[q].e)
    BY <1>1, <1>6, AtWork
  <2>2. CASE e # req[q].e
    <3>1. event'[e] = event[e]
      BY <1>2, <2>2
    <3>2. \A b \in Blocks : block'[b].event = block[b].event /\ (block[b].event = e => block'[b] = block[b])
      BY <1>2, <2>2 DEF BlocksOf, BlockRecord
    <3> QED BY <1>2, <2>1, <2>2, <3>1, <3>2 DEF Outcome, Same
  <2>3. CASE e = req[q].e
    <3>1. Bare(e)
      BY <1>1, <2>1, <2>3 DEF Phase, RemovePhase
    <3>2. \A b \in Blocks : block'[b].event = block[b].event
      BY <1>2 DEF BlockRecord
    <3>3. Bare(e)'
      BY <3>1, <3>2 DEF Bare, MadeFor
    <3>4. event'[e] = "gone"
      BY <1>2, <2>3
    <3>5. Mirrored(e, assigned)'
      BY <3>3, <3>4 DEF Mirrored, Belongs
    <3> QED BY <1>2, <1>5, <2>1, <2>3, <3>5 DEF Outcome
  <2> QED BY <2>2, <2>3
<1> QED BY <1>1, <1>2, <1>5, <1>6, StepKeeps

LEMMA FindKeeps == ASSUME Inv, NEW q \in Requests, Find(q) PROVE Inv'
<1>1. /\ q \in InHand /\ req[q] \in ReqRecord /\ req[q].kind \in {"create", "update", "assign"}
      /\ req[q].e \in Events /\ req[q].found = Nobody /\ req[q].pc = "find"
  BY DEF Find, InHand, Inv, Typed, FoundIsOurs, Places, ReqRecord, Kinds
<1>2. /\ event' = event /\ assigned' = assigned /\ block' = block /\ blurred' = blurred
      /\ event \in [Events -> EventState] /\ assigned \in Staff \cup {Nobody}
      /\ block \in [Blocks -> BlockRecord] /\ req \in [Requests -> ReqRecord]
      /\ Nobody \notin Blocks \cup Events
  BY NobodyAssumption DEF Find, Inv, Typed
<1>3. PICK b \in IF BlocksOf(req[q].e) = {} THEN {Nobody} ELSE BlocksOf(req[q].e) :
        req' = [req EXCEPT ![q] = [@ EXCEPT !.pc = "put", !.found = b]]
  BY DEF Find
<1>4. /\ b \in Blocks \cup {Nobody}
      /\ b # Nobody => b \in BlocksOf(req[q].e)
      /\ b = Nobody => BlocksOf(req[q].e) = {}
  BY <1>2, <1>3 DEF BlocksOf
<1>5. /\ \A p \in Requests \ {q} : req'[p] = req[p]
      /\ req'[q] = [req[q] EXCEPT !.pc = "put", !.found = b]
      /\ req'[q] \in ReqRecord
      /\ req' \in [Requests -> ReqRecord]
  <2>1. [req[q] EXCEPT !.pc = "put", !.found = b] \in ReqRecord
    BY ZenonT(60), <1>1, <1>4 DEF ReqRecord, AllPlaces
  <2>2. q \in Requests
    OBVIOUS
  <2>3. req' = [req EXCEPT ![q] = [req[q] EXCEPT !.pc = "put", !.found = b]]
    BY <1>1, <1>2, <1>3 DEF ReqRecord
  <2> QED BY <1>2, <2>1, <2>2, <2>3
<1>6. /\ req'[q].pc = "put" /\ req'[q].found = b /\ req'[q].kind = req[q].kind
      /\ req'[q].e = req[q].e /\ req'[q].who = req[q].who /\ req'[q].todo = req[q].todo
      /\ req'[q].seen = req[q].seen
  BY <1>1, <1>5 DEF ReqRecord
<1>7. Typed'
  <2>1. req'[q].pc \in Places(req'[q].kind)
    BY <1>1, <1>6 DEF Places
  <2>2. \A p \in Requests :
          /\ req'[p].pc = "idle" \/ req'[p].pc \in Places(req'[p].kind)
          /\ req'[p].kind \in {"create", "update", "remove"} => req'[p].e \in Events
          /\ req'[p].kind = "assign" /\ req'[p].pc \in {"clear", "find", "put"} => req'[p].e \in Events
    <3> SUFFICES ASSUME NEW p \in Requests
                 PROVE  /\ req'[p].pc = "idle" \/ req'[p].pc \in Places(req'[p].kind)
                        /\ req'[p].kind \in {"create", "update", "remove"} => req'[p].e \in Events
                        /\ req'[p].kind = "assign" /\ req'[p].pc \in {"clear", "find", "put"}
                              => req'[p].e \in Events
      OBVIOUS
    <3>1. CASE p # q
      BY <1>5, <3>1 DEF Inv, Typed
    <3>2. CASE p = q
      BY <1>1, <1>6, <2>1, <3>2
    <3> QED BY <3>1, <3>2
  <2> QED BY <1>2, <1>5, <2>2 DEF Typed
<1>8. FoundIsOurs'
  <2>1. b # Nobody => block[b].event = req[q].e /\ b \in Blocks
    BY <1>4 DEF BlocksOf
  <2>2. \A p \in Requests : req[p].found = b /\ b # Nobody => req[p].e = req[q].e
    BY <1>1, <1>2, <2>1 DEF Inv, FoundIsOurs
  <2> SUFFICES ASSUME NEW p \in Requests, req'[p].found # Nobody
               PROVE  /\ req'[p].pc = "put" /\ req'[p].found \in Blocks
                      /\ block[req'[p].found].event \in {req'[p].e, Nobody}
                      /\ block[req'[p].found].event = Nobody => block[req'[p].found] = NoBlock
                      /\ \A r \in Requests : req'[r].found = req'[p].found => req'[r].e = req'[p].e
    BY <1>2 DEF FoundIsOurs
  <2>3. CASE p = q
    <3>1. \A r \in Requests : req'[r].found = b => req'[r].e = req[q].e
      BY <1>5, <1>6, <2>2, <2>3
    <3> QED BY <1>1, <1>2, <1>6, <2>1, <2>3, <3>1
  <2>4. CASE p # q
    <3>1. /\ req'[p] = req[p] /\ req[p].pc = "put" /\ req[p].found \in Blocks
          /\ block[req[p].found].event \in {req[p].e, Nobody}
          /\ block[req[p].found].event = Nobody => block[req[p].found] = NoBlock
          /\ \A r \in Requests : req[r].found = req[p].found => req[r].e = req[p].e
      BY <1>5, <2>4 DEF Inv, FoundIsOurs
    <3>2. ASSUME NEW r \in Requests, req'[r].found = req[p].found PROVE req'[r].e = req[p].e
      <4>1. CASE r = q
        BY <1>6, <2>2, <2>4, <3>1, <3>2, <4>1
      <4>2. CASE r # q
        BY <1>5, <3>1, <3>2, <4>2
      <4> QED BY <4>1, <4>2
    <3> QED BY <3>1, <3>2
  <2> QED BY <2>3, <2>4
<1>9. ASSUME NEW e \in Events, e \notin blurred PROVE Outcome(q, e)
  <2>1. /\ Touches(q, e) => Phase(req[q], e)
        /\ req[q].kind \in {"create", "update"} => (Touches(q, e) <=> e = req[q].e)
        /\ Same(e)
    BY <1>1, <1>2, <1>9, AtWork DEF Same
  <2>2. /\ (Bare(e)' <=> Bare(e)) /\ (Loose(e)' <=> Loose(e)) /\ MadeFor(e)' = MadeFor(e)
        /\ (Belongs(event[e])' <=> Belongs(event[e]))
    BY <1>2, <2>1, SameMirror DEF Belongs
  <2>3. e = req[q].e /\ Bare(e) => b = Nobody
    BY <1>4 DEF Bare, MadeFor, BlocksOf
  <2>4. CASE ~Touches(q, e)
    BY <1>2, <2>1, <2>4 DEF Outcome
  <2>5. CASE req[q].kind = "create" /\ Touches(q, e)
    <3>1. CreatePhase(req[q], e)'
      BY <1>1, <1>2, <1>6, <2>1, <2>2, <2>3, <2>5 DEF Phase, CreatePhase
    <3> QED BY <1>2, <1>6, <2>5, <3>1 DEF Outcome, Phase
  <2>6. CASE req[q].kind = "update" /\ Touches(q, e)
    <3>1. Belongs(event[e]) /\ req[q].who = assigned /\ assigned # Nobody /\ Loose(e)
      BY <1>1, <2>1, <2>6 DEF Phase, UpdatePhase
    <3>2. MadeFor(e) = IF b = Nobody THEN {} ELSE {b}
      <4>1. MadeFor(e) = BlocksOf(req[q].e)
        BY <2>1, <2>6, <3>1 DEF Loose, Bare, Sole, MadeFor, BlocksOf
      <4>2. CASE Bare(e)
        BY <2>1, <2>3, <2>6, <4>2 DEF Bare
      <4>3. CASE Sole(e)
        BY <1>4, <4>1, <4>3 DEF Sole
      <4> QED BY <3>1, <4>2, <4>3 DEF Loose
    <3>3. UpdatePhase(req[q], e)'
      BY <1>2, <1>6, <2>2, <3>1, <3>2 DEF UpdatePhase
    <3> QED BY <1>2, <1>6, <2>6, <3>3 DEF Outcome, Phase
  <2>7. CASE req[q].kind = "assign" /\ Touches(q, e)
    <3>1. Mirrored(e, req[q].who)' <=> Mirrored(e, req[q].who)
      BY <1>6, <2>1, SameOn
    <3>2. AssignPhase(req[q], e)
      BY <2>1, <2>7 DEF Phase
    <3>3. AssignPhase(req[q], e)'
      BY <1>1, <1>2, <1>6, <2>2, <2>3, <3>1, <3>2 DEF AssignPhase
    <3> QED BY <1>2, <1>6, <2>7, <3>3 DEF Outcome, Phase
  <2> QED BY <1>1, <2>4, <2>5, <2>6, <2>7
<1> QED BY <1>1, <1>2, <1>5, <1>6, <1>7, <1>8, <1>9, StepKeeps

LEMMA PutKeeps == ASSUME Inv, NEW q \in Requests, Put(q) PROVE Inv'
<1> DEFINE x == IF req[q].kind = "assign" THEN [req[q] EXCEPT !.pc = "next", !.found = Nobody] ELSE Idle
           made == [event |-> req[q].e, tied |-> TRUE, owner |-> req[q].who]
<1>1. /\ q \in InHand /\ req[q] \in ReqRecord /\ req[q].kind \in {"create", "update", "assign"}
      /\ req[q].e \in Events /\ req[q].pc = "put"
  BY DEF Put, InHand, Inv, Typed, Places, ReqRecord, Kinds
<1>2. /\ event' = event /\ assigned' = assigned /\ blurred' = blurred /\ req' = [req EXCEPT ![q] = x]
      /\ event \in [Events -> EventState] /\ assigned \in Staff \cup {Nobody}
      /\ block \in [Blocks -> BlockRecord] /\ made \in BlockRecord
      /\ Nobody \notin Blocks \cup Events
  BY <1>1, NobodyAssumption DEF Put, SaveBlock, Inv, Typed, BlockRecord, ReqRecord
<1>3. PICK b \in IF req[q].found = Nobody THEN Fresh ELSE {req[q].found} :
        block' = [block EXCEPT ![b] = made]
  BY DEF Put, SaveBlock
<1>4. /\ b \in Blocks /\ block[b].event \in {req[q].e, Nobody}
      /\ req[q].found \in {Nobody, b}
      /\ \A p \in Requests : req[p].found = b => req[p].e = req[q].e
  BY <1>1, <1>3 DEF Fresh, NoBlock, Inv, FoundIsOurs
<1>5. /\ block' \in [Blocks -> BlockRecord] /\ block'[b] = made
      /\ \A c \in Blocks \ {b} : block'[c] = block[c]
  BY <1>2, <1>3, <1>4
<1>6. FindsKept(q)
  <2> SUFFICES ASSUME NEW p \in Requests \ {q}, req[p].found # Nobody
               PROVE  /\ block'[req[p].found].event \in {req[p].e, Nobody}
                      /\ block'[req[p].found].event = Nobody => block'[req[p].found] = NoBlock
    BY DEF FindsKept
  <2>1. /\ req[p].found \in Blocks
        /\ block[req[p].found].event \in {req[p].e, Nobody}
        /\ block[req[p].found].event = Nobody => block[req[p].found] = NoBlock
    BY DEF Inv, FoundIsOurs
  <2>2. CASE req[p].found = b
    BY <1>1, <1>2, <1>4, <1>5, <2>2
  <2>3. CASE req[p].found # b
    BY <1>5, <2>1, <2>3
  <2> QED BY <2>2, <2>3
<1>7. /\ x \in ReqRecord /\ x.found = Nobody
      /\ x.pc = "idle" \/ (x.pc = "next" /\ x.kind = "assign")
      /\ x.kind \notin {"create", "update", "remove"}
      /\ req[q].kind # "assign" => x.pc = "idle"
      /\ req[q].kind = "assign" => x.pc = "next" /\ x.kind = "assign" /\ x.who = req[q].who
                                   /\ x.todo = req[q].todo /\ x.seen = req[q].seen /\ x.e = req[q].e
  <2>1. CASE req[q].kind = "assign"
    BY <1>1, <2>1 DEF ReqRecord, AllPlaces
  <2>2. CASE req[q].kind # "assign"
    BY <2>2, IdleIsTyped DEF Idle
  <2> QED BY <2>1, <2>2
<1> HIDE DEF x
<1>8. x.pc = "idle" \/ x.pc \in Places(x.kind)
  BY <1>7 DEF Places
<1>9. Typed' /\ FoundIsOurs' /\ (\A p \in Requests \ {q} : req'[p] = req[p]) /\ req'[q] = x
  BY <1>1, <1>2, <1>5, <1>6, <1>7, <1>8, MoveKeeps
<1>10. ASSUME NEW e \in Events, e = req[q].e, MadeFor(e) \subseteq {b}
       PROVE  \A w : w = req[q].who => On(e, w)'
  BY <1>2, <1>4, <1>5, <1>10 DEF On, MadeFor
<1>11. ASSUME NEW e \in Events, e \notin blurred PROVE Outcome(q, e)
  <2>1. /\ Touches(q, e) => Phase(req[q], e)
        /\ req[q].kind = "assign" => Touches(q, e)
        /\ req[q].kind \in {"create", "update"} => (Touches(q, e) <=> e = req[q].e)
    BY <1>1, <1>11, AtWork
  <2>2. e # req[q].e => Same(e)
    BY <1>2, <1>4, <1>5 DEF Same
  <2>3. CASE ~Touches(q, e)
    BY <1>1, <1>2, <2>1, <2>2, <2>3 DEF Outcome
  <2>4. CASE req[q].kind \in {"create", "update"} /\ Touches(q, e)
    <3>1. Belongs(event[e]) /\ req[q].who = assigned /\ assigned # Nobody /\ MadeFor(e) \subseteq {b}
      BY <1>1, <1>4, <2>1, <2>4 DEF Phase, CreatePhase, UpdatePhase, Bare
    <3>2. \A w : w = req[q].who => On(e, w)'
      BY <1>10, <2>1, <2>4, <3>1
    <3>3. Mirrored(e, assigned)'
      BY <1>2, <3>1, <3>2 DEF Mirrored
    <3> QED BY <1>2, <1>7, <1>9, <2>4, <3>3 DEF Outcome
  <2>5. CASE req[q].kind = "assign"
    <3>1. AssignPhase(req[q], e)
      BY <2>1, <2>5 DEF Phase
    <3>2. CASE e # req[q].e
      <4>1. (Loose(e)' <=> Loose(e)) /\ (Mirrored(e, req[q].who)' <=> Mirrored(e, req[q].who))
        BY <1>7, <1>9, <2>2, <2>5, <3>2, SameMirror, SameOn
      <4>2. AssignPhase(req[q], e)'
        BY <1>1, <1>2, <1>7, <1>9, <2>5, <3>1, <3>2, <4>1 DEF AssignPhase
      <4> QED BY <1>2, <1>7, <1>9, <2>1, <2>5, <4>2 DEF Outcome, Phase
    <3>3. CASE e = req[q].e
      <4>1. /\ assigned = req[q].who /\ e \notin req[q].todo
            /\ Bare(e) /\ Belongs(event[e]) /\ req[q].who # Nobody
        BY <1>1, <3>1, <3>3 DEF AssignPhase
      <4>2. \A w : w = req[q].who => On(e, w)'
        BY <1>10, <3>3, <4>1 DEF Bare
      <4>3. Mirrored(e, req[q].who)'
        BY <1>2, <1>7, <1>9, <2>5, <4>1, <4>2 DEF Mirrored
      <4>4. AssignPhase(req[q], e)'
        BY <1>2, <1>7, <1>9, <2>5, <4>1, <4>3 DEF AssignPhase
      <4> QED BY <1>2, <1>7, <1>9, <2>1, <2>5, <4>4 DEF Outcome, Phase
    <3> QED BY <3>2, <3>3
  <2> QED BY <1>1, <2>3, <2>4, <2>5
<1> QED BY <1>1, <1>2, <1>7, <1>9, <1>11, StepKeeps

\* A request that stops half-way: what it touched is blurred.
LEMMA Stopped ==
    ASSUME Inv, NEW q \in InHand, Goto(q, "idle"),
           blurred' = blurred \cup Touched(req[q].kind, req[q].e),
           UNCHANGED <<event, assigned, block>>
    PROVE  Inv'
<1>1. /\ event' = event /\ assigned' = assigned /\ block' = block
      /\ event \in [Events -> EventState] /\ assigned \in Staff \cup {Nobody}
      /\ block \in [Blocks -> BlockRecord] /\ "idle" \in AllPlaces
  BY DEF Inv, Typed, AllPlaces
<1>2. FindsKept(q)
  BY <1>1, FindsStay
<1>3. /\ Typed' /\ FoundIsOurs'
      /\ \A p \in Requests \ {q} : req'[p] = req[p]
      /\ req'[q].pc = "idle"
  BY <1>1, <1>2, GotoKeeps
<1>4. \A e \in Events \ blurred' : Outcome(q, e)
  BY <1>1 DEF Outcome, Touches, Same
<1> QED BY <1>3, <1>4, StepKeeps

LEMMA PutRefusedKeeps == ASSUME Inv, NEW q \in Requests, PutRefused(q) PROVE Inv'
  BY Stopped DEF PutRefused, InHand

LEMMA CutKeeps == ASSUME Inv, NEW q \in Requests, Cut(q) PROVE Inv'
  BY Stopped DEF Cut, InHand

LEMMA SaveCaseKeeps == ASSUME Inv, NEW q \in Requests, SaveCase(q) PROVE Inv'
<1> DEFINE pc == IF req[q].kind = "plan" THEN "visits"
                 ELSE IF req[q].who = req[q].was THEN "idle" ELSE "events"
<1>1. /\ q \in InHand /\ req[q] \in ReqRecord /\ req[q].kind \in {"plan", "assign"}
      /\ req[q].found = Nobody /\ req[q].pc = "case"
  BY DEF SaveCase, InHand, Inv, Typed, FoundIsOurs, Places, ReqRecord, Kinds
<1>2. /\ event' = event /\ assigned' = req[q].who /\ block' = block /\ blurred' = blurred
      /\ Goto(q, pc)
      /\ event \in [Events -> EventState] /\ assigned' \in Staff \cup {Nobody}
      /\ block \in [Blocks -> BlockRecord]
  BY <1>1 DEF SaveCase, Inv, Typed, ReqRecord
<1>3. /\ pc \in AllPlaces /\ pc \notin {"case", "clear", "find", "put"}
      /\ pc = "idle" \/ pc \in Places(req[q].kind)
      /\ req[q].kind = "plan" => pc = "visits"
      /\ req[q].kind = "assign" => pc = IF req[q].who = req[q].was THEN "idle" ELSE "events"
  BY <1>1 DEF AllPlaces, Places
<1> HIDE DEF pc
<1>4. FindsKept(q)
  BY <1>2, FindsStay
<1>5. /\ Typed' /\ FoundIsOurs'
      /\ \A p \in Requests \ {q} : req'[p] = req[p]
      /\ req'[q] = IF pc = "idle" THEN Idle ELSE [req[q] EXCEPT !.pc = pc]
      /\ req'[q].pc = pc
      /\ pc = "idle" \/ (req'[q].kind = req[q].kind /\ req'[q].e = req[q].e)
  BY <1>1, <1>2, <1>3, <1>4, GotoKeeps
<1>6. ASSUME NEW e \in Events, e \notin blurred PROVE Outcome(q, e)
  <2>1. /\ Touches(q, e) => Phase(req[q], e)
        /\ req[q].kind = "plan" => ~Touches(q, e)
        /\ req[q].kind = "assign" => Touches(q, e)
        /\ Same(e)
    BY <1>1, <1>2, <1>6, AtWork DEF Same
  <2>2. CASE req[q].kind = "plan"
    <3>1. assigned' = assigned
      BY <1>1, <1>2, <1>6, <2>2 DEF Inv, Followed, PlanKeepsWorker
    <3> QED BY <2>1, <2>2, <3>1 DEF Outcome
  <2>3. CASE req[q].kind = "assign"
    <3>1. Mirrored(e, assigned) /\ req[q].was = assigned
      BY <1>1, <2>1, <2>3 DEF Phase, AssignPhase
    <3>2. CASE pc = "idle"
      <4>1. assigned' = assigned
        BY <1>2, <1>3, <2>3, <3>1, <3>2
      <4>2. Mirrored(e, assigned)'
        BY <2>1, <3>1, <4>1, SamePhase, SameMirror DEF Mirrored, On, Bare, MadeFor, Belongs, Same
      <4> QED BY <1>5, <2>1, <2>3, <3>2, <4>2 DEF Outcome
    <3>3. CASE pc = "events"
      <4>1. /\ req'[q].pc = "events" /\ req'[q].who = req[q].who /\ req'[q].was = req[q].was
            /\ req'[q].kind = "assign"
        BY <1>1, <1>5, <2>3, <3>3 DEF ReqRecord
      <4>2. Mirrored(e, req[q].was)' <=> Mirrored(e, req[q].was)
        BY <2>1, <4>1, SameOn
      <4>3. AssignPhase(req[q], e)'
        BY <1>2, <3>1, <4>1, <4>2 DEF AssignPhase
      <4> QED BY <2>1, <2>3, <4>1, <4>3 DEF Outcome, Phase
    <3> QED BY <1>3, <2>3, <3>2, <3>3
  <2> QED BY <1>1, <2>2, <2>3
<1> QED BY <1>1, <1>2, <1>3, <1>5, <1>6, StepKeeps

LEMMA ReadEventsKeeps == ASSUME Inv, NEW q \in Requests, ReadEvents(q) PROVE Inv'
<1> DEFINE x == [req[q] EXCEPT !.pc = "next", !.seen = event, !.todo = {e \in Events : Exists(e)}]
<1>1. /\ q \in InHand /\ req[q] \in ReqRecord /\ req[q].kind = "assign"
      /\ req[q].found = Nobody /\ req[q].pc = "events"
  BY DEF ReadEvents, InHand, Inv, Typed, FoundIsOurs, Places, ReqRecord, Kinds
<1>2. /\ event' = event /\ assigned' = assigned /\ block' = block /\ blurred' = blurred
      /\ event \in [Events -> EventState] /\ assigned \in Staff \cup {Nobody}
      /\ block \in [Blocks -> BlockRecord] /\ req \in [Requests -> ReqRecord]
  BY DEF ReadEvents, Inv, Typed
<1>3. req' = [req EXCEPT ![q] = x]
  BY <1>1, <1>2 DEF ReadEvents, ReqRecord
<1>4. /\ x \in ReqRecord /\ x.found = Nobody /\ x.kind = "assign" /\ x.pc = "next"
      /\ x.seen = event /\ x.todo = {e \in Events : Exists(e)} /\ x.was = req[q].was /\ x.who = req[q].who
      /\ x.e = req[q].e
  BY ZenonT(60), <1>1, <1>2 DEF ReqRecord, AllPlaces
<1> HIDE DEF x
<1>5. x.pc \in Places(x.kind)
  BY <1>4 DEF Places
<1>6. FindsKept(q)
  BY <1>2, FindsStay
<1>7. Typed' /\ FoundIsOurs' /\ (\A p \in Requests \ {q} : req'[p] = req[p]) /\ req'[q] = x
  BY <1>1, <1>2, <1>3, <1>4, <1>5, <1>6, MoveKeeps
<1>8. ASSUME NEW e \in Events, e \notin blurred PROVE Outcome(q, e)
  <2>1. Touches(q, e) /\ Phase(req[q], e) /\ Same(e)
    BY <1>1, <1>2, <1>8, AtWork DEF Same
  <2>2. assigned = req[q].who /\ Mirrored(e, req[q].was)
    BY <1>1, <2>1 DEF Phase, AssignPhase
  <2>3. Loose(e) /\ (~Belongs(event[e]) => Bare(e))
    BY <2>2 DEF Mirrored, On, Loose, Sole
  <2>4. Loose(e)' /\ (~Belongs(event[e]) => Bare(e)')
    BY <2>1, <2>3, SameMirror
  <2>5. e \in x.todo <=> Exists(e)
    BY <1>4
  <2>6. ~Exists(e) => Mirrored(e, req[q].who)'
    BY <1>2, <2>4 DEF Exists, Mirrored, Belongs
  <2>7. AssignPhase(req[q], e)'
    BY <1>2, <1>4, <1>7, <2>2, <2>4, <2>5, <2>6 DEF AssignPhase
  <2> QED BY <1>1, <1>4, <1>7, <2>1, <2>7 DEF Outcome, Phase
<1> QED BY <1>1, <1>2, <1>4, <1>7, <1>8, StepKeeps

LEMMA NextEventKeeps == ASSUME Inv, NEW q \in Requests, NextEvent(q) PROVE Inv'
<1>1. /\ q \in InHand /\ req[q] \in ReqRecord /\ req[q].kind = "assign"
      /\ req[q].found = Nobody /\ req[q].pc = "next"
  BY DEF NextEvent, InHand, Inv, Typed, FoundIsOurs, Places, ReqRecord, Kinds
<1>2. /\ event' = event /\ assigned' = assigned /\ block' = block /\ blurred' = blurred
      /\ event \in [Events -> EventState] /\ assigned \in Staff \cup {Nobody}
      /\ block \in [Blocks -> BlockRecord] /\ req \in [Requests -> ReqRecord]
  BY DEF NextEvent, Inv, Typed
<1>3. PICK f \in req[q].todo :
        req' = [req EXCEPT ![q] = [@ EXCEPT !.pc = "clear", !.e = f, !.todo = req[q].todo \ {f}]]
  BY DEF NextEvent
<1> DEFINE x == [req[q] EXCEPT !.pc = "clear", !.e = f, !.todo = req[q].todo \ {f}]
<1>4. req' = [req EXCEPT ![q] = x] /\ f \in Events
  BY <1>1, <1>2, <1>3 DEF ReqRecord
<1>5. /\ x \in ReqRecord /\ x.found = Nobody /\ x.kind = "assign" /\ x.pc = "clear"
      /\ x.seen = req[q].seen /\ x.todo = req[q].todo \ {f} /\ x.who = req[q].who /\ x.e = f
  BY <1>1, <1>4 DEF ReqRecord, AllPlaces
<1> HIDE DEF x
<1>6. x.pc \in Places(x.kind)
  BY <1>5 DEF Places
<1>7. FindsKept(q)
  BY <1>2, FindsStay
<1>8. Typed' /\ FoundIsOurs' /\ (\A p \in Requests \ {q} : req'[p] = req[p]) /\ req'[q] = x
  BY <1>1, <1>2, <1>4, <1>5, <1>6, <1>7, MoveKeeps
<1>9. ASSUME NEW e \in Events, e \notin blurred PROVE Outcome(q, e)
  <2>1. Touches(q, e) /\ Phase(req[q], e) /\ Same(e)
    BY <1>1, <1>2, <1>9, AtWork DEF Same
  <2>2. /\ assigned = req[q].who
        /\ e \in req[q].todo => Loose(e) /\ req[q].seen[e] = event[e]
        /\ e \notin req[q].todo => Mirrored(e, req[q].who)
    BY <1>1, <2>1 DEF Phase, AssignPhase
  <2>3. (Loose(e)' <=> Loose(e)) /\ (Mirrored(e, req[q].who)' <=> Mirrored(e, req[q].who))
    BY <1>5, <1>8, <2>1, SameMirror, SameOn
  <2>4. AssignPhase(req[q], e)'
    BY <1>2, <1>3, <1>5, <1>8, <2>2, <2>3 DEF AssignPhase
  <2> QED BY <1>1, <1>5, <1>8, <2>1, <2>4 DEF Outcome, Phase
<1> QED BY <1>1, <1>2, <1>5, <1>8, <1>9, StepKeeps

LEMMA MoveVisitsKeeps == ASSUME Inv, NEW q \in Requests, MoveVisits(q) PROVE Inv'
<1>1. /\ q \in InHand /\ req[q] \in ReqRecord /\ req[q].kind = "assign"
      /\ req[q].pc = "next" /\ req[q].todo = {}
  BY DEF MoveVisits, InHand, Inv, Typed, Places, ReqRecord, Kinds
<1>2. /\ event' = event /\ assigned' = assigned /\ block' = block /\ blurred' = blurred
      /\ Goto(q, "idle") /\ "idle" \in AllPlaces
      /\ event \in [Events -> EventState] /\ assigned \in Staff \cup {Nobody}
      /\ block \in [Blocks -> BlockRecord]
  BY DEF MoveVisits, Inv, Typed, AllPlaces
<1>3. FindsKept(q)
  BY <1>2, FindsStay
<1>4. /\ Typed' /\ FoundIsOurs'
      /\ \A p \in Requests \ {q} : req'[p] = req[p]
      /\ req'[q].pc = "idle"
  BY <1>1, <1>2, <1>3, GotoKeeps
<1>5. ASSUME NEW e \in Events, e \notin blurred PROVE Outcome(q, e)
  <2>1. Touches(q, e) /\ Phase(req[q], e)
    BY <1>1, <1>5, AtWork
  <2>2. Mirrored(e, assigned)
    BY <1>1, <2>1 DEF Phase, AssignPhase
  <2>3. Mirrored(e, assigned)'
    BY <1>2, <2>2 DEF Mirrored, On, Bare, MadeFor, Belongs
  <2> QED BY <1>2, <1>4, <2>1, <2>3 DEF Outcome
<1> QED BY <1>1, <1>2, <1>4, <1>5, StepKeeps

\* The steps of a plan on its own blocks leave the events alone.
LEMMA PlanKeeps ==
    ASSUME Inv, NEW q \in InHand, req[q].kind = "plan",
           NEW x \in ReqRecord, req' = [req EXCEPT ![q] = x], x.found = Nobody, x.kind = "plan",
           x.pc \in {"idle", "clear visits", "put visit"}, x.pc = "idle" \/ x.e = req[q].e,
           UNCHANGED <<event, assigned, block, blurred>>
    PROVE  Inv'
<1>1. /\ event' = event /\ assigned' = assigned /\ block' = block /\ blurred' = blurred
      /\ event \in [Events -> EventState] /\ assigned \in Staff \cup {Nobody}
      /\ block \in [Blocks -> BlockRecord] /\ (x.pc = "idle" \/ x.pc \in Places(x.kind))
  BY DEF Inv, Typed, Places
<1>2. FindsKept(q)
  BY <1>1, FindsStay
<1>3. Typed' /\ FoundIsOurs' /\ (\A p \in Requests \ {q} : req'[p] = req[p]) /\ req'[q] = x
  BY <1>1, <1>2, MoveKeeps
<1>4. ASSUME NEW e \in Events, e \notin blurred PROVE Outcome(q, e)
  BY <1>1, <1>4, AtWork DEF Outcome, Same
<1> QED BY <1>1, <1>3, <1>4, StepKeeps

LEMMA VisitsKeep ==
    ASSUME Inv, NEW q \in Requests, SaveVisits(q) \/ ClearVisits(q) \/ PutVisit(q)
    PROVE  Inv'
<1>1. /\ q \in InHand /\ req[q] \in ReqRecord /\ req[q].kind = "plan" /\ req[q].found = Nobody
  BY DEF SaveVisits, ClearVisits, PutVisit, InHand, Inv, Typed, FoundIsOurs, Places, ReqRecord, Kinds
<1>2. UNCHANGED <<event, assigned, block, blurred>>
  BY DEF SaveVisits, ClearVisits, PutVisit
<1>3. CASE SaveVisits(q)
  <2>1. /\ req' = [req EXCEPT ![q] = [req[q] EXCEPT !.pc = "clear visits"]]
        /\ [req[q] EXCEPT !.pc = "clear visits"] \in ReqRecord
    BY <1>1, <1>3 DEF SaveVisits, Goto, ReqRecord, AllPlaces
  <2> QED BY <1>1, <1>2, <2>1, PlanKeeps DEF ReqRecord
<1>4. CASE ClearVisits(q)
  <2>1. \/ req' = [req EXCEPT ![q] = Idle]
        \/ /\ req' = [req EXCEPT ![q] = [req[q] EXCEPT !.pc = "put visit"]]
           /\ [req[q] EXCEPT !.pc = "put visit"] \in ReqRecord
    BY <1>1, <1>4 DEF ClearVisits, Goto, ReqRecord, AllPlaces
  <2>2. CASE req' = [req EXCEPT ![q] = Idle]
    BY <1>1, <1>2, <2>2, IdleIsTyped, PlanKeeps DEF Idle
  <2>3. CASE /\ req' = [req EXCEPT ![q] = [req[q] EXCEPT !.pc = "put visit"]]
             /\ [req[q] EXCEPT !.pc = "put visit"] \in ReqRecord
    BY <1>1, <1>2, <2>3, PlanKeeps DEF ReqRecord
  <2> QED BY <2>1, <2>2, <2>3
<1>5. CASE PutVisit(q)
  <2>4. PICK n \in Int : n = req[q].left - 1
    <3>1. req[q].left \in Int
      BY <1>1 DEF ReqRecord
    <3> QED BY <3>1
  <2> DEFINE x == [req[q] EXCEPT !.left = n]
  <2>1. CASE req[q].left = 1
    <3>1. req' = [req EXCEPT ![q] = Idle]
      BY <1>1, <1>5, <2>1 DEF PutVisit, InHand, Inv, Typed
    <3> QED BY <1>1, <1>2, <3>1, IdleIsTyped, PlanKeeps DEF Idle
  <2>2. CASE req[q].left # 1
    <3>1. req' = [req EXCEPT ![q] = x]
      <4>1. req' = [req EXCEPT ![q].left = n]
        BY <1>5, <2>2, <2>4 DEF PutVisit
      <4> QED BY <1>1, <4>1 DEF InHand, Inv, Typed, ReqRecord
    <3>2. /\ x \in ReqRecord /\ x.found = Nobody /\ x.kind = "plan" /\ x.pc = "put visit"
          /\ x.e = req[q].e
      BY <1>1, <1>5 DEF PutVisit, ReqRecord
    <3> HIDE DEF x
    <3> QED BY <1>1, <1>2, <3>1, <3>2, PlanKeeps
  <2> QED BY <2>1, <2>2
<1> QED BY <1>3, <1>4, <1>5

-----------------------------------------------------------------------------
(* Their beginning *)

\* A request that begins on an event nobody else is at finds it mirrored.
LEMMA BeginKeeps ==
    ASSUME Inv, NEW q \in Requests, NEW kind \in Kinds, NEW e, NEW x \in ReqRecord,
           Begin(q, kind, e, x), x.kind = kind, x.e = e, x.found = Nobody,
           x.pc \in Places(kind) \cap {"event", "clear", "case"},
           kind \in {"create", "update", "remove"} => e \in Events,
           kind = "assign" => x.pc = "case",
           kind = "plan" => x.who = assigned,
           \A f \in Events : f \in Touched(kind, e) /\ Mirrored(f, assigned) => Phase(x, f)
    PROVE  Inv'
<1>1. /\ req[q].pc = "idle" /\ req' = [req EXCEPT ![q] = x] /\ blurred' = blurred \cup Overlap(kind, e)
      /\ event' = event /\ assigned' = assigned /\ block' = block
      /\ req \in [Requests -> ReqRecord]
  BY DEF Begin, Inv, Typed
<1>2. /\ \A p \in Requests \ {q} : req'[p] = req[p]
      /\ req'[q] = x /\ req' \in [Requests -> ReqRecord]
      /\ InHand' = InHand \cup {q} /\ q \notin InHand
  BY <1>1 DEF InHand, Places
<1>3. Typed'
  <2>1. \A p \in Requests :
          /\ req'[p].pc = "idle" \/ req'[p].pc \in Places(req'[p].kind)
          /\ req'[p].kind \in {"create", "update", "remove"} => req'[p].e \in Events
          /\ req'[p].kind = "assign" /\ req'[p].pc \in {"clear", "find", "put"} => req'[p].e \in Events
    BY <1>2 DEF Inv, Typed
  <2> QED BY <1>1, <1>2, <2>1 DEF Inv, Typed
<1>4. FoundIsOurs'
  <2> SUFFICES ASSUME NEW p \in Requests, req'[p].found # Nobody
               PROVE  /\ req'[p].pc = "put" /\ req'[p].found \in Blocks
                      /\ block[req'[p].found].event \in {req'[p].e, Nobody}
                      /\ block[req'[p].found].event = Nobody => block[req'[p].found] = NoBlock
                      /\ \A r \in Requests : req'[r].found = req'[p].found => req'[r].e = req'[p].e
    BY <1>1 DEF FoundIsOurs
  <2>1. p # q /\ req'[p] = req[p]
    BY <1>2
  <2>2. \A r \in Requests : req'[r].found = req'[p].found => req'[r] = req[r]
    BY <1>2
  <2> QED BY <2>1, <2>2 DEF Inv, FoundIsOurs
<1>5. ASSUME NEW f \in Events, f \notin blurred' PROVE Followed(f)'
  <2>1. Followed(f) /\ Same(f)
    BY <1>1, <1>5 DEF Inv, Same
  <2>2. \A p \in InHand :
          /\ {kind, req[p].kind} \notin {{"plan", "assign"}, {"assign"}}
          /\ f \notin Touched(kind, e) \cap Touched(req[p].kind, req[p].e)
    <3> SUFFICES ASSUME NEW p \in InHand
                 PROVE  /\ {kind, req[p].kind} \notin {{"plan", "assign"}, {"assign"}}
                        /\ f \notin Touched(kind, e) \cap Touched(req[p].kind, req[p].e)
      OBVIOUS
    <3> DEFINE both  == {kind, req[p].kind} \in {{"plan", "assign"}, {"assign"}}
               touch == Touched(kind, e) \cap Touched(req[p].kind, req[p].e)
               worn  == IF both THEN Events \cup {"plan"} ELSE touch
    <3>1. worn \subseteq Overlap(kind, e)
      BY Zenon DEF Overlap
    <3>2. f \notin worn
      BY <1>1, <1>5, <3>1
    <3> HIDE DEF touch
    <3>3. ~both /\ f \notin touch
      BY ONLY <1>5, <3>2
    <3> QED BY ONLY <3>3 DEF touch
  <2>3. /\ \A p \in InHand : p # q /\ req'[p] = req[p] /\ (Touches(p, f)' <=> Touches(p, f))
        /\ Touches(q, f)' <=> f \in Touched(kind, e)
    BY <1>2 DEF Touches, InHand
  <2>4. Alone(f)'
    <3> SUFFICES ASSUME NEW p \in InHand', NEW r \in InHand', p # r
                 PROVE  /\ ~(Touches(p, f)' /\ Touches(r, f)')
                        /\ {req'[p].kind, req'[r].kind} \notin {{"plan", "assign"}, {"assign"}}
      BY DEF Alone
    <3>1. CASE p # q /\ r # q
      BY <1>2, <2>1, <2>3, <3>1 DEF Followed, Alone
    <3>2. CASE p = q
      BY <1>2, <2>2, <2>3, <3>2 DEF Touches
    <3>3. CASE r = q
      <4>1. {req'[p].kind, req'[r].kind} = {kind, req[p].kind}
        BY <1>2, <2>3, <3>3
      <4> QED BY <1>2, <2>2, <2>3, <3>3, <4>1 DEF Touches
    <3> QED BY <3>1, <3>2, <3>3
  <2>5. PlanKeepsWorker'
    BY <1>1, <1>2, <2>1, <2>3 DEF Followed, PlanKeepsWorker
  <2>6. Mirrored(f, assigned)' <=> Mirrored(f, assigned)
    BY <1>1 DEF Mirrored, On, Bare, MadeFor, Belongs
  <2>7. ASSUME \A p \in InHand' : ~Touches(p, f)' PROVE Mirrored(f, assigned)'
    BY <1>2, <2>1, <2>3, <2>6, <2>7 DEF Followed
  <2>8. ASSUME NEW p \in InHand', Touches(p, f)' PROVE Phase(req[p], f)'
    <3>1. CASE p # q
      <4>1. p \in InHand /\ req'[p] = req[p] /\ Phase(req[p], f)
        BY <1>2, <2>1, <2>3, <2>8, <3>1 DEF Followed
      <4> QED BY <1>1, <2>1, <4>1, SamePhase
    <3>2. CASE p = q
      <4>1. Mirrored(f, assigned)
        BY <2>1, <2>2, <2>3, <2>8, <3>2 DEF Followed, Touches
      <4>2. Phase(x, f)
        BY <2>3, <2>8, <3>2, <4>1
      <4>3. CreatePhase(x, f) => CreatePhase(req[q], f)'
        BY <1>1, <1>2 DEF CreatePhase, Bare, MadeFor, Belongs
      <4>4. UpdatePhase(x, f) => UpdatePhase(req[q], f)'
        BY <1>1, <1>2, <2>6 DEF UpdatePhase, Bare, Loose, Sole, MadeFor, Belongs
      <4>5. RemovePhase(x, f) => RemovePhase(req[q], f)'
        BY <1>1, <1>2 DEF RemovePhase, Bare, Loose, Sole, MadeFor
      <4>6. kind = "assign" /\ AssignPhase(x, f) => AssignPhase(req[q], f)'
        BY <1>1, <1>2, <2>6 DEF AssignPhase
      <4> QED BY <1>2, <3>2, <4>2, <4>3, <4>4, <4>5, <4>6 DEF Phase
    <3> QED BY <3>1, <3>2
  <2> QED BY <2>4, <2>5, <2>7, <2>8 DEF Followed
<1> QED BY <1>3, <1>4, <1>5 DEF Inv

LEMMA AskKeeps == ASSUME Inv, NEW q \in Requests, Ask(q) PROVE Inv'
<1>1. /\ Idle \in ReqRecord /\ assigned \in Staff \cup {Nobody}
      /\ event \in [Events -> EventState]
  BY IdleIsTyped DEF Inv, Typed
<1>2. ASSUME NEW e \in Events, NEW to \in {"due", "off"}, AskCreate(q, e, to) PROVE Inv'
  <2>1. PICK x : x = [Idle EXCEPT !.pc = "event", !.kind = "create", !.e = e, !.to = to, !.who = assigned]
    OBVIOUS
  <2>2. /\ x \in ReqRecord /\ x.kind = "create" /\ x.e = e /\ x.found = Nobody /\ x.pc = "event"
        /\ x.who = assigned
    BY <1>1, <1>2, <2>1 DEF Idle, ReqRecord, AllPlaces, Kinds, EventState
  <2>3. event[e] = "none" /\ Begin(q, "create", e, x)
    BY <1>2, <2>1 DEF AskCreate
  <2>4. \A f \in Events : f \in Touched("create", e) /\ Mirrored(f, assigned) => Phase(x, f)
    BY <2>2, <2>3 DEF Touched, Mirrored, Belongs, Phase, CreatePhase
  <2> QED BY <2>2, <2>3, <2>4, BeginKeeps DEF Kinds, Places
<1>3. ASSUME NEW e \in Events, NEW to \in {"due", "off"}, AskUpdate(q, e, to) PROVE Inv'
  <2>1. PICK x : x = [Idle EXCEPT !.pc = "event", !.kind = "update", !.e = e, !.to = to]
    OBVIOUS
  <2>2. /\ x \in ReqRecord /\ x.kind = "update" /\ x.e = e /\ x.found = Nobody /\ x.pc = "event"
    BY <1>1, <1>3, <2>1 DEF Idle, ReqRecord, AllPlaces, Kinds, EventState
  <2>3. Begin(q, "update", e, x)
    BY <1>3, <2>1 DEF AskUpdate
  <2>4. \A f \in Events : f \in Touched("update", e) /\ Mirrored(f, assigned) => Phase(x, f)
    BY <2>2 DEF Phase, UpdatePhase
  <2> QED BY <2>2, <2>3, <2>4, BeginKeeps DEF Kinds, Places
<1>4. ASSUME NEW e \in Events, AskRemove(q, e) PROVE Inv'
  <2>1. PICK x : x = [Idle EXCEPT !.pc = "clear", !.kind = "remove", !.e = e]
    OBVIOUS
  <2>2. /\ x \in ReqRecord /\ x.kind = "remove" /\ x.e = e /\ x.found = Nobody /\ x.pc = "clear"
    BY <1>1, <1>4, <2>1 DEF Idle, ReqRecord, AllPlaces, Kinds
  <2>3. Begin(q, "remove", e, x)
    BY <1>4, <2>1 DEF AskRemove
  <2>4. \A f \in Events : Mirrored(f, assigned) => Loose(f)
    BY DEF Mirrored, On, Loose, Sole
  <2>5. \A f \in Events : f \in Touched("remove", e) /\ Mirrored(f, assigned) => Phase(x, f)
    BY <2>2, <2>4 DEF Phase, RemovePhase
  <2> QED BY <2>2, <2>3, <2>5, BeginKeeps DEF Kinds, Places
<1>5. ASSUME NEW who \in Staff \cup {Nobody}, AskAssign(q, who) PROVE Inv'
  <2>1. PICK x : x = [Idle EXCEPT !.pc = "case", !.kind = "assign", !.who = who, !.was = assigned]
    OBVIOUS
  <2>2. /\ x \in ReqRecord /\ x.kind = "assign" /\ x.e = Nobody /\ x.found = Nobody /\ x.pc = "case"
        /\ x.was = assigned
    BY <1>1, <1>5, <2>1 DEF Idle, ReqRecord, AllPlaces, Kinds
  <2>3. Begin(q, "assign", Nobody, x)
    BY <1>5, <2>1 DEF AskAssign
  <2>4. \A f \in Events : f \in Touched("assign", Nobody) /\ Mirrored(f, assigned) => Phase(x, f)
    BY <2>2 DEF Phase, AssignPhase
  <2> QED BY <2>2, <2>3, <2>4, BeginKeeps DEF Kinds, Places
<1>6. ASSUME NEW n \in 0..MaxVisits, AskPlan(q, n) PROVE Inv'
  <2>1. PICK x : x = [Idle EXCEPT !.pc = "case", !.kind = "plan", !.who = assigned, !.left = n]
    OBVIOUS
  <2>2. /\ x \in ReqRecord /\ x.kind = "plan" /\ x.e = Nobody /\ x.found = Nobody /\ x.pc = "case"
        /\ x.who = assigned
    <3>1. n \in Int
      BY BoundsAssumption
    <3> QED BY <1>1, <2>1, <3>1 DEF Idle, ReqRecord, AllPlaces, Kinds
  <2>3. Begin(q, "plan", Nobody, x)
    BY <1>6, <2>1 DEF AskPlan
  <2>4. \A f \in Events : f \in Touched("plan", Nobody) /\ Mirrored(f, assigned) => Phase(x, f)
    BY <2>2 DEF Phase
  <2> QED BY <2>2, <2>3, <2>4, BeginKeeps DEF Kinds, Places
<1> QED BY <1>2, <1>3, <1>4, <1>5, <1>6 DEF Ask

-----------------------------------------------------------------------------
(* The theorem *)

LEMMA NextInv == Inv /\ [Next]_vars => Inv'
<1> SUFFICES ASSUME Inv, [Next]_vars PROVE Inv'
  OBVIOUS
<1>1. CASE UNCHANGED vars
  <2>1. event' = event /\ assigned' = assigned /\ block' = block /\ req' = req /\ blurred' = blurred
    BY <1>1 DEF vars
  <2>2. Typed' /\ FoundIsOurs' /\ InHand' = InHand
    BY <2>1 DEF Inv, Typed, FoundIsOurs, InHand
  <2>3. ASSUME NEW e \in Events, e \notin blurred PROVE Followed(e)'
    <3>1. Followed(e) /\ Same(e)
      BY <2>1, <2>3 DEF Inv, Same
    <3>2. \A p : (Touches(p, e)' <=> Touches(p, e)) /\ req'[p] = req[p]
      BY <2>1 DEF Touches
    <3>3. Alone(e)' /\ PlanKeepsWorker'
      BY <2>1, <2>2, <3>1, <3>2 DEF Followed, Alone, PlanKeepsWorker
    <3>4. Mirrored(e, assigned)' <=> Mirrored(e, assigned)
      BY <2>1 DEF Mirrored, On, Bare, MadeFor, Belongs
    <3>5. \A p \in InHand' : Touches(p, e)' => Phase(req[p], e)'
      BY <2>1, <2>2, <3>1, <3>2, SamePhase DEF Followed
    <3> QED BY <2>2, <3>1, <3>2, <3>3, <3>4, <3>5 DEF Followed
  <2> QED BY <2>1, <2>2, <2>3 DEF Inv
<1>2. ASSUME NEW q \in Requests, Ask(q) \/ Step(q) \/ Cut(q) PROVE Inv'
  BY <1>2, AskKeeps, CutKeeps, SaveEventKeeps, LoadWorkerKeeps, ClearKeeps, DeleteEventKeeps,
     FindKeeps, PutKeeps, PutRefusedKeeps, SaveCaseKeeps, ReadEventsKeeps, NextEventKeeps,
     MoveVisitsKeeps, VisitsKeep DEF Step
<1> QED BY <1>1, <1>2 DEF Next

\* In every reachable state in which no request is in hand, what no two
\* requests touched at once and no cut one is on the worker's calendar as the
\* case has it: upsertForEvent, removeForEvent and moveForCase keep the mirror.
THEOREM EventsAreMirrored == Spec => []EventsMirrored
<1>1. Inv => EventsMirrored
  <2> SUFFICES ASSUME Inv, Quiet, NEW e \in Events \ blurred
               PROVE  IF Belongs(event[e]) /\ assigned # Nobody
                      THEN \E b \in Blocks : MadeFor(e) = {b} /\ block[b].tied /\ block[b].owner = assigned
                      ELSE MadeFor(e) = {}
    BY DEF EventsMirrored
  <2>1. Mirrored(e, assigned)
    BY DEF Inv, Followed, Quiet
  <2> QED BY <2>1 DEF Mirrored, On, Bare
<1> QED BY InitInv, NextInv, <1>1, PTL DEF Spec

-----------------------------------------------------------------------------
(* Types *)

\* What a request has in hand: a plan is put while there are visits left and
\* somebody to visit, an event is saved in a state a request can ask for.
ReqOk(x) == /\ x.left \in 0..MaxVisits
            /\ x.pc = "put visit" => x.left # 0 /\ x.who # Nobody
            /\ x.pc = "event" => x.to \in {"due", "off"}

Counted == /\ visits \in 0..MaxVisits /\ visitOf \in [Staff -> Nat]
           /\ overlaps \in 0..MaxOverlaps /\ cuts \in 0..MaxCuts
           /\ blurred \subseteq Events \cup {"plan"}
           /\ \A q \in Requests : ReqOk(req[q])

\* The foreign key: what a block is tied to exists.
TiedExist == \A b \in Blocks : block[b].tied => block[b].event \in Events /\ Exists(block[b].event)

-----------------------------------------------------------------------------
(* The blocks of the visits *)

\* The visits there are blocks for are all of a number, on one worker's calendar.
AllOn(w, n) == \A v \in Staff : visitOf[v] > 0 => v = w /\ visitOf[v] = n

AtPlan(x) == x.pc # "idle" /\ x.kind \in {"assign", "plan"}

\* How far a request has brought the blocks of the visits.
AssignVisits(x) ==
    /\ x.pc = "case" => x.was = assigned /\ AllOn(assigned, visits)
    /\ x.pc # "case" => x.who = assigned /\ AllOn(x.was, visits)

PlanVisits(x) ==
    /\ x.who = assigned
    /\ x.pc \in {"case", "visits"} => AllOn(assigned, visits)
    /\ x.pc = "clear visits" => x.left = visits
    /\ x.pc = "put visit" => /\ x.left + visitOf[x.who] = visits
                             /\ \A v \in Staff \ {x.who} : visitOf[v] = 0

VisitsPhase(x) == /\ x.kind = "assign" => AssignVisits(x)
                  /\ x.kind = "plan" => PlanVisits(x)

VisitsInv ==
    "plan" \notin blurred =>
        /\ \A p, q \in Requests : AtPlan(req[p]) /\ AtPlan(req[q]) => p = q
        /\ (\A q \in Requests : ~AtPlan(req[q])) => AllOn(assigned, visits)
        /\ \A q \in Requests : AtPlan(req[q]) => VisitsPhase(req[q])

-----------------------------------------------------------------------------
(* The sum of the blocks *)

\* Every nonempty set of numbers has a least one: the form in which induction
\* is used below.
LEMMA LeastOfNat ==
    ASSUME NEW S, S \subseteq Nat, S # {}
    PROVE  \E m \in S : \A k \in S : m <= k
<1> DEFINE R == OpToRel(<, Nat)
<1>1. IsWellFoundedOn(R, Nat)
  BY NatLessThanWellFounded, Zenon
<1>2. R = {p \in Nat \X Nat : p[1] < p[2]}
  BY DEF OpToRel
<1> HIDE DEF R
<1>3. PICK x \in S : \A y \in S : ~(<<y, x>> \in R)
  BY <1>1, WFMin, Zenon
<1>4. \A y \in S : ~(y < x)
  BY <1>2, <1>3
<1> QED BY <1>4

Some(S) == CHOOSE x \in S : TRUE

\* The equation that defines the sum, for the sets up to a size.
UpTo(n) == {S \in SUBSET Staff : Cardinality(S) <= n}
Sums(n, f) ==
    f = [S \in UpTo(n) |-> IF S = {} THEN 0
                           ELSE LET w == CHOOSE x \in S : TRUE IN visitOf[w] + f[S \ {w}]]

\* A set of workers without one of them.
LEMMA OneLess ==
    ASSUME NEW S \in SUBSET Staff, S # {}
    PROVE  /\ Some(S) \in S /\ S \ {Some(S)} \in SUBSET Staff
           /\ Cardinality(S) \in Nat \ {0}
           /\ Cardinality(S \ {Some(S)}) = Cardinality(S) - 1
<1>1. Some(S) \in S
  BY DEF Some
<1>2. IsFiniteSet(S)
  BY StaffAssumption, FS_Subset
<1>3. Cardinality(S) \in Nat /\ Cardinality(S) # 0
  BY <1>2, FS_CardinalityType, FS_EmptySet
<1>4. Cardinality(S \ {Some(S)}) = Cardinality(S) - 1
  BY <1>1, <1>2, FS_RemoveElement
<1> QED BY <1>1, <1>3, <1>4

LEMMA SumsExist == ASSUME NEW n \in Nat PROVE \E f : Sums(n, f)
<1> DEFINE Bad == {k \in Nat : ~\E f : Sums(k, f)}
<1>1. ASSUME Bad # {} PROVE FALSE
  <2>1. PICK m \in Bad : \A k \in Bad : m <= k
    BY <1>1, LeastOfNat
  <2>2. CASE m = 0
    <3>1. ASSUME NEW S \in UpTo(0), S # {} PROVE FALSE
      <4>1. S \in SUBSET Staff /\ Cardinality(S) <= 0
        BY DEF UpTo
      <4>2. Cardinality(S) \in Nat \ {0}
        BY <3>1, <4>1, OneLess
      <4> QED BY <4>1, <4>2
    <3> DEFINE g == [S \in UpTo(0) |-> 0]
    <3>2. \A S \in UpTo(0) : g[S] = IF S = {} THEN 0
                             ELSE LET w == CHOOSE x \in S : TRUE IN visitOf[w] + g[S \ {w}]
      BY <3>1
    <3>3. Sums(0, g)
      BY <3>1, <3>2 DEF Sums
    <3> QED BY <3>3, <2>1, <2>2
  <2>3. CASE m # 0
    <3>1. m - 1 \in Nat /\ m - 1 \notin Bad
      BY <2>1, <2>3
    <3>2. PICK f : Sums(m - 1, f)
      BY <3>1
    <3> DEFINE g == [S \in UpTo(m) |-> IF Cardinality(S) = m THEN visitOf[Some(S)] + f[S \ {Some(S)}]
                                       ELSE f[S]]
    <3>3. ASSUME NEW S \in UpTo(m)
          PROVE  g[S] = IF S = {} THEN 0
                        ELSE LET w == CHOOSE x \in S : TRUE IN visitOf[w] + g[S \ {w}]
      <4>1. CASE S = {}
        <5>1. Cardinality(S) = 0 /\ S \in UpTo(m - 1)
          BY <4>1, <3>1, FS_EmptySet DEF UpTo
        <5>2. f[S] = 0
          BY <3>2, <4>1, <5>1, Zenon DEF Sums
        <5> QED BY <4>1, <5>1, <5>2, <2>3
      <4>2. CASE S # {}
        <5> DEFINE T == S \ {Some(S)}
        <5>1. /\ T \in SUBSET Staff /\ Cardinality(S) \in Nat \ {0} /\ Cardinality(S) <= m
              /\ Cardinality(T) = Cardinality(S) - 1
          BY <4>2, OneLess DEF UpTo
        <5>2. T \in UpTo(m) /\ T \in UpTo(m - 1) /\ Cardinality(T) # m
          BY <5>1, <2>1 DEF UpTo
        <5>3. g[T] = f[T]
          BY <5>2
        <5>4. g[S] = visitOf[Some(S)] + f[T]
          <6>1. CASE Cardinality(S) = m
            BY <6>1
          <6>2. CASE Cardinality(S) # m
            <7>1. S \in UpTo(m - 1)
              BY <5>1, <6>2, <2>1 DEF UpTo
            <7>2. f[S] = visitOf[Some(S)] + f[T]
              BY <3>2, <4>2, <7>1, Zenon DEF Sums, Some
            <7> QED BY <6>2, <7>2
          <6> QED BY <6>1, <6>2
        <5> HIDE DEF g
        <5> QED BY <4>2, <5>3, <5>4 DEF Some
      <4> QED BY <4>1, <4>2
    <3>4. g = [S \in UpTo(m) |-> g[S]]
      OBVIOUS
    <3> HIDE DEF g
    <3>5. Sums(m, g)
      BY <3>3, <3>4, Zenon DEF Sums
    <3> QED BY <3>5, <2>1
  <2> QED BY <2>2, <2>3
<1> QED BY <1>1

\* What the sum comes to: nothing over no blocks, one worker's over only hers.
LEMMA TotalIs ==
    ASSUME visitOf \in [Staff -> Nat]
    PROVE  /\ Total \in Nat
           /\ \A w \in Staff : (\A v \in Staff \ {w} : visitOf[v] = 0) => Total = visitOf[w]
           /\ (\A v \in Staff : visitOf[v] = 0) => Total = 0
<1> DEFINE f[S \in SUBSET Staff] ==
             IF S = {} THEN 0 ELSE LET w == CHOOSE x \in S : TRUE IN visitOf[w] + f[S \ {w}]
<1>1. Total = f[Staff]
  BY DEF Total
<1>2. Cardinality(Staff) \in Nat /\ UpTo(Cardinality(Staff)) = SUBSET Staff
  <2>1. Cardinality(Staff) \in Nat
    BY StaffAssumption, FS_CardinalityType
  <2>2. \A S \in SUBSET Staff : Cardinality(S) <= Cardinality(Staff)
    BY StaffAssumption, FS_Subset
  <2> QED BY <2>1, <2>2 DEF UpTo
<1>3. Sums(Cardinality(Staff), f)
  <2>1. PICK h : Sums(Cardinality(Staff), h)
    BY <1>2, SumsExist
  <2>2. h = [S \in SUBSET Staff |->
               IF S = {} THEN 0 ELSE LET w == CHOOSE x \in S : TRUE IN visitOf[w] + h[S \ {w}]]
    BY <1>2, <2>1, Zenon DEF Sums
  <2>3. f = [S \in SUBSET Staff |->
               IF S = {} THEN 0 ELSE LET w == CHOOSE x \in S : TRUE IN visitOf[w] + f[S \ {w}]]
    BY <2>2, Zenon
  <2> HIDE DEF f
  <2> QED BY <1>2, <2>3, Zenon DEF Sums
<1> HIDE DEF f
<1>4. f[{}] = 0
  BY <1>2, <1>3, Zenon DEF Sums
<1>5. \A S \in SUBSET Staff : S # {} => f[S] = visitOf[Some(S)] + f[S \ {Some(S)}]
  BY <1>2, <1>3, Zenon DEF Sums, Some
<1> DEFINE Good(S) == /\ f[S] \in Nat
                      /\ \A w \in Staff : (\A v \in Staff \ {w} : visitOf[v] = 0)
                            => f[S] = IF w \in S THEN visitOf[w] ELSE 0
                      /\ (\A v \in Staff : visitOf[v] = 0) => f[S] = 0
           Bad == {k \in Nat : \E S \in SUBSET Staff : Cardinality(S) = k /\ ~Good(S)}
<1>6. ASSUME Bad # {} PROVE FALSE
  <2>1. PICK m \in Bad : \A k \in Bad : m <= k
    BY <1>6, LeastOfNat
  <2>2. PICK S \in SUBSET Staff : Cardinality(S) = m /\ ~Good(S)
    BY <2>1
  <2>3. CASE S = {}
    <3>1. Good({})
      BY <1>4
    <3> QED BY <2>2, <2>3, <3>1
  <2>4. CASE S # {}
    <3> DEFINE x == Some(S)
               T == S \ {x}
    <3>1. /\ x \in S /\ x \in Staff /\ T \in SUBSET Staff /\ Cardinality(T) = m - 1 /\ m \in Nat \ {0}
          /\ f[S] = visitOf[x] + f[T]
      BY <1>5, <2>2, <2>4, OneLess
    <3>2. Good(T)
      <4>1. m - 1 \in Nat /\ m - 1 \notin Bad
        BY <2>1, <3>1
      <4> HIDE DEF Good, T
      <4> QED BY <3>1, <4>1
    <3>3. visitOf[x] \in Nat
      BY <3>1
    <3>4. \A w : w \in S <=> w = x \/ w \in T
      BY <3>1
    <3>5. x \notin T
      OBVIOUS
    <3> HIDE DEF x, T
    <3>6. f[S] \in Nat
      BY <3>1, <3>2, <3>3
    <3>7. ASSUME NEW w \in Staff, \A v \in Staff \ {w} : visitOf[v] = 0
          PROVE  f[S] = IF w \in S THEN visitOf[w] ELSE 0
      <4>1. f[T] = IF w \in T THEN visitOf[w] ELSE 0
        BY <3>2, <3>7
      <4>2. CASE w = x
        BY <3>1, <3>3, <3>5, <4>1, <4>2
      <4>3. CASE w # x
        <5>1. visitOf[x] = 0
          BY <3>1, <3>7, <4>3
        <5>2. (w \in S <=> w \in T) /\ visitOf[w] \in Nat
          BY <3>4, <4>3
        <5> QED BY <3>1, <4>1, <5>1, <5>2
      <4> QED BY <4>2, <4>3
    <3>8. ASSUME \A v \in Staff : visitOf[v] = 0 PROVE f[S] = 0
      BY <3>1, <3>2, <3>8
    <3> QED BY <2>2, <3>6, <3>7, <3>8
  <2> QED BY <2>3, <2>4
<1>7. \A S \in SUBSET Staff : Cardinality(S) \in Nat
  BY StaffAssumption, FS_Subset, FS_CardinalityType
<1>8. Good(Staff)
  <2> HIDE DEF Good
  <2> QED BY <1>6, <1>7
<1> QED BY <1>1, <1>8

-----------------------------------------------------------------------------
(* Types and counts are kept *)

TypeInv == Inv /\ Counted /\ TiedExist

LEMMA TypeInvIsEnough == TypeInv => TypeOK
<1> SUFFICES ASSUME TypeInv PROVE TypeOK
  OBVIOUS
<1>1. \A q \in Requests :
        req[q] \in [pc : {"idle", "event", "who", "clear", "delete", "find", "put", "case", "events",
                          "next", "visits", "clear visits", "put visit"},
                    kind : Kinds, e : Events \cup {Nobody}, to : EventState,
                    who : Staff \cup {Nobody}, was : Staff \cup {Nobody},
                    found : Blocks \cup {Nobody}, left : 0..MaxVisits, todo : SUBSET Events,
                    seen : [Events -> EventState]]
  BY DEF TypeInv, Inv, Typed, Counted, ReqOk, ReqRecord, AllPlaces
<1>2. req = [q \in Requests |-> req[q]]
  BY DEF TypeInv, Inv, Typed
<1> QED BY <1>1, <1>2 DEF TypeInv, Inv, Typed, Counted, TiedExist, BlockRecord, TypeOK

LEMMA IdleReqOk == ReqOk(Idle)
BY BoundsAssumption DEF ReqOk, Idle

LEMMA InitCounted == Init => Counted /\ TiedExist /\ VisitsInv
<1> SUFFICES ASSUME Init PROVE Counted /\ TiedExist /\ VisitsInv
  OBVIOUS
<1>1. Counted
  BY IdleReqOk, BoundsAssumption DEF Init, Counted
<1>2. TiedExist
  BY DEF Init, TiedExist, NoBlock
<1>3. \A w, n : AllOn(w, n)
  BY DEF Init, AllOn
<1>4. \A q \in Requests : ~AtPlan(req[q])
  BY DEF Init, AtPlan, Idle
<1> QED BY <1>1, <1>2, <1>3, <1>4 DEF VisitsInv

\* One request goes on with another record.
LEMMA ReqsOk ==
    ASSUME Typed, \A p \in Requests : ReqOk(req[p]), NEW q \in Requests, NEW x, ReqOk(x),
           req' = [req EXCEPT ![q] = x]
    PROVE  \A p \in Requests : ReqOk(req'[p])
<1>1. \A p \in Requests : req'[p] = IF p = q THEN x ELSE req[p]
  BY DEF Typed
<1> QED BY <1>1

LEMMA GotoIs ==
    ASSUME Typed, NEW q \in Requests, NEW pc \in AllPlaces, Goto(q, pc)
    PROVE  /\ pc = "idle" => req' = [req EXCEPT ![q] = Idle]
           /\ pc # "idle" => req' = [req EXCEPT ![q] = [req[q] EXCEPT !.pc = pc]]
BY DEF Goto, Typed

LEMMA GotoOk ==
    ASSUME Typed, \A p \in Requests : ReqOk(req[p]), NEW q \in Requests,
           NEW pc \in AllPlaces \ {"event", "put visit"}, Goto(q, pc)
    PROVE  \A p \in Requests : ReqOk(req'[p])
<1>1. CASE pc = "idle"
  BY <1>1, GotoIs, ReqsOk, IdleReqOk
<1>2. CASE pc # "idle"
  <2> DEFINE x == [req[q] EXCEPT !.pc = pc]
  <2>1. req' = [req EXCEPT ![q] = x]
    BY <1>2, GotoIs
  <2>2. x.pc = pc /\ x.left = req[q].left
    BY DEF Typed, ReqRecord
  <2> HIDE DEF x
  <2>3. ReqOk(x)
    BY <2>2 DEF ReqOk
  <2> QED BY <2>1, <2>3, ReqsOk
<1> QED BY <1>1, <1>2

LEMMA TouchedIs ==
    ASSUME Typed, NEW q \in Requests PROVE Touched(req[q].kind, req[q].e) \subseteq Events \cup {"plan"}
BY DEF Touched, Typed, ReqRecord, Kinds

\* Requests come in.
LEMMA AskCounted == ASSUME Inv, Counted, NEW q \in Requests, Ask(q) PROVE Counted'
<1> USE DEF Inv
<1>1. ASSUME NEW kind \in Kinds, NEW e, kind \in {"create", "update", "remove"} => e \in Events,
             NEW x, ReqOk(x), Begin(q, kind, e, x)
      PROVE  Counted'
  <2>1. blurred' \subseteq Events \cup {"plan"}
    <3>1. Overlap(kind, e) \subseteq Events \cup {"plan"}
      BY <1>1 DEF Overlap, Touched, Kinds
    <3> QED BY <1>1, <3>1 DEF Begin, Counted
  <2>2. overlaps' \in 0..MaxOverlaps
    BY <1>1, BoundsAssumption DEF Begin, Counted
  <2>3. \A p \in Requests : ReqOk(req'[p])
    BY <1>1, ReqsOk DEF Begin, Counted
  <2> QED BY <1>1, <2>1, <2>2, <2>3 DEF Begin, Counted
<1>2. ASSUME NEW e \in Events, NEW to \in {"due", "off"}, AskCreate(q, e, to) PROVE Counted'
  <2> DEFINE x == [Idle EXCEPT !.pc = "event", !.kind = "create", !.e = e, !.to = to, !.who = assigned]
  <2>1. ReqOk(x) /\ Begin(q, "create", e, x)
    BY <1>2, BoundsAssumption DEF ReqOk, Idle, AskCreate
  <2> HIDE DEF x
  <2> QED BY <1>1, <2>1 DEF Kinds
<1>3. ASSUME NEW e \in Events, NEW to \in {"due", "off"}, AskUpdate(q, e, to) PROVE Counted'
  <2> DEFINE x == [Idle EXCEPT !.pc = "event", !.kind = "update", !.e = e, !.to = to]
  <2>1. ReqOk(x) /\ Begin(q, "update", e, x)
    BY <1>3, BoundsAssumption DEF ReqOk, Idle, AskUpdate
  <2> HIDE DEF x
  <2> QED BY <1>1, <2>1 DEF Kinds
<1>4. ASSUME NEW e \in Events, AskRemove(q, e) PROVE Counted'
  <2> DEFINE x == [Idle EXCEPT !.pc = "clear", !.kind = "remove", !.e = e]
  <2>1. ReqOk(x) /\ Begin(q, "remove", e, x)
    BY <1>4, BoundsAssumption DEF ReqOk, Idle, AskRemove
  <2> HIDE DEF x
  <2> QED BY <1>1, <2>1 DEF Kinds
<1>5. ASSUME NEW who, AskAssign(q, who) PROVE Counted'
  <2> DEFINE x == [Idle EXCEPT !.pc = "case", !.kind = "assign", !.who = who, !.was = assigned]
  <2>1. ReqOk(x) /\ Begin(q, "assign", Nobody, x)
    BY <1>5, BoundsAssumption DEF ReqOk, Idle, AskAssign
  <2> HIDE DEF x
  <2> QED BY <1>1, <2>1 DEF Kinds
<1>6. ASSUME NEW n \in 0..MaxVisits, AskPlan(q, n) PROVE Counted'
  <2> DEFINE x == [Idle EXCEPT !.pc = "case", !.kind = "plan", !.who = assigned, !.left = n]
  <2>1. ReqOk(x) /\ Begin(q, "plan", Nobody, x)
    BY <1>6 DEF ReqOk, Idle, AskPlan
  <2> HIDE DEF x
  <2> QED BY <1>1, <2>1 DEF Kinds
<1> QED BY <1>2, <1>3, <1>4, <1>5, <1>6 DEF Ask

\* They go on, end, or are cut.
LEMMA StepCounted ==
    ASSUME Inv, Counted, NEW q \in Requests, Step(q) \/ Cut(q) PROVE Counted'
<1> USE DEF Inv
<1>0. /\ req[q] \in ReqRecord /\ \A p \in Requests : ReqOk(req[p])
      /\ visits \in 0..MaxVisits /\ visitOf \in [Staff -> Nat] /\ cuts \in 0..MaxCuts
      /\ MaxVisits \in Nat /\ MaxCuts \in Nat
  BY BoundsAssumption DEF Typed, Counted
<1>1. ASSUME \A p \in Requests : ReqOk(req'[p]), visits' \in 0..MaxVisits, visitOf' \in [Staff -> Nat],
             overlaps' = overlaps, cuts' \in 0..MaxCuts,
             blurred' \subseteq blurred \cup Touched(req[q].kind, req[q].e)
      PROVE  Counted'
  <2>1. blurred' \subseteq Events \cup {"plan"}
    BY <1>1, TouchedIs DEF Counted
  <2> QED BY <1>1, <2>1 DEF Counted
<1>2. ASSUME NEW pc \in AllPlaces \ {"event", "put visit"}, Goto(q, pc)
      PROVE  \A p \in Requests : ReqOk(req'[p])
  BY <1>0, <1>2, GotoOk
<1>3. ASSUME NEW x, ReqOk(x), req' = [req EXCEPT ![q] = x] PROVE \A p \in Requests : ReqOk(req'[p])
  BY <1>0, <1>3, ReqsOk
<1>4. CASE SaveEvent(q)
  <2>1. AfterEvent(q) \in {"idle", "find", "who", "clear"}
    BY DEF AfterEvent
  <2>2. \A p \in Requests : ReqOk(req'[p])
    BY <1>2, <1>4, <2>1 DEF SaveEvent, AllPlaces
  <2> QED BY <1>0, <1>1, <1>4, <2>2 DEF SaveEvent
<1>5. CASE LoadWorker(q)
  <2> DEFINE x == [req[q] EXCEPT !.pc = "find", !.who = assigned]
  <2>1. req' = [req EXCEPT ![q] = Idle] \/ req' = [req EXCEPT ![q] = x]
    BY <1>5 DEF LoadWorker, Typed
  <2>2. x.pc = "find" /\ x.left = req[q].left
    BY <1>0 DEF ReqRecord
  <2> HIDE DEF x
  <2>3. ReqOk(x)
    BY <1>0, <2>2 DEF ReqOk
  <2>4. \A p \in Requests : ReqOk(req'[p])
    BY <1>3, <2>1, <2>3, IdleReqOk
  <2> QED BY <1>0, <1>1, <1>5, <2>4 DEF LoadWorker
<1>6. CASE Clear(q)
  <2>1. AfterClear(q) \in {"idle", "delete", "find", "next"}
    BY DEF AfterClear
  <2>2. \A p \in Requests : ReqOk(req'[p])
    BY <1>2, <1>6, <2>1 DEF Clear, AllPlaces
  <2> QED BY <1>0, <1>1, <1>6, <2>2 DEF Clear
<1>7. CASE DeleteEvent(q)
  <2>1. \A p \in Requests : ReqOk(req'[p])
    BY <1>2, <1>7 DEF DeleteEvent, AllPlaces
  <2> QED BY <1>0, <1>1, <1>7, <2>1 DEF DeleteEvent
<1>8. CASE Find(q)
  <2>1. PICK b : req' = [req EXCEPT ![q] = [@ EXCEPT !.pc = "put", !.found = b]]
    BY <1>8 DEF Find
  <2> DEFINE x == [req[q] EXCEPT !.pc = "put", !.found = b]
  <2>2. req' = [req EXCEPT ![q] = x] /\ x.pc = "put" /\ x.left = req[q].left
    BY <1>0, <2>1 DEF Typed, ReqRecord
  <2> HIDE DEF x
  <2>3. ReqOk(x)
    BY <1>0, <2>2 DEF ReqOk
  <2>4. \A p \in Requests : ReqOk(req'[p])
    BY <1>3, <2>2, <2>3
  <2> QED BY <1>0, <1>1, <1>8, <2>4 DEF Find
<1>9. CASE Put(q)
  <2> DEFINE x == [req[q] EXCEPT !.pc = "next", !.found = Nobody]
  <2>1. req' = [req EXCEPT ![q] = Idle] \/ req' = [req EXCEPT ![q] = x]
    BY <1>9 DEF Put, SaveBlock, Typed
  <2>2. x.pc = "next" /\ x.left = req[q].left
    BY <1>0 DEF ReqRecord
  <2> HIDE DEF x
  <2>3. ReqOk(x)
    BY <1>0, <2>2 DEF ReqOk
  <2>4. \A p \in Requests : ReqOk(req'[p])
    BY <1>3, <2>1, <2>3, IdleReqOk
  <2> QED BY <1>0, <1>1, <1>9, <2>4 DEF Put, SaveBlock
<1>10. CASE PutRefused(q)
  <2>1. \A p \in Requests : ReqOk(req'[p])
    BY <1>2, <1>10 DEF PutRefused, AllPlaces
  <2> QED BY <1>0, <1>1, <1>10, <2>1 DEF PutRefused
<1>11. CASE SaveCase(q)
  <2>1. PICK pc \in {"visits", "idle", "events"} : Goto(q, pc)
    BY <1>11 DEF SaveCase
  <2>2. \A p \in Requests : ReqOk(req'[p])
    BY <1>2, <2>1 DEF AllPlaces
  <2> QED BY <1>0, <1>1, <1>11, <2>2 DEF SaveCase
<1>12. CASE ReadEvents(q) \/ NextEvent(q)
  <2>1. PICK x : req' = [req EXCEPT ![q] = x] /\ x.pc \in {"next", "clear"} /\ x.left = req[q].left
    <3>1. CASE ReadEvents(q)
      <4> DEFINE x == [req[q] EXCEPT !.pc = "next", !.seen = event, !.todo = {e \in Events : Exists(e)}]
      <4>1. req' = [req EXCEPT ![q] = x]
        BY <3>1 DEF ReadEvents, Typed
      <4>2. x.pc = "next" /\ x.left = req[q].left
        BY <1>0 DEF ReqRecord
      <4> QED BY <4>1, <4>2
    <3>2. CASE NextEvent(q)
      <4>1. PICK e \in req[q].todo :
              req' = [req EXCEPT ![q] = [@ EXCEPT !.pc = "clear", !.e = e, !.todo = req[q].todo \ {e}]]
        BY <3>2 DEF NextEvent
      <4> DEFINE x == [req[q] EXCEPT !.pc = "clear", !.e = e, !.todo = req[q].todo \ {e}]
      <4>2. req' = [req EXCEPT ![q] = x]
        BY <4>1 DEF Typed
      <4>3. x.pc = "clear" /\ x.left = req[q].left
        BY <1>0 DEF ReqRecord
      <4> QED BY <4>2, <4>3
    <3> QED BY <1>12, <3>1, <3>2
  <2>2. ReqOk(x)
    BY <1>0, <2>1 DEF ReqOk
  <2>3. \A p \in Requests : ReqOk(req'[p])
    BY <1>3, <2>1, <2>2
  <2> QED BY <1>0, <1>1, <1>12, <2>3 DEF ReadEvents, NextEvent
<1>13. CASE MoveVisits(q)
  <2>1. \A p \in Requests : ReqOk(req'[p])
    BY <1>2, <1>13 DEF MoveVisits, AllPlaces
  <2>2. visitOf' \in [Staff -> Nat]
    BY <1>0, <1>13, TotalIs DEF MoveVisits, MovedVisits
  <2> QED BY <1>0, <1>1, <1>13, <2>1, <2>2 DEF MoveVisits
<1>14. CASE SaveVisits(q)
  <2>1. \A p \in Requests : ReqOk(req'[p])
    BY <1>2, <1>14 DEF SaveVisits, AllPlaces
  <2>2. visits' \in 0..MaxVisits
    BY <1>0, <1>14 DEF SaveVisits, ReqOk
  <2> QED BY <1>0, <1>1, <1>14, <2>1, <2>2 DEF SaveVisits
<1>15. CASE ClearVisits(q)
  <2> DEFINE x == [req[q] EXCEPT !.pc = "put visit"]
  <2>1. \/ req' = [req EXCEPT ![q] = Idle]
        \/ req' = [req EXCEPT ![q] = x] /\ req[q].who # Nobody /\ req[q].left # 0
    BY <1>0, <1>15, GotoIs DEF ClearVisits, AllPlaces
  <2>2. x.pc = "put visit" /\ x.left = req[q].left /\ x.who = req[q].who
    BY <1>0 DEF ReqRecord
  <2> HIDE DEF x
  <2>3. \A p \in Requests : ReqOk(req'[p])
    <3>1. CASE req' = [req EXCEPT ![q] = Idle]
      BY <1>3, <3>1, IdleReqOk
    <3>2. CASE req' = [req EXCEPT ![q] = x] /\ req[q].who # Nobody /\ req[q].left # 0
      <4>1. ReqOk(x)
        BY <1>0, <2>2, <3>2 DEF ReqOk
      <4> QED BY <1>3, <3>2, <4>1
    <3> QED BY <2>1, <3>1, <3>2
  <2>4. visitOf' \in [Staff -> Nat]
    BY <1>15 DEF ClearVisits
  <2> QED BY <1>0, <1>1, <1>15, <2>3, <2>4 DEF ClearVisits
<1>16. CASE PutVisit(q)
  <2>1. req[q].pc = "put visit" /\ req[q].left \in 0..MaxVisits /\ req[q].left # 0
    BY <1>0, <1>16 DEF PutVisit, ReqOk
  <2>2. PICK n \in 0..MaxVisits : n = req[q].left - 1 /\ (req[q].left # 1 => n # 0)
    <3>0. \A m \in 0..MaxVisits : m # 0 => m \in 1..MaxVisits
      BY <1>0
    <3>1. PICK m \in 1..MaxVisits : m = req[q].left
      BY <2>1, <3>0, Zenon
    <3>2. m - 1 \in 0..MaxVisits /\ (m # 1 => m - 1 # 0)
      BY <1>0
    <3> QED BY <3>1, <3>2
  <2> DEFINE x == [req[q] EXCEPT !.left = n]
  <2>3. req' = [req EXCEPT ![q] = Idle] \/ (req[q].left # 1 /\ req' = [req EXCEPT ![q] = x])
    <3>1. req[q].left # 1 => req' = [req EXCEPT ![q].left = n]
      BY <1>16, <2>2 DEF PutVisit
    <3> QED BY <1>16, <3>1 DEF PutVisit, Typed
  <2>4. x.pc = "put visit" /\ x.left = n /\ x.who = req[q].who
    BY <1>0, <2>1 DEF ReqRecord
  <2>5. req[q].who # Nobody
    BY <1>0, <2>1 DEF ReqOk
  <2> HIDE DEF x
  <2>6. req[q].left # 1 => ReqOk(x)
    BY <2>2, <2>4, <2>5 DEF ReqOk
  <2>7. \A p \in Requests : ReqOk(req'[p])
    BY <1>3, <2>3, <2>6, IdleReqOk
  <2>8. visitOf' \in [Staff -> Nat]
    <3>1. visitOf' = [visitOf EXCEPT ![req[q].who] = visitOf[req[q].who] + 1]
      BY <1>16 DEF PutVisit
    <3>2. PICK w : w = req[q].who /\ (w \in Staff => visitOf[w] + 1 \in Nat)
      BY <1>0
    <3>3. visitOf' = [visitOf EXCEPT ![w] = visitOf[w] + 1]
      BY <3>1, <3>2
    <3> QED BY <1>0, <3>2, <3>3
  <2> QED BY <1>0, <1>1, <1>16, <2>7, <2>8 DEF PutVisit
<1>17. CASE Cut(q)
  <2>1. \A p \in Requests : ReqOk(req'[p])
    BY <1>2, <1>17 DEF Cut, AllPlaces
  <2>2. cuts' \in 0..MaxCuts
    BY <1>0, <1>17 DEF Cut
  <2> QED BY <1>0, <1>1, <1>17, <2>1, <2>2 DEF Cut
<1> QED BY <1>4, <1>5, <1>6, <1>7, <1>8, <1>9, <1>10, <1>11, <1>12, <1>13, <1>14, <1>15, <1>16,
          <1>17 DEF Step

-----------------------------------------------------------------------------
(* Blocks are tied to what exists *)

LEMMA TiedStep ==
    ASSUME Inv, Counted, TiedExist, NEW q \in Requests, Step(q) PROVE TiedExist'
<1> USE DEF Inv
<1>1. CASE UNCHANGED <<block, event>>
  BY <1>1 DEF TiedExist, Exists
<1>2. CASE SaveEvent(q)
  <2>1. PICK e \in Events, to \in {"due", "off"} : event' = [event EXCEPT ![e] = to]
    <3>1. req[q].to \in {"due", "off"}
      BY <1>2 DEF SaveEvent, Counted, ReqOk
    <3>2. req[q].e \in Events
      BY <1>2 DEF SaveEvent, Typed, Places, ReqRecord, Kinds
    <3> QED BY <1>2, <3>1, <3>2 DEF SaveEvent
  <2>2. \A f \in Events : Exists(f) => Exists(f)'
    BY <2>1 DEF Exists, Typed
  <2> QED BY <1>2, <2>2 DEF SaveEvent, TiedExist
<1>3. CASE Clear(q)
  <2>1. \A b \in Blocks : block'[b] = block[b] \/ ~block'[b].tied
    BY <1>3 DEF Clear, NoBlock
  <2> QED BY <1>3, <2>1 DEF Clear, TiedExist, Exists
<1>4. CASE DeleteEvent(q)
  <2>1. PICK e : /\ event' = [event EXCEPT ![e] = "gone"]
                 /\ block' = [b \in Blocks |-> IF b \in BlocksOf(e)
                                THEN [block[b] EXCEPT !.tied = FALSE] ELSE block[b]]
    BY <1>4 DEF DeleteEvent
  <2> SUFFICES ASSUME NEW b \in Blocks, block'[b].tied
               PROVE  block'[b].event \in Events /\ event'[block'[b].event] \in {"due", "off"}
    BY DEF TiedExist, Exists
  <2>2. b \notin BlocksOf(e) /\ block'[b] = block[b]
    <3>1. [block[b] EXCEPT !.tied = FALSE].tied = FALSE
      BY DEF Typed, BlockRecord
    <3> QED BY <2>1, <3>1
  <2>3. block[b].event # e /\ block[b].event \in Events /\ Exists(block[b].event)
    BY <2>2 DEF BlocksOf, TiedExist
  <2>4. event'[block[b].event] = event[block[b].event]
    BY <2>1, <2>3 DEF Typed
  <2> QED BY <2>2, <2>3, <2>4 DEF Exists
<1>5. CASE Put(q)
  <2>1. req[q].e \in Events /\ Exists(req[q].e) /\ event' = event
    BY <1>5 DEF Put, SaveBlock, Typed, Places, ReqRecord, Kinds
  <2>2. PICK c : block' = [block EXCEPT ![c] = [event |-> req[q].e, tied |-> TRUE, owner |-> req[q].who]]
    BY <1>5 DEF Put, SaveBlock
  <2>3. \A b \in Blocks : block'[b] = block[b] \/ block'[b].event = req[q].e
    BY <2>2 DEF Typed
  <2> QED BY <2>1, <2>3 DEF TiedExist, Exists
<1> QED BY <1>1, <1>2, <1>3, <1>4, <1>5 DEF Step, LoadWorker, Find, PutRefused, SaveCase, ReadEvents,
          NextEvent, MoveVisits, SaveVisits, ClearVisits, PutVisit

LEMMA NextCounted ==
    ASSUME Inv, Counted, TiedExist, [Next]_vars PROVE Counted' /\ TiedExist'
<1>1. CASE UNCHANGED vars
  BY <1>1 DEF vars, Counted, TiedExist, Exists
<1>2. ASSUME NEW q \in Requests, Ask(q) PROVE Counted' /\ TiedExist'
  <2>1. UNCHANGED <<block, event>>
    BY <1>2 DEF Ask, AskCreate, AskUpdate, AskRemove, AskAssign, AskPlan, Begin
  <2> QED BY <1>2, <2>1, AskCounted DEF TiedExist, Exists
<1>3. ASSUME NEW q \in Requests, Step(q) PROVE Counted' /\ TiedExist'
  BY <1>3, StepCounted, TiedStep
<1>4. ASSUME NEW q \in Requests, Cut(q) PROVE Counted' /\ TiedExist'
  <2>1. UNCHANGED <<block, event>>
    BY <1>4 DEF Cut
  <2> QED BY <1>4, <2>1, StepCounted DEF TiedExist, Exists
<1>5. CASE Next
  BY <1>5, <1>2, <1>3, <1>4 DEF Next
<1> QED BY <1>1, <1>5

LEMMA TypeAlways == Spec => []TypeInv
<1>1. Init => TypeInv
  BY InitInv, InitCounted DEF TypeInv
<1>2. TypeInv /\ [Next]_vars => TypeInv'
  BY NextInv, NextCounted DEF TypeInv
<1> QED BY <1>1, <1>2, PTL DEF Spec

\* The domains, and with them the foreign key: a block that names an event
\* names one that exists, whatever requests overlap and are cut.
THEOREM TypeCorrect == Spec => []TypeOK
<1>1. TypeInv => TypeOK
  BY TypeInvIsEnough
<1> QED BY <1>1, TypeAlways, PTL

-----------------------------------------------------------------------------
(* The visits stay with the plan *)

LEMMA SameVisits ==
    ASSUME NEW w, NEW n, visitOf' = visitOf PROVE AllOn(w, n)' <=> AllOn(w, n)
BY DEF AllOn

\* A step on the events, of a request for one or of a reassignment.
LEMMA EventVisits ==
    ASSUME Typed, VisitsInv, NEW q \in Requests, NEW x, req' = [req EXCEPT ![q] = x],
           UNCHANGED <<assigned, visits, visitOf>>, blurred \subseteq blurred',
           req[q].pc \notin {"idle", "case"}, req[q].kind # "plan",
           \/ x.pc = "idle" /\ (req[q].kind # "assign" \/ "plan" \in blurred')
           \/ x.pc \notin {"idle", "case"} /\ x.kind = req[q].kind
              /\ (x.kind = "assign" => x.who = req[q].who /\ x.was = req[q].was)
    PROVE  VisitsInv'
<1>1. \A p \in Requests : req'[p] = IF p = q THEN x ELSE req[p]
  BY DEF Typed
<1> SUFFICES ASSUME "plan" \notin blurred'
             PROVE  /\ \A p, r \in Requests : AtPlan(req'[p]) /\ AtPlan(req'[r]) => p = r
                    /\ (\A p \in Requests : ~AtPlan(req'[p])) => AllOn(assigned, visits)'
                    /\ \A p \in Requests : AtPlan(req'[p]) => VisitsPhase(req[p])'
  BY DEF VisitsInv
<1>2. /\ \A p, r \in Requests : AtPlan(req[p]) /\ AtPlan(req[r]) => p = r
      /\ (\A p \in Requests : ~AtPlan(req[p])) => AllOn(assigned, visits)
      /\ \A p \in Requests : AtPlan(req[p]) => VisitsPhase(req[p])
  BY DEF VisitsInv
<1>3. AtPlan(x) <=> AtPlan(req[q])
  BY DEF AtPlan
<1>4. \A p \in Requests : AtPlan(req'[p]) <=> AtPlan(req[p])
  BY <1>1, <1>3
<1>5. \A w, n : AllOn(w, n)' <=> AllOn(w, n)
  BY SameVisits
<1>6. ASSUME NEW p \in Requests, AtPlan(req'[p]) PROVE VisitsPhase(req[p])'
  <2>1. VisitsPhase(req[p])
    BY <1>2, <1>4, <1>6
  <2>2. CASE p # q
    <3>1. req'[p] = req[p]
      BY <1>1, <2>2
    <3> QED BY <2>1, <3>1, <1>5 DEF VisitsPhase, AssignVisits, PlanVisits
  <2>3. CASE p = q
    <3>1. req'[p] = x /\ x.kind = "assign" /\ req[q].kind = "assign"
          /\ x.pc # "case" /\ x.who = req[q].who /\ x.was = req[q].was
      BY <1>1, <1>6, <2>3 DEF AtPlan
    <3>2. req[q].who = assigned /\ AllOn(req[q].was, visits)
      BY <2>1, <2>3, <3>1 DEF VisitsPhase, AssignVisits
    <3> QED BY <3>1, <3>2, <1>5 DEF VisitsPhase, AssignVisits
  <2> QED BY <2>2, <2>3
<1> QED BY <1>2, <1>4, <1>5, <1>6

\* A step of the one request that is at the plan or at the worker.
LEMMA PlanVisitsStep ==
    ASSUME Typed, VisitsInv, NEW q \in Requests, AtPlan(req[q]), NEW x,
           req' = [req EXCEPT ![q] = x], blurred' = blurred,
           VisitsPhase(req[q]) => IF AtPlan(x) THEN VisitsPhase(x)' ELSE AllOn(assigned, visits)'
    PROVE  VisitsInv'
<1>1. \A p \in Requests : req'[p] = IF p = q THEN x ELSE req[p]
  BY DEF Typed
<1> SUFFICES ASSUME "plan" \notin blurred
             PROVE  /\ \A p, r \in Requests : AtPlan(req'[p]) /\ AtPlan(req'[r]) => p = r
                    /\ (\A p \in Requests : ~AtPlan(req'[p])) => AllOn(assigned, visits)'
                    /\ \A p \in Requests : AtPlan(req'[p]) => VisitsPhase(req[p])'
  BY DEF VisitsInv
<1>2. VisitsPhase(req[q]) /\ \A p \in Requests : AtPlan(req[p]) => p = q
  BY DEF VisitsInv
<1>3. \A p \in Requests : AtPlan(req'[p]) => p = q /\ AtPlan(x)
  BY <1>1, <1>2
<1>4. VisitsPhase(x)' => VisitsPhase(req[q])'
  BY <1>1 DEF VisitsPhase, AssignVisits, PlanVisits
<1>5. req'[q] = x
  BY <1>1
<1> QED BY <1>2, <1>3, <1>4, <1>5

LEMMA AskVisits == ASSUME Inv, VisitsInv, NEW q \in Requests, Ask(q) PROVE VisitsInv'
<1> USE DEF Inv
<1>1. ASSUME NEW kind \in Kinds, NEW e, NEW x, x.kind = kind, Begin(q, kind, e, x),
             x.pc = "case" \/ kind \notin {"assign", "plan"},
             kind = "assign" => x.was = assigned, kind = "plan" => x.who = assigned
      PROVE  VisitsInv'
  <2>1. /\ req[q].pc = "idle" /\ blurred' = blurred \cup Overlap(kind, e)
        /\ visitOf' = visitOf /\ visits' = visits /\ assigned' = assigned
        /\ \A p \in Requests : req'[p] = IF p = q THEN x ELSE req[p]
    BY <1>1 DEF Begin, Typed
  <2> SUFFICES ASSUME "plan" \notin blurred'
               PROVE  /\ \A p, r \in Requests : AtPlan(req'[p]) /\ AtPlan(req'[r]) => p = r
                      /\ (\A p \in Requests : ~AtPlan(req'[p])) => AllOn(assigned, visits)'
                      /\ \A p \in Requests : AtPlan(req'[p]) => VisitsPhase(req[p])'
    BY DEF VisitsInv
  <2>2. /\ \A p, r \in Requests : AtPlan(req[p]) /\ AtPlan(req[r]) => p = r
        /\ (\A p \in Requests : ~AtPlan(req[p])) => AllOn(assigned, visits)
        /\ \A p \in Requests : AtPlan(req[p]) => VisitsPhase(req[p])
        /\ "plan" \notin Overlap(kind, e)
    BY <2>1 DEF VisitsInv
  <2>3. \A w, n : AllOn(w, n)' <=> AllOn(w, n)
    BY <2>1, SameVisits
  <2>4. ~AtPlan(req[q])
    BY <2>1 DEF AtPlan
  <2>5. \A p \in Requests : p # q /\ VisitsPhase(req[p]) => VisitsPhase(req[p])'
    BY <2>1, <2>3 DEF VisitsPhase, AssignVisits, PlanVisits
  <2>6. CASE kind \notin {"assign", "plan"}
    <3>1. ~AtPlan(x)
      BY <1>1, <2>6 DEF AtPlan
    <3>2. \A p \in Requests : AtPlan(req'[p]) <=> AtPlan(req[p])
      BY <2>1, <2>4, <3>1
    <3> QED BY <2>1, <2>2, <2>3, <2>4, <2>5, <3>2
  <2>7. CASE kind \in {"assign", "plan"}
    <3>1. ASSUME NEW p \in Requests, AtPlan(req[p]) PROVE FALSE
      <4>1. p \in InHand /\ req[p].kind \in {"assign", "plan"}
        BY <3>1 DEF AtPlan, InHand
      <4> DEFINE other == req[p].kind
      <4>2. "plan" \notin IF {kind, other} \in {{"plan", "assign"}, {"assign"}} THEN Events \cup {"plan"}
                          ELSE Touched(kind, e) \cap Touched(other, req[p].e)
        BY <2>2, <4>1 DEF Overlap
      <4>3. "plan" \in Touched(kind, e) /\ "plan" \in Touched(other, req[p].e)
        BY <2>7, <4>1 DEF Touched
      <4> QED BY <4>2, <4>3
    <3>2. AllOn(assigned, visits)'
      BY <2>1, <2>2, <2>3, <3>1
    <3>3. VisitsPhase(x)'
      BY <1>1, <2>1, <2>7, <3>2 DEF VisitsPhase, AssignVisits, PlanVisits
    <3>4. VisitsPhase(x)' => VisitsPhase(req[q])'
      BY <2>1 DEF VisitsPhase, AssignVisits, PlanVisits
    <3>5. \A p \in Requests : AtPlan(req'[p]) => p = q
      BY <2>1, <3>1
    <3> QED BY <3>2, <3>3, <3>4, <3>5
  <2> QED BY <2>6, <2>7
<1>2. ASSUME NEW e \in Events, NEW to, AskCreate(q, e, to) \/ AskUpdate(q, e, to) \/ AskRemove(q, e)
      PROVE  VisitsInv'
  <2>1. PICK kind, x : kind \in {"create", "update", "remove"} /\ x.kind = kind /\ Begin(q, kind, e, x)
    <3> DEFINE a == [Idle EXCEPT !.pc = "event", !.kind = "create", !.e = e, !.to = to, !.who = assigned]
               b == [Idle EXCEPT !.pc = "event", !.kind = "update", !.e = e, !.to = to]
               c == [Idle EXCEPT !.pc = "clear", !.kind = "remove", !.e = e]
    <3>1. a.kind = "create" /\ b.kind = "update" /\ c.kind = "remove"
      BY DEF Idle
    <3>2. Begin(q, "create", e, a) \/ Begin(q, "update", e, b) \/ Begin(q, "remove", e, c)
      BY <1>2 DEF AskCreate, AskUpdate, AskRemove
    <3> HIDE DEF a, b, c
    <3> QED BY <3>1, <3>2
  <2> QED BY <1>1, <2>1 DEF Kinds
<1>3. ASSUME NEW who, AskAssign(q, who) PROVE VisitsInv'
  <2> DEFINE x == [Idle EXCEPT !.pc = "case", !.kind = "assign", !.who = who, !.was = assigned]
  <2>1. Begin(q, "assign", Nobody, x) /\ x.kind = "assign" /\ x.pc = "case" /\ x.was = assigned
    BY <1>3 DEF AskAssign, Idle
  <2> HIDE DEF x
  <2> QED BY <1>1, <2>1 DEF Kinds
<1>4. ASSUME NEW n, AskPlan(q, n) PROVE VisitsInv'
  <2> DEFINE x == [Idle EXCEPT !.pc = "case", !.kind = "plan", !.who = assigned, !.left = n]
  <2>1. Begin(q, "plan", Nobody, x) /\ x.kind = "plan" /\ x.pc = "case" /\ x.who = assigned
    BY <1>4 DEF AskPlan, Idle
  <2> HIDE DEF x
  <2> QED BY <1>1, <2>1 DEF Kinds
<1> QED BY <1>2, <1>3, <1>4 DEF Ask

\* The steps on the events.
LEMMA EventStepsVisits ==
    ASSUME Inv, VisitsInv, NEW q \in Requests,
           \/ SaveEvent(q) \/ LoadWorker(q) \/ Clear(q) \/ DeleteEvent(q) \/ Find(q) \/ Put(q)
           \/ PutRefused(q) \/ ReadEvents(q) \/ NextEvent(q)
    PROVE  VisitsInv'
<1> USE DEF Inv
<1>0. req[q] \in ReqRecord /\ (req[q].pc = "idle" \/ req[q].pc \in Places(req[q].kind))
  BY DEF Typed
<1>1. /\ req[q].pc \notin {"idle", "case"} /\ req[q].kind # "plan"
      /\ UNCHANGED <<assigned, visits, visitOf>> /\ blurred \subseteq blurred'
  BY <1>0 DEF SaveEvent, LoadWorker, Clear, DeleteEvent, Find, Put, PutRefused, SaveBlock, ReadEvents,
     NextEvent, Places, ReqRecord, Kinds
<1>2. ASSUME NEW x, req' = [req EXCEPT ![q] = x], x.pc \notin {"idle", "case"},
             x.kind = req[q].kind, x.kind = "assign" => x.who = req[q].who /\ x.was = req[q].was
      PROVE  VisitsInv'
  BY <1>1, <1>2, EventVisits
<1>3. ASSUME req' = [req EXCEPT ![q] = Idle], req[q].kind # "assign" \/ "plan" \in blurred'
      PROVE  VisitsInv'
  <2>1. Idle.pc = "idle"
    BY DEF Idle
  <2> QED BY <1>1, <1>3, <2>1, EventVisits
<1>4. ASSUME NEW pc \in AllPlaces \ {"case"}, Goto(q, pc),
             pc # "idle" \/ req[q].kind # "assign" \/ "plan" \in blurred'
      PROVE  VisitsInv'
  <2> DEFINE x == [req[q] EXCEPT !.pc = pc]
  <2>1. CASE pc = "idle"
    BY <1>3, <1>4, <2>1, GotoIs
  <2>2. CASE pc # "idle"
    <3>1. req' = [req EXCEPT ![q] = x]
      BY <1>4, <2>2, GotoIs
    <3>2. x.pc = pc /\ x.kind = req[q].kind /\ x.who = req[q].who /\ x.was = req[q].was
      BY <1>0 DEF ReqRecord
    <3> HIDE DEF x
    <3> QED BY <1>2, <1>4, <2>2, <3>1, <3>2
  <2> QED BY <2>1, <2>2
<1>5. CASE SaveEvent(q)
  <2>1. AfterEvent(q) \in {"idle", "find", "who", "clear"}
    BY DEF AfterEvent
  <2>2. req[q].kind # "assign"
    BY <1>0, <1>5 DEF SaveEvent, Places, ReqRecord, Kinds
  <2> QED BY <1>4, <1>5, <2>1, <2>2 DEF SaveEvent, AllPlaces
<1>6. CASE LoadWorker(q)
  <2> DEFINE x == [req[q] EXCEPT !.pc = "find", !.who = assigned]
  <2>1. req' = [req EXCEPT ![q] = Idle] \/ req' = [req EXCEPT ![q] = x]
    BY <1>6 DEF LoadWorker, Typed
  <2>2. x.pc = "find" /\ x.kind = req[q].kind
    BY <1>0 DEF ReqRecord
  <2>3. req[q].kind # "assign"
    BY <1>0, <1>6 DEF LoadWorker, Places, ReqRecord, Kinds
  <2> HIDE DEF x
  <2> QED BY <1>2, <1>3, <2>1, <2>2, <2>3
<1>7. CASE Clear(q)
  <2>1. AfterClear(q) \in {"idle", "delete", "find", "next"}
        /\ (AfterClear(q) = "idle" => req[q].kind = "update")
    BY DEF AfterClear
  <2> QED BY <1>4, <1>7, <2>1 DEF Clear, AllPlaces
<1>8. CASE DeleteEvent(q)
  <2>1. req[q].kind # "assign"
    BY <1>0, <1>8 DEF DeleteEvent, Places, ReqRecord, Kinds
  <2> QED BY <1>4, <1>8, <2>1 DEF DeleteEvent, AllPlaces
<1>9. CASE Find(q)
  <2>1. PICK b : req' = [req EXCEPT ![q] = [@ EXCEPT !.pc = "put", !.found = b]]
    BY <1>9 DEF Find
  <2> DEFINE x == [req[q] EXCEPT !.pc = "put", !.found = b]
  <2>2. /\ req' = [req EXCEPT ![q] = x] /\ x.pc = "put" /\ x.kind = req[q].kind
        /\ x.who = req[q].who /\ x.was = req[q].was
    BY <1>0, <2>1 DEF Typed, ReqRecord
  <2> HIDE DEF x
  <2> QED BY <1>2, <2>2
<1>10. CASE Put(q)
  <2> DEFINE x == [req[q] EXCEPT !.pc = "next", !.found = Nobody]
  <2>1. \/ req' = [req EXCEPT ![q] = Idle] /\ req[q].kind # "assign"
        \/ req' = [req EXCEPT ![q] = x]
    BY <1>10 DEF Put, SaveBlock, Typed
  <2>2. x.pc = "next" /\ x.kind = req[q].kind /\ x.who = req[q].who /\ x.was = req[q].was
    BY <1>0 DEF ReqRecord
  <2> HIDE DEF x
  <2> QED BY <1>2, <1>3, <2>1, <2>2
<1>11. CASE PutRefused(q)
  <2>1. req[q].kind # "assign" \/ "plan" \in blurred'
    BY <1>11 DEF PutRefused, Touched
  <2> QED BY <1>4, <1>11, <2>1 DEF PutRefused, AllPlaces
<1>12. CASE ReadEvents(q)
  <2> DEFINE x == [req[q] EXCEPT !.pc = "next", !.seen = event, !.todo = {e \in Events : Exists(e)}]
  <2>1. req' = [req EXCEPT ![q] = x]
    BY <1>12 DEF ReadEvents, Typed
  <2>2. x.pc = "next" /\ x.kind = req[q].kind /\ x.who = req[q].who /\ x.was = req[q].was
    BY <1>0 DEF ReqRecord
  <2> HIDE DEF x
  <2> QED BY <1>2, <2>1, <2>2
<1>13. CASE NextEvent(q)
  <2>1. PICK e \in req[q].todo :
          req' = [req EXCEPT ![q] = [@ EXCEPT !.pc = "clear", !.e = e, !.todo = req[q].todo \ {e}]]
    BY <1>13 DEF NextEvent
  <2> DEFINE x == [req[q] EXCEPT !.pc = "clear", !.e = e, !.todo = req[q].todo \ {e}]
  <2>2. /\ req' = [req EXCEPT ![q] = x] /\ x.pc = "clear" /\ x.kind = req[q].kind
        /\ x.who = req[q].who /\ x.was = req[q].was
    BY <1>0, <2>1 DEF Typed, ReqRecord
  <2> HIDE DEF x
  <2> QED BY <1>2, <2>2
<1> QED BY <1>5, <1>6, <1>7, <1>8, <1>9, <1>10, <1>11, <1>12, <1>13

\* A request that is cut blurs the plan, if it was at it.
LEMMA CutVisits == ASSUME Inv, VisitsInv, NEW q \in Requests, Cut(q) PROVE VisitsInv'
<1> USE DEF Inv
<1>1. /\ req' = [req EXCEPT ![q] = Idle] /\ req[q].pc # "idle"
      /\ UNCHANGED <<assigned, visits, visitOf>> /\ blurred \subseteq blurred'
  BY GotoIs DEF Cut, AllPlaces
<1>2. CASE AtPlan(req[q])
  <2>1. "plan" \in blurred'
    BY <1>2 DEF Cut, Touched, AtPlan
  <2> QED BY <2>1 DEF VisitsInv
<1>3. CASE ~AtPlan(req[q])
  <2>1. req[q].kind \notin {"assign", "plan"} /\ req[q].pc # "case"
    BY <1>1, <1>3 DEF AtPlan, Typed, Places, ReqRecord, Kinds
  <2>2. Idle.pc = "idle"
    BY DEF Idle
  <2> QED BY <1>1, <2>1, <2>2, EventVisits
<1> QED BY <1>2, <1>3

LEMMA IdleNotAtPlan == ~AtPlan(Idle)
BY DEF AtPlan, Idle

\* The worker is set, or put back with the plan.
LEMMA SaveCaseVisits ==
    ASSUME Inv, Counted, VisitsInv, NEW q \in Requests, SaveCase(q) PROVE VisitsInv'
<1> USE DEF Inv
<1>1. /\ req[q].pc = "case" /\ req[q].kind \in {"assign", "plan"} /\ req[q] \in ReqRecord
      /\ assigned' = req[q].who /\ visits' = visits /\ visitOf' = visitOf /\ blurred' = blurred
  BY DEF SaveCase, Typed, Places, ReqRecord, Kinds
<1>2. AtPlan(req[q])
  BY <1>1 DEF AtPlan
<1>3. \A w, n : AllOn(w, n)' <=> AllOn(w, n)
  BY <1>1, SameVisits
<1>9. PICK pc, x : /\ pc = IF req[q].kind = "plan" THEN "visits" ELSE "events"
                  /\ x = [req[q] EXCEPT !.pc = pc]
  OBVIOUS
<1>4. \/ req' = [req EXCEPT ![q] = Idle] /\ req[q].kind = "assign" /\ req[q].who = req[q].was
      \/ req' = [req EXCEPT ![q] = x]
  BY <1>1, <1>9, GotoIs DEF SaveCase, AllPlaces
<1>5. x.pc = pc /\ x.kind = req[q].kind /\ x.who = req[q].who /\ x.was = req[q].was
  BY <1>1, <1>9 DEF ReqRecord
<1>6. pc \in {"visits", "events"} /\ (pc = "events" => req[q].kind = "assign")
      /\ (pc = "visits" => req[q].kind = "plan")
  BY <1>1, <1>9
<1>7. CASE req' = [req EXCEPT ![q] = Idle] /\ req[q].kind = "assign" /\ req[q].who = req[q].was
  <2>1. VisitsPhase(req[q]) => AllOn(assigned, visits)'
    <3>1. VisitsPhase(req[q]) => assigned = req[q].who /\ AllOn(assigned, visits)
      BY <1>1, <1>7 DEF VisitsPhase, AssignVisits
    <3> QED BY <1>1, <1>3, <3>1
  <2> QED BY <1>1, <1>2, <1>7, <2>1, IdleNotAtPlan, PlanVisitsStep
<1>8. CASE req' = [req EXCEPT ![q] = x]
  <2>1. AtPlan(x)
    BY <1>1, <1>5, <1>6 DEF AtPlan
  <2>2. VisitsPhase(req[q]) => VisitsPhase(x)'
    <3> SUFFICES ASSUME VisitsPhase(req[q]) PROVE VisitsPhase(x)'
      OBVIOUS
    <3>1. CASE req[q].kind = "assign"
      <4>1. AllOn(x.was, visits)' /\ x.pc # "case" /\ x.who = assigned'
        BY <1>1, <1>3, <1>5, <1>6, <3>1 DEF VisitsPhase, AssignVisits
      <4> QED BY <1>5, <3>1, <4>1 DEF VisitsPhase, AssignVisits
    <3>2. CASE req[q].kind = "plan"
      <4>1. x.who = assigned' /\ assigned' = assigned /\ AllOn(assigned, visits)' /\ x.pc = "visits"
        BY <1>1, <1>3, <1>5, <1>6, <3>2 DEF VisitsPhase, PlanVisits
      <4> QED BY <1>5, <3>2, <4>1 DEF VisitsPhase, PlanVisits
    <3> QED BY <1>1, <3>1, <3>2
  <2> QED BY <1>1, <1>2, <1>8, <2>1, <2>2, PlanVisitsStep
<1> QED BY <1>4, <1>7, <1>8

\* The blocks go to the new worker: all there were, and they were one worker's.
LEMMA MoveVisitsVisits ==
    ASSUME Inv, Counted, VisitsInv, NEW q \in Requests, MoveVisits(q) PROVE VisitsInv'
<1> USE DEF Inv
<1>1. /\ req[q].pc = "next" /\ req[q].kind = "assign" /\ req[q] \in ReqRecord
      /\ assigned' = assigned /\ visits' = visits /\ blurred' = blurred
      /\ req' = [req EXCEPT ![q] = Idle] /\ visitOf' = MovedVisits(q)
      /\ visitOf \in [Staff -> Nat]
  BY GotoIs DEF MoveVisits, Typed, Places, ReqRecord, Kinds, AllPlaces, Counted
<1>2. AtPlan(req[q])
  BY <1>1 DEF AtPlan
<1>3. ASSUME VisitsPhase(req[q]) PROVE AllOn(assigned, visits)'
  <2>1. req[q].who = assigned /\ AllOn(req[q].was, visits)
    BY <1>1, <1>3 DEF VisitsPhase, AssignVisits
  <2>2. Total \in Nat /\ (Total > 0 => Total = visits)
    <3>1. CASE req[q].was \in Staff
      <4> DEFINE w == req[q].was
      <4>1. \A v \in Staff \ {w} : visitOf[v] = 0
        BY <1>1, <2>1 DEF AllOn
      <4>2. Total = visitOf[w]
        BY <1>1, <3>1, <4>1, TotalIs
      <4>3. visitOf[w] > 0 => visitOf[w] = visits
        BY <2>1, <3>1 DEF AllOn
      <4> HIDE DEF w
      <4> QED BY <1>1, <4>2, <4>3, TotalIs
    <3>2. CASE req[q].was \notin Staff
      <4>1. \A v \in Staff : visitOf[v] = 0
        BY <1>1, <2>1, <3>2 DEF AllOn
      <4> QED BY <1>1, <4>1, TotalIs
    <3> QED BY <3>1, <3>2
  <2>3. \A v \in Staff : visitOf'[v] = IF v = assigned THEN Total ELSE 0
    BY <1>1, <2>1 DEF MovedVisits
  <2>4. \A v \in Staff : visitOf'[v] > 0 => v = assigned' /\ visitOf'[v] = visits'
    BY <1>1, <2>2, <2>3
  <2> QED BY <2>4 DEF AllOn
<1> QED BY <1>1, <1>2, <1>3, IdleNotAtPlan, PlanVisitsStep

\* The plan is replaced, and with it the blocks.
LEMMA PlanStepsVisits ==
    ASSUME Inv, Counted, VisitsInv, NEW q \in Requests, SaveVisits(q) \/ ClearVisits(q) \/ PutVisit(q)
    PROVE  VisitsInv'
<1> USE DEF Inv
<1>1. /\ req[q].kind = "plan" /\ req[q] \in ReqRecord /\ AtPlan(req[q]) /\ ReqOk(req[q])
      /\ assigned' = assigned /\ blurred' = blurred /\ visitOf \in [Staff -> Nat] /\ visits \in Nat
      /\ req[q].left \in Nat /\ MaxVisits \in Nat
  <2>1. req[q].kind = "plan" /\ req[q] \in ReqRecord
    BY DEF SaveVisits, ClearVisits, PutVisit, Typed, Places, ReqRecord, Kinds
  <2>2. AtPlan(req[q]) /\ assigned' = assigned /\ blurred' = blurred
    BY <2>1 DEF SaveVisits, ClearVisits, PutVisit, AtPlan
  <2>3. ReqOk(req[q]) /\ visitOf \in [Staff -> Nat] /\ visits \in Nat /\ MaxVisits \in Nat
    BY BoundsAssumption DEF Counted
  <2>4. req[q].left \in Nat
    <3>1. \A k \in 0..MaxVisits : k \in Nat
      BY <2>3
    <3> QED BY <2>3, <3>1, Zenon DEF ReqOk
  <2> QED BY <2>1, <2>2, <2>3, <2>4
<1>2. CASE SaveVisits(q)
  <2>5. PICK x : x = [req[q] EXCEPT !.pc = "clear visits"]
    OBVIOUS
  <2>1. req' = [req EXCEPT ![q] = x] /\ visits' = req[q].left
    BY <1>2, <2>5, GotoIs DEF SaveVisits, AllPlaces
  <2>2. x.pc = "clear visits" /\ x.kind = "plan" /\ x.who = req[q].who /\ x.left = req[q].left
    BY <1>1, <2>5 DEF ReqRecord
  <2>3. VisitsPhase(req[q]) => VisitsPhase(x)'
    BY <1>1, <2>1, <2>2 DEF VisitsPhase, PlanVisits
  <2>4. AtPlan(x)
    BY <2>2 DEF AtPlan
  <2> QED BY <1>1, <2>1, <2>3, <2>4, PlanVisitsStep
<1>3. CASE ClearVisits(q)
  <2>5. PICK x : x = [req[q] EXCEPT !.pc = "put visit"]
    OBVIOUS
  <2>1. /\ \/ req' = [req EXCEPT ![q] = Idle]
           \/ req' = [req EXCEPT ![q] = x] /\ req[q].who # Nobody
        /\ visits' = visits /\ visitOf' = [w \in Staff |-> 0] /\ req[q].pc = "clear visits"
    BY <1>3, <2>5, GotoIs DEF ClearVisits, AllPlaces
  <2>2. x.pc = "put visit" /\ x.kind = "plan" /\ x.who = req[q].who /\ x.left = req[q].left
    BY <1>1, <2>5 DEF ReqRecord
  <2>6. \A w \in Staff : visitOf'[w] = 0
    BY <2>1
  <2>3. CASE req' = [req EXCEPT ![q] = Idle]
    <3>1. AllOn(assigned, visits)'
      BY <2>6 DEF AllOn
    <3> QED BY <1>1, <2>3, <3>1, IdleNotAtPlan, PlanVisitsStep
  <2>4. CASE req' = [req EXCEPT ![q] = x] /\ req[q].who # Nobody
    <3>1. req[q].who \in Staff
      BY <1>1, <2>4 DEF ReqRecord
    <3>2. VisitsPhase(req[q]) => VisitsPhase(x)'
      <4> SUFFICES ASSUME VisitsPhase(req[q]) PROVE VisitsPhase(x)'
        OBVIOUS
      <4>1. req[q].who = assigned /\ req[q].left = visits
        BY <1>1, <2>1 DEF VisitsPhase, PlanVisits
      <4>2. visitOf'[x.who] = 0 /\ \A v \in Staff \ {x.who} : visitOf'[v] = 0
        BY <2>2, <2>6, <3>1
      <4>3. x.who = assigned' /\ x.left + visitOf'[x.who] = visits'
        <5>1. x.left = visits' /\ visits' \in Nat
          BY <1>1, <2>1, <2>2, <4>1
        <5>2. visitOf'[x.who] = 0
          BY <4>2
        <5>3. \A k \in Nat : k + 0 = k
          OBVIOUS
        <5>4. x.left + visitOf'[x.who] = visits'
          BY <5>1, <5>2, <5>3
        <5> QED BY <1>1, <2>2, <4>1, <5>4
      <4> QED BY <2>2, <4>2, <4>3 DEF VisitsPhase, PlanVisits
    <3>3. AtPlan(x)
      BY <2>2 DEF AtPlan
    <3> QED BY <1>1, <2>4, <3>2, <3>3, PlanVisitsStep
  <2> QED BY <2>1, <2>3, <2>4
<1>4. CASE PutVisit(q)
  <2>1. PICK n \in Nat, w \in Staff : n + 1 = req[q].left /\ w = req[q].who
    <3>1. req[q].pc = "put visit"
      BY <1>4 DEF PutVisit
    <3>2. req[q].who \in Staff /\ req[q].left # 0
      BY <1>1, <3>1 DEF ReqOk, ReqRecord
    <3>3. \A k \in Nat : k # 0 => k - 1 \in Nat /\ (k - 1) + 1 = k
      OBVIOUS
    <3> QED BY <1>1, <3>2, <3>3
  <2>8. PICK x : x = [req[q] EXCEPT !.left = n]
    OBVIOUS
  <2>2. /\ \/ req' = [req EXCEPT ![q] = Idle] /\ n = 0
           \/ req' = [req EXCEPT ![q] = x] /\ n # 0
        /\ visits' = visits /\ visitOf' = [visitOf EXCEPT ![w] = visitOf[w] + 1]
        /\ req[q].pc = "put visit"
    <3>1. req[q].left = 1 <=> n = 0
      BY <1>1, <2>1
    <3>2. req[q].left - 1 = n
      BY <1>1, <2>1
    <3>3. req[q].left # 1 => req' = [req EXCEPT ![q].left = n]
      BY <1>4, <3>2 DEF PutVisit
    <3>4. req[q].left = 1 => req' = [req EXCEPT ![q] = Idle]
      BY <1>4 DEF PutVisit
    <3>5. req[q].left # 1 => req' = [req EXCEPT ![q] = x]
      BY <2>8, <3>3 DEF Typed
    <3> QED BY <1>4, <2>1, <3>1, <3>4, <3>5 DEF PutVisit
  <2>3. x.pc = "put visit" /\ x.kind = "plan" /\ x.who = w /\ x.left = n
    BY <1>1, <2>1, <2>2, <2>8 DEF ReqRecord
  <2>4. /\ visitOf'[w] = visitOf[w] + 1 /\ visitOf[w] \in Nat
        /\ \A v \in Staff \ {w} : visitOf'[v] = visitOf[v]
    BY <1>1, <2>2
  <2>5. VisitsPhase(req[q]) => /\ w = assigned /\ n + 1 + visitOf[w] = visits
                               /\ \A v \in Staff \ {w} : visitOf[v] = 0
    <3> SUFFICES ASSUME VisitsPhase(req[q])
                 PROVE  /\ w = assigned /\ n + 1 + visitOf[w] = visits
                        /\ \A v \in Staff \ {w} : visitOf[v] = 0
      OBVIOUS
    <3>1. /\ req[q].who = assigned /\ req[q].left + visitOf[req[q].who] = visits
          /\ \A v \in Staff \ {req[q].who} : visitOf[v] = 0
      BY <1>1, <2>2 DEF VisitsPhase, PlanVisits
    <3>2. req[q].left + visitOf[w] = visits
      BY <2>1, <3>1
    <3> QED BY <2>1, <3>1, <3>2
  <2>6. CASE req' = [req EXCEPT ![q] = Idle] /\ n = 0
    <3>1. VisitsPhase(req[q]) => AllOn(assigned, visits)'
      <4> SUFFICES ASSUME VisitsPhase(req[q]) PROVE AllOn(assigned, visits)'
        OBVIOUS
      <4>1. visitOf'[w] = visits /\ \A v \in Staff \ {w} : visitOf'[v] = 0
        BY <2>4, <2>5, <2>6
      <4>2. ASSUME NEW v \in Staff, visitOf'[v] > 0
            PROVE  v = assigned' /\ visitOf'[v] = visits'
        <5>1. v = w
          BY <4>1, <4>2
        <5> QED BY <1>1, <2>2, <2>5, <4>1, <5>1
      <4> QED BY <4>2 DEF AllOn
    <3> QED BY <1>1, <2>6, <3>1, IdleNotAtPlan, PlanVisitsStep
  <2>7. CASE req' = [req EXCEPT ![q] = x] /\ n # 0
    <3>1. VisitsPhase(req[q]) => VisitsPhase(x)'
      <4> SUFFICES ASSUME VisitsPhase(req[q]) PROVE VisitsPhase(x)'
        OBVIOUS
      <4>1. n + visitOf'[w] = visits'
        <5>1. n + 1 + visitOf[w] = visits /\ visits' = visits
          BY <2>2, <2>5
        <5> QED BY <2>4, <5>1
      <4>2. w = assigned' /\ \A v \in Staff \ {w} : visitOf'[v] = 0
        BY <1>1, <2>4, <2>5
      <4> QED BY <2>3, <4>1, <4>2 DEF VisitsPhase, PlanVisits
    <3>2. AtPlan(x)
      BY <2>3 DEF AtPlan
    <3> QED BY <1>1, <2>7, <3>1, <3>2, PlanVisitsStep
  <2> QED BY <2>2, <2>6, <2>7
<1> QED BY <1>2, <1>3, <1>4

LEMMA NextVisits == ASSUME Inv, Counted, VisitsInv, [Next]_vars PROVE VisitsInv'
<1>1. CASE UNCHANGED vars
  <2>1. \A w, n : AllOn(w, n)' <=> AllOn(w, n)
    BY <1>1, SameVisits DEF vars
  <2> QED BY <1>1, <2>1 DEF vars, VisitsInv, VisitsPhase, AssignVisits, PlanVisits
<1>2. ASSUME NEW q \in Requests, Ask(q) \/ Step(q) \/ Cut(q) PROVE VisitsInv'
  BY <1>2, AskVisits, CutVisits, EventStepsVisits, SaveCaseVisits, MoveVisitsVisits,
     PlanStepsVisits DEF Step
<1>3. CASE Next
  BY <1>2, <1>3 DEF Next
<1> QED BY <1>1, <1>3

\* In every reachable state in which no request is in hand, and unless two
\* requests touched the plan at once or one was cut, the blocks of visits are
\* those of the plan and the assigned worker's: replacing a plan and
\* reassigning a case leave none behind.
THEOREM VisitsStay == Spec => []VisitsNeverAstray
<1>1. Init => VisitsInv
  BY InitCounted
<1>2. TypeInv /\ VisitsInv /\ [Next]_vars => VisitsInv'
  BY NextVisits DEF TypeInv
<1>3. VisitsInv => VisitsNeverAstray
  BY DEF VisitsInv, VisitsNeverAstray, Quiet, InHand, AtPlan, AllOn
<1> QED BY <1>1, <1>2, <1>3, TypeAlways, PTL DEF Spec

=============================================================================
