------------------------------- MODULE Events -------------------------------
(***************************************************************************)
(* Events and processes in the validator VAL (Events.cpp).  After every    *)
(* happening of the plan, the events whose condition has come true are     *)
(* executed together, as a happening of their own; what these change may   *)
(* trigger more events, in the next round.  In every round the processes   *)
(* are looked at, too: those whose condition has become false end, those   *)
(* whose condition has come true start.  What has "come true" is told from *)
(* the literals and fluents changed by the last happening executed, and    *)
(* every happening that is executed, also that of starting processes,      *)
(* forgets them first.                                                     *)
(*                                                                         *)
(* Processes that run change the fluent Level.  When the rounds are over,  *)
(* the time until the next happening of the plan is searched for the first *)
(* event, start or end of a process that this change brings about; what it *)
(* finds is executed then, and the rounds begin again.                     *)
(*                                                                         *)
(* A condition is a conjunction [pos, neg, cmp] of literals and of         *)
(* comparisons of the fluent.  An event also has the effects [add, del,    *)
(* set], a process the rate at which it changes the fluent.  The actions   *)
(* of a happening of the plan are one, without a condition.                *)
(***************************************************************************)
EXTENDS Intervals, FiniteSets, Ownership

CONSTANTS
    Level,        \* the fluent
    Domains,      \* the domains, [events, processes]
    Happenings,   \* the effects, as an event without condition, of a happening of the plan
    LastTime      \* the happenings of a plan are at times from 1 to LastTime

\* The rate at which the processes running change the fluent.
RateOf(running) == MapThenSumSet(LAMBDA p : p.rate, running)

ASSUME EventsAssumption ==
    /\ Fluents = {Level}
    /\ \A d \in Domains : \A running \in SUBSET d.processes : RateOf(running) \in -1..1

VARIABLES
    domain,
    state,       \* the propositions that are true
    level,       \* the value of the fluent
    changed,     \* what the last happening changed (changedLiterals, changedPNEs)
    time,
    next,        \* the time of the next happening of the plan, 0 if there is none
    triggered,   \* the events triggered at this time
    started,     \* the processes triggered at this time (triggeredProcesses)
    active,      \* the processes that run (activeProcesses)
    due,         \* the events the happening of the plan must not disturb (eventsForMutexCheck)
    batch,       \* how many events the last round with any triggered (numberofEvents)
    more,        \* whether this round triggered any (eventTriggered)
    pc,          \* initial, ready, events, processes, interval, done or failed
    unseenE,     \* history: what changed last unnoticed by the events
    unseenP      \* history: and by the processes

plan == <<time, next>>
rounds == <<batch, more>>
history == <<unseenE, unseenP>>
vars == <<domain, state, level, changed, plan, triggered, started, active, due, rounds, pc, history>>

-----------------------------------------------------------------------------
LiteralsHold(c, S) == c.pos \subseteq S /\ c.neg \cap S = {}

\* The condition at a point of time.
Holds(c, S, v) == LiteralsHold(c, S) /\ \A q \in c.cmp : HoldsAbout(q, v)

AtomsOf(c) == c.pos \cup c.neg \cup {Level : q \in c.cmp}

\* Fault: a literal that has become false triggers nothing.
ComesTrueByAdd(c) ==
    Holds(c, state, level) /\ (c.pos \cup {Level : q \in c.cmp}) \cap changed # {}

\* getParametersDiscrete: an atom of the condition has changed, and it holds;
\* in the initial state (getParametersDiscreteInitialFinal) it only has to hold.
ComesTrue(c) == Holds(c, state, level) /\ (time = 0 \/ AtomsOf(c) \cap changed # {})

AddedBy(acts) == UNION {a.add : a \in acts}
DeletedBy(acts) == UNION {a.del : a \in acts}
SetBy(acts) == UNION {a.set : a \in acts}

\* The state and the fluent after the effects of some actions or events.
StateAfter(acts) == (state \ DeletedBy(acts)) \cup AddedBy(acts)
LevelAfter(acts, v) == IF SetBy(acts) = {} THEN v ELSE CHOOSE x \in SetBy(acts) : TRUE

\* delChange, addChange and updateChange: what is deleted and added again has
\* changed, too, a fluent set to the value it has has not.
ChangedBy(acts, v) ==
    (DeletedBy(acts) \cap state) \cup {p \in AddedBy(acts) : p \notin state \ DeletedBy(acts)}
        \cup {Level : x \in SetBy(acts) \ {v}}

\* Fault: an event may be triggered any number of times.
NeverRefused(events) == FALSE

\* isTriggered: an event is triggered once at a time.
TriggeredTwice(events) == events \cap triggered # {}

Claim(a, req, add, del, set) ==
    [by |-> a, require |-> req, add |-> add, del |-> del,
     upd |-> {[fluent |-> Level, op |-> "assign", by |-> x] : x \in set}]

\* Happening::applyTo for the actions or events in that order, and for the
\* others only as far as they would interfere: are all mutually exclusive?
Compatible(order, others) ==
    LET all == order \o others
        marks(s) == [i \in 1..Len(s) |-> Claim(s[i], AtomsOf(s[i]), {}, {}, {})]
        marked == IF Len(all) > 1 THEN MarkAll(NothingOwned, marks(others \o order)) ELSE NothingOwned
    IN  AllGranted(marked, [i \in 1..Len(all) |->
                               Claim(all[i], {}, all[i].add, all[i].del, all[i].set)])

-----------------------------------------------------------------------------
Init ==
    /\ domain \in Domains
    /\ state \in SUBSET Props
    /\ level = 0 /\ time = 0 /\ next \in 1..LastTime
    /\ changed = {} /\ triggered = {} /\ started = {} /\ active = {} /\ due = {}
    /\ batch = 0 /\ more = FALSE /\ pc = "initial"
    /\ unseenE = {} /\ unseenP = {}

\* triggerInitialEvents: no event may be enabled; processes are started.
TriggerInitialEvents ==
    /\ pc = "initial"
    /\ IF \E e \in domain.events : Holds(e, state, level)
       THEN pc' = "failed" /\ UNCHANGED <<started, active>>
       ELSE /\ active' = {p \in domain.processes : Holds(p, state, level)}
            /\ started' = active'
            /\ pc' = IF active' = {} THEN "ready" ELSE "interval"
    /\ UNCHANGED <<domain, state, level, changed, plan, triggered, due, rounds, history>>

\* The value of the fluent when the next happening of the plan is executed.
LevelAtNext == level + RateOf(active) * (next - time)

\* updateEventsForMutexCheck: the events the continuous change has enabled.
DueEvents ==
    {e \in domain.events : active # {} /\ e.cmp # {} /\ Holds(e, state, LevelAtNext)}

\* A happening of the plan, the update of the fluent before it included, and
\* updateHappeningTime.
ExecuteHappening(h) ==
    /\ pc = "ready" /\ next # 0
    /\ time' = next /\ next' \in (next + 1)..LastTime \cup {0}
    /\ due' = DueEvents
    /\ \E others \in SetToSeqs(DueEvents) :
          IF ~Compatible(<<h>>, others)
          THEN pc' = "failed" /\ level' = LevelAtNext /\ UNCHANGED <<state, changed, history>>
          ELSE /\ pc' = "events"
               /\ state' = StateAfter({h}) /\ level' = LevelAfter({h}, LevelAtNext)
               /\ changed' = ChangedBy({h}, LevelAtNext)
               /\ unseenE' = unseenE \ changed' /\ unseenP' = unseenP \ changed'
    /\ triggered' = {} /\ started' = {}
    /\ batch' = 0 /\ more' = FALSE
    /\ UNCHANGED <<domain, active>>

\* A round of triggerDiscreteEvents with no event to trigger ...
NoEvents ==
    /\ pc = "events" /\ ~\E e \in domain.events : ComesTrue(e)
    /\ more' = FALSE /\ pc' = "processes"
    /\ UNCHANGED <<domain, state, level, changed, plan, triggered, started, active, due, batch, history>>

\* ... and one with some.  More than one round is only possible if all before
\* it triggered one event.  An event must make its own condition false, and
\* there are none in the initial state.
TriggerEvents ==
    /\ pc = "events"
    /\ LET events == {e \in domain.events : ComesTrue(e)} IN
       /\ events # {}
       /\ triggered' = triggered \cup events
       /\ \E order \in SetToSeqs(events), others \in SetToSeqs(due \ events) :
             IF time = 0 \/ TriggeredTwice(events) \/ batch > 1 \/ ~Compatible(order, others)
             THEN pc' = "failed" /\ UNCHANGED <<state, level, changed, rounds, history>>
             ELSE /\ state' = StateAfter(events) /\ level' = LevelAfter(events, level)
                  /\ changed' = ChangedBy(events, level)
                  /\ batch' = Cardinality(events) /\ more' = TRUE
                  /\ unseenE' = unseenE \ changed'
                  /\ unseenP' = (IF batch = 0 THEN unseenP \cup changed ELSE unseenP) \ changed'
                  /\ pc' = IF \E e \in events : Holds(e, state', level') THEN "failed" ELSE "processes"
    /\ UNCHANGED <<domain, plan, started, active, due>>

\* Fault: a process whose condition has become false runs on.
EndNone == {}

\* The processes triggerDiscreteProcesses ends: not those triggered at this time.
EndedNow == {p \in active \ started : time > 0 /\ ~Holds(p, state, level)}

\* A happening that ends and starts processes is executed if there are any;
\* the rounds are over when one has triggered no event.
TriggerProcesses ==
    /\ pc = "processes"
    /\ LET running == active \ EndedNow
           new == {p \in domain.processes : ComesTrue(p)} \ running
       IN  /\ active' = running \cup new
           /\ started' = started \cup new
           /\ IF EndedNow \cup new # {}
              THEN changed' = {} /\ unseenE' = IF more THEN unseenE \cup changed ELSE unseenE
              ELSE UNCHANGED <<changed, unseenE>>
    /\ pc' = CASE more -> "events"
               [] ~more /\ next = 0 -> "done"
               [] OTHER -> IF active' = {} THEN "ready" ELSE "interval"
    /\ due' = IF more THEN due ELSE {}
    /\ UNCHANGED <<domain, state, level, plan, triggered, rounds, unseenP>>

-----------------------------------------------------------------------------
(* triggerContinuousEvents, for the time from now to the next happening.     *)

\* The cells in which a condition holds.
WhenHolds(c) ==
    LET rate == RateOf(active)
        intervals == {IntervalsOf(q, level, rate, next - time) : q \in c.cmp}
    IN  {cell \in Cells(next - time) :
            LiteralsHold(c, state) /\ \A holding \in intervals : cell \in holding}

\* The cells with the first of which an event happens, a process starts or one ends.
\* Processes do neither on an isolated point.  Only conditions that compare the
\* fluent are looked at, except to end a process; and of the processes that
\* run only those triggered at this time.
EventCells(e) == IF e.cmp = {} THEN {} ELSE WhenHolds(e)
StartCells(p) == IF p.cmp = {} THEN {} ELSE Gaps(WhenHolds(p))
EndCells(p) == IF p \in started THEN Gaps(Cells(next - time) \ WhenHolds(p)) ELSE {}

\* After how long each of them does.
FirstTime(cells) == TimeOf(Min(cells))

FirstTimes ==
    LET found == {EventCells(e) : e \in domain.events}
                    \cup {StartCells(p) : p \in domain.processes \ active}
                    \cup {EndCells(p) : p \in active}
    IN  {FirstTime(cells) : cells \in found \ {{}}}

\* Fault: the last group of them is triggered.
LatestGroup(times) == Max(times)

\* When the first group of them is triggered.
GroupTime(times) == Min(times)

NoContinuousEvents ==
    /\ pc = "interval" /\ FirstTimes = {}
    /\ pc' = "ready"
    /\ UNCHANGED <<domain, state, level, changed, plan, triggered, started, active, due, rounds, history>>

\* checkPreconditionsAreNotSatisfied.  The comparisons of the event are still
\* set up for the whole time to the next happening, as it was before.
StillHolds(e) ==
    /\ LiteralsHold(e, state')
    /\ \A q \in e.cmp : HoldsThroughout(q, level, RateOf(active), next - time, level')

\* A group is triggered together, and the fluent is what it is by then.
TriggerContinuousEvents ==
    /\ pc = "interval" /\ FirstTimes # {}
    /\ LET offset == GroupTime(FirstTimes)
           inGroup(cells) == cells # {} /\ FirstTime(cells) = offset
           events == {e \in domain.events : inGroup(EventCells(e))}
           starts == {p \in domain.processes \ active : inGroup(StartCells(p))}
           ends == {p \in active : inGroup(EndCells(p))}
           reached == level + RateOf(active) * offset
           before == IF offset = 0 THEN triggered ELSE {}
       IN  IF events \cap before # {}
           THEN /\ pc' = "failed"
                /\ UNCHANGED <<state, level, changed, time, triggered, started, active, rounds, history>>
           ELSE /\ time' = time + offset
                /\ state' = StateAfter(events) /\ level' = LevelAfter(events, reached)
                /\ changed' = ChangedBy(events, reached)
                /\ triggered' = before \cup events
                /\ started' = (IF offset = 0 THEN started ELSE {}) \cup starts
                /\ active' = (active \ ends) \cup starts
                /\ batch' = 0 /\ more' = FALSE
                /\ unseenE' = unseenE \ changed' /\ unseenP' = unseenP \ changed'
                /\ \E order \in SetToSeqs(events) :
                      pc' = IF ~Compatible(order, <<>>) \/ \E e \in events : StillHolds(e)
                            THEN "failed" ELSE "events"
    /\ UNCHANGED <<domain, next, due>>

Cascade == NoEvents \/ TriggerEvents \/ TriggerProcesses \/ NoContinuousEvents \/ TriggerContinuousEvents

Finished == pc \in {"done", "failed"} /\ UNCHANGED vars

Next ==
    \/ TriggerInitialEvents
    \/ \E h \in Happenings : ExecuteHappening(h)
    \/ Cascade
    \/ Finished

Fairness == WF_vars(Cascade)

Spec == Init /\ [][Next]_vars /\ Fairness

-----------------------------------------------------------------------------
AtThreshold(c) == \E q \in c.cmp : q.val = level

\* When the plan goes on, the events have nothing left to do: an event whose
\* condition holds waits for a literal whose last change it could not see,
\* because a process started or ended between the event that made the change
\* and the next round (triggerDiscreteEvents, resetChanged); or the fluent
\* stands just where it begins to hold, which a happening of the plan at that
\* very time keeps from being noticed (getRoots, on the open interval).
EventsAreQuiet ==
    pc = "ready" => \A e \in domain.events :
        Holds(e, state, level) => AtThreshold(e) \/ AtomsOf(e) \cap unseenE # {}

\* Whether a condition holds from now until the fluent reaches another value.
HoldsFromNow(c) ==
    /\ LiteralsHold(c, state)
    /\ \A q \in c.cmp : HoldsIn(q, level, RateOf(active), 1)

\* The processes that run then are the ones whose condition goes on to hold,
\* but for those a happening of the plan enabled just when it also triggered an
\* event (triggerDiscreteProcesses), for a fluent at rest at the threshold, and
\* for those triggered before, which end with the next happening only, event or
\* not: triggerContinuousEvents takes those triggered now in place of them.
ProcessesFollowState ==
    pc = "ready" => \A p \in domain.processes :
        /\ p \in active => Holds(p, state, level) /\ (p \in started => HoldsFromNow(p))
        /\ p \notin active /\ HoldsFromNow(p) =>
              \/ active = {} /\ AtThreshold(p)
              \/ (p.cmp = {} \/ active = {}) /\ AtomsOf(p) \cap unseenP # {}

\* When time goes on while the fluent changes, it passes over no point at which
\* an event is enabled and no time during which a process should start, or one
\* started when it began to change should end (triggerContinuousEvents,
\* getIntervals).
Passed(c) ==
    {cell \in 1..(2 * (time' - time) - 1) :
        /\ LiteralsHold(c, state)
        /\ \A q \in c.cmp : HoldsIn(q, level, RateOf(active), cell)}

NothingPassed ==
    [][time' > time /\ active # {} =>
          /\ \A e \in domain.events : e.cmp # {} => Passed(e) = {}
          /\ \A p \in domain.processes \ active : p.cmp # {} => Gaps(Passed(p)) = {}
          /\ \A p \in active \cap started : Gaps(1..(2 * (time' - time) - 1)) \subseteq Passed(p)]_vars

\* The rounds after a happening come to an end, whatever the events trigger
\* each other (isTriggered, triggerDiscreteEvents), unless a process is ended
\* at the time it was triggered: two of them may then relieve each other for ever.
CascadeEnds ==
    [](pc \in {"events", "interval"} =>
         <>(pc \in {"ready", "done", "failed"} \/ ~(started \subseteq active)))
=============================================================================
