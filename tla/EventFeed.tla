----------------------------- MODULE EventFeed -----------------------------
(***************************************************************************)
(* The audit events of one run on their way to the technician's screen: the *)
(* transactions that insert them, the stream that sends them as they appear *)
(* and the poll that fetches the whole list every two seconds.              *)
(*                                                                          *)
(* An event takes its id when it is inserted and can be read when its       *)
(* transaction commits.  Transactions that lock the run's row do so before  *)
(* they insert; the others lock it FOR KEY SHARE, which the foreign key of  *)
(* the inserted event demands once the id is drawn.                         *)
(***************************************************************************)
EXTENDS Naturals

CONSTANTS
    Lockers,         \* connections in transactions that lock the run first
    Others,          \* connections that append chunks, notes, recoveries
    MaxEvents,       \* bound: ids drawn
    MaxDisturbances  \* bound: breaks, reopenings, failed and repeated polls

ASSUME FeedAssumption == MaxEvents \in Nat

VARIABLES
    lastId,       \* the sequence run_events.id is drawn from
    lock,         \* per connection: "none", "update", "waiting" or "share"
    inserted,     \* per connection: ids its open transaction has drawn
    log,          \* ids of committed events
    ofLockers,    \* history: ids drawn by Lockers
    unheard,      \* ids of events whose type the page does not listen to
    cursor,       \* the generator's last_event_id, or Closed
    transit,      \* ids sent and not yet received, lowest first
    missed,       \* history: events committed behind the cursor
    screen,       \* ids of the events in the page's cache
    poll,         \* the query in flight: "none", "asked" or "answered"
    answer,       \* what it has read
    disturbances  \* how often something went out of its way

vars == <<lastId, lock, inserted, log, ofLockers, unheard, cursor, transit,
          missed, screen, poll, answer, disturbances>>

store == <<lastId, lock, inserted, log, ofLockers, unheard>>
page == <<screen, poll, answer, disturbances>>

Connections == Lockers \cup Others
Ids == 1 .. MaxEvents
Closed == MaxEvents + 1

Init ==
    /\ lastId = 0
    /\ lock = [c \in Connections |-> "none"]
    /\ inserted = [c \in Connections |-> {}]
    /\ log = {}
    /\ ofLockers = {}
    /\ unheard = {}
    /\ cursor = Closed
    /\ transit = {}
    /\ missed = {}
    /\ screen = {}
    /\ poll = "none"
    /\ answer = {}
    /\ disturbances = 0

Disturb ==
    /\ disturbances < MaxDisturbances
    /\ disturbances' = disturbances + 1
-----------------------------------------------------------------------------
(* The transactions.                                                        *)

\* SELECT ... FOR UPDATE of the run's row.
LockRun(c) ==
    /\ c \in Lockers
    /\ lock[c] = "none"
    /\ \A d \in Connections : lock[d] \notin {"update", "share"}
    /\ lock' = [lock EXCEPT ![c] = "update"]
    /\ UNCHANGED <<lastId, inserted, log, ofLockers, unheard, cursor, transit,
                   missed, page>>

Insert(c) ==
    /\ lastId < MaxEvents
    /\ lastId' = lastId + 1
    /\ inserted' = [inserted EXCEPT ![c] = inserted[c] \cup {lastId + 1}]
    /\ ofLockers' = IF c \in Lockers THEN ofLockers \cup {lastId + 1} ELSE ofLockers
    /\ \E unknown \in SUBSET {lastId + 1} : unheard' = unheard \cup unknown
    /\ UNCHANGED <<log, cursor, transit, missed, page>>

\* Mutant: an event is inserted before the run is locked.
InsertUnlocked(c) ==
    /\ lock[c] \in {"none", "update", "share"}
    /\ lock' = [lock EXCEPT ![c] = IF lock[c] = "none" THEN "waiting" ELSE lock[c]]
    /\ Insert(c)

\* _insert_event: the id is drawn, then the foreign key asks for its lock.
InsertEvent(c) ==
    /\ lock[c] \in IF c \in Lockers THEN {"update"} ELSE {"none", "share"}
    /\ lock' = [lock EXCEPT ![c] = IF lock[c] = "none" THEN "waiting" ELSE lock[c]]
    /\ Insert(c)

ShareRun(c) ==
    /\ lock[c] = "waiting"
    /\ \A d \in Lockers : lock[d] # "update"
    /\ lock' = [lock EXCEPT ![c] = "share"]
    /\ UNCHANGED <<lastId, inserted, log, ofLockers, unheard, cursor, transit,
                   missed, page>>

\* The transaction ends; without a commit its ids are gaps for ever.
Commit(c) ==
    /\ lock[c] \in {"update", "share"}
    /\ lock' = [lock EXCEPT ![c] = "none"]
    /\ inserted' = [inserted EXCEPT ![c] = {}]
    /\ log' = log \cup inserted[c]
    /\ missed' = IF cursor = Closed THEN missed
                 ELSE missed \cup {e \in inserted[c] : e <= cursor}
    /\ UNCHANGED <<lastId, ofLockers, unheard, cursor, transit, page>>

RollBack(c) ==
    /\ lock[c] # "none"
    /\ lock' = [lock EXCEPT ![c] = "none"]
    /\ inserted' = [inserted EXCEPT ![c] = {}]
    /\ UNCHANGED <<lastId, log, ofLockers, unheard, cursor, transit, missed, page>>
-----------------------------------------------------------------------------
(* The stream.                                                              *)

IsLast(id, ids) == id \in ids /\ \A other \in ids : other <= id

\* The effect on activeRunId: a run is opened with what the cache holds.  It
\* leaves a stream that broke closed; the run has to be opened again.
OpenStream ==
    /\ cursor = Closed
    /\ Disturb
    /\ \E id \in {0} \cup screen : IsLast(id, {0} \cup screen) /\ cursor' = id
    /\ transit' = {}
    /\ UNCHANGED <<store, missed, screen, poll, answer>>

\* onerror closes the source; what was on the way is lost.
BreakStream ==
    /\ cursor # Closed
    /\ Disturb
    /\ cursor' = Closed
    /\ transit' = {}
    /\ UNCHANGED <<store, missed, screen, poll, answer>>

\* One turn of event_generator: list_events after the cursor, each sent, the
\* cursor on the last.
SendEvents ==
    LET events == {e \in log : e > cursor}
    IN  /\ cursor # Closed
        /\ \E id \in events : IsLast(id, events) /\ cursor' = id
        /\ transit' = transit \cup events
        /\ UNCHANGED <<store, missed, page>>

\* handleEvent, for the types in RUN_EVENT_TYPES: mergeRunEvents.
ReceiveEvent ==
    /\ \E id \in transit :
          /\ \A other \in transit : id <= other
          /\ transit' = transit \ {id}
          /\ screen' = screen \cup ({id} \ unheard)
    /\ UNCHANGED <<store, cursor, missed, poll, answer, disturbances>>
-----------------------------------------------------------------------------
(* The poll.                                                                *)

\* refetchInterval of runEventsQuery.
StartPoll ==
    /\ poll = "none"
    /\ poll' = "asked"
    /\ UNCHANGED <<store, cursor, transit, missed, screen, answer, disturbances>>

\* invalidateRunQueries drops the query in flight and asks again.
RestartPoll ==
    /\ poll # "none"
    /\ Disturb
    /\ poll' = "asked"
    /\ answer' = {}
    /\ UNCHANGED <<store, cursor, transit, missed, screen>>

\* Mutant: the poll asks for what comes after the last event it has.
ReadSinceLast ==
    /\ poll = "asked"
    /\ poll' = "answered"
    /\ answer' = screen \cup {e \in log : \A shown \in screen : e > shown}
    /\ UNCHANGED <<store, cursor, transit, missed, screen, disturbances>>

\* get_run_events without after_id.
ReadAll ==
    /\ poll = "asked"
    /\ poll' = "answered"
    /\ answer' = log
    /\ UNCHANGED <<store, cursor, transit, missed, screen, disturbances>>

\* The answer replaces the cache, with what the stream put there meanwhile.
ShowAnswer ==
    /\ poll = "answered"
    /\ poll' = "none"
    /\ answer' = {}
    /\ screen' = answer
    /\ UNCHANGED <<store, cursor, transit, missed, disturbances>>

LoseAnswer ==
    /\ poll # "none"
    /\ Disturb
    /\ poll' = "none"
    /\ answer' = {}
    /\ UNCHANGED <<store, cursor, transit, missed, screen>>

Poll == StartPoll \/ ReadAll \/ ShowAnswer

Next ==
    \/ \E c \in Connections :
          LockRun(c) \/ InsertEvent(c) \/ ShareRun(c) \/ Commit(c) \/ RollBack(c)
    \/ OpenStream \/ BreakStream \/ SendEvents \/ ReceiveEvent
    \/ Poll \/ RestartPoll \/ LoseAnswer

\* The interval of the query is a timer of the page.  Nothing is asked of the
\* stream, nor of the transactions.
Spec == Init /\ [][Next]_vars /\ WF_vars(Poll)
-----------------------------------------------------------------------------
(* Properties.                                                              *)

TypeOK ==
    /\ lastId \in 0 .. MaxEvents
    /\ lock \in [Connections -> {"none", "update", "waiting", "share"}]
    /\ inserted \in [Connections -> SUBSET Ids]
    /\ log \subseteq Ids /\ ofLockers \subseteq Ids /\ unheard \subseteq Ids
    /\ cursor \in 0 .. Closed
    /\ transit \subseteq Ids
    /\ missed \subseteq Ids
    /\ screen \subseteq Ids
    /\ poll \in {"none", "asked", "answered"}
    /\ answer \subseteq Ids

\* A change of the run made under its lock is never committed behind the
\* stream's cursor: what _insert_event numbers out of order are chunks of
\* output, notes and recoveries alone.
LockedEventsAreStreamed == missed \cap ofLockers = {}

\* The stream may break, pass events by or not know their type: once the run
\* is quiet the page shows exactly its committed events, and goes on to.
ScreenShowsTheLog == <>[](screen = log)
=============================================================================
