-------------------------- MODULE EventFeedProofs --------------------------
(***************************************************************************)
(* No change made under the run's lock is committed behind the cursor of    *)
(* the stream, with any number of connections, events, breaks and polls.    *)
(***************************************************************************)
EXTENDS EventFeed, TLAPS

\* Whatever has become known of the events: nothing of it can be overtaken by
\* what was drawn before it under the lock.
Visible == log \cup screen \cup answer \cup transit

\* The run's lock: one holder excludes all others and those that share it.
LockExcludes ==
    \A c, d \in Connections :
        lock[c] = "update" /\ c # d => lock[d] \notin {"update", "share"}

\* An id belongs to one transaction, and to the past of the sequence.
IdsAreDrawn ==
    /\ Visible \cup ofLockers \cup missed \subseteq 1 .. lastId
    /\ cursor # Closed => cursor <= lastId
    /\ \A c \in Connections :
          /\ inserted[c] \subseteq 1 .. lastId
          /\ lock[c] = "none" => inserted[c] = {}

\* Who draws ids under the lock: a connection of Lockers holds no other, and
\* what Others have drawn is never an event of Lockers.
RolesAreKept ==
    \A c \in Connections :
        IF c \in Lockers THEN lock[c] \in {"none", "update"}
        ELSE lock[c] # "update" /\ inserted[c] \cap ofLockers = {}

\* The core: while an event drawn under the lock is open, all that is visible,
\* and all that could become so before it, has a lower id.
OpenEventIsNewest ==
    \A c \in Lockers : \A e \in inserted[c] :
        /\ \A id \in Visible : id < e
        /\ cursor # Closed => cursor < e

FeedInv ==
    /\ TypeOK
    /\ LockExcludes
    /\ IdsAreDrawn
    /\ RolesAreKept
    /\ OpenEventIsNewest
    /\ LockedEventsAreStreamed
-----------------------------------------------------------------------------
LEMMA InitFeedInv == Init => FeedInv
BY FeedAssumption
DEF Init, FeedInv, TypeOK, LockExcludes, IdsAreDrawn, RolesAreKept,
    OpenEventIsNewest, LockedEventsAreStreamed, Visible, Connections, Ids, Closed

\* The types need only the step itself.
LEMMA TypeStep ==
    ASSUME TypeOK, IdsAreDrawn, [Next]_vars
    PROVE  TypeOK'
<1> USE FeedAssumption
    DEF TypeOK, Ids, Closed, store, page, Disturb
<1>1. ASSUME NEW c \in Connections, LockRun(c) \/ ShareRun(c) \/ RollBack(c)
      PROVE  TypeOK'
    BY <1>1 DEF LockRun, ShareRun, RollBack
<1>2. ASSUME NEW c \in Connections, InsertEvent(c)
      PROVE  TypeOK'
    BY <1>2 DEF InsertEvent, Insert
<1>3. ASSUME NEW c \in Connections, Commit(c)
      PROVE  TypeOK'
    BY <1>3 DEF Commit
<1>4. CASE OpenStream
  <2>1. cursor' \in {0} \cup screen
      BY <1>4 DEF OpenStream, IsLast
  <2>2. cursor' \in 0 .. Closed
      BY <2>1
  <2> QED BY <1>4, <2>2 DEF OpenStream
<1>5. CASE BreakStream
    BY <1>5 DEF BreakStream
<1>6. CASE SendEvents
  <2>1. cursor' \in log
      BY <1>6 DEF SendEvents, IsLast
  <2>2. cursor' \in 0 .. Closed
      BY <2>1
  <2> QED BY <1>6, <2>2 DEF SendEvents
<1>7. CASE ReceiveEvent
  <2>1. screen' \subseteq screen \cup transit
      BY <1>7 DEF ReceiveEvent
  <2>2. transit' \subseteq transit
      BY <1>7 DEF ReceiveEvent
  <2> QED BY <1>7, <2>1, <2>2 DEF ReceiveEvent
<1>8. CASE Poll \/ RestartPoll \/ LoseAnswer
    BY <1>8 DEF Poll, StartPoll, ReadAll, ShowAnswer, RestartPoll, LoseAnswer
<1>9. CASE UNCHANGED vars
    BY <1>9 DEF vars
<1> QED BY <1>1, <1>2, <1>3, <1>4, <1>5, <1>6, <1>7, <1>8, <1>9 DEF Next

\* The steps of the database: lock by lock, id by id.
LEMMA StoreStep ==
    ASSUME FeedInv, NEW c \in Connections,
           LockRun(c) \/ InsertEvent(c) \/ ShareRun(c) \/ Commit(c) \/ RollBack(c)
    PROVE  /\ LockExcludes' /\ IdsAreDrawn' /\ RolesAreKept'
           /\ OpenEventIsNewest' /\ LockedEventsAreStreamed'
<1> USE FeedAssumption
    DEF FeedInv, TypeOK, LockExcludes, IdsAreDrawn, RolesAreKept, Ids, Closed,
        OpenEventIsNewest, LockedEventsAreStreamed, Visible, Connections, page
<1>1. CASE LockRun(c)
    BY <1>1 DEF LockRun
<1>2. CASE InsertEvent(c)
  <2>1. LockExcludes' /\ RolesAreKept' /\ LockedEventsAreStreamed'
    <3>1. LockExcludes'
        BY <1>2 DEF InsertEvent, Insert
    <3>2. RolesAreKept'
        BY <1>2 DEF InsertEvent, Insert
    <3>3. LockedEventsAreStreamed'
        BY <1>2 DEF InsertEvent, Insert
    <3> QED BY <3>1, <3>2, <3>3
  <2>2. IdsAreDrawn'
      BY <1>2 DEF InsertEvent, Insert
  <2>3. OpenEventIsNewest'
      BY <1>2 DEF InsertEvent, Insert
  <2> QED BY <2>1, <2>2, <2>3
<1>3. CASE ShareRun(c)
    BY <1>3 DEF ShareRun
<1>4. CASE Commit(c)
  <2>1. LockExcludes' /\ IdsAreDrawn' /\ RolesAreKept'
      BY <1>4 DEF Commit
  <2>2. \A d \in Lockers : d # c => inserted[d] = {}
      BY <1>4 DEF Commit
  <2>3. OpenEventIsNewest'
      BY <1>4, <2>2 DEF Commit
  <2>4. LockedEventsAreStreamed'
    <3>1. c \in Lockers => \A e \in inserted[c] : cursor = Closed \/ ~(e <= cursor)
        OBVIOUS
    <3>2. c \notin Lockers => inserted[c] \cap ofLockers = {}
        OBVIOUS
    <3>3. /\ ofLockers' = ofLockers
          /\ \A e \in missed' :
                e \in missed \/ (cursor # Closed /\ e \in inserted[c] /\ e <= cursor)
        BY <1>4 DEF Commit
    <3>4. missed \cap ofLockers = {}
        OBVIOUS
    <3>5. \A e \in missed' : e \notin ofLockers
        BY ONLY <3>1, <3>2, <3>3, <3>4
    <3> QED BY ONLY <3>3, <3>5 DEF LockedEventsAreStreamed
  <2> QED BY <2>1, <2>3, <2>4
<1>5. CASE RollBack(c)
    BY <1>5 DEF RollBack
<1> QED BY <1>1, <1>2, <1>3, <1>4, <1>5

\* The stream and the poll only move what is visible already.
LEMMA FeedStep ==
    ASSUME FeedInv,
           OpenStream \/ BreakStream \/ SendEvents \/ ReceiveEvent
             \/ Poll \/ RestartPoll \/ LoseAnswer \/ UNCHANGED vars
    PROVE  /\ LockExcludes' /\ IdsAreDrawn' /\ RolesAreKept'
           /\ OpenEventIsNewest' /\ LockedEventsAreStreamed'
<1>1. UNCHANGED <<lastId, lock, inserted, log, ofLockers, missed>>
    BY DEF OpenStream, BreakStream, SendEvents, ReceiveEvent, Poll, StartPoll,
           ReadAll, ShowAnswer, RestartPoll, LoseAnswer, vars, store
<1>2. Visible' \subseteq Visible
  <2>1. CASE ReceiveEvent
    <3>1. screen' \subseteq screen \cup transit /\ transit' \subseteq transit
        BY <2>1 DEF ReceiveEvent
    <3> QED BY <1>1, <2>1, <3>1 DEF ReceiveEvent, Visible
  <2>2. CASE OpenStream \/ BreakStream \/ SendEvents
      BY <2>2, <1>1 DEF OpenStream, BreakStream, SendEvents, Visible, page
  <2>3. CASE Poll \/ RestartPoll \/ LoseAnswer \/ UNCHANGED vars
      BY <2>3, <1>1 DEF Poll, StartPoll, ReadAll, ShowAnswer, RestartPoll,
                        LoseAnswer, vars, Visible
  <2> QED BY <2>1, <2>2, <2>3
<1>3. cursor' \in {cursor, Closed, 0} \cup Visible
    BY DEF OpenStream, BreakStream, SendEvents, ReceiveEvent, Poll, StartPoll,
           ReadAll, ShowAnswer, RestartPoll, LoseAnswer, vars, Visible, IsLast
<1>4. LockExcludes' /\ RolesAreKept' /\ LockedEventsAreStreamed'
    BY <1>1 DEF FeedInv, LockExcludes, RolesAreKept, LockedEventsAreStreamed
<1>5. IdsAreDrawn'
    BY <1>1, <1>2, <1>3 DEF FeedInv, TypeOK, IdsAreDrawn
<1>6. OpenEventIsNewest'
    BY <1>1, <1>2, <1>3 DEF FeedInv, TypeOK, IdsAreDrawn, OpenEventIsNewest, Connections
<1> QED BY <1>4, <1>5, <1>6

THEOREM FeedInvCorrect == Spec => []FeedInv
<1>1. FeedInv /\ [Next]_vars => FeedInv'
  <2> SUFFICES ASSUME FeedInv, [Next]_vars PROVE FeedInv'
      OBVIOUS
  <2>1. TypeOK'
      BY TypeStep DEF FeedInv
  <2>2. /\ LockExcludes' /\ IdsAreDrawn' /\ RolesAreKept'
        /\ OpenEventIsNewest' /\ LockedEventsAreStreamed'
      BY StoreStep, FeedStep DEF Next
  <2> QED BY <2>1, <2>2 DEF FeedInv
<1> QED BY InitFeedInv, <1>1, PTL DEF Spec

(* A change of the run made under its lock is never committed behind the    *)
(* cursor of the stream.                                                    *)
THEOREM LockedEventsAreStreamedCorrect == Spec => []LockedEventsAreStreamed
BY FeedInvCorrect, PTL DEF FeedInv
=============================================================================
