-------------------------- MODULE LockOrderProofs --------------------------
(***************************************************************************)
(* For any number of connections: the transactions that store no command    *)
(* output never wait for each other in a circle, because they lock rows in  *)
(* one order, and only the listed ones write over a version they decided on. *)
(***************************************************************************)
EXTENDS LockOrder, TLAPS

\* The order in which the transactions take the rows they may wait for.
Rank(row) ==
    CASE row \in {"plan", "staleTask"} -> 1
      [] row = "task" -> 2
      [] row = "request" -> 3
      [] row = "draft" -> 4
      [] row = "run" -> 5
      [] row \in {"slot", "step", "draftTask", "failedPlan"} -> 6
      [] OTHER -> 7

\* A statement cannot wait: one before it took a lock that excludes all that
\* this one excludes.
Covered(script, j) ==
    \E i \in 1 .. j - 1 :
        /\ script[i].row = script[j].row
        /\ \A op \in Ops : Conflict(op, script[j].op) => Conflict(op, script[i].op)

\* Each other statement that locks is above all the locks taken before it.
Ordered(script) ==
    \A j \in 1 .. Len(script) :
        \/ script[j].op = "read"
        \/ Covered(script, j)
        \/ \A i \in 1 .. j - 1 :
              script[i].op = "read" \/ Rank(script[i].row) < Rank(script[j].row)

StoresResults == {"complete", "append"}

\* What may be written over: the bound of OverwritesAreKnown.
KnownOverwrites ==
    {<<"complete", "run">>, <<"save", "run">>,
     <<"retry", "failedPlan">>, <<"failTask", "task">>}

\* A row that is written without a lock was not read before.
WritesUnread(name, script) ==
    \A j \in 1 .. Len(script) :
        \/ script[j].op # "write"
        \/ \A i \in 1 .. j - 1 : script[i].row # script[j].row \/ script[i].op # "read"
        \/ \E i \in 1 .. j - 1 :
              script[i].row = script[j].row /\ script[i].op \in {"lock", "checked"}
        \/ <<name, script[j].row>> \in KnownOverwrites

Script == Seq([op : Ops, row : Rows])
-----------------------------------------------------------------------------
(* The scripts.                                                             *)

LEMMA ScriptsAreTyped == \A name \in Names : Transactions[name] \in Script
<1>1. /\ ChangeRun \in Script /\ Decide \in Script /\ CreateStep \in Script
      /\ RetryRun \in Script /\ StartCommand \in Script /\ AppendChunk \in Script
      /\ CompleteCommand \in Script /\ SaveDraft \in Script
      /\ QueueSubmission \in Script /\ MarkProcessing \in Script
      /\ MarkCreated \in Script /\ MarkCompleted \in Script
      /\ FailRequest \in Script /\ Recover \in Script /\ ClaimFailed \in Script
      /\ ClaimPlan \in Script /\ ClaimDraft \in Script /\ CompleteTask \in Script
    BY DEF Script, Rows, Ops, Do, ChangeRun, Decide, CreateStep, RetryRun,
           StartCommand, AppendChunk, CompleteCommand, SaveDraft,
           QueueSubmission, MarkProcessing, MarkCreated, MarkCompleted,
           FailRequest, Recover, ClaimFailed, ClaimPlan, ClaimDraft, CompleteTask
<1>2. CreateManualStep \in Script /\ FailTask \in Script
    BY <1>1 DEF Script, Rows, Ops, Do, CreateManualStep, FailTask
<1> QED BY <1>1, <1>2 DEF Names, Transactions

LEMMA ElementOfSequence ==
    ASSUME NEW S, NEW s \in Seq(S), NEW i \in 1 .. Len(s)
    PROVE  s[i] \in S
OBVIOUS

LEMMA StatementOfScript ==
    ASSUME NEW script \in Script, NEW i \in 1 .. Len(script)
    PROVE  script[i] \in [op : Ops, row : Rows]
BY ElementOfSequence DEF Script

LEMMA ScriptsAreOrdered ==
    \A name \in Names \ StoresResults : Ordered(Transactions[name])
<1> USE DEF Ordered, Covered, Conflict, Rank, Ops, Do
<1>1. Ordered(ChangeRun)
    BY DEF ChangeRun
<1>2. Ordered(Decide)
    BY DEF Decide
<1>3. Ordered(CreateStep)
    BY DEF CreateStep
<1>4. Ordered(CreateManualStep)
    BY DEF CreateManualStep, CreateStep
<1>5. Ordered(RetryRun) /\ Ordered(StartCommand)
    BY DEF RetryRun, StartCommand
<1>6. Ordered(SaveDraft) /\ Ordered(QueueSubmission)
    BY DEF SaveDraft, QueueSubmission
<1>7. Ordered(MarkProcessing) /\ Ordered(MarkCreated)
    BY DEF MarkProcessing, MarkCreated
<1>8. Ordered(MarkCompleted)
    BY DEF MarkCompleted
<1>9. Ordered(FailRequest) /\ Ordered(Recover)
    BY DEF FailRequest, Recover
<1>10. Ordered(FailTask)
    BY DEF FailTask, FailRequest
<1>11. /\ Ordered(ClaimFailed) /\ Ordered(ClaimPlan) /\ Ordered(ClaimDraft)
       /\ Ordered(CompleteTask)
    BY DEF ClaimFailed, ClaimPlan, ClaimDraft, CompleteTask
<1> HIDE DEF Ordered, Covered, Conflict, Rank, Ops, Do
<1> QED BY <1>1, <1>2, <1>3, <1>4, <1>5, <1>6, <1>7, <1>8, <1>9, <1>10, <1>11
        DEF Names, Transactions, StoresResults

LEMMA ScriptsWriteUnread ==
    \A name \in Names : WritesUnread(name, Transactions[name])
<1> USE DEF WritesUnread, KnownOverwrites, Do
<1>1. WritesUnread("change", ChangeRun) /\ WritesUnread("decide", Decide)
    BY DEF ChangeRun, Decide
<1>2. WritesUnread("create", CreateStep)
    BY DEF CreateStep
<1>3. WritesUnread("manual", CreateManualStep)
    BY DEF CreateManualStep, CreateStep
<1>4. WritesUnread("retry", RetryRun) /\ WritesUnread("start", StartCommand)
    BY DEF RetryRun, StartCommand
<1>5. WritesUnread("append", AppendChunk)
    BY DEF AppendChunk
<1>6. WritesUnread("complete", CompleteCommand)
    BY DEF CompleteCommand
<1>7. WritesUnread("save", SaveDraft) /\ WritesUnread("queue", QueueSubmission)
    BY DEF SaveDraft, QueueSubmission
<1>8. WritesUnread("processing", MarkProcessing) /\ WritesUnread("created", MarkCreated)
    BY DEF MarkProcessing, MarkCreated
<1>9. WritesUnread("completed", MarkCompleted)
    BY DEF MarkCompleted
<1>10. WritesUnread("failRequest", FailRequest) /\ WritesUnread("recover", Recover)
    BY DEF FailRequest, Recover
<1>11. WritesUnread("failTask", FailTask)
    BY DEF FailTask, FailRequest
<1>12. /\ WritesUnread("claimFailed", ClaimFailed) /\ WritesUnread("claimPlan", ClaimPlan)
       /\ WritesUnread("claimDraft", ClaimDraft) /\ WritesUnread("completeTask", CompleteTask)
    BY DEF ClaimFailed, ClaimPlan, ClaimDraft, CompleteTask
<1> HIDE DEF WritesUnread, KnownOverwrites, Do
<1> QED BY <1>1, <1>2, <1>3, <1>4, <1>5, <1>6, <1>7, <1>8, <1>9, <1>10, <1>11, <1>12
        DEF Names, Transactions
-----------------------------------------------------------------------------
(* The invariant.                                                           *)

\* Locks on one row that are held at the same time do not conflict.
LocksExclude ==
    \A c, d \in Clients : c # d =>
        \A l \in locks[c], k \in locks[d] : l.row = k.row => ~Conflict(l.op, k.op)

\* A connection holds the locks of what it has executed and no others, and
\* knows only the rows it has read.
HoldsWhatItTook(c) ==
    LET script == Transactions[running[c]]
    IN  /\ done[c] <= Len(script)
        /\ \A l \in locks[c] :
             \E i \in 1 .. done[c] : script[i] = l /\ l.op # "read"
        /\ \A i \in 1 .. done[c] : script[i].op # "read" => script[i] \in locks[c]
        /\ \A row \in known[c] :
             \E i \in 1 .. done[c] :
                script[i].row = row /\ script[i].op \in {"read", "lock", "checked"}

LocksAreTaken ==
    \A c \in Clients : running[c] # "none" => HoldsWhatItTook(c)

\* What was read under a lock cannot become outdated.
LockedIsCurrent ==
    \A c \in Clients : \A row \in outdated[c] :
        \A l \in locks[c] : l.row = row => l.op \notin {"lock", "checked"}

IdleKnowsNothing ==
    \A c \in Clients : running[c] = "none" => known[c] = {}

LockInv ==
    /\ TypeOK
    /\ IdleKnowsNothing
    /\ LocksExclude
    /\ LocksAreTaken
    /\ LockedIsCurrent
    /\ OverwritesAreKnown
-----------------------------------------------------------------------------
LEMMA NoneIsNoName == "none" \notin Names
BY DEF Names, Transactions

LEMMA InitLockInv == Init => LockInv
BY DEF Init, LockInv, TypeOK, IdleKnowsNothing, LocksExclude, LocksAreTaken,
       LockedIsCurrent, OverwritesAreKnown

\* The statement that is executed next is one of its script.
LEMMA StatementIsTyped ==
    ASSUME TypeOK, NEW c \in Clients, Pending(c)
    PROVE  /\ running[c] \in Names
           /\ done[c] + 1 \in 1 .. Len(Transactions[running[c]])
           /\ Statement(c) \in [op : Ops, row : Rows]
<1>1. running[c] \in Names /\ done[c] \in Nat
    BY DEF TypeOK, Pending
<1>2. Transactions[running[c]] \in Script
    BY <1>1, ScriptsAreTyped
<1>3. done[c] + 1 \in 1 .. Len(Transactions[running[c]])
    BY <1>1, <1>2 DEF Pending, Script
<1>4. Transactions[running[c]][done[c] + 1] \in [op : Ops, row : Rows]
    BY <1>2, <1>3, StatementOfScript
<1> QED BY <1>1, <1>3, <1>4 DEF Statement

LEMMA BeginStep ==
    ASSUME LockInv, NEW c \in Clients, NEW name \in Names, Begin(c, name)
    PROVE  LockInv'
<1> USE DEF LockInv, TypeOK
<1>1. running[c] = "none" /\ done[c] = 0 /\ locks[c] = {} /\ known[c] = {}
    BY DEF Begin, IdleKnowsNothing
<1>2. TypeOK'
    BY <1>1 DEF Begin
<1>3. IdleKnowsNothing'
    BY <1>1 DEF Begin, IdleKnowsNothing
<1>4. LocksExclude' /\ LockedIsCurrent' /\ OverwritesAreKnown'
    BY DEF Begin, LocksExclude, LockedIsCurrent, OverwritesAreKnown
<1>5. LocksAreTaken'
  <2>1. Transactions[name] \in Script
      BY ScriptsAreTyped
  <2>2. Len(Transactions[name]) \in Nat
      BY <2>1 DEF Script
  <2>3. \A d \in Clients : d # c => running'[d] = running[d]
      BY DEF Begin
  <2>4. running'[c] = name /\ UNCHANGED <<done, locks, known>>
      BY DEF Begin
  <2> HIDE DEF LockInv, TypeOK
  <2>5. LocksAreTaken
      BY DEF LockInv
  <2> SUFFICES ASSUME NEW d \in Clients, running'[d] # "none"
               PROVE  HoldsWhatItTook(d)'
      BY DEF LocksAreTaken
  <2> QED BY <1>1, <2>2, <2>3, <2>4, <2>5 DEF LocksAreTaken, HoldsWhatItTook
<1> QED BY <1>2, <1>3, <1>4, <1>5

\* A statement takes its lock when nobody holds a conflicting one; it writes
\* over a version only where the scripts say so.
LEMMA ExecuteStep ==
    ASSUME LockInv, NEW c \in Clients, Execute(c)
    PROVE  LockInv'
<1> DEFINE script == Transactions[running[c]]
           j == done[c] + 1
           op == Statement(c).op
           row == Statement(c).row
<1>1. /\ Pending(c) /\ \A d \in Clients : ~WaitsFor(c, d)
      /\ running' = running
      /\ done' = [done EXCEPT ![c] = done[c] + 1]
      /\ locks' = IF op = "read" THEN locks
                  ELSE [locks EXCEPT ![c] = locks[c] \cup {Do(op, row)}]
      /\ known' = IF op \in {"read", "lock", "checked"}
                  THEN [known EXCEPT ![c] = known[c] \cup {row}] ELSE known
      /\ outdated' = IF op \in {"read", "lock", "checked"}
                     THEN [outdated EXCEPT ![c] = outdated[c] \ {row}] ELSE outdated
      /\ lost' = IF op = "write" /\ row \in outdated[c]
                 THEN lost \cup {<<running[c], row>>} ELSE lost
    BY DEF Execute
<1>2. /\ running[c] \in Names /\ j \in 1 .. Len(script)
      /\ Statement(c) \in [op : Ops, row : Rows]
    BY <1>1, StatementIsTyped DEF LockInv
<1>3. Statement(c) = script[j] /\ op \in Ops /\ row \in Rows
    BY <1>2 DEF Statement
<1>4. Do(op, row) = script[j]
    BY <1>2, <1>3 DEF Do
<1>5. TypeOK'
    BY <1>1, <1>2, <1>3, NoneIsNoName DEF LockInv, TypeOK, Do
<1>6. IdleKnowsNothing'
    BY <1>1, <1>2, NoneIsNoName DEF LockInv, TypeOK, IdleKnowsNothing
<1>7. LocksExclude'
  <2>1. \A d \in Clients \ {c} : \A l \in locks[d] :
           l.row = row => ~Conflict(l.op, op) /\ ~Conflict(op, l.op)
      BY <1>1 DEF WaitsFor, Conflict
  <2>2. Do(op, row).op = op /\ Do(op, row).row = row
      BY DEF Do
  <2>3. locks \in [Clients -> SUBSET [op : Ops, row : Rows]] /\ LocksExclude
      BY DEF LockInv, TypeOK
  <2>4. locks' \in [Clients -> SUBSET [op : Ops, row : Rows]]
      BY <1>5 DEF TypeOK
  <2>5. \A d \in Clients \ {c} : locks'[d] = locks[d]
      BY <1>1, <2>3
  <2>6. locks'[c] \subseteq locks[c] \cup {Do(op, row)}
      BY <1>1, <2>3
  <2> HIDE DEF op, row
  <2> QED BY ONLY <2>1, <2>2, <2>3, <2>5, <2>6 DEF LocksExclude
<1>8. LocksAreTaken'
  <2>1. /\ locks \in [Clients -> SUBSET [op : Ops, row : Rows]]
        /\ known \in [Clients -> SUBSET Rows] /\ done \in [Clients -> Nat]
        /\ LocksAreTaken
      BY DEF LockInv, TypeOK
  <2>2. ASSUME NEW d \in Clients, d # c, running'[d] # "none"
        PROVE  HoldsWhatItTook(d)'
    <3>1. /\ running'[d] = running[d] /\ done'[d] = done[d]
          /\ locks'[d] = locks[d] /\ known'[d] = known[d]
        BY <1>1, <2>1, <2>2
    <3>2. HoldsWhatItTook(d)
        BY <2>1, <2>2, <3>1 DEF LocksAreTaken
    <3> QED BY ONLY <3>1, <3>2 DEF HoldsWhatItTook
  <2>3. HoldsWhatItTook(c)'
    <3>1. HoldsWhatItTook(c)
        BY <1>1, <2>1 DEF Pending, LocksAreTaken
    <3>2. running'[c] = running[c] /\ done'[c] = j /\ done[c] \in Nat
        BY <1>1, <2>1
    <3>3. locks'[c] = IF op = "read" THEN locks[c] ELSE locks[c] \cup {script[j]}
        BY <1>1, <1>4, <2>1
    <3>4. known'[c] = IF op \in {"read", "lock", "checked"}
                     THEN known[c] \cup {row} ELSE known[c]
        BY <1>1, <2>1
    <3>5. script[j].op = op /\ script[j].row = row /\ j <= Len(script)
        BY <1>2, <1>3
    <3>6. \A i \in 1 .. j : i \in 1 .. done[c] \/ i = j
        BY <3>2
    <3>7. 1 .. done[c] \subseteq 1 .. j /\ j \in 1 .. j
        BY <3>2
    <3> HIDE DEF op, row, j
    <3> QED BY ONLY <3>1, <3>2, <3>3, <3>4, <3>5, <3>6, <3>7 DEF HoldsWhatItTook
  <2> QED BY <2>2, <2>3 DEF LocksAreTaken
<1>9. LockedIsCurrent'
  <2>1. /\ locks \in [Clients -> SUBSET [op : Ops, row : Rows]]
        /\ outdated \in [Clients -> SUBSET Rows] /\ LockedIsCurrent
      BY DEF LockInv, TypeOK
  <2>2. \A d \in Clients \ {c} : locks'[d] = locks[d] /\ outdated'[d] = outdated[d]
      BY <1>1, <2>1
  <2>3. locks'[c] \subseteq locks[c] \cup {Do(op, row)}
      BY <1>1, <2>1
  <2>4. /\ outdated'[c] \subseteq outdated[c]
        /\ op \in {"lock", "checked"} => row \notin outdated'[c]
      BY <1>1, <2>1
  <2>5. Do(op, row).op = op /\ Do(op, row).row = row
      BY DEF Do
  <2> HIDE DEF op, row
  <2> QED BY ONLY <2>1, <2>2, <2>3, <2>4, <2>5 DEF LockedIsCurrent
<1>10. OverwritesAreKnown'
  <2>1. lost \subseteq KnownOverwrites
      BY DEF LockInv, OverwritesAreKnown, KnownOverwrites
  <2>2. ASSUME op = "write", row \in outdated[c]
        PROVE  <<running[c], row>> \in KnownOverwrites
    <3>1. running[c] # "none" /\ done[c] \in Nat
        BY <1>1 DEF Pending, LockInv, TypeOK
    <3>2. \A i \in 1 .. done[c] :
            script[i].op \in {"lock", "checked"} => script[i].row # row
        BY <2>2, <3>1 DEF LockInv, LocksAreTaken, LockedIsCurrent, HoldsWhatItTook
    <3>3. row \in known[c]
        BY <2>2 DEF LockInv, TypeOK
    <3>4. PICK i \in 1 .. done[c] :
            script[i].row = row /\ script[i].op \in {"read", "lock", "checked"}
        BY <3>1, <3>3 DEF LockInv, LocksAreTaken, HoldsWhatItTook
    <3>5. WritesUnread(running[c], script)
        BY <1>2, ScriptsWriteUnread
    <3>6. script[j].op = "write" /\ script[j].row = row /\ 1 .. j - 1 = 1 .. done[c]
        BY <1>3, <2>2, <3>1
    <3> QED BY <1>2, <3>2, <3>4, <3>5, <3>6 DEF WritesUnread
  <2> QED BY <1>1, <2>1, <2>2 DEF OverwritesAreKnown, KnownOverwrites
<1> QED BY <1>5, <1>6, <1>7, <1>8, <1>9, <1>10 DEF LockInv

\* The end of a transaction: what it wrote was locked, so nobody who relies on
\* a lock has an outdated version now.
LEMMA EndStep ==
    ASSUME LockInv, NEW c \in Clients, Commit(c) \/ Refuse(c) \/ Victim(c)
    PROVE  LockInv'
<1>1. /\ running' = [running EXCEPT ![c] = "none"] /\ done' = [done EXCEPT ![c] = 0]
      /\ locks' = [locks EXCEPT ![c] = {}] /\ known' = [known EXCEPT ![c] = {}]
      /\ lost' = lost
    BY DEF Commit, Refuse, Victim, RollBack, Ended
<1>2. \/ outdated' = [outdated EXCEPT ![c] = {}]
      \/ outdated' = [d \in Clients |->
                        IF d = c THEN {} ELSE outdated[d] \cup (known[d] \cap Written(c))]
    BY DEF Commit, Refuse, Victim, RollBack
<1>3. /\ running \in [Clients -> Names \cup {"none"}] /\ done \in [Clients -> Nat]
      /\ locks \in [Clients -> SUBSET [op : Ops, row : Rows]]
      /\ known \in [Clients -> SUBSET Rows] /\ outdated \in [Clients -> SUBSET Rows]
    BY DEF LockInv, TypeOK
<1>4. /\ outdated' \in [Clients -> SUBSET Rows] /\ outdated'[c] = {}
      /\ \A d \in Clients \ {c} :
           outdated'[d] \subseteq outdated[d] \cup (known[d] \cap Written(c))
    BY <1>2, <1>3
<1>5. \A d \in Clients \ {c} : /\ running'[d] = running[d] /\ done'[d] = done[d]
                              /\ locks'[d] = locks[d] /\ known'[d] = known[d]
    BY <1>1, <1>3
<1>6. running'[c] = "none" /\ done'[c] = 0 /\ locks'[c] = {} /\ known'[c] = {}
    BY <1>1, <1>3
<1>7. TypeOK'
    BY <1>1, <1>3, <1>4, <1>5, <1>6 DEF LockInv, TypeOK
<1>8. IdleKnowsNothing' /\ LocksExclude'
    BY <1>5, <1>6 DEF LockInv, IdleKnowsNothing, LocksExclude
<1>9. LocksAreTaken'
  <2> SUFFICES ASSUME NEW d \in Clients, running'[d] # "none"
               PROVE  HoldsWhatItTook(d)'
      BY DEF LocksAreTaken
  <2>1. HoldsWhatItTook(d)
      BY <1>5, <1>6 DEF LockInv, LocksAreTaken
  <2> QED BY ONLY <1>5, <1>6, <2>1, running'[d] # "none", d \in Clients DEF HoldsWhatItTook
<1>10. LockedIsCurrent'
  <2> SUFFICES ASSUME NEW d \in Clients \ {c}, NEW row \in outdated'[d],
                      NEW l \in locks[d], l.row = row, l.op \in {"lock", "checked"}
               PROVE  FALSE
      BY <1>4, <1>5, <1>6 DEF LockedIsCurrent
  <2>1. row \in Written(c)
      BY <1>4 DEF LockInv, LockedIsCurrent
  <2>2. PICK k \in locks[c] : k.row = row /\ k.op \in {"write", "checked"}
      BY <2>1 DEF Written
  <2>3. Conflict(l.op, k.op)
      BY <2>2 DEF Conflict
  <2> QED BY <2>2, <2>3 DEF LockInv, LocksExclude
<1>11. OverwritesAreKnown'
    BY <1>1 DEF LockInv, OverwritesAreKnown
<1> QED BY <1>7, <1>8, <1>9, <1>10, <1>11 DEF LockInv

\* Locks exclude each other, are held for what was executed, and what was read
\* under a lock is current, with any number of connections.
THEOREM LockInvCorrect == Spec => []LockInv
<1>1. LockInv /\ [Next]_vars => LockInv'
  <2>1. LockInv /\ UNCHANGED vars => LockInv'
      BY DEF vars, LockInv, TypeOK, IdleKnowsNothing, LocksExclude, LocksAreTaken,
             HoldsWhatItTook, LockedIsCurrent, OverwritesAreKnown, Conflict
  <2> QED BY <2>1, BeginStep, ExecuteStep, EndStep DEF Next
<1> QED BY InitLockInv, <1>1, PTL DEF Spec

\* The technician's, the planner's, the claims' and the submission's
\* transactions decide on the version of a row they write, but for the listed.
THEOREM OverwritesAreKnownCorrect == Spec => []OverwritesAreKnown
BY LockInvCorrect, PTL DEF LockInv
-----------------------------------------------------------------------------
(* No circle without a transaction that stores a result: whoever waits      *)
(* holds only locks below the row it waits for, so the row waited for grows *)
(* along the circle, and there are seven ranks.                             *)

Level(c) == Rank(Statement(c).row)

LEMMA WaitingGoesUp ==
    ASSUME LockInv, NEW c \in Clients, NEW d \in Clients, NEW e \in Clients,
           WaitsFor(c, d), WaitsFor(d, e), running[d] \notin StoresResults
    PROVE  Level(c) < Level(d)
<1> DEFINE script == Transactions[running[d]]
           j == done[d] + 1
<1>1. PICK l \in locks[d] : l.row = Statement(c).row
    BY DEF WaitsFor
<1>2. PICK k \in locks[e] : k.row = Statement(d).row /\ Conflict(k.op, Statement(d).op)
    BY DEF WaitsFor
<1>3. /\ running[d] \in Names /\ j \in 1 .. Len(script) /\ d # e
      /\ Statement(d) = script[j] /\ done[d] \in Nat
    BY StatementIsTyped DEF WaitsFor, LockInv, TypeOK, Statement
<1>4. HoldsWhatItTook(d)
    BY <1>3, NoneIsNoName DEF LockInv, LocksAreTaken
<1>5. PICK i \in 1 .. done[d] : script[i] = l /\ script[i].op # "read"
    BY <1>4 DEF HoldsWhatItTook
<1>6. 1 .. j - 1 = 1 .. done[d]
    BY <1>3
<1>7. Ordered(script)
    BY <1>3, ScriptsAreOrdered
<1>8. script[j].op # "read"
    BY <1>2, <1>3 DEF Conflict
<1>9. ~Covered(script, j)
  <2> SUFFICES ASSUME NEW m \in 1 .. done[d], script[m].row = script[j].row,
                      \A op \in Ops : Conflict(op, script[j].op) => Conflict(op, script[m].op)
               PROVE  FALSE
      BY <1>6 DEF Covered
  <2>1. k.op \in Ops
      BY DEF LockInv, TypeOK
  <2>2. Conflict(k.op, script[m].op)
      BY <1>2, <1>3, <2>1
  <2>3. script[m] \in locks[d]
      BY <1>4, <2>2 DEF HoldsWhatItTook, Conflict
  <2> QED BY <1>2, <1>3, <2>2, <2>3 DEF LockInv, LocksExclude
<1> QED BY <1>1, <1>3, <1>5, <1>6, <1>7, <1>8, <1>9 DEF Ordered, Level

\* Whenever transactions wait for each other in a circle, one of them completes
\* a command or appends its output.
THEOREM CirclesStoreResultsCorrect == Spec => []CirclesStoreResults
<1>1. LockInv => CirclesStoreResults
  <2> SUFFICES ASSUME LockInv, NEW S \in SUBSET Clients, Stuck(S),
                      \A c \in S : running[c] \notin StoresResults
               PROVE  FALSE
      BY DEF CirclesStoreResults, StoresResults
  <2> DEFINE Above(n) == \E c \in S : Level(c) >= n
  <2>1. \A c \in S : Level(c) \in 1 .. 7
      BY DEF Level, Rank
  <2>2. Above(1)
      BY <2>1 DEF Stuck
  <2>3. ASSUME NEW n \in Nat, Above(n) PROVE Above(n + 1)
    <3>1. PICK c \in S : Level(c) >= n
        BY <2>3
    <3>2. PICK d \in S : WaitsFor(c, d)
        BY DEF Stuck
    <3>3. PICK e \in S : WaitsFor(d, e)
        BY DEF Stuck
    <3>4. Level(c) < Level(d)
        BY <3>2, <3>3, WaitingGoesUp
    <3> QED BY <2>1, <2>3, <3>1, <3>4
  <2> HIDE DEF Above
  <2>4. Above(8)
      BY <2>2, <2>3
  <2> QED BY <2>1, <2>4 DEF Above
<1> QED BY LockInvCorrect, <1>1, PTL
=============================================================================
