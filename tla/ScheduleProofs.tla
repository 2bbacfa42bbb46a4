--------------------------- MODULE ScheduleProofs ---------------------------
(***************************************************************************)
(* The theorems about Schedule, for any tasks, any length of the cache and *)
(* of the plans, and any number of writers.                                *)
(*                                                                         *)
(* The types and CacheIsFilled hold whatever the writers do to each other  *)
(* and however often a command is repeated.  That a save is all or nothing *)
(* (Schedule implements ScheduleStore) needs two assumptions, which are    *)
(* exactly what the code leaves to luck: that no command is carried out    *)
(* twice, and that transactions do not overlap (OneAtATime).  The          *)
(* invariant for it is DraftIsOurs: a transaction that is still open holds *)
(* the tasks its writer has added, and no other ones.                      *)
(***************************************************************************)
EXTENDS Schedule, SequenceTheorems, TLAPS

USE DEF SavePcs

\* What a save and the app may leave in the mower is a sequence.
LEMMA ListsAreSequences ==
  ASSUME NEW n \in Nat, NEW list \in ListsUpTo(n)
  PROVE  list \in Seq(Tasks) /\ Len(list) \in 0..n
  BY DEF ListsUpTo

LEMMA ListTypes ==
  /\ \A list \in Lists : list \in Seq(Tasks) /\ Len(list) \in 0..MaxTasks
  /\ \A list \in AppLists : list \in Seq(Tasks)
  BY ListsAreSequences, ScheduleConstants DEF Lists, AppLists

-----------------------------------------------------------------------------
(* Types *)

\* Where a writer stands, and how many of its tasks it has added.
Progress ==
    \A w \in Writers :
       /\ pc[w] # "idle" => job[w] \in Lists
       /\ pc[w] = "idle" => job[w] = NoJob
       /\ pc[w] \in {"idle", "wait", "start", "delete"} => added[w] = 0
       /\ pc[w] = "add" => added[w] < Len(job[w])

TInv == TypeOK /\ Progress

LEMMA TInit == Init => TInv
  <1> SUFFICES ASSUME Init PROVE TInv
    OBVIOUS
  <1>1. plan \in Seq(Tasks) /\ 0 \in 0..MaxTasks
    BY ListTypes, ScheduleConstants DEF Init
  <1>2. TypeOK
    BY <1>1 DEF Init, TypeOK
  <1>3. Progress
    BY DEF Init, Progress
  <1> QED
    BY <1>2, <1>3 DEF TInv

\* A step of a writer to another place changes nothing of the others.
LEMMA GoToKeeps ==
  ASSUME TInv, NEW w \in Writers, NEW to \in SavePcs, GoTo(w, to),
         UNCHANGED <<job, added>>,
         to # "idle" => pc[w] # "idle",
         to = "idle" => job[w] = NoJob,
         to \in {"idle", "wait", "start", "delete"} => added[w] = 0,
         to = "add" => added[w] < Len(job[w])
  PROVE  pc' \in [Writers -> SavePcs] /\ Progress'
  BY DEF GoTo, TInv, TypeOK, Progress

LEMMA SaveStepKeepsTypes ==
  ASSUME TInv, NEW w \in Writers, SaveStep(w)
  PROVE  TInv'
  <1> USE DEF TInv
  <1>1. UNCHANGED <<session, reading, readDone, count, index>>
    BY DEF SaveStep, AwaitSession, StartTransaction, DeleteAll, AddTask, Commit,
       StoreCache, ReportFailure, readVars
  <1>2. pc[w] # "idle" /\ job[w] \in Lists
    BY DEF SaveStep, AwaitSession, StartTransaction, DeleteAll, AddTask, Commit,
       StoreCache, ReportFailure, Progress
  <1>3. job[w] \in Seq(Tasks) /\ Len(job[w]) \in 0..MaxTasks
    BY <1>2, ListTypes
  <1>4. ASSUME NEW to \in SavePcs, GoTo(w, to), to # "idle",
               UNCHANGED <<job, added, result, cacheVars>>,
               plan' \in Seq(Tasks), draft' \in Seq(Tasks) \cup {NoDraft},
               to \in {"idle", "wait", "start", "delete"} => added[w] = 0,
               to = "add" => added[w] < Len(job[w])
        PROVE  TInv'
    BY <1>1, <1>2, <1>4, GoToKeeps DEF TypeOK, cacheVars
  <1>5. ASSUME NEW r \in {"ok", "failed"}, Returns(w, r), UNCHANGED mowerVars,
               cache' \in [1..MaxTasks -> Tasks \cup {NoTask}],
               cacheCount' \in 0..MaxTasks, cacheValid' \in BOOLEAN
        PROVE  TInv'
    <2>1. TypeOK'
      BY <1>1, <1>5, ScheduleConstants DEF TypeOK, Returns, GoTo, mowerVars
    <2>2. Progress'
      BY <1>5 DEF TypeOK, Progress, Returns, GoTo
    <2> QED
      BY <2>1, <2>2
  <1>6. CASE AwaitSession(w)
    BY <1>4, <1>6 DEF AwaitSession, TypeOK, Progress, mowerVars, cacheVars
  <1>7. CASE StartTransaction(w)
    <2>1. UNCHANGED <<job, added, result, cacheVars, plan>>
          /\ draft' \in Seq(Tasks) \cup {NoDraft} /\ added[w] = 0
          /\ (GoTo(w, "fail") \/ GoTo(w, "delete"))
      BY <1>7 DEF StartTransaction, Fails, TypeOK, Progress
    <2> QED
      BY <1>4, <2>1 DEF TypeOK
  <1>8. CASE DeleteAll(w)
    <2>1. UNCHANGED <<job, added, result, cacheVars, plan>> /\ added[w] = 0
      BY <1>8 DEF DeleteAll, Fails, Progress
    <2>2. draft' \in Seq(Tasks) \cup {NoDraft}
      <3>1. << >> \in Seq(Tasks)
        OBVIOUS
      <3> QED
        BY <1>8, <3>1 DEF DeleteAll, TypeOK
    <2>3. CASE GoTo(w, "fail")
      BY <1>4, <2>1, <2>2, <2>3 DEF TypeOK
    <2>4. CASE AfterAdding(w, 0)
      <3>1. CASE 0 < Len(job[w])
        BY <1>4, <2>1, <2>2, <2>4, <3>1 DEF AfterAdding, TypeOK
      <3>2. CASE ~(0 < Len(job[w]))
        BY <1>4, <2>1, <2>2, <2>4, <3>2 DEF AfterAdding, TypeOK
      <3> QED
        BY <3>1, <3>2
    <2> QED
      BY <1>8, <2>3, <2>4 DEF DeleteAll, Fails
  <1>9. CASE AddTask(w)
    <2>1. UNCHANGED <<job, result, cacheVars, plan>> /\ added[w] < Len(job[w])
      BY <1>9 DEF AddTask, Progress
    <2>2. added[w] + 1 \in 1..Len(job[w]) /\ job[w][added[w] + 1] \in Tasks
      BY <1>3, <2>1 DEF TypeOK
    <2>3. draft' \in Seq(Tasks) \cup {NoDraft}
      <3>1. ASSUME NEW n \in {1, 2}, draft \in Seq(Tasks),
                   draft' = draft \o [i \in 1..n |-> job[w][added[w] + 1]]
            PROVE  draft' \in Seq(Tasks)
        <4>1. [i \in 1..n |-> job[w][added[w] + 1]] \in Seq(Tasks)
          BY <2>2
        <4> QED
          BY <3>1, <4>1, ConcatProperties
      <3> QED
        BY <1>9, <3>1 DEF AddTask, Copies, TypeOK
    <2>4. CASE Fails(w)
      BY <1>4, <2>1, <2>3, <2>4 DEF Fails, TypeOK
    <2>5. CASE AfterAdding(w, added[w] + 1)
               /\ added' = [added EXCEPT ![w] = @ + 1]
      <3>1. added' \in [Writers -> 0..MaxTasks]
        <4>1. added[w] + 1 \in 0..MaxTasks
          BY <1>3, <2>2, ScheduleConstants
        <4> QED
          BY <2>5, <4>1 DEF TypeOK
      <3>2. pc' \in [Writers -> SavePcs]
        BY <2>5 DEF AfterAdding, GoTo, TypeOK
      <3>3. TypeOK'
        BY <1>1, <2>1, <2>3, <3>1, <3>2 DEF TypeOK, cacheVars
      <3>4. Progress'
        BY <2>1, <2>5, <1>2 DEF AfterAdding, GoTo, TypeOK, Progress
      <3> QED
        BY <3>3, <3>4
    <2> QED
      BY <1>9, <2>4, <2>5 DEF AddTask
  <1>10. CASE Commit(w)
    <2>1. UNCHANGED <<job, added, result, cacheVars>>
          /\ plan' \in Seq(Tasks) /\ draft' \in Seq(Tasks) \cup {NoDraft}
          /\ \E to \in {"store", "unheard", "fail"} : GoTo(w, to)
      BY <1>10 DEF Commit, TypeOK, mowerVars
    <2> QED
      BY <1>4, <2>1
  <1>11. CASE StoreCache(w)
    <2>1. cache' \in [1..MaxTasks -> Tasks \cup {NoTask}]
      BY <1>3, <1>11 DEF StoreCache, TypeOK
    <2> QED
      BY <1>3, <1>5, <1>11, <2>1 DEF StoreCache
  <1>12. CASE ReportFailure(w)
    BY <1>5, <1>12 DEF ReportFailure, cacheVars, TypeOK
  <1> QED
    BY <1>6, <1>7, <1>8, <1>9, <1>10, <1>11, <1>12 DEF SaveStep

\* The reader, the link and the app do not touch what a writer keeps.
LEMMA OthersKeepTypes ==
  ASSUME TInv, ReadCount \/ ReadTask \/ SessionStarts \/ SessionEnds \/ AppEdits
  PROVE  TInv'
  <1> USE DEF TInv
  <1>1. UNCHANGED saveVars
    BY DEF ReadCount, ReadTask, SessionStarts, SessionEnds, AppEdits
  <1>2. Progress'
    BY <1>1 DEF saveVars, Progress
  <1>3. ASSUME NEW n \in 0..MaxTasks, ReadFails \/ ReadEnds(n), UNCHANGED mowerVars,
               UNCHANGED session, cache' \in [1..MaxTasks -> Tasks \cup {NoTask}]
        PROVE  TInv'
    <2>1. 0 \in 0..MaxTasks
      BY ScheduleConstants
    <2> QED
      BY <1>1, <1>2, <1>3, <2>1
         DEF ReadFails, ReadEnds, LeaveRead, TypeOK, saveVars, mowerVars, cacheVars
  <1>4. CASE ReadCount
    <2>1. Clamped(Len(plan)) \in 0..MaxTasks
      BY ScheduleConstants DEF Clamped, TypeOK
    <2>2. UNCHANGED <<mowerVars, session, cache>>
      BY <1>4 DEF ReadCount, ReadFails, cacheVars
    <2>3. CASE ReadFails \/ ReadEnds(0)
      <3>1. 0 \in 0..MaxTasks
        BY ScheduleConstants
      <3> QED
        BY <1>3, <2>2, <2>3, <3>1 DEF TypeOK
    <2>4. CASE /\ reading' = TRUE /\ count' = Clamped(Len(plan)) /\ index' = 0
               /\ UNCHANGED <<readDone, cacheCount, cacheValid>>
      BY <1>1, <1>2, <2>1, <2>2, <2>4, ScheduleConstants
         DEF TypeOK, saveVars, mowerVars
    <2> QED
      BY <1>4, <2>3, <2>4 DEF ReadCount
  <1>5. CASE ReadTask
    <2>1. UNCHANGED <<mowerVars, session>>
      BY <1>5 DEF ReadTask
    <2>2. cache' \in [1..MaxTasks -> Tasks \cup {NoTask}]
      <3>1. ASSUME index < Len(plan) PROVE plan[index + 1] \in Tasks
        BY <3>1 DEF TypeOK
      <3> QED
        BY <1>5, <3>1 DEF ReadTask, ReadFails, cacheVars, TypeOK
    <2>3. CASE ReadFails \/ ReadEnds(count)
      BY <1>3, <2>1, <2>2, <2>3 DEF TypeOK
    <2>4. CASE /\ index + 1 < count /\ index' = index + 1
               /\ UNCHANGED <<reading, count, readDone, cacheCount, cacheValid>>
      <3>1. index' \in 0..MaxTasks
        BY <2>4, ScheduleConstants DEF TypeOK
      <3> QED
        BY <1>1, <1>2, <2>1, <2>2, <2>4, <3>1 DEF TypeOK, saveVars, mowerVars
    <2> QED
      BY <1>5, <2>3, <2>4 DEF ReadTask
  <1>6. CASE SessionStarts \/ SessionEnds \/ AppEdits
    BY <1>1, <1>2, <1>6, ListTypes
       DEF SessionStarts, SessionEnds, AppEdits, TypeOK, saveVars, readVars,
           mowerVars, cacheVars
  <1> QED
    BY <1>4, <1>5, <1>6

LEMMA SaveKeepsTypes ==
  ASSUME TInv, NEW w \in Writers, NEW list \in Lists, Save(w, list)
  PROVE  TInv'
  <1> USE DEF TInv, Save, GoTo
  <1>1. TypeOK'
    BY DEF TypeOK, mowerVars, readVars, cacheVars
  <1>2. Progress'
    BY DEF TypeOK, Progress
  <1> QED
    BY <1>1, <1>2

LEMMA StepKeepsTypes == TInv /\ [Next]_vars => TInv'
  <1> SUFFICES ASSUME TInv, [Next]_vars PROVE TInv'
    OBVIOUS
  <1>1. CASE UNCHANGED vars
    BY <1>1 DEF TInv, TypeOK, Progress, vars, mowerVars, saveVars, readVars,
       cacheVars
  <1>2. CASE Next
    BY <1>2, SaveStepKeepsTypes, SaveKeepsTypes, OthersKeepTypes DEF Next
  <1> QED
    BY <1>1, <1>2

\* The types, the length of the cache with them, however long the plan of the
\* mower is and whatever the writers are at.
THEOREM TypeCorrect == Spec => []TypeOK
  <1>1. TInv => TypeOK
    BY DEF TInv
  <1> QED
    BY TInit, StepKeepsTypes, <1>1, PTL DEF Spec
-----------------------------------------------------------------------------
(* The cache *)

\* An entry that counts was filled in: of the cache that is published, and of
\* the part that the read in progress has got so far.
Filled ==
    /\ cacheValid => \A i \in 1..cacheCount : cache[i] # NoTask
    /\ reading => index < count /\ \A i \in 1..index : cache[i] # NoTask

\* The two that write the cache, a save and a read, write tasks only.
LEMMA EntriesStayFilled ==
  ASSUME TInv, [Next]_vars, NEW i \in 1..MaxTasks, cache[i] # NoTask
  PROVE  cache'[i] # NoTask
  <1>1. ASSUME NEW w \in Writers, StoreCache(w)
        PROVE  cache'[i] # NoTask
    <2>1. job[w] \in Seq(Tasks)
      BY <1>1, ListTypes DEF StoreCache, TInv, Progress
    <2>2. CASE i <= Len(job[w])
      <3>1. job[w][i] \in Tasks
        BY <2>1, <2>2
      <3> QED
        BY <1>1, <2>2, <3>1, ScheduleConstants DEF StoreCache
    <2>3. CASE ~(i <= Len(job[w]))
      BY <1>1, <2>3 DEF StoreCache
    <2> QED
      BY <2>2, <2>3
  <1>2. CASE ReadTask
    <2>1. CASE UNCHANGED cache
      BY <2>1
    <2>2. CASE /\ index < Len(plan)
               /\ cache' = [cache EXCEPT ![index + 1] = plan[index + 1]]
      <3>1. plan[index + 1] \in Tasks
        BY <2>2 DEF TInv, TypeOK
      <3> QED
        BY <2>2, <3>1, ScheduleConstants DEF TInv, TypeOK
    <2> QED
      BY <1>2, <2>1, <2>2 DEF ReadTask, ReadFails, cacheVars
  <1>3. (\E w \in Writers : StoreCache(w)) \/ ReadTask \/ UNCHANGED cache
    BY DEF Next, SaveStep, Save, AwaitSession, StartTransaction, DeleteAll, AddTask,
       Commit, ReportFailure, ReadCount, ReadFails, SessionStarts, SessionEnds,
       AppEdits, vars, cacheVars
  <1> QED
    BY <1>1, <1>2, <1>3

LEMMA FilledInit == Init => Filled
  BY DEF Init, Filled

LEMMA StepKeepsFilled == TInv /\ Filled /\ [Next]_vars => Filled'
  <1> SUFFICES ASSUME TInv, Filled, [Next]_vars PROVE Filled'
    OBVIOUS
  <1>1. \A i \in 1..MaxTasks : cache[i] # NoTask => cache'[i] # NoTask
    BY EntriesStayFilled
  <1>2. /\ MaxTasks \in Nat /\ cacheCount \in 0..MaxTasks /\ count \in 0..MaxTasks
        /\ index \in 0..MaxTasks
    BY ScheduleConstants DEF TInv, TypeOK
  <1>3. ASSUME UNCHANGED <<reading, count, index, cacheCount, cacheValid>>
        PROVE  Filled'
    BY <1>1, <1>2, <1>3 DEF Filled
  <1>4. ASSUME NEW w \in Writers, StoreCache(w)
        PROVE  Filled'
    <2>1. job[w] \in Seq(Tasks) /\ Len(job[w]) \in 0..MaxTasks
      BY <1>4, ListTypes DEF StoreCache, TInv, Progress
    <2>2. \A i \in 1..Len(job[w]) : cache'[i] # NoTask
      <3>1. \A i \in 1..Len(job[w]) : job[w][i] # NoTask /\ i \in 1..MaxTasks
        BY <1>2, <2>1, ScheduleConstants
      <3> QED
        BY <1>4, <3>1 DEF StoreCache
    <2> QED
      BY <1>1, <1>2, <1>4, <2>2 DEF Filled, StoreCache, readVars
  <1>5. CASE ReadFails
    BY <1>1, <1>2, <1>5 DEF Filled, ReadFails, LeaveRead, cacheVars
  <1>6. CASE ReadCount
    <2>1. CASE ReadEnds(0)
      BY <2>1 DEF Filled, ReadEnds, LeaveRead
    <2>2. CASE /\ Clamped(Len(plan)) > 0 /\ count' = Clamped(Len(plan))
               /\ index' = 0 /\ UNCHANGED <<cacheCount, cacheValid>>
      BY <1>1, <1>2, <2>2 DEF Filled
    <2> QED
      BY <1>5, <1>6, <2>1, <2>2 DEF ReadCount
  <1>7. CASE ReadTask
    <2>1. ASSUME reading, index < Len(plan),
                 cache' = [cache EXCEPT ![index + 1] = plan[index + 1]]
          PROVE  \A i \in 1..(index + 1) : cache'[i] # NoTask
      <3>1. index + 1 \in 1..MaxTasks /\ index < count
        BY <1>2, <2>1 DEF Filled
      <3>2. plan[index + 1] # NoTask
        BY <2>1, <1>2, ScheduleConstants DEF TInv, TypeOK
      <3>3. cache'[index + 1] # NoTask
        BY <2>1, <3>1, <3>2 DEF TInv, TypeOK
      <3>4. ASSUME NEW i \in 1..index PROVE cache'[i] # NoTask
        BY <1>1, <1>2, <2>1, <3>4 DEF Filled
      <3> QED
        BY <1>2, <3>3, <3>4
    <2>2. CASE index < Len(plan) /\ index + 1 = count /\ ReadEnds(count)
               /\ cache' = [cache EXCEPT ![index + 1] = plan[index + 1]]
      BY <1>7, <2>1, <2>2 DEF Filled, ReadEnds, LeaveRead, ReadTask
    <2>3. CASE /\ index < Len(plan) /\ index + 1 < count /\ index' = index + 1
               /\ cache' = [cache EXCEPT ![index + 1] = plan[index + 1]]
               /\ UNCHANGED <<reading, count, cacheCount, cacheValid>>
      BY <1>1, <1>2, <1>7, <2>1, <2>3 DEF Filled, ReadTask
    <2> QED
      BY <1>5, <1>7, <2>2, <2>3 DEF ReadTask
  <1>8. \/ \E w \in Writers : StoreCache(w)
        \/ ReadCount \/ ReadTask
        \/ UNCHANGED <<reading, count, index, cacheCount, cacheValid>>
    BY DEF Next, SaveStep, Save, AwaitSession, StartTransaction, DeleteAll, AddTask,
       Commit, ReportFailure, SessionStarts, SessionEnds, AppEdits, vars, cacheVars,
       readVars
  <1> QED
    BY <1>3, <1>4, <1>6, <1>7, <1>8

\* What get_schedule_cache() returns was filled in to the last entry, also
\* when any number of saves and a read write the cache at the same time, and
\* when answers are lost.
THEOREM CacheAlwaysFilled == Spec => []CacheIsFilled
  <1>1. TInv /\ Filled => CacheIsFilled
    BY DEF Filled, CacheIsFilled, CachedPlan
  <1> QED
    BY TInit, StepKeepsTypes, FilledInit, StepKeepsFilled, <1>1, PTL DEF Spec
-----------------------------------------------------------------------------
(* Saving replaces the whole plan or nothing *)

\* The calls between which the mower's transaction is this writer's.
InTransaction == {"start", "delete", "add", "commit"}

\* Nothing in the code makes it so: _ble_io_mutex covers one command.  It is
\* so while one task saves at a time.
OneAtATime ==
    \A v, w \in Writers :
       pc[v] \in InTransaction /\ pc[w] \in InTransaction => v = w

\* A transaction that is still open when its writer adds to it or commits it
\* holds the tasks the writer has added, in their order and each of them once.
DraftIsOurs ==
    \A w \in Writers :
       /\ pc[w] = "commit" => added[w] = Len(job[w])
       /\ pc[w] \in {"add", "commit"} /\ draft # NoDraft =>
            /\ Len(draft) = added[w]
            /\ \A i \in 1..added[w] : draft[i] = job[w][i]

LEMMA DraftInit == Init => DraftIsOurs
  BY DEF Init, DraftIsOurs

\* What is true of one writer stays true when its draft is left alone.
LEMMA DraftLeftAlone ==
  ASSUME DraftIsOurs, NEW v \in Writers,
         UNCHANGED draft \/ draft' = NoDraft,
         pc'[v] \in {"add", "commit"} =>
            pc'[v] = pc[v] /\ job'[v] = job[v] /\ added'[v] = added[v]
  PROVE  /\ pc'[v] = "commit" => added'[v] = Len(job'[v])
         /\ pc'[v] \in {"add", "commit"} /\ draft' # NoDraft =>
              /\ Len(draft') = added'[v]
              /\ \A i \in 1..added'[v] : draft'[i] = job'[v][i]
  BY DEF DraftIsOurs

\* The others are not in a transaction while w is.
LEMMA DraftOfTheOthers ==
  ASSUME TInv, OneAtATime, DraftIsOurs, NEW w \in Writers, SaveStep(w),
         pc[w] \in InTransaction, NEW v \in Writers, v # w
  PROVE  /\ pc'[v] = "commit" => added'[v] = Len(job'[v])
         /\ pc'[v] \in {"add", "commit"} /\ draft' # NoDraft =>
              /\ Len(draft') = added'[v]
              /\ \A i \in 1..added'[v] : draft'[i] = job'[v][i]
  <1>1. pc[v] \notin InTransaction
    BY DEF OneAtATime
  <1>2. pc'[v] = pc[v]
    BY DEF SaveStep, AwaitSession, StartTransaction, DeleteAll, AddTask, Commit,
       StoreCache, ReportFailure, Returns, Fails, AfterAdding, GoTo, TInv, TypeOK
  <1> QED
    BY <1>1, <1>2 DEF InTransaction

LEMMA StepKeepsDraft ==
  ASSUME ~LostAnswers, TInv, OneAtATime, DraftIsOurs, [Next]_vars
  PROVE  DraftIsOurs'
  <1> DEFINE Ours(v) ==
        /\ pc[v] = "commit" => added[v] = Len(job[v])
        /\ pc[v] \in {"add", "commit"} /\ draft # NoDraft =>
             /\ Len(draft) = added[v]
             /\ \A i \in 1..added[v] : draft[i] = job[v][i]
  <1>1. CASE (UNCHANGED draft \/ draft' = NoDraft) /\ UNCHANGED <<pc, job, added>>
    BY <1>1, DraftLeftAlone DEF DraftIsOurs
  <1>2. ASSUME NEW w \in Writers, NEW list \in Lists, Save(w, list)
        PROVE  DraftIsOurs'
    <2>1. UNCHANGED draft
      BY <1>2 DEF Save, mowerVars
    <2>2. ASSUME NEW v \in Writers, pc'[v] \in {"add", "commit"}
          PROVE  pc'[v] = pc[v] /\ job'[v] = job[v] /\ added'[v] = added[v]
      BY <1>2, <2>2 DEF Save, GoTo, TInv, TypeOK
    <2> QED
      BY <2>1, <2>2, DraftLeftAlone DEF DraftIsOurs
  <1>3. ASSUME NEW w \in Writers, SaveStep(w), pc[w] \notin InTransaction
        PROVE  DraftIsOurs'
    <2>1. AwaitSession(w) \/ StoreCache(w) \/ ReportFailure(w)
      BY <1>3 DEF SaveStep, StartTransaction, DeleteAll, AddTask, Commit,
         InTransaction
    <2>2. UNCHANGED draft
      BY <2>1 DEF AwaitSession, StoreCache, ReportFailure, mowerVars
    <2>3. ASSUME NEW v \in Writers, pc'[v] \in {"add", "commit"}
          PROVE  pc'[v] = pc[v] /\ job'[v] = job[v] /\ added'[v] = added[v]
      BY <2>1, <2>3 DEF AwaitSession, StoreCache, ReportFailure, Returns, GoTo,
         TInv, TypeOK
    <2> QED
      BY <2>2, <2>3, DraftLeftAlone DEF DraftIsOurs
  <1>4. ASSUME NEW w \in Writers, SaveStep(w), pc[w] \in InTransaction
        PROVE  DraftIsOurs'
    <2>1. SUFFICES Ours(w)'
      BY <1>4, DraftOfTheOthers DEF DraftIsOurs
    <2>2. pc[w] \in SavePcs /\ pc \in [Writers -> SavePcs]
          /\ job[w] \in Seq(Tasks) /\ Len(job[w]) \in Nat
          /\ added \in [Writers -> 0..MaxTasks] /\ added[w] \in Nat
      BY <1>4, ListTypes, ScheduleConstants
         DEF TInv, TypeOK, Progress, InTransaction
    <2>3. ASSUME NEW to \in SavePcs \ {"add", "commit"}, GoTo(w, to)
          PROVE  Ours(w)'
      BY <2>2, <2>3 DEF GoTo
    <2>4. CASE StartTransaction(w)
      BY <2>3, <2>4 DEF StartTransaction, Fails
    <2>5. CASE DeleteAll(w)
      <3>1. CASE Fails(w)
        BY <2>3, <3>1 DEF Fails
      <3>2. CASE /\ draft' = << >> /\ AfterAdding(w, 0)
                 /\ UNCHANGED <<job, added>>
        <4>1. added[w] = 0
          BY <2>5 DEF DeleteAll, TInv, Progress
        <4>2. pc'[w] = "commit" => Len(job[w]) = 0
          BY <2>2, <3>2 DEF AfterAdding, GoTo
        <4>3. Len(draft') = 0 /\ 1..added[w] = {}
          BY <3>2, <4>1
        <4> QED
          BY <3>2, <4>1, <4>2, <4>3
      <3> QED
        BY <2>5, <3>1, <3>2 DEF DeleteAll
    <2>6. CASE AddTask(w)
      <3>1. CASE Fails(w)
        BY <2>3, <3>1 DEF Fails
      <3>2. CASE /\ draft # NoDraft /\ AfterAdding(w, added[w] + 1)
                 /\ draft' = draft \o [i \in 1..1 |-> job[w][added[w] + 1]]
                 /\ added' = [added EXCEPT ![w] = @ + 1] /\ UNCHANGED job
        <4>1. /\ pc[w] = "add" /\ added[w] < Len(job[w])
              /\ draft \in Seq(Tasks) /\ Len(draft) = added[w]
              /\ \A i \in 1..added[w] : draft[i] = job[w][i]
          BY <2>6, <3>2 DEF AddTask, TInv, TypeOK, Progress, DraftIsOurs
        <4>2. job[w][added[w] + 1] \in Tasks /\ added'[w] = added[w] + 1
          BY <2>2, <3>2, <4>1
        <4>3. pc'[w] = "commit" => added'[w] = Len(job[w])
          BY <2>2, <3>2, <4>1, <4>2 DEF AfterAdding, GoTo
        <4>4. Len(draft') = added[w] + 1
              /\ \A i \in 1..(added[w] + 1) : draft'[i] = job[w][i]
          <5> DEFINE one == [i \in 1..1 |-> job[w][added[w] + 1]]
          <5>1. one \in Seq(Tasks) /\ Len(one) = 1
                /\ one[1] = job[w][added[w] + 1]
            BY <4>2
          <5> HIDE DEF one
          <5> QED
            BY <2>2, <3>2, <4>1, <5>1, ConcatProperties DEF one
        <4> QED
          BY <3>2, <4>2, <4>3, <4>4
      <3> QED
        BY <2>6, <3>1, <3>2 DEF AddTask, Copies
    <2>7. CASE Commit(w)
      BY <2>3, <2>7 DEF Commit
    <2> QED
      BY <1>4, <2>4, <2>5, <2>6, <2>7
         DEF SaveStep, AwaitSession, StoreCache, ReportFailure, InTransaction
  <1>5. CASE ReadCount \/ ReadTask \/ SessionStarts \/ SessionEnds \/ AppEdits
             \/ UNCHANGED vars
    BY <1>1, <1>5 DEF ReadCount, ReadTask, SessionStarts, SessionEnds, AppEdits,
       vars, mowerVars, saveVars
  <1> QED
    BY <1>2, <1>3, <1>4, <1>5 DEF Next

\* The writers whose list has replaced the plan and who were not told yet.
Saved == {w \in Writers : pc[w] \in {"store", "unheard"}}

LEMMA SavedMoves ==
  ASSUME TInv, NEW w \in Writers, NEW to \in SavePcs, GoTo(w, to)
  PROVE  /\ to \in {"store", "unheard"} => Saved' = Saved \cup {w}
         /\ to \notin {"store", "unheard"} => Saved' = Saved \ {w}
  BY DEF TInv, TypeOK, GoTo, Saved

LEMMA StoreInit == Init => Store!Init
  BY DEF Init, Store!Init

\* The steps of a save before the commit are not seen by the promise, whatever
\* becomes of them.
LEMMA CallsOfASave ==
  ASSUME TInv, NEW w \in Writers,
         AwaitSession(w) \/ StartTransaction(w) \/ DeleteAll(w) \/ AddTask(w)
  PROVE  UNCHANGED Store!vars
  <1>1. UNCHANGED <<plan, session, job, result>>
    BY DEF AwaitSession, StartTransaction, DeleteAll, AddTask, mowerVars
  <1>2. w \notin Saved
    BY DEF Saved, AwaitSession, StartTransaction, DeleteAll, AddTask
  <1>3. \E to \in {"start", "delete", "add", "commit", "fail"} : GoTo(w, to)
    BY DEF AwaitSession, StartTransaction, DeleteAll, AddTask, Fails, AfterAdding
  <1>4. UNCHANGED Saved
    BY <1>2, <1>3, SavedMoves
  <1> QED
    BY <1>1, <1>4 DEF Store!vars, Saved

\* The commit replaces the plan by the list that was saved; one that fails
\* changes nothing.
LEMMA CommitReplaces ==
  ASSUME TInv, DraftIsOurs, NEW w \in Writers, Commit(w)
  PROVE  /\ pc'[w] \in {"store", "unheard"} => plan' = job[w]
         /\ Store!Replace(w) \/ UNCHANGED Store!vars
  <1>1. job[w] \in Lists /\ job[w] # NoJob /\ w \notin Saved
        /\ job[w] \in Seq(Tasks)
    BY ListTypes, ScheduleConstants DEF Commit, TInv, Progress, Saved
  <1>2. CASE /\ session /\ draft # NoDraft /\ plan' = draft
             /\ GoTo(w, "store") \/ GoTo(w, "unheard")
    <2>1. draft \in Seq(Tasks) /\ Len(draft) = Len(job[w])
          /\ \A i \in 1..Len(job[w]) : draft[i] = job[w][i]
      BY <1>2 DEF Commit, DraftIsOurs, TInv, TypeOK
    <2>2. draft = job[w]
      BY <1>1, <2>1
    <2>3. Saved' = Saved \cup {w}
      BY <1>2, SavedMoves
    <2> QED
      BY <1>1, <1>2, <2>2, <2>3 DEF Commit, Store!Replace, Saved
  <1>3. CASE GoTo(w, "fail") /\ UNCHANGED mowerVars
    <2>1. UNCHANGED Saved
      BY <1>1, <1>3, SavedMoves
    <2>2. pc'[w] = "fail"
      BY <1>3 DEF GoTo, TInv, TypeOK
    <2> QED
      BY <1>3, <2>1, <2>2 DEF Commit, Store!vars, Saved, mowerVars
  <1> QED
    BY <1>2, <1>3 DEF Commit

\* Success is reported of a list that did replace the plan.
LEMMA SaveIsTold ==
  ASSUME TInv, NEW w \in Writers, StoreCache(w) \/ ReportFailure(w)
  PROVE  \E r \in {"ok", "failed"} : Store!Tell(w, r)
  <1>1. job[w] # NoJob
    BY ScheduleConstants DEF StoreCache, ReportFailure, TInv, Progress
  <1>2. Saved' = Saved \ {w}
    BY SavedMoves DEF StoreCache, ReportFailure, Returns
  <1>3. CASE StoreCache(w)
    <2>1. w \in Saved
      BY <1>3 DEF StoreCache, Saved
    <2>2. Store!Tell(w, "ok")
      BY <1>1, <1>2, <1>3, <2>1 DEF StoreCache, Returns, Store!Tell, Saved, mowerVars
    <2> QED
      BY <2>2
  <1>4. CASE ReportFailure(w)
    <2>1. Store!Tell(w, "failed")
      BY <1>1, <1>2, <1>4 DEF ReportFailure, Returns, Store!Tell, Saved, mowerVars
    <2> QED
      BY <2>1
  <1> QED
    BY <1>3, <1>4

LEMMA SaveAsks ==
  ASSUME TInv, NEW w \in Writers, NEW list \in Lists, Save(w, list)
  PROVE  Store!Ask(w, list)
  <1>1. job[w] = NoJob /\ w \notin Saved
    BY DEF Save, TInv, Progress, Saved
  <1>2. Saved' = Saved
    BY <1>1, SavedMoves DEF Save
  <1> QED
    BY <1>1, <1>2 DEF Save, Store!Ask, Saved, mowerVars

LEMMA StepImplementsStore ==
  ASSUME TInv, DraftIsOurs, [Next]_vars
  PROVE  [Store!Next]_(Store!vars)
  <1>1. ASSUME NEW w \in Writers, SaveStep(w) \/ \E list \in Lists : Save(w, list)
        PROVE  [Store!Next]_(Store!vars)
    BY <1>1, CallsOfASave, CommitReplaces, SaveIsTold, SaveAsks
       DEF SaveStep, Store!Next
  <1>2. CASE ReadCount \/ ReadTask \/ UNCHANGED vars
    BY <1>2 DEF ReadCount, ReadTask, vars, saveVars, mowerVars, Store!vars
  <1>3. CASE SessionStarts \/ SessionEnds
    <2>1. Store!Session
      BY <1>3 DEF SessionStarts, SessionEnds, saveVars, mowerVars, Store!Session,
         TInv, TypeOK
    <2> QED
      BY <2>1 DEF Store!Next
  <1>4. CASE AppEdits
    BY <1>4 DEF AppEdits, saveVars, Store!AppEdit, Store!Next
  <1> QED
    BY <1>1, <1>2, <1>3, <1>4 DEF Next

\* As long as no command is carried out twice and no transaction runs into
\* another, a save replaces the mower's whole plan by its list or leaves it
\* alone, whenever the link drops and whatever fails, and success is reported
\* only of a list that is in force.
THEOREM SavesAreWhole ==
  ASSUME ~LostAnswers
  PROVE  Spec /\ []OneAtATime => SavesWhole
  <1>1. TInv /\ DraftIsOurs /\ OneAtATime /\ [Next]_vars => DraftIsOurs'
    BY StepKeepsDraft
  <1>2. TInv /\ DraftIsOurs /\ [Next]_vars => [Store!Next]_(Store!vars)
    BY StepImplementsStore
  <1> QED
    BY TInit, StepKeepsTypes, DraftInit, StoreInit, <1>1, <1>2, PTL
       DEF Spec, SavesWhole, Store!Spec

\* One writer cannot meet another one.
COROLLARY OneWriterSavesWhole ==
  ASSUME ~LostAnswers, \A v, w \in Writers : v = w
  PROVE  Spec => SavesWhole
  <1>1. OneAtATime
    BY DEF OneAtATime
  <1>2. Spec => []OneAtATime
    BY <1>1, PTL
  <1> QED
    BY <1>2, SavesAreWhole

\* Under the same conditions the plan that a writer is told it has saved is
\* its list, which the run with two writers and lost answers refutes.
THEOREM TheSavedPlanIsTheList ==
  ASSUME ~LostAnswers
  PROVE  Spec /\ []OneAtATime => SavedPlanIsAList
  <1>1. TInv /\ DraftIsOurs /\ OneAtATime /\ [Next]_vars => DraftIsOurs'
    BY StepKeepsDraft
  <1>2. TInv /\ DraftIsOurs /\ [Next]_vars =>
          [\A w \in Writers : Commit(w) /\ pc'[w] = "store" => plan' = job[w]]_vars
    BY CommitReplaces
  <1> QED
    BY TInit, StepKeepsTypes, DraftInit, <1>1, <1>2, PTL
       DEF Spec, SavedPlanIsAList
=============================================================================
