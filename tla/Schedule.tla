------------------------------ MODULE Schedule ------------------------------
(***************************************************************************)
(* Reading and saving the mower's schedule (components/ble/ble_manager.cpp:*)
(* 571-713 and 2152-2222).  The web server's handler and the one-shot      *)
(* tasks of the MQTT client save; conn_task reads the schedule once per    *)
(* session into the cache that MQTT publishes.  _ble_io_mutex covers one   *)
(* command or query, its retry included, and nothing covers a transaction: *)
(* a step here is one command or query.                                    *)
(*                                                                         *)
(* The mower is external.  It is modelled from how the code uses it: Start *)
(* opens a draft that holds the plan and discards an older draft, Commit   *)
(* makes the draft the plan, the commands in between need a draft, and a   *)
(* draft is lost with the link.  Late answers to another command are not   *)
(* modelled.  Bug_X is a plausible mistake in the code behind X, for the   *)
(* mutants.                                                                *)
(***************************************************************************)
EXTENDS Naturals, Sequences

CONSTANTS
    Writers,        \* tasks that may save at the same time
    Tasks,          \* schedule entries
    NoTask,         \* what an unused entry of the cache holds
    NoDraft,        \* the mower has no transaction open
    NoJob,          \* a writer that saves nothing
    MaxTasks,       \* length of _sched_cache
    MaxPlan,        \* bound: length of what the official app may save
    MaxDraft,       \* external bound: the tasks a mower holds
    LostAnswers     \* may the answer to a command be lost and the command
                    \* be sent again?

ListsUpTo(n) == UNION {[1..k -> Tasks] : k \in 0..n}
Lists    == ListsUpTo(MaxTasks)
AppLists == ListsUpTo(MaxPlan)

ASSUME ScheduleConstants ==
    /\ NoTask \notin Tasks /\ NoJob \notin Lists
    /\ MaxTasks \in Nat /\ MaxPlan \in Nat /\ MaxDraft \in Nat
    /\ LostAnswers \in BOOLEAN

VARIABLES
    plan,       \* external: the schedule in force
    draft,      \* external: the transaction that is open
    session,    \* is_authenticated(), on a link that is up
    job,        \* per writer: the tasks to save
    pc,         \* per writer: the call it is at
    added,      \* per writer: tasks added so far
    result,     \* per writer: what write_schedule_wake returned last
    reading,    \* conn_task is in _read_schedule()
    count,      \* its local: tasks to read
    index,      \* its local: tasks read so far
    readDone,   \* _sched_read_this_session
    cache,      \* _sched_cache
    cacheCount, \* _sched_count
    cacheValid  \* _sched_valid

mowerVars == <<plan, draft>>
saveVars  == <<job, pc, added, result>>
readVars  == <<reading, count, index, readDone>>
cacheVars == <<cache, cacheCount, cacheValid>>
vars == <<mowerVars, session, saveVars, readVars, cacheVars>>

SavePcs == {"idle", "wait", "start", "delete", "add", "commit", "store",
            "unheard", "fail"}

Init ==
    /\ plan \in AppLists /\ draft = NoDraft
    /\ session = FALSE
    /\ job = [w \in Writers |-> NoJob]
    /\ pc = [w \in Writers |-> "idle"]
    /\ added = [w \in Writers |-> 0]
    /\ result = [w \in Writers |-> "none"]
    /\ reading = FALSE /\ count = 0 /\ index = 0 /\ readDone = FALSE
    /\ cache = [i \in 1..MaxTasks |-> NoTask]
    /\ cacheCount = 0 /\ cacheValid = FALSE

\* get_schedule_cache()
CachedPlan == [i \in 1..cacheCount |-> cache[i]]

-----------------------------------------------------------------------------
(* Saving: write_schedule_wake() and _write_schedule() *)

GoTo(w, to) == pc' = [pc EXCEPT ![w] = to]

\* The handler of the web server, or write_schedule_wake_async(), which drops
\* the list when it gets no memory or no task.
Save(w, list) ==
    /\ pc[w] = "idle"
    /\ job' = [job EXCEPT ![w] = list] /\ UNCHANGED added
    /\ result' = [result EXCEPT ![w] = "none"]
    /\ \E to \in {"wait", "fail"} : GoTo(w, to)
    /\ UNCHANGED <<mowerVars, session, readVars, cacheVars>>

\* The wait has no end.
Bug_AwaitSession(w) ==
    /\ pc[w] = "wait" /\ session
    /\ GoTo(w, "start")
    /\ UNCHANGED <<mowerVars, session, job, added, result, readVars, cacheVars>>

\* A session within 45 s, or none.
AwaitSession(w) ==
    /\ pc[w] = "wait"
    /\ GoTo(w, IF session THEN "start" ELSE "fail")
    /\ UNCHANGED <<mowerVars, session, job, added, result, readVars, cacheVars>>

\* A command that failed: nothing came of it, or the mower did not answer.
Fails(w) == GoTo(w, "fail") /\ UNCHANGED added

StartTransaction(w) ==
    /\ pc[w] = "start"
    /\ \/ /\ session /\ draft' = plan
          /\ Fails(w) \/ (GoTo(w, "delete") /\ UNCHANGED added)
       \/ Fails(w) /\ UNCHANGED draft
    /\ UNCHANGED <<plan, session, job, result, readVars, cacheVars>>

\* What follows when n tasks have been added.
AfterAdding(w, n) == GoTo(w, IF n < Len(job[w]) THEN "add" ELSE "commit")

\* A failure to delete is ignored.
Bug_DeleteAll(w) ==
    /\ pc[w] = "delete"
    /\ session /\ draft # NoDraft
    /\ draft' \in {draft, << >>}
    /\ AfterAdding(w, 0) /\ UNCHANGED added
    /\ UNCHANGED <<plan, session, job, result, readVars, cacheVars>>

DeleteAll(w) ==
    /\ pc[w] = "delete"
    /\ \/ /\ session /\ draft # NoDraft /\ draft' = << >>
          /\ Fails(w) \/ (AfterAdding(w, 0) /\ UNCHANGED added)
       \/ Fails(w) /\ UNCHANGED draft
    /\ UNCHANGED <<plan, session, job, result, readVars, cacheVars>>

\* send_command() sends an unanswered command once more.
Copies == IF LostAnswers THEN {1, 2} ELSE {1}

AddTask(w) ==
    /\ pc[w] = "add"
    /\ \/ /\ session /\ draft # NoDraft
          /\ \E n \in Copies :
               /\ Len(draft) + n <= MaxDraft
               /\ draft' = draft \o [i \in 1..n |-> job[w][added[w] + 1]]
          /\ \/ Fails(w)
             \/ /\ AfterAdding(w, added[w] + 1)
                /\ added' = [added EXCEPT ![w] = @ + 1]
       \/ Fails(w) /\ UNCHANGED draft
    /\ UNCHANGED <<plan, session, job, result, readVars, cacheVars>>

\* When the answer is lost the mower has the new plan and nobody knows: the
\* retry, if there is one, is declined.
Commit(w) ==
    /\ pc[w] = "commit"
    /\ \/ /\ session /\ draft # NoDraft
          /\ plan' = draft /\ draft' = NoDraft
          /\ GoTo(w, "store") \/ GoTo(w, "unheard")
       \/ GoTo(w, "fail") /\ UNCHANGED mowerVars
    /\ UNCHANGED <<session, job, added, result, readVars, cacheVars>>

\* The save returns; its locals are gone.
Returns(w, r) ==
    /\ GoTo(w, "idle") /\ job' = [job EXCEPT ![w] = NoJob]
    /\ added' = [added EXCEPT ![w] = 0]
    /\ result' = [result EXCEPT ![w] = r]

\* The list replaces the cache and success is reported.
StoreCache(w) ==
    /\ pc[w] = "store"
    /\ cache' = [i \in 1..MaxTasks |-> IF i <= Len(job[w]) THEN job[w][i]
                                                           ELSE cache[i]]
    /\ cacheCount' = Len(job[w]) /\ cacheValid' = TRUE
    /\ Returns(w, "ok")
    /\ UNCHANGED <<mowerVars, session, readVars>>

ReportFailure(w) ==
    /\ pc[w] \in {"fail", "unheard"}
    /\ Returns(w, "failed")
    /\ UNCHANGED <<mowerVars, session, readVars, cacheVars>>

SaveStep(w) ==
    \/ AwaitSession(w) \/ StartTransaction(w) \/ DeleteAll(w) \/ AddTask(w)
    \/ Commit(w) \/ StoreCache(w) \/ ReportFailure(w)

-----------------------------------------------------------------------------
(* conn_task: the end of do_status_poll(), once per session *)

\* _read_schedule() returns; its locals are gone.
LeaveRead ==
    /\ reading' = FALSE /\ readDone' = TRUE
    /\ count' = 0 /\ index' = 0

\* The result of the read is not looked at.
Bug_ReadFails ==
    /\ LeaveRead
    /\ cacheCount' = count /\ cacheValid' = TRUE
    /\ UNCHANGED cache

\* A query failed; the schedule is not read again in this session.
ReadFails ==
    /\ LeaveRead
    /\ UNCHANGED cacheVars

\* The schedule is read: it is what get_schedule_cache() returns from now on.
ReadEnds(n) ==
    /\ LeaveRead
    /\ cacheCount' = n /\ cacheValid' = TRUE

\* The mower's count is not clamped to the buffer.
Bug_Clamped(n) == n

Clamped(n) == IF n > MaxTasks THEN MaxTasks ELSE n

\* GetNumberOfTasks
ReadCount ==
    /\ ~reading /\ session /\ ~readDone
    /\ \/ ReadFails
       \/ /\ LET n == Clamped(Len(plan)) IN
               \/ n = 0 /\ ReadEnds(0)
               \/ /\ n > 0
                  /\ reading' = TRUE /\ count' = n /\ index' = 0
                  /\ UNCHANGED <<readDone, cacheCount, cacheValid>>
          /\ UNCHANGED cache
    /\ UNCHANGED <<mowerVars, session, saveVars>>

\* GetTask, into the cache itself
ReadTask ==
    /\ reading
    /\ \/ ReadFails
       \/ /\ session /\ index < Len(plan)
          /\ cache' = [cache EXCEPT ![index + 1] = plan[index + 1]]
          /\ \/ index + 1 = count /\ ReadEnds(count)
             \/ /\ index + 1 < count /\ index' = index + 1
                /\ UNCHANGED <<reading, count, readDone, cacheCount,
                               cacheValid>>
    /\ UNCHANGED <<mowerVars, session, saveVars>>

\* The link to the mower, and what others do with the mower meanwhile.
SessionStarts ==
    /\ ~session /\ ~reading
    /\ session' = TRUE /\ readDone' = FALSE
    /\ UNCHANGED <<mowerVars, saveVars, reading, count, index, cacheVars>>

SessionEnds ==
    /\ session
    /\ session' = FALSE /\ draft' = NoDraft
    /\ UNCHANGED <<plan, saveVars, readVars, cacheVars>>

AppEdits ==
    /\ ~session
    /\ plan' \in AppLists
    /\ UNCHANGED <<draft, session, saveVars, readVars, cacheVars>>

Next ==
    \/ \E w \in Writers : SaveStep(w) \/ \E list \in Lists : Save(w, list)
    \/ ReadCount \/ ReadTask
    \/ SessionStarts \/ SessionEnds \/ AppEdits

\* Every wait in a save or in a read has a timeout.
Fairness ==
    /\ \A w \in Writers : WF_vars(SaveStep(w))
    /\ WF_vars(ReadTask)

Spec     == Init /\ [][Next]_vars
FairSpec == Spec /\ Fairness
-----------------------------------------------------------------------------
(* Properties *)

TypeOK ==
    /\ plan \in Seq(Tasks) /\ draft \in Seq(Tasks) \cup {NoDraft}
    /\ session \in BOOLEAN
    /\ job \in [Writers -> Lists \cup {NoJob}]
    /\ pc \in [Writers -> SavePcs]
    /\ added \in [Writers -> 0..MaxTasks]
    /\ result \in [Writers -> {"none", "ok", "failed"}]
    /\ reading \in BOOLEAN /\ readDone \in BOOLEAN
    /\ count \in 0..MaxTasks /\ index \in 0..MaxTasks
    /\ cache \in [1..MaxTasks -> Tasks \cup {NoTask}]
    /\ cacheCount \in 0..MaxTasks /\ cacheValid \in BOOLEAN

\* With one writer at a time and no answer lost, saving keeps the promise of
\* ScheduleStore: links that drop in the middle, errors, a reader and the
\* official app never leave the mower with half a schedule.
Store == INSTANCE ScheduleStore WITH
            saved <- {w \in Writers : pc[w] \in {"store", "unheard"}}
SavesWhole == Store!Spec

\* A save is always answered, whatever the mower does: the web server has one
\* task for all its handlers.
SaveReturns == \A w \in Writers : pc[w] # "idle" ~> pc[w] = "idle"

\* Every entry that get_schedule_cache() returns was filled in, also when a
\* save and a read write the cache at the same time and either one fails.
CacheIsFilled ==
    cacheValid => \A i \in DOMAIN CachedPlan : CachedPlan[i] # NoTask

(* What the documentation says; it has a run of its own, which fails.     *)

\* README.md:233-234: a save writes the whole schedule back.  With two
\* writers, or a lost answer, the plan is none of the lists.
SavedPlanIsAList ==
    [][\A w \in Writers : Commit(w) /\ pc'[w] = "store" => plan' = job[w]]_vars
=============================================================================
