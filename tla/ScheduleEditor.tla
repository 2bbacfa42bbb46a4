--------------------------- MODULE ScheduleEditor ---------------------------
(***************************************************************************)
(* The simple schedule editor of the MQTT bridge                           *)
(* (components/mqtt_bridge/mqtt.cpp: on_message, on_schedule_message,      *)
(* publish_schedule and the end of loop()).                                *)
(*                                                                         *)
(* Its fields are set on the task of esp-mqtt, and seeded and read on the  *)
(* main task, with no lock; _edit_debounce_until is all that keeps the two *)
(* apart.  A plan is its first task; Fields stands for the start, the      *)
(* duration and the seven days.  What a writer does with the mower is in   *)
(* Schedule: here it ends, well or not.                                    *)
(*                                                                         *)
(* last, dirty and raced are history, which nothing reads: the user's last *)
(* value of a field since the plan was changed elsewhere, the fields with  *)
(* an edit that was not handed over, and those whose edit met a seeding.   *)
(***************************************************************************)
EXTENDS Naturals

CONSTANTS
    Fields, Values,
    None,
    MaxEdits        \* bound

ASSUME EditorConstants ==
    /\ None \notin Values \cup Fields \cup [Fields -> Values]
    /\ Values # {} /\ Fields # {}
    /\ MaxEdits \in Nat

Plans == [Fields -> Values]

VARIABLES
    connected,  \* _connected, and Wi-Fi
    field,      \* _edit_*
    debounce,   \* _edit_debounce_until: "none", "running" or "over"
    cache,      \* first task of get_schedule_cache(), None without one
    editing,    \* the task of esp-mqtt: the field it has set, or None
    pc,         \* loop(): "top", "seed", "flush", "clear", "copy", "hand"
    seed,       \* publish_schedule(): tasks[0]
    todo,       \* fields still to seed or to copy
    draft,      \* loop(): task
    writes,     \* plans that writers are working on (each takes up to 45 s)
    last, dirty, raced,     \* history
    edits       \* bound: edits and plans sent so far

history  == <<last, dirty, raced>>
loopVars == <<pc, seed, todo, draft>>
vars == <<connected, field, debounce, cache, editing, loopVars, writes, history,
          edits>>

Init ==
    /\ connected = TRUE /\ field \in Plans /\ debounce = "none"
    /\ cache = None /\ editing = None
    /\ pc = "top" /\ seed = field /\ todo = {} /\ draft = field
    /\ writes = {}
    /\ last = [f \in Fields |-> None] /\ dirty = {} /\ raced = {}
    /\ edits = 0

-----------------------------------------------------------------------------
(* The task of esp-mqtt: sched_start, sched_duration, sched_day *)

NoteEdit(f, v) ==
    /\ last' = [last EXCEPT ![f] = v] /\ dirty' = dirty \cup {f}
    /\ raced' = IF pc = "seed" /\ f \in todo THEN raced \cup {f} ELSE raced \ {f}

\* The field,
SetField(f, v) ==
    /\ connected /\ editing = None /\ edits < MaxEdits /\ edits' = edits + 1
    /\ field' = [field EXCEPT ![f] = v] /\ editing' = f
    /\ NoteEdit(f, v)
    /\ UNCHANGED <<connected, debounce, cache, loopVars, writes>>

\* then arm_schedule_edit_write().
Arm ==
    /\ editing # None /\ editing' = None /\ debounce' = "running"
    /\ UNCHANGED <<connected, field, cache, loopVars, writes, history, edits>>

\* The plan was changed elsewhere: what was edited before does not count.
Superseded == last' = [f \in Fields |-> IF f \in dirty THEN last[f] ELSE None]

\* write_schedule_wake_async(): without memory for a task the plan is dropped.
Hand(plan) ==
    \/ writes' = writes \cup {plan}
    \/ UNCHANGED writes

\* schedule/set: a whole plan, past the editor.
SetSchedule(plan) ==
    /\ connected /\ editing = None /\ edits < MaxEdits /\ edits' = edits + 1
    /\ Hand(plan) /\ Superseded
    /\ UNCHANGED <<connected, field, debounce, cache, editing, loopVars, dirty,
                   raced>>

-----------------------------------------------------------------------------
(* The main task: loop() *)

GoTo(to) == pc' = to

\* Every PUBLISH_MS, publish_schedule(): the editor is seeded unless an edit is
\* pending.  Whether a writer is at work is not looked at.
Publish ==
    /\ pc = "top" /\ connected
    /\ \/ /\ cache = None \/ debounce # "none"
          /\ GoTo("flush") /\ UNCHANGED <<seed, todo, raced>>
       \/ /\ cache # None /\ debounce = "none"
          /\ GoTo("seed") /\ seed' = cache /\ todo' = Fields
          /\ raced' = raced \cup ({editing} \ {None})
    /\ UNCHANGED <<connected, field, debounce, cache, editing, draft, writes,
                   last, dirty, edits>>

NotYet == pc = "top" /\ connected /\ GoTo("flush")
          /\ UNCHANGED <<connected, field, debounce, cache, editing, seed, todo,
                         draft, writes, history, edits>>

SeedField ==
    /\ pc = "seed"
    /\ \E f \in todo :
          field' = [field EXCEPT ![f] = seed[f]] /\ todo' = todo \ {f}
    /\ GoTo(IF todo' = {} THEN "flush" ELSE "seed")
    /\ UNCHANGED <<connected, debounce, cache, editing, seed, draft, writes,
                   history, edits>>

Flush ==
    /\ pc = "flush" /\ GoTo(IF debounce = "over" THEN "clear" ELSE "top")
    /\ UNCHANGED <<connected, field, debounce, cache, editing, seed, todo, draft,
                   writes, history, edits>>

\* The debounce stays over.
Bug_Clear ==
    /\ pc = "clear" /\ UNCHANGED debounce /\ todo' = Fields /\ GoTo("copy")
    /\ UNCHANGED <<connected, field, cache, editing, seed, draft, writes,
                   history, edits>>

Clear ==
    /\ pc = "clear" /\ debounce' = "none" /\ todo' = Fields /\ GoTo("copy")
    /\ UNCHANGED <<connected, field, cache, editing, seed, draft, writes,
                   history, edits>>

CopyField ==
    /\ pc = "copy"
    /\ \E f \in todo :
          draft' = [draft EXCEPT ![f] = field[f]] /\ todo' = todo \ {f}
    /\ GoTo(IF todo' = {} THEN "hand" ELSE "copy")
    /\ UNCHANGED <<connected, field, debounce, cache, editing, seed, writes,
                   history, edits>>

\* The debounce is cleared at the end.
Bug_HandOver ==
    /\ pc = "hand" /\ GoTo("top")
    /\ Hand(draft) /\ debounce' = "none"
    /\ dirty' = {f \in dirty : draft[f] # field[f]}
    /\ UNCHANGED <<connected, field, cache, editing, seed, todo, draft, last,
                   raced, edits>>

\* A plan that is dropped takes the edits with it.
HandOver ==
    /\ pc = "hand" /\ GoTo("top")
    /\ Hand(draft)
    /\ dirty' = {f \in dirty : draft[f] # field[f]}
    /\ last' = IF writes' = writes
               THEN [f \in Fields |-> IF f \in dirty' THEN last[f] ELSE None]
               ELSE last
    /\ UNCHANGED <<connected, field, debounce, cache, editing, seed, todo, draft,
                   raced, edits>>

-----------------------------------------------------------------------------
(* The others *)

DebounceEnds ==
    /\ debounce = "running" /\ debounce' = "over"
    /\ UNCHANGED <<connected, field, cache, editing, loopVars, writes, history,
                   edits>>

\* schedule_write_task() fills the cache with what it saved, or fails and the
\* mower keeps its plan.
WriteEnds(plan) ==
    /\ writes' = writes \ {plan}
    /\ \/ cache' = plan /\ UNCHANGED last
       \/ UNCHANGED cache /\ Superseded
    /\ UNCHANGED <<connected, field, debounce, editing, loopVars, dirty, raced,
                   edits>>

\* A new session reads the plan, which the app may have changed; a writer may be
\* waiting for that session.
SessionReads(plan) ==
    /\ cache' = plan
    /\ IF plan = cache THEN UNCHANGED last ELSE Superseded
    /\ UNCHANGED <<connected, field, debounce, editing, loopVars, writes, dirty,
                   raced, edits>>

LinkChanges ==
    /\ connected' = ~connected
    /\ UNCHANGED <<field, debounce, cache, editing, loopVars, writes, history,
                   edits>>

Next ==
    \/ \E f \in Fields, v \in Values : SetField(f, v)
    \/ Arm
    \/ Publish \/ NotYet \/ SeedField \/ Flush \/ Clear \/ CopyField \/ HandOver
    \/ DebounceEnds \/ LinkChanges
    \/ \E plan \in Plans : SetSchedule(plan) \/ SessionReads(plan)
    \/ \E plan \in writes : WriteEnds(plan)

Spec == Init /\ [][Next]_vars

\* Both tasks are scheduled, and the time of the debounce passes.  At the top of
\* loop() a publication is due again and again.
FairSpec ==
    /\ Spec
    /\ WF_vars(SeedField \/ Flush \/ Clear \/ CopyField \/ HandOver)
    /\ SF_vars(Publish)
    /\ WF_vars(Arm) /\ WF_vars(DebounceEnds)

-----------------------------------------------------------------------------
(* Properties *)

\* An edit is never forgotten: until it is handed over, its debounce runs, is
\* about to, or loop() is on its way to copy it or has copied it.  No lock makes
\* it so, only the order of the writes: the field before the debounce on one
\* task, the debounce before the fields on the other.
NoEditForgotten ==
    \A f \in dirty :
        \/ debounce # "none" \/ editing = f
        \/ pc = "copy" /\ (f \in todo \/ draft[f] = field[f])
        \/ pc = "hand" /\ draft[f] = field[f]

\* While the broker is reached and the mower's plan stays what it is, the editor
\* ends up with that plan, and for good: no edit is pending for ever, and neither
\* a stale copy of the plan that was being stored nor an edit that met a seeding
\* is what stays.
EditorConverges ==
    \A plan \in Plans :
       <>[](connected /\ cache = plan) => <>[](field = plan)

\* The comment in publish_schedule(): an in-flight change is not clobbered with
\* the stale cached value.  What is handed over has the user's last value of every
\* field, those of a write that is still at work included, or the edit that came
\* too late is still pending; an edit that meets a seeding is not counted (the
\* field and the debounce are set in two steps, the debounce is tested and the
\* fields are stored in more).
EditsAreKept ==
    [][HandOver => \A f \in Fields :
          \/ last[f] = None \/ draft[f] = last[f]
          \/ f \in raced
          \/ debounce # "none" \/ editing = f]_vars
=============================================================================
