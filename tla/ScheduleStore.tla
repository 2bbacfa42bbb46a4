---------------------------- MODULE ScheduleStore ----------------------------
(***************************************************************************)
(* What saving a schedule promises (README.md:231-250): the mower's whole  *)
(* plan is replaced by the list that was saved, in one piece or not at     *)
(* all, and success is reported of a list that did replace it.  While the  *)
(* bridge has the mower's only link nobody else changes the plan.          *)
(***************************************************************************)
CONSTANTS
    Writers,    \* tasks that may save at the same time
    Lists,      \* what they may save
    AppLists,   \* what the official app may leave in the mower
    NoJob       \* job of a writer that saves nothing

VARIABLES
    plan,       \* the mower's schedule
    session,    \* the bridge holds the link
    job,        \* what each writer is saving
    saved,      \* the writers whose list has replaced the plan
    result      \* what each writer was told last

vars == <<plan, session, job, saved, result>>

Results == {"none", "ok", "failed"}

Init ==
    /\ plan \in AppLists
    /\ session = FALSE
    /\ job = [w \in Writers |-> NoJob]
    /\ saved = {}
    /\ result = [w \in Writers |-> "none"]

Ask(w, list) ==
    /\ job[w] = NoJob
    /\ job' = [job EXCEPT ![w] = list]
    /\ result' = [result EXCEPT ![w] = "none"]
    /\ UNCHANGED <<plan, session, saved>>

Replace(w) ==
    /\ job[w] # NoJob /\ w \notin saved /\ session
    /\ plan' = job[w]
    /\ saved' = saved \cup {w}
    /\ UNCHANGED <<session, job, result>>

Tell(w, r) ==
    /\ job[w] # NoJob
    /\ r = "ok" => w \in saved
    /\ job' = [job EXCEPT ![w] = NoJob]
    /\ saved' = saved \ {w}
    /\ result' = [result EXCEPT ![w] = r]
    /\ UNCHANGED <<plan, session>>

AppEdit ==
    /\ ~session
    /\ plan' \in AppLists
    /\ UNCHANGED <<session, job, saved, result>>

Session ==
    /\ session' = ~session
    /\ UNCHANGED <<plan, job, saved, result>>

Next ==
    \/ AppEdit \/ Session
    \/ \E w \in Writers :
         \/ \E list \in Lists : Ask(w, list)
         \/ Replace(w)
         \/ \E r \in {"ok", "failed"} : Tell(w, r)

Spec == Init /\ [][Next]_vars
=============================================================================
