---------------------------- MODULE EditorProofs ----------------------------
(***************************************************************************)
(* The theorem about ScheduleEditor: no edit is forgotten, for any number  *)
(* of fields, values, writes and edits, and although nothing locks.        *)
(*                                                                         *)
(* NoEditForgotten is inductive, given the types.  The steps that matter   *)
(* are Clear, which takes the debounce down before the first field is      *)
(* copied, and SetField, which does not wait for it to go up.              *)
(***************************************************************************)
EXTENDS ScheduleEditor, TLAPS

TypeOK ==
    /\ field \in Plans /\ draft \in Plans /\ seed \in Plans
    /\ cache \in Plans \cup {None}
    /\ debounce \in {"none", "running", "over"}
    /\ editing \in Fields \cup {None}
    /\ pc \in {"top", "seed", "flush", "clear", "copy", "hand"}
    /\ todo \subseteq Fields /\ dirty \subseteq Fields /\ writes \subseteq Plans

IInv == TypeOK /\ NoEditForgotten

Kept(f) ==
    \/ debounce # "none" \/ editing = f
    \/ pc = "copy" /\ (f \in todo \/ draft[f] = field[f])
    \/ pc = "hand" /\ draft[f] = field[f]

USE DEF Plans, GoTo

LEMMA InitHolds == Init => IInv
  BY DEF Init, IInv, TypeOK, NoEditForgotten

\* The task of esp-mqtt: an edit is kept by its own two steps, and touches no
\* other field.
LEMMA EditingKeeps ==
  ASSUME IInv
  PROVE  /\ \A f \in Fields, v \in Values : SetField(f, v) => IInv'
         /\ Arm => IInv'
  <1> USE DEF IInv, TypeOK, loopVars, history
  <1>1. ASSUME NEW f \in Fields, NEW v \in Values, SetField(f, v) PROVE IInv'
    <2>1. TypeOK'
      BY <1>1 DEF SetField, NoteEdit
    <2>2. ASSUME NEW g \in dirty' PROVE Kept(g)'
      <3>1. CASE g = f
        <4>1. editing' = g
          BY <1>1, <3>1 DEF SetField
        <4> QED
          BY <4>1 DEF Kept
      <3>2. CASE g # f
        BY <1>1, <2>2, <3>2, EditorConstants
           DEF SetField, NoteEdit, NoEditForgotten, Kept
      <3> QED
        BY <3>1, <3>2
    <2> QED
      BY <2>1, <2>2 DEF NoEditForgotten, Kept
  <1>2. ASSUME Arm PROVE IInv'
    BY <1>2 DEF Arm, NoEditForgotten
  <1> QED
    BY <1>1, <1>2

\* loop(): seeding happens while no edit is pending, and copying after the
\* debounce was taken down.
LEMMA LoopKeeps ==
  ASSUME IInv,
         \/ Publish \/ NotYet \/ SeedField \/ Flush \/ Clear \/ CopyField
         \/ HandOver
  PROVE  IInv'
  <1> USE DEF IInv, TypeOK, loopVars, history
  <1>1. CASE Publish
    BY <1>1 DEF Publish, NoEditForgotten
  <1>2. CASE NotYet
    BY <1>2 DEF NotYet, NoEditForgotten
  <1>3. CASE SeedField
    BY <1>3 DEF SeedField, NoEditForgotten
  <1>4. CASE Flush
    BY <1>4 DEF Flush, NoEditForgotten
  <1>5. CASE Clear
    BY <1>5 DEF Clear, NoEditForgotten
  <1>6. CASE CopyField
    <2>1. PICK x \in todo : /\ draft' = [draft EXCEPT ![x] = field[x]]
                            /\ todo' = todo \ {x}
      BY <1>6 DEF CopyField
    <2>2. TypeOK'
      BY <1>6, <2>1 DEF CopyField
    <2>3. ASSUME NEW g \in dirty PROVE Kept(g)'
      <3>1. debounce # "none" \/ editing = g \/ g \in todo \/ draft[g] = field[g]
        BY <1>6 DEF NoEditForgotten, CopyField
      <3>2. CASE g = x
        BY <1>6, <2>1, <3>2 DEF CopyField, Kept
      <3>3. CASE g # x
        BY <1>6, <2>1, <3>1, <3>3 DEF CopyField, Kept
      <3> QED
        BY <3>2, <3>3
    <2> QED
      BY <1>6, <2>2, <2>3 DEF CopyField, NoEditForgotten, Kept
  <1>7. CASE HandOver
    BY <1>7 DEF HandOver, Hand, NoEditForgotten
  <1> QED
    BY <1>1, <1>2, <1>3, <1>4, <1>5, <1>6, <1>7

\* Writers, the mower and the broker do not touch what an edit is kept in.
LEMMA OthersKeep ==
  ASSUME IInv
  PROVE  /\ \A plan \in Plans : SetSchedule(plan) \/ SessionReads(plan) => IInv'
         /\ \A plan \in writes : WriteEnds(plan) => IInv'
         /\ DebounceEnds \/ LinkChanges => IInv'
  <1> USE DEF IInv, TypeOK, loopVars, history, NoEditForgotten
  <1>1. ASSUME NEW plan \in Plans, SetSchedule(plan) PROVE IInv'
    BY <1>1 DEF SetSchedule, Hand
  <1>2. ASSUME NEW plan \in Plans, SessionReads(plan) PROVE IInv'
    BY <1>2 DEF SessionReads
  <1>3. ASSUME NEW plan \in writes, WriteEnds(plan) PROVE IInv'
    BY <1>3 DEF WriteEnds
  <1>4. ASSUME DebounceEnds \/ LinkChanges PROVE IInv'
    BY <1>4 DEF DebounceEnds, LinkChanges
  <1> QED
    BY <1>1, <1>2, <1>3, <1>4

LEMMA StepKeeps == IInv /\ [Next]_vars => IInv'
  <1> SUFFICES ASSUME IInv, [Next]_vars PROVE IInv'
    OBVIOUS
  <1>1. CASE UNCHANGED vars
    BY <1>1 DEF IInv, TypeOK, NoEditForgotten, vars, loopVars, history
  <1>2. CASE Next
    BY <1>2, EditingKeeps, LoopKeeps, OthersKeep DEF Next
  <1> QED
    BY <1>1, <1>2

-----------------------------------------------------------------------------
\* An edit is never forgotten: until it is handed over, its debounce runs, is
\* about to, or loop() is on its way to copy it or has copied it.
THEOREM EditsAreRemembered == Spec => []NoEditForgotten
  <1>1. IInv => NoEditForgotten
    BY DEF IInv
  <1> QED
    BY InitHolds, StepKeeps, <1>1, PTL DEF Spec
=============================================================================
