--------------------------- MODULE MowerRpcProofs ---------------------------
(***************************************************************************)
(* The theorems about MowerRpc, for any length of an answer, any lag of    *)
(* the mower and any number of jobs.                                       *)
(*                                                                         *)
(* That only the holder of _ble_io_mutex is past its turn is inductive,    *)
(* given the types.  With it, one invariant follows a question from its    *)
(* flush to its answer (OursInv: whatever can still reach the buffer was   *)
(* sent to this question, unless another one was outstanding when it was   *)
(* asked), one follows the notifications of an answer through the air and  *)
(* the buffer (WholeInv), and one follows what a job is for from the       *)
(* answer that says so to its end (OkInv).                                 *)
(***************************************************************************)
EXTENDS MowerRpc, SequenceTheorems, TLAPS

InTurn == Pcs \ {"idle", "lock"}

Frames == [to : Asks, ok : BOOLEAN, part : 1..Parts]

TurnTypes ==
    /\ mutex \in Callers \cup {Nobody}
    /\ pc \in [Callers -> Pcs] /\ try \in [Callers -> {1, 2}]
    /\ DOMAIN job = Callers

TurnInv == TurnTypes /\ OneQuestionAtATime

USE DEF Callers, Pcs

LEMMA TurnInit == Init => TurnInv
  BY RpcConstants DEF Init, TurnInv, TurnTypes, OneQuestionAtATime

LEMMA ReturnTakesTurns ==
  ASSUME TurnTypes, NEW c \in Callers, NEW ok, Return(c, ok)
  PROVE  /\ DOMAIN job' = Callers /\ try' \in [Callers -> {1, 2}]
         /\ pc' \in [Callers -> Pcs] /\ pc'[c] \in {"idle", "lock"}
         /\ \A d \in Callers \ {c} : pc'[d] = pc[d] /\ job'[d] = job[d]
  BY DEF Return, GoTo, TurnTypes

LEMMA CallTakesTurns ==
  ASSUME TurnInv, NEW c \in Callers, CallStep(c)
  PROVE  TurnInv'
  <1> USE DEF TurnInv, TurnTypes
  <1>1. \A d \in Callers : d # c => (pc[d] \in InTurn <=> mutex = d)
    BY DEF OneQuestionAtATime, InTurn
  <1>2. ASSUME NEW ok, Return(c, ok), mutex' = Nobody, mutex = c
        PROVE  TurnInv'
    BY <1>2, ReturnTakesTurns, RpcConstants DEF OneQuestionAtATime
  <1>3. ASSUME Unanswered(c), pc[c] \in InTurn PROVE TurnInv'
    <2>1. mutex = c
      BY <1>3 DEF OneQuestionAtATime, InTurn
    <2>2. CASE UNCHANGED <<job, mutex>> /\ try' = [try EXCEPT ![c] = 2]
               /\ GoTo(c, "flush")
      BY <2>1, <2>2 DEF GoTo, OneQuestionAtATime
    <2> QED
      BY <1>2, <1>3, <2>1, <2>2 DEF Unanswered, GiveUp, Unlock
  <1>4. CASE Lock(c)
    <2>1. CASE mutex = Nobody /\ mutex' = c /\ GoTo(c, "flush")
               /\ UNCHANGED <<job, try, good>>
      BY <2>1, RpcConstants DEF GoTo, OneQuestionAtATime
    <2>2. CASE Return(c, FALSE) /\ UNCHANGED mutex
      BY <1>4, <2>2, ReturnTakesTurns DEF Lock, OneQuestionAtATime
    <2> QED
      BY <1>4, <2>1, <2>2 DEF Lock
  <1>5. CASE Flush(c) \/ Write(c)
    <2>1. mutex = c
      BY <1>5 DEF Flush, Write, OneQuestionAtATime
    <2>2. CASE GiveUp(c)
      BY <1>2, <2>1, <2>2 DEF GiveUp, Unlock
    <2>3. CASE /\ GoTo(c, "drain") \/ GoTo(c, "wait")
               /\ UNCHANGED <<job, try, mutex>>
      BY <2>1, <2>3 DEF GoTo, OneQuestionAtATime
    <2> QED
      BY <1>5, <2>2, <2>3 DEF Flush, Write
  <1>6. CASE Drain(c) \/ Woken(c)
    <2>1. mutex = c /\ UNCHANGED <<job, try, mutex>>
          /\ (GoTo(c, "write") \/ GoTo(c, "take"))
      BY <1>6 DEF Drain, Woken, OneQuestionAtATime
    <2> QED
      BY <2>1 DEF GoTo, OneQuestionAtATime
  <1>7. CASE Timeout(c)
    BY <1>3, <1>7 DEF Timeout, InTurn
  <1>8. CASE Take(c)
    <2>1. mutex = c /\ pc[c] \in InTurn
      BY <1>8 DEF Take, OneQuestionAtATime, InTurn
    <2> QED
      BY <1>2, <1>3, <1>8, <2>1 DEF Take, Unlock
  <1> QED
    BY <1>4, <1>5, <1>6, <1>7, <1>8 DEF CallStep

LEMMA OthersTakeTurns ==
  ASSUME TurnInv,
         \/ UNCHANGED vars \/ Work \/ Notify \/ GiveSignal \/ Drop \/ Reconnect
         \/ MowerWorks
  PROVE  TurnInv'
  <1> USE DEF TurnInv, TurnTypes, OneQuestionAtATime, taskVars
  <1>1. CASE Work
    <2>1. PICK c \in Callers : \E name, steps : Begin(c, name, steps)
      BY <1>1 DEF Work
    <2> QED
      BY <2>1 DEF Begin, GoTo
  <1>2. CASE UNCHANGED <<mutex, taskVars>>
    BY <1>2
  <1> QED
    BY <1>1, <1>2 DEF vars, Notify, GiveSignal, Drop, Reconnect, MowerWorks

LEMMA StepTakesTurns == TurnInv /\ [Next]_vars => TurnInv'
  BY CallTakesTurns, OthersTakeTurns DEF Next

-----------------------------------------------------------------------------
\* Whoever uses the receive buffer holds _ble_io_mutex, and every way out of a
\* question returns it.
THEOREM TurnsAreTaken == Spec => []OneQuestionAtATime
  <1>1. TurnInv => OneQuestionAtATime
    BY DEF TurnInv
  <1> QED
    BY TurnInit, StepTakesTurns, <1>1, PTL DEF Spec

-----------------------------------------------------------------------------
(***************************************************************************)
(* AnswerIsOurs.  Which elements a sequence has is what matters, not their *)
(* order: losing the front of it, or a whole buffer, makes nothing worse.  *)
(***************************************************************************)

FramesTo(ask) == [to : {ask}, ok : BOOLEAN, part : 1..Parts]

JobsOK == \A c \in Callers : pc[c] # "idle" => job[c] \in Jobs
SeqsOK ==
    /\ rx \in Seq(Frames) /\ air \in Seq(Frames) /\ owed \in Seq(Asks)
    /\ clean \in [Callers -> BOOLEAN]

Asked == {"drain", "write", "wait", "take"}
Only(ask) ==
    rx \in Seq(FramesTo(ask)) /\ air \in Seq(FramesTo(ask)) /\ owed \in Seq({ask})
Ours == \A c \in Callers : pc[c] \in Asked /\ clean[c] => Only(At(c).ask)

OursInv == TurnInv /\ JobsOK /\ SeqsOK /\ Ours

LEMMA OursInit == Init => OursInv
  BY TurnInit DEF Init, OursInv, JobsOK, SeqsOK, Ours, Asked

LEMMA AtIsAStep ==
  ASSUME JobsOK, NEW c \in Callers, pc[c] # "idle"
  PROVE  At(c) \in Steps
  BY HeadTailProperties DEF JobsOK, Jobs, At

\* Every job that conn_task or a saver has is a sequence of questions.
LEMMA WorkIsTyped ==
  ASSUME TurnInv, JobsOK, Work
  PROVE  /\ JobsOK'
         /\ \A c \in Callers : pc'[c] \in Asked => pc[c] = pc'[c] /\ job'[c] = job[c]
         /\ UNCHANGED <<rx, air, owed>>
         /\ \E c \in Callers : clean' = [clean EXCEPT ![c] = TRUE] /\ pc'[c] = "lock"
  <1> DEFINE Plans == Seq(Steps) \ {<< >>}
  <1>1. /\ Mow \in Plans /\ Park \in Plans /\ ParkForGood \in Plans
        /\ Resume \in Plans /\ LawnSense \in Plans /\ Single \in Plans
        /\ Poll \in Plans /\ ReadSchedule \in Plans
    <2>1. \A ask \in Asks : Command(ask) \in Steps /\ Query(ask) \in Steps
      BY DEF Command, Query, Steps
    <2>2. \A step \in Steps : IfOk(step) \in Steps /\ Ignored(step) \in Steps
      BY DEF IfOk, Ignored, Steps
    <2>3. \A a, b, d \in Steps : <<a>> \in Plans /\ <<a, b>> \in Plans /\ <<a, b, d>> \in Plans
      BY DEF Plans
    <2> HIDE DEF Plans
    <2> QED
      BY <2>1, <2>2, <2>3 DEF Mow, Park, ParkForGood, Resume, LawnSense, Single,
         Poll, ReadSchedule, Asks
  <1>2. PICK c \in Callers, name \in Names, steps \in Plans : Begin(c, name, steps)
    BY <1>1, Zenon DEF Work, Names, Callers
  <1>3. /\ pc' = [pc EXCEPT ![c] = "lock"]
        /\ job' = [job EXCEPT ![c] = [name |-> name, steps |-> steps]]
        /\ clean' = [clean EXCEPT ![c] = TRUE]
        /\ UNCHANGED <<rx, air, owed>>
    BY <1>2 DEF Begin, GoTo, rxVars, mowerVars
  <1>4. job'[c] \in Jobs /\ \A d \in Callers \ {c} : job'[d] = job[d] /\ pc'[d] = pc[d]
    BY <1>3 DEF Jobs, TurnInv, TurnTypes
  <1>5. pc'[c] = "lock"
    BY <1>3 DEF TurnInv, TurnTypes
  <1> QED
    BY <1>3, <1>4, <1>5 DEF Asked, JobsOK

LEMMA ReturnKeepsJobs ==
  ASSUME TurnInv, JobsOK, NEW c \in Callers, pc[c] # "idle", NEW ok, Return(c, ok)
  PROVE  JobsOK'
  <1> DEFINE rest == Tail(job[c].steps)
  <1>1. job[c] \in Jobs
    BY DEF JobsOK
  <1>2. rest \in Seq(Steps)
    BY <1>1, HeadTailProperties DEF Jobs
  <1>3. \/ pc'[c] = "idle"
        \/ rest # << >> /\ job'[c] = [job[c] EXCEPT !.steps = rest]
    BY DEF Return, GoTo, TurnInv, TurnTypes
  <1>4. pc'[c] # "idle" => job'[c] \in Jobs
    BY <1>1, <1>2, <1>3 DEF Jobs
  <1>5. \A d \in Callers \ {c} : pc'[d] = pc[d] /\ job'[d] = job[d]
    BY ReturnTakesTurns DEF TurnInv
  <1> QED
    BY <1>4, <1>5 DEF JobsOK

\* A sequence whose elements are in a smaller set is one over that set.
LEMMA SeqOver ==
  ASSUME NEW S, NEW T, NEW s \in Seq(S), \A i \in DOMAIN s : s[i] \in T
  PROVE  s \in Seq(T)
  OBVIOUS

\* What the buffer misses is the front of what is on its way.
LEMMA MissedKeeps ==
  ASSUME NEW S, air \in Seq(S), Missed
  PROVE  air' \in Seq(S)
  <1>1. \A i \in 2..Len(air) + 1 : SubSeq(air, i, Len(air)) \in Seq(S)
    BY SubSeqProperties
  <1> QED
    BY <1>1 DEF Missed

\* Nothing new gets into a sequence without a question.
LEMMA OnlyLess ==
  ASSUME NEW S, NEW T, rx \in Seq(S), air \in Seq(S), owed \in Seq(T),
         \/ rx' = rx \/ rx' = << >>,
         \/ air' = air \/ air' = << >> \/ Missed,
         \/ owed' = owed \/ owed' = << >>
  PROVE  rx' \in Seq(S) /\ air' \in Seq(S) /\ owed' \in Seq(T)
  <1>1. << >> \in Seq(S) /\ << >> \in Seq(T)
    OBVIOUS
  <1>2. Missed => air' \in Seq(S)
    BY MissedKeeps
  <1> QED
    BY <1>1, <1>2

\* A notification adds what was on its way to the buffer.
LEMMA NotifyKeeps ==
  ASSUME NEW S, rx \in Seq(S), air \in Seq(S), Notify
  PROVE  rx' \in Seq(S) /\ air' \in Seq(S)
  <1>1. air # << >> /\ air' = Tail(air)
    BY DEF Notify
  <1>2. Head(air) \in S /\ air' \in Seq(S)
    BY <1>1, HeadTailProperties
  <1>3. Appended(Head(air)) \in Seq(S) /\ Len(Appended(Head(air))) >= 0
    BY <1>2, AppendProperties DEF Appended
  <1> DEFINE buf == Appended(Head(air))
  <1>4. CASE IsComplete(buf)
    <2>1. Len(buf) >= Parts /\ rx' = SubSeq(buf, 1, Parts)
      BY <1>4 DEF Notify, IsComplete
    <2>2. \A i \in 1..Parts : buf[i] \in S
      BY <1>3, <2>1, RpcConstants
    <2> QED
      BY <1>2, <2>1, <2>2, SubSeqProperties, RpcConstants
  <1>5. CASE ~IsComplete(buf)
    BY <1>2, <1>3, <1>5 DEF Notify
  <1> QED
    BY <1>4, <1>5

\* The mower answers what it was asked.
LEMMA MowerKeeps ==
  ASSUME NEW T \in SUBSET Asks, owed \in Seq(T), MowerWorks,
         air \in Seq(Frames)
  PROVE  /\ owed' \in Seq(T)
         /\ air' = air \/ \E ask \in T : air' \in Seq(FramesTo(ask))
  <1>1. Head(owed) \in T /\ owed' \in Seq(T)
    BY HeadTailProperties DEF MowerWorks
  <1>2. \A ok \in BOOLEAN : Answers(Head(owed), ok) => air' \in Seq(FramesTo(Head(owed)))
    BY RpcConstants DEF Answers, FramesTo
  <1> QED
    BY <1>1, <1>2 DEF MowerWorks

LEMMA FramesToAreFrames ==
  ASSUME NEW ask \in Asks
  PROVE  \A s \in Seq(FramesTo(ask)) : s \in Seq(Frames)
  <1>1. FramesTo(ask) \subseteq Frames
    BY DEF FramesTo, Frames
  <1> QED
    BY <1>1, SeqOver

\* The host and the mower: the buffer gets what was on its way, and that is what
\* was owed.
LEMMA OutsideKeeps ==
  ASSUME OursInv, Notify \/ GiveSignal \/ Drop \/ Reconnect \/ MowerWorks
  PROVE  OursInv'
  <1> USE DEF OursInv
  <1>1. TurnInv'
    BY OthersTakeTurns
  <1>2. UNCHANGED <<pc, job, clean>>
    BY DEF Notify, GiveSignal, Drop, Reconnect, MowerWorks, taskVars
  <1>3. ASSUME NEW S, NEW T \in SUBSET Asks,
               rx \in Seq(S), air \in Seq(S), owed \in Seq(T),
               \A ask \in T : Seq(FramesTo(ask)) \subseteq Seq(S)
        PROVE  rx' \in Seq(S) /\ air' \in Seq(S) /\ owed' \in Seq(T)
    <2>1. CASE Notify
      <3>1. owed' = owed
        BY <2>1 DEF Notify
      <3> QED
        BY <1>3, <2>1, <3>1, NotifyKeeps
    <2>2. CASE GiveSignal \/ Drop \/ Reconnect
      <3>1. /\ rx' = rx \/ rx' = << >>
            /\ air' = air \/ air' = << >>
            /\ owed' = owed \/ owed' = << >>
        BY <2>2 DEF GiveSignal, Drop, Reconnect, mowerVars
      <3> QED
        BY <1>3, <3>1, OnlyLess
    <2>3. CASE MowerWorks
      <3>1. rx' = rx
        BY <2>3 DEF MowerWorks, rxVars
      <3> QED
        BY <1>3, <2>3, <3>1, MowerKeeps DEF SeqsOK
    <2> QED
      BY <2>1, <2>2, <2>3
  <1>4. SeqsOK'
    <2>1. \A ask \in Asks : Seq(FramesTo(ask)) \subseteq Seq(Frames)
      BY FramesToAreFrames
    <2> QED
      BY <1>2, <1>3, <2>1 DEF SeqsOK
  <1>5. JobsOK'
    BY <1>2 DEF JobsOK
  <1>6. Ours'
    <2> SUFFICES ASSUME NEW c \in Callers, pc[c] \in Asked, clean[c]
                 PROVE  Only(At(c).ask)'
      BY <1>2 DEF Ours
    <2>1. At(c)' = At(c) /\ At(c).ask \in Asks /\ Only(At(c).ask)
      BY <1>2, AtIsAStep DEF At, Ours, Asked, Steps
    <2> QED
      BY <1>3, <2>1 DEF Only
  <1> QED
    BY <1>1, <1>4, <1>5, <1>6

LEMMA FrameTo ==
  \A frame \in Frames : frame \in FramesTo(frame.to)
  BY DEF FramesTo, Frames

\* A question that starts clean: all that can reach the buffer is its own.
LEMMA CleanIsOnly ==
  ASSUME OursInv, NEW c \in Callers, At(c).ask \in Asks, ~Outstanding(c)
  PROVE  air \in Seq(FramesTo(At(c).ask)) /\ owed \in Seq({At(c).ask})
  <1>1. CASE owed = << >> /\ air = << >>
    BY <1>1
  <1>2. CASE /\ \A i \in DOMAIN owed : owed[i] = At(c).ask
             /\ \A i \in DOMAIN air : air[i].to = At(c).ask
    <2>1. \A i \in DOMAIN air : air[i] \in FramesTo(At(c).ask)
      <3>1. \A i \in DOMAIN air : air[i] \in Frames
        BY DEF OursInv, SeqsOK
      <3> QED
        BY <1>2, <3>1, FrameTo
    <2>2. air \in Seq(FramesTo(At(c).ask))
      BY <2>1, SeqOver DEF OursInv, SeqsOK
    <2>3. \A i \in DOMAIN owed : owed[i] \in {At(c).ask}
      BY <1>2
    <2>4. owed \in Seq({At(c).ask})
      BY <2>3, SeqOver DEF OursInv, SeqsOK
    <2> QED
      BY <2>2, <2>4
  <1> QED
    BY <1>1, <1>2 DEF Outstanding

\* A task that holds no turn has no question that could go wrong.
LEMMA OthersDoNotAsk ==
  ASSUME OursInv, NEW c \in Callers, mutex = c
  PROVE  \A d \in Callers \ {c} : pc[d] \notin Asked
  BY DEF OursInv, TurnInv, OneQuestionAtATime, Asked

\* The job of a task that did not end its question.
LEMMA SameJobs == ASSUME JobsOK, NEW c \in Callers, pc[c] # "idle",
                         UNCHANGED job, NEW to, GoTo(c, to), TurnInv
                  PROVE  JobsOK'
  BY DEF JobsOK, GoTo, TurnInv, TurnTypes

\* One step of a question.
LEMMA QuestionKeeps ==
  ASSUME OursInv, NEW c \in Callers, CallStep(c)
  PROVE  OursInv'
  <1> USE DEF OursInv
  <1>1. TurnInv'
    BY CallTakesTurns
  <1>2. pc[c] # "idle" /\ At(c).ask \in Asks
    <2>1. pc[c] # "idle"
      BY DEF CallStep, Lock, Flush, Drain, Write, Woken, Timeout, Take
    <2> QED
      BY <2>1, AtIsAStep DEF Steps
  <1>3. ASSUME NEW ok, Return(c, ok), UNCHANGED clean,
               rx' = rx \/ rx' = << >>, air' = air \/ Missed, UNCHANGED owed
        PROVE  OursInv'
    <2>1. JobsOK'
      BY <1>2, <1>3, ReturnKeepsJobs
    <2>2. SeqsOK'
      BY <1>3, OnlyLess DEF SeqsOK
    <2>3. pc'[c] \notin Asked /\ \A d \in Callers \ {c} : pc'[d] = pc[d] /\ job'[d] = job[d]
      BY <1>3, ReturnTakesTurns DEF TurnInv, Asked
    <2>4. Ours'
      <3> SUFFICES ASSUME NEW d \in Callers, d # c, pc[d] \in Asked, clean[d]
                   PROVE  Only(At(d).ask)'
        BY <1>3, <2>3 DEF Ours
      <3>1. Only(At(d).ask) /\ At(d)' = At(d)
        BY <2>3 DEF Ours, At
      <3> QED
        BY <1>3, <3>1, OnlyLess DEF Only
    <2> QED
      BY <1>1, <2>1, <2>2, <2>4
  <1>4. ASSUME UNCHANGED <<job, clean, owed>>,
               rx' = rx \/ rx' = << >>, air' = air \/ Missed,
               NEW to, GoTo(c, to),
               to \in Asked => pc[c] \in Asked
        PROVE  OursInv'
    <2>1. JobsOK'
      BY <1>2, <1>4, SameJobs
    <2>2. SeqsOK'
      BY <1>4, OnlyLess DEF SeqsOK
    <2>3. Ours'
      <3> SUFFICES ASSUME NEW d \in Callers, pc'[d] \in Asked, clean[d]
                   PROVE  Only(At(d).ask)'
        BY <1>4 DEF Ours
      <3>1. pc[d] \in Asked
        BY <1>4 DEF GoTo, TurnInv, TurnTypes
      <3>2. Only(At(d).ask) /\ At(d)' = At(d)
        BY <1>4, <3>1 DEF Ours, At
      <3> QED
        BY <1>4, <3>2, OnlyLess DEF Only
    <2> QED
      BY <1>1, <2>1, <2>2, <2>3
  <1>5. ASSUME Unanswered(c), UNCHANGED <<clean, owed>>,
               rx' = rx \/ rx' = << >>, air' = air \/ Missed
        PROVE  OursInv'
    <2>1. CASE UNCHANGED job /\ GoTo(c, "flush")
      BY <1>4, <1>5, <2>1 DEF Asked
    <2>2. CASE Return(c, FALSE)
      BY <1>3, <1>5, <2>2
    <2> QED
      BY <1>5, <2>1, <2>2 DEF Unanswered, GiveUp
  <1>6. CASE Lock(c)
    <2>1. UNCHANGED <<rx, air, owed, clean>>
      BY <1>6 DEF Lock, rxVars, mowerVars
    <2>2. CASE UNCHANGED job /\ GoTo(c, "flush")
      BY <1>4, <2>1, <2>2 DEF Asked
    <2>3. CASE Return(c, FALSE)
      BY <1>3, <2>1, <2>3
    <2> QED
      BY <1>6, <2>2, <2>3 DEF Lock
  <1>7. CASE Flush(c)
    <2>1. CASE GiveUp(c) /\ UNCHANGED <<rx, clean, air>>
      BY <1>3, <1>7, <2>1 DEF Flush, GiveUp
    <2>2. CASE rx' = << >> /\ Missed /\ GoTo(c, "drain") /\ NoteClean(c)
               /\ UNCHANGED job
      <3>1. UNCHANGED owed
        BY <1>7 DEF Flush
      <3>2. JobsOK'
        BY <1>2, <2>2, SameJobs
      <3>3. clean' \in [Callers -> BOOLEAN] /\ (clean'[c] => ~Outstanding(c))
        BY <2>2 DEF NoteClean, SeqsOK
      <3>4. SeqsOK'
        BY <2>2, <3>1, <3>3, OnlyLess DEF SeqsOK
      <3>5. \A d \in Callers \ {c} : pc'[d] \notin Asked
        <4>1. mutex = c
          BY <1>7 DEF Flush, TurnInv, OneQuestionAtATime
        <4> QED
          BY <2>2, <4>1, OthersDoNotAsk DEF GoTo, TurnInv, TurnTypes
      <3>6. clean'[c] => Only(At(c).ask)'
        <4> SUFFICES ASSUME clean'[c] PROVE Only(At(c).ask)'
          OBVIOUS
        <4>1. air \in Seq(FramesTo(At(c).ask)) /\ owed \in Seq({At(c).ask})
          BY <1>2, <3>3, CleanIsOnly
        <4>2. At(c)' = At(c)
          BY <2>2 DEF At
        <4> QED
          BY <2>2, <3>1, <4>1, <4>2, MissedKeeps DEF Only
      <3> QED
        BY <1>1, <3>2, <3>4, <3>5, <3>6 DEF Ours
    <2> QED
      BY <1>7, <2>1, <2>2 DEF Flush
  <1>8. CASE Drain(c) \/ Woken(c)
    <2>1. /\ UNCHANGED <<rx, air, owed, clean, job>>
          /\ pc[c] \in Asked /\ (GoTo(c, "write") \/ GoTo(c, "take"))
      BY <1>8 DEF Drain, Woken, mowerVars, Asked
    <2> QED
      BY <1>4, <2>1
  <1>9. CASE Write(c)
    <2>1. UNCHANGED <<rx, air, clean>> /\ pc[c] \in Asked
      BY <1>9 DEF Write, rxVars, Asked
    <2>2. CASE GiveUp(c) /\ UNCHANGED owed
      BY <1>3, <2>1, <2>2 DEF GiveUp
    <2>3. CASE /\ GoTo(c, "wait") /\ UNCHANGED job
               /\ owed' = owed \/ owed' = Append(owed, At(c).ask)
      <3>1. JobsOK'
        BY <1>2, <2>3, SameJobs
      <3>2. SeqsOK'
        BY <1>2, <2>1, <2>3, AppendProperties DEF SeqsOK
      <3>3. \A d \in Callers \ {c} : pc'[d] \notin Asked
        <4>1. mutex = c
          BY <1>9 DEF Write, TurnInv, OneQuestionAtATime
        <4> QED
          BY <2>3, <4>1, OthersDoNotAsk DEF GoTo, TurnInv, TurnTypes
      <3>4. clean[c] => Only(At(c).ask)'
        <4>1. At(c)' = At(c) /\ (clean[c] => Only(At(c).ask))
          BY <2>1, <2>3 DEF At, Ours
        <4>2. owed \in Seq({At(c).ask}) => owed' \in Seq({At(c).ask})
          BY <2>3, AppendProperties
        <4> QED
          BY <2>1, <4>1, <4>2 DEF Only
      <3> QED
        BY <1>1, <2>1, <3>1, <3>2, <3>3, <3>4 DEF Ours
    <2> QED
      BY <1>9, <2>2, <2>3 DEF Write
  <1>10. CASE Timeout(c)
    BY <1>5, <1>10 DEF Timeout, rxVars, mowerVars
  <1>11. CASE Take(c)
    <2>1. UNCHANGED <<clean, owed>> /\ rx' = << >> /\ Missed
      BY <1>11 DEF Take
    <2>2. CASE Unanswered(c)
      BY <1>5, <2>1, <2>2
    <2>3. ASSUME NEW ok, Return(c, ok) PROVE OursInv'
      BY <1>3, <2>1, <2>3
    <2> QED
      BY <1>11, <2>2, <2>3 DEF Take
  <1> QED
    BY <1>6, <1>7, <1>8, <1>9, <1>10, <1>11 DEF CallStep

LEMMA OursKept == OursInv /\ [Next]_vars => OursInv'
  <1> SUFFICES ASSUME OursInv, [Next]_vars PROVE OursInv'
    OBVIOUS
  <1> USE DEF OursInv
  <1>1. CASE UNCHANGED vars
    <2>1. UNCHANGED <<rx, air, owed, clean, job, pc>>
      BY <1>1 DEF vars, rxVars, taskVars, mowerVars
    <2> QED
      BY <1>1, <2>1, OthersTakeTurns DEF JobsOK, SeqsOK, Ours, Only, At
  <1>2. CASE Work
    <2>1. /\ JobsOK' /\ UNCHANGED <<rx, air, owed>>
          /\ \A c \in Callers : pc'[c] \in Asked => pc[c] = pc'[c] /\ job'[c] = job[c]
      BY <1>2, WorkIsTyped
    <2>2. PICK b \in Callers : clean' = [clean EXCEPT ![b] = TRUE] /\ pc'[b] = "lock"
      BY <1>2, WorkIsTyped
    <2>3. SeqsOK' /\ Ours'
      BY <2>1, <2>2 DEF SeqsOK, Ours, Only, At, Asked
    <2> QED
      BY <1>2, <2>1, <2>3, OthersTakeTurns
  <1>3. CASE \E c \in Callers : CallStep(c)
    BY <1>3, QuestionKeeps
  <1> QED
    BY <1>1, <1>2, <1>3, OutsideKeeps DEF Next

-----------------------------------------------------------------------------
\* An answer that is taken for a question is an answer to it, although nothing
\* compares the two, unless another one was outstanding when it was asked.
THEOREM AnswersMatch == Spec => AnswerIsOurs
  <1>1. OursInv => [\A c \in Callers : Take(c) /\ clean[c] /\ Decodes
                      => rx[1].to = At(c).ask]_vars
    <2> SUFFICES ASSUME OursInv, NEW c \in Callers, Take(c), clean[c], Decodes
                 PROVE  rx[1].to = At(c).ask
      OBVIOUS
    <2>1. rx \in Seq(FramesTo(At(c).ask))
      BY DEF OursInv, Ours, Only, Asked, Take
    <2>2. 1 \in DOMAIN rx
      BY <2>1, RpcConstants DEF Decodes
    <2>3. rx[1] \in FramesTo(At(c).ask)
      BY <2>1, <2>2
    <2> QED
      BY <2>3 DEF FramesTo
  <1> QED
    BY OursInit, OursKept, <1>1, PTL DEF Spec, AnswerIsOurs

-----------------------------------------------------------------------------
(***************************************************************************)
(* AnswerIsWhole.  Here the order matters.  What comes in the air is the   *)
(* end of one answer, and the next answer starts with its first part, so   *)
(* that a part in the buffer is preceded by the parts of its own answer,   *)
(* back to the first one or to the beginning of the buffer.  A loss always *)
(* empties the buffer: it happens while the buffer is emptied, or with the *)
(* link, after which the next connection empties it.                       *)
(***************************************************************************)

\* A notification and the one that is received after it.
Follows(a, b) ==
    IF a.part = Parts THEN b.part = 1 ELSE b.part = a.part + 1 /\ b.to = a.to

LastOf(s) == s[Len(s)]

\* The parts before a part are those of its answer.
OneAnswer(s) ==
    \A i \in DOMAIN s : \A k \in 1..i :
       i - k < s[i].part => s[k].to = s[i].to /\ s[k].part = s[i].part - (i - k)

\* What is on its way is consecutive and ends with an answer.
Runs(s) ==
    /\ \A i \in 1..(Len(s) - 1) : Follows(s[i], s[i + 1])
    /\ s # << >> => LastOf(s).part = Parts

\* A frame that is complete stays in the buffer as it is; to any other content
\* what is received next is the continuation.
Joined ==
    /\ rx # << >> /\ IsComplete(rx) => Len(rx) = Parts
    /\ link /\ rx # << >> /\ ~IsComplete(rx) =>
         /\ air = << >> => LastOf(rx).part = Parts
         /\ air # << >> => Follows(LastOf(rx), Head(air))

WholeInv ==
    /\ OneAnswer(rx) /\ Len(rx) <= RxParts /\ Runs(air) /\ Joined
    /\ ~link => air = << >>

LEMMA WholeInit == Init => WholeInv
  <1> SUFFICES ASSUME Init PROVE WholeInv
    OBVIOUS
  <1>1. rx = << >> /\ air = << >> /\ link
    BY DEF Init
  <1> QED
    BY <1>1, RpcConstants DEF WholeInv, OneAnswer, Runs, Joined

\* What is left when the front of it is lost or received.
LEMMA TailRuns ==
  ASSUME air \in Seq(Frames), Runs(air), NEW i \in 1..(Len(air) + 1)
  PROVE  Runs(SubSeq(air, i, Len(air)))
  <1> DEFINE s == SubSeq(air, i, Len(air))
  <1>1. s \in Seq(Frames) /\ Len(s) = Len(air) - i + 1
        /\ \A j \in 1..Len(s) : s[j] = air[i + j - 1]
    BY SubSeqProperties
  <1> HIDE DEF s
  <1>2. ASSUME NEW j \in 1..(Len(s) - 1) PROVE Follows(s[j], s[j + 1])
    <2>1. s[j] = air[i + j - 1] /\ s[j + 1] = air[(i + j - 1) + 1]
          /\ i + j - 1 \in 1..(Len(air) - 1)
      BY <1>1, <1>2
    <2> QED
      BY <2>1 DEF Runs
  <1>3. s # << >> => LastOf(s).part = Parts
    <2> SUFFICES ASSUME s # << >> PROVE LastOf(s).part = Parts
      OBVIOUS
    <2>1. Len(s) \in 1..Len(s) /\ air # << >>
      BY <1>1
    <2>2. s[Len(s)] = air[Len(air)]
      BY <1>1, <2>1
    <2> QED
      BY <2>1, <2>2 DEF Runs, LastOf
  <1> QED
    BY <1>2, <1>3 DEF Runs, s

\* A continuation is of the same answer as what it continues, or begins one.
LEMMA ContinuationFits ==
  ASSUME rx \in Seq(Frames), OneAnswer(rx), NEW frame \in Frames,
         rx # << >> => Follows(LastOf(rx), frame)
  PROVE  OneAnswer(Append(rx, frame))
  <1> DEFINE s == Append(rx, frame)
             n == Len(rx)
  <1>1. n \in Nat /\ DOMAIN s = 1..(n + 1) /\ s[n + 1] = frame
        /\ \A k \in 1..n : s[k] = rx[k]
    BY AppendProperties
  <1>2. ASSUME NEW i \in 1..n, NEW k \in 1..i, i - k < s[i].part
        PROVE  s[k].to = s[i].to /\ s[k].part = s[i].part - (i - k)
    BY <1>1, <1>2 DEF OneAnswer
  <1>3. ASSUME NEW k \in 1..(n + 1), n + 1 - k < frame.part
        PROVE  s[k].to = frame.to /\ s[k].part = frame.part - (n + 1 - k)
    <2>1. CASE k = n + 1
      BY <1>1, <2>1 DEF Frames
    <2>2. CASE k # n + 1
      <3>1. k \in 1..n /\ frame.part \in 1..Parts /\ frame.part # 1 /\ n \in DOMAIN rx
        BY <1>1, <1>3, <2>2 DEF Frames
      <3>2. frame.part = rx[n].part + 1 /\ frame.to = rx[n].to
        <4>1. rx # << >>
          BY <3>1
        <4>2. Follows(rx[n], frame)
          BY <4>1 DEF LastOf
        <4>3. rx[n].part # Parts
          BY <3>1, <4>2 DEF Follows
        <4> QED
          BY <4>2, <4>3 DEF Follows
      <3>3. rx[n].part \in 1..Parts
        <4>1. rx[n] \in Frames
          BY <3>1
        <4> QED
          BY <4>1 DEF Frames
      <3>4. n - k < rx[n].part
        BY <1>1, <1>3, <3>1, <3>2, <3>3, RpcConstants
      <3>5. rx[k].to = rx[n].to /\ rx[k].part = rx[n].part - (n - k)
        <4>1. \A j \in 1..n : n - j < rx[n].part =>
                 rx[j].to = rx[n].to /\ rx[j].part = rx[n].part - (n - j)
          BY <3>1 DEF OneAnswer
        <4> QED
          BY <3>1, <3>4, <4>1
      <3>6. s[k] = rx[k]
        BY <1>1, <3>1
      <3>7. rx[n].part - (n - k) = frame.part - (n + 1 - k)
        BY <1>1, <3>1, <3>2, <3>3, RpcConstants
      <3> QED
        BY <3>2, <3>5, <3>6, <3>7
    <2> QED
      BY <2>1, <2>2
  <1> HIDE DEF s
  <1> QED
    BY <1>1, <1>2, <1>3 DEF OneAnswer, s

\* The frames that follow one another still do when the first was received.
LEMMA NextFollows ==
  ASSUME air \in Seq(Frames), Runs(air), air # << >>
  PROVE  /\ Head(air) \in Frames /\ Tail(air) = SubSeq(air, 2, Len(air))
         /\ Tail(air) = << >> => Head(air).part = Parts
         /\ Tail(air) # << >> => Follows(Head(air), Head(Tail(air)))
  <1>1. Len(air) \in Nat /\ Len(air) >= 1 /\ Head(air) = air[1]
        /\ Len(Tail(air)) = Len(air) - 1
    BY HeadTailProperties
  <1>2. Head(air) \in Frames /\ Tail(air) = SubSeq(air, 2, Len(air))
    BY HeadTailProperties, TailIsSubSeq
  <1>3. ASSUME Tail(air) = << >> PROVE Head(air).part = Parts
    <2>1. Len(air) = 1
      <3> DEFINE t == Tail(air)
      <3>1. t = << >> /\ Len(t) = Len(air) - 1 /\ Len(air) \in Nat
        BY <1>1, <1>3
      <3> HIDE DEF t
      <3> QED
        BY <3>1
    <2> QED
      BY <1>1, <2>1 DEF Runs, LastOf
  <1>4. ASSUME Tail(air) # << >> PROVE Follows(Head(air), Head(Tail(air)))
    <2>1. Len(air) >= 2
      BY <1>1, <1>4
    <2>2. Head(Tail(air)) = air[2]
      BY <2>1, HeadTailProperties
    <2> QED
      BY <1>1, <2>1, <2>2 DEF Runs
  <1> QED
    BY <1>2, <1>3, <1>4

LEMMA NotifyKeepsWhole ==
  ASSUME SeqsOK, WholeInv, Notify
  PROVE  WholeInv'
  <1> USE DEF SeqsOK
  <1> DEFINE h   == Head(air)
             buf == Appended(h)
  <1>1. /\ air # << >> /\ air' = Tail(air) /\ UNCHANGED <<link, owed>>
        /\ IsComplete(buf) => rx' = SubSeq(buf, 1, Parts)
        /\ ~IsComplete(buf) => rx' = buf
    BY DEF Notify
  <1>2. link
    BY <1>1 DEF WholeInv
  <1>3. /\ h \in Frames /\ Runs(air')
        /\ air' = << >> => h.part = Parts
        /\ air' # << >> => Follows(h, Head(air'))
    <2>1. Runs(air) /\ 2 \in 1..(Len(air) + 1)
      BY <1>1 DEF WholeInv
    <2>2. Runs(SubSeq(air, 2, Len(air)))
      BY <2>1, TailRuns
    <2> QED
      BY <1>1, <2>1, <2>2, NextFollows
  <1>4. Parts \in Nat /\ Parts > 0 /\ RxParts \in Nat /\ RxParts >= Parts
        /\ Len(rx) \in Nat /\ Len(rx) <= RxParts
    BY RpcConstants DEF WholeInv
  <1> HIDE DEF h
  <1>5. CASE Len(rx) = RxParts
    <2>1. buf = <<h>> /\ Len(buf) = 1
      BY <1>5 DEF Appended
    <2>2. rx' = <<h>>
      <3>1. CASE IsComplete(buf)
        <4>1. Parts = 1
          BY <1>4, <2>1, <3>1 DEF IsComplete
        <4> QED
          BY <1>1, <2>1, <3>1, <4>1
      <3> QED
        BY <1>1, <2>1, <3>1
    <2>3. Len(rx') = 1 /\ rx'[1] = h /\ DOMAIN rx' = {1} /\ LastOf(rx') = h
      BY <2>2 DEF LastOf
    <2>4. OneAnswer(rx')
      BY <1>3, <2>3 DEF OneAnswer, Frames
    <2>5. Joined'
      BY <1>3, <1>4, <2>3 DEF Joined, IsComplete
    <2> QED
      BY <1>1, <1>2, <1>3, <1>4, <2>3, <2>4, <2>5 DEF WholeInv
  <1>6. CASE Len(rx) # RxParts
    <2>1. buf = Append(rx, h)
      BY <1>6 DEF Appended
    <2>2. /\ Len(buf) = Len(rx) + 1 /\ buf[Len(rx) + 1] = h
          /\ buf \in Seq(Frames) /\ \A i \in 1..Len(rx) : buf[i] = rx[i]
      BY <1>3, <2>1, AppendProperties
    <2>3. CASE rx # << >> /\ IsComplete(rx)
      <3>1. Len(rx) = Parts
        BY <2>3 DEF WholeInv, Joined
      <3>2. IsComplete(buf) /\ rx' = SubSeq(buf, 1, Parts)
        BY <1>1, <1>4, <2>2, <2>3, <3>1 DEF IsComplete
      <3>3. rx' = rx
        <4>1. Len(rx') = Parts /\ rx' \in Seq(Frames)
              /\ \A i \in 1..Parts : rx'[i] = buf[i]
          BY <1>4, <2>2, <3>1, <3>2, SubSeqProperties
        <4> QED
          BY <2>2, <3>1, <4>1
      <3> QED
        BY <1>1, <1>2, <1>3, <2>3, <3>3 DEF WholeInv, Joined
    <2>4. CASE rx = << >> \/ ~IsComplete(rx)
      <3>1. rx # << >> => Follows(LastOf(rx), h)
        BY <1>1, <1>2, <2>4 DEF WholeInv, Joined, h
      <3>2. OneAnswer(buf)
        BY <1>3, <2>1, <3>1, ContinuationFits DEF WholeInv
      <3>3. IsComplete(buf) => Len(buf) = Parts
        <4>1. CASE rx = << >>
          BY <1>4, <2>2, <4>1 DEF IsComplete
        <4>2. CASE rx # << >>
          <5>1. Len(rx) >= 1 /\ buf[1] = rx[1]
            BY <2>2, <4>2
          <5> QED
            BY <1>4, <2>2, <2>4, <4>2, <5>1 DEF IsComplete
        <4> QED
          BY <4>1, <4>2
      <3>4. rx' = buf
        <4>1. CASE IsComplete(buf)
          <5>1. SubSeq(buf, 1, Len(buf)) = buf
            BY <2>2, SubSeqProperties
          <5> QED
            BY <1>1, <3>3, <4>1, <5>1
        <4> QED
          BY <1>1, <4>1
      <3>5. LastOf(rx') = h /\ Len(rx') <= RxParts
        BY <1>4, <1>6, <2>2, <3>4 DEF LastOf
      <3>6. Joined'
        BY <1>3, <3>3, <3>4, <3>5 DEF Joined
      <3> HIDE DEF buf
      <3> QED
        BY <1>1, <1>2, <1>3, <3>2, <3>4, <3>5, <3>6 DEF WholeInv
    <2> QED
      BY <2>3, <2>4
  <1> QED
    BY <1>5, <1>6

\* An answer starts with its first part and nothing else is in the air.
LEMMA MowerKeepsWhole ==
  ASSUME SeqsOK, WholeInv, MowerWorks
  PROVE  WholeInv'
  <1>1. UNCHANGED <<link, rx>> /\ air = << >>
    BY DEF MowerWorks, rxVars
  <1>3. Parts \in Nat /\ Parts > 0
    BY RpcConstants
  <1>4. CASE UNCHANGED air
    BY <1>1, <1>4 DEF WholeInv, Joined
  <1>5. ASSUME link, NEW ask, NEW ok, Answers(ask, ok)
        PROVE  WholeInv'
    <2>1. /\ Len(air') = Parts /\ air' # << >> /\ Head(air').part = 1
          /\ \A i \in 1..Parts : air'[i].part = i /\ air'[i].to = ask
      BY <1>3, <1>5 DEF Answers
    <2>2. Runs(air')
      BY <1>3, <2>1 DEF Runs, Follows, LastOf
    <2>3. Joined'
      BY <1>1, <1>5, <2>1 DEF WholeInv, Joined, Follows
    <2> QED
      BY <1>1, <1>5, <2>2, <2>3 DEF WholeInv
  <1> QED
    BY <1>4, <1>5 DEF MowerWorks

\* A buffer that was just emptied fits whatever comes.
LEMMA EmptiedIsWhole ==
  ASSUME SeqsOK, WholeInv, rx' = << >>,
         UNCHANGED air \/ Missed \/ air' = << >>,
         ~link' => UNCHANGED link
  PROVE  WholeInv'
  <1>1. Runs(air') /\ (air = << >> => air' = << >>)
    <2>1. CASE UNCHANGED air
      BY <2>1 DEF WholeInv
    <2>2. CASE air' = << >>
      BY <2>2 DEF Runs
    <2>3. CASE Missed /\ air' # air
      <3>1. PICK i \in 2..Len(air) + 1 : air' = SubSeq(air, i, Len(air))
        BY <2>3 DEF Missed
      <3>2. i \in 1..(Len(air) + 1)
        BY <3>1 DEF SeqsOK
      <3> QED
        BY <2>3, <3>1, <3>2, TailRuns DEF Missed, SeqsOK, WholeInv
    <2> QED
      BY <2>1, <2>2, <2>3
  <1>2. OneAnswer(rx') /\ Joined' /\ Len(rx') = 0
    BY DEF OneAnswer, Joined
  <1> QED
    BY <1>1, <1>2, RpcConstants DEF WholeInv

LEMMA StepKeepsWhole == OursInv /\ WholeInv /\ [Next]_vars => WholeInv'
  <1> SUFFICES ASSUME OursInv, WholeInv, [Next]_vars PROVE WholeInv'
    OBVIOUS
  <1>1. SeqsOK
    BY DEF OursInv
  <1>2. ASSUME UNCHANGED <<link, rx, air>>
        PROVE  WholeInv'
    BY <1>2 DEF WholeInv, Joined
  <1>3. ASSUME NEW c \in Callers, CallStep(c)
        PROVE  WholeInv'
    <2>1. CASE Lock(c) \/ Drain(c) \/ Write(c) \/ Woken(c) \/ Timeout(c)
      BY <1>2, <2>1 DEF Lock, Drain, Write, Woken, Timeout, rxVars, mowerVars
    <2>2. CASE Flush(c) \/ Take(c)
      <3>1. UNCHANGED link
            /\ (UNCHANGED <<rx, air>> \/ (rx' = << >> /\ Missed))
        BY <2>2 DEF Flush, Take
      <3> QED
        BY <1>1, <1>2, <3>1, EmptiedIsWhole DEF WholeInv
    <2> QED
      BY <1>3, <2>1, <2>2 DEF CallStep
  <1>4. CASE Drop
    <2>1. link' = FALSE /\ air' = << >> /\ UNCHANGED rx
      BY <1>4 DEF Drop
    <2> QED
      BY <2>1 DEF WholeInv, Runs, Joined
  <1>5. CASE Reconnect
    BY <1>1, <1>5, EmptiedIsWhole DEF Reconnect, mowerVars
  <1>6. CASE Work
    BY <1>2, <1>6 DEF Work, Begin, rxVars, mowerVars
  <1>7. CASE GiveSignal \/ UNCHANGED vars
    BY <1>2, <1>7 DEF GiveSignal, vars, rxVars, mowerVars
  <1> QED
    BY <1>1, <1>3, <1>4, <1>5, <1>6, <1>7, NotifyKeepsWhole, MowerKeepsWhole DEF Next

\* What is decoded is one answer of the mower from its first part to its last,
\* never the pieces of two.
THEOREM AnswersAreWhole == Spec => AnswerIsWhole
  <1>1. OursInv /\ WholeInv =>
          [\A c \in Callers : Take(c) /\ Decodes =>
             \A i \in 1..Parts : rx[i].to = rx[1].to /\ rx[i].part = i]_vars
    <2> SUFFICES ASSUME OursInv, WholeInv, Decodes, NEW i \in 1..Parts
                 PROVE  rx[i].to = rx[1].to /\ rx[i].part = i
      OBVIOUS
    <2>1. Parts \in Nat /\ Parts > 0 /\ DOMAIN rx = 1..Parts /\ rx[Parts].part = Parts
      BY RpcConstants DEF Decodes, OursInv, SeqsOK
    <2>2. ASSUME NEW k \in 1..Parts
          PROVE  rx[k].to = rx[Parts].to /\ rx[k].part = k
      <3>1. Parts \in DOMAIN rx /\ k \in 1..Parts /\ Parts - k < rx[Parts].part
        BY <2>1
      <3>2. rx[k].to = rx[Parts].to /\ rx[k].part = rx[Parts].part - (Parts - k)
        BY <3>1 DEF WholeInv, OneAnswer
      <3> QED
        BY <2>1, <3>2
    <2> QED
      BY <2>1, <2>2
  <1> QED
    BY OursInit, OursKept, WholeInit, StepKeepsWhole, <1>1, PTL
       DEF Spec, AnswerIsWhole

-----------------------------------------------------------------------------
(* The rest of the types *)

OtherTypes ==
    /\ link \in BOOLEAN /\ sem \in BOOLEAN /\ giving \in BOOLEAN
    /\ good \in [Callers -> BOOLEAN] /\ agreed \in [Callers -> BOOLEAN]
    /\ \A c \in Callers : pc[c] = "idle" => job[c] = NoJob
    /\ mode \in {"home", "auto"} /\ override \in {"none", "mow", "park"}
    /\ set \subseteq {"enable", "level", "single"}

LEMMA OtherTypesInit == Init => OtherTypes
  BY DEF Init, OtherTypes

LEMMA CallKeepsTypes ==
  ASSUME TurnInv, OtherTypes, NEW c \in Callers, CallStep(c)
  PROVE  OtherTypes'
  <1> USE DEF TurnInv, TurnTypes, OtherTypes
  <1>1. UNCHANGED <<link, giving, mode, override, set>> /\ sem' \in BOOLEAN
    BY DEF CallStep, Lock, Flush, Drain, Write, Woken, Timeout, Take, rxVars,
       mowerVars, modeVars
  <1>2. ASSUME NEW ok, Return(c, ok)
        PROVE  good' \in [Callers -> BOOLEAN] /\ agreed' \in [Callers -> BOOLEAN]
               /\ \A d \in Callers : pc'[d] = "idle" => job'[d] = NoJob
    <2>1. (good[c] /\ (ok \/ ~At(c).counts)) \in BOOLEAN
          /\ (agreed[c] /\ ok) \in BOOLEAN
      OBVIOUS
    <2>2. good' \in [Callers -> BOOLEAN] /\ agreed' \in [Callers -> BOOLEAN]
      BY <1>2, <2>1 DEF Return
    <2>3. \A d \in Callers : pc'[d] = "idle" => job'[d] = NoJob
      BY <1>2 DEF Return, GoTo
    <2> QED
      BY <2>2, <2>3
  <1>3. ASSUME UNCHANGED <<good, agreed, job>>, NEW to \in Pcs \ {"idle"},
               GoTo(c, to)
        PROVE  good' \in [Callers -> BOOLEAN] /\ agreed' \in [Callers -> BOOLEAN]
               /\ \A d \in Callers : pc'[d] = "idle" => job'[d] = NoJob
    BY <1>3 DEF GoTo
  <1>4. \/ \E ok : Return(c, ok)
        \/ UNCHANGED <<good, agreed, job>> /\ \E to \in Pcs \ {"idle"} : GoTo(c, to)
    BY DEF CallStep, Lock, Flush, Drain, Write, Woken, Timeout, Take, Unanswered,
       GiveUp
  <1> QED
    BY <1>1, <1>2, <1>3, <1>4

LEMMA OtherTypesKept == TurnInv /\ OtherTypes /\ [Next]_vars => OtherTypes'
  <1> SUFFICES ASSUME TurnInv, OtherTypes, [Next]_vars PROVE OtherTypes'
    OBVIOUS
  <1> USE DEF OtherTypes
  <1>1. CASE Work
    <2>1. PICK c \in Callers : \E name, steps : Begin(c, name, steps)
      BY <1>1 DEF Work
    <2>2. good' \in [Callers -> BOOLEAN] /\ agreed' \in [Callers -> BOOLEAN]
          /\ \A d \in Callers : pc'[d] = "idle" => job'[d] = NoJob
      BY <2>1 DEF Begin, GoTo, TurnInv, TurnTypes
    <2> QED
      BY <2>1, <2>2 DEF Begin, rxVars, mowerVars, modeVars
  <1>2. CASE Notify
    <2>1. UNCHANGED <<link, sem, taskVars, modeVars>>
      BY <1>2 DEF Notify
    <2>2. giving' \in BOOLEAN
      BY <1>2 DEF Notify, IsComplete
    <2> QED
      BY <2>1, <2>2 DEF taskVars, modeVars
  <1>3. CASE GiveSignal \/ Drop \/ Reconnect \/ UNCHANGED vars
    BY <1>3 DEF GiveSignal, Drop, Reconnect, vars, taskVars, mowerVars, modeVars,
       rxVars
  <1>4. CASE MowerWorks
    <2>1. mode' \in {"home", "auto"} /\ override' \in {"none", "mow", "park"}
          /\ set' \subseteq {"enable", "level", "single"}
      BY <1>4 DEF MowerWorks, CarryOut, modeVars
    <2>2. UNCHANGED <<link, sem, giving, taskVars>>
      BY <1>4 DEF MowerWorks, rxVars
    <2> QED
      BY <2>1, <2>2 DEF taskVars
  <1> QED
    BY <1>1, <1>2, <1>3, <1>4, CallKeepsTypes DEF Next

\* The types: the receive buffer does not overflow, and a task that is idle has
\* no job.
THEOREM TypesAreKept == Spec => []TypeOK
  <1>1. OursInv /\ WholeInv /\ OtherTypes => TypeOK
    BY DEF OursInv, TurnInv, TurnTypes, SeqsOK, JobsOK, WholeInv, OtherTypes, TypeOK,
       Frames
  <1> QED
    BY OursInit, OursKept, WholeInit, StepKeepsWhole, OtherTypesInit, OtherTypesKept,
       <1>1, PTL DEF Spec, OursInv

-----------------------------------------------------------------------------
(***************************************************************************)
(* OkIsAchieved.  Kept follows a goal of conn_task's job from the answer   *)
(* that achieved it to the end of the job: what the mower may still carry  *)
(* out meanwhile belongs to the job or to the saver, and undoes nothing.   *)
(* Asking follows a question: an answer with "ok" that can still be taken  *)
(* means that what was asked was carried out.                              *)
(***************************************************************************)

\* The mower's state after a command.
Effect(ask) ==
    /\ ask \in {"home", "auto"} => mode = ask
    /\ ask \in {"mow", "park"} => override = ask
    /\ ask = "clear" => override = "none"
    /\ ask \in {"enable", "level", "single"} => ask \in set

\* What a job is for, and what it asks.
Goal(name, ask) ==
    \/ name = "mow" /\ ask \in {"auto", "mow"}
    \/ name \in {"park", "single"} /\ ask = name
    \/ name = "park for good" /\ ask \in {"clear", "home"}
    \/ name = "resume" /\ ask \in {"clear", "auto"}
    \/ name = "lawn" /\ ask \in {"enable", "level"}
Belongs(name, ask) ==
    \/ Goal(name, ask)
    \/ name \in {"mow", "park", "park for good", "resume"} /\ ask = "trigger"
    \/ name = "poll" /\ ask = "state"
    \/ name = "read" /\ ask = "task"
Harmless(name) == {ask \in Asks : Belongs(name, ask) \/ ask = "task"}

\* The questions of a job undo none of its goals, nor does the saver's one.
LEMMA NothingIsUndone ==
  ASSUME NEW name \in Names, NEW a \in Asks, NEW b \in Harmless(name),
         Goal(name, a), CarryOut(b), Effect(a)
  PROVE  Effect(a)'
  <1>1. CASE a \in {"home", "auto"}
    BY <1>1 DEF Harmless, Goal, Belongs, CarryOut, Effect
  <1>2. CASE a \in {"mow", "park", "clear"}
    BY <1>2 DEF Harmless, Goal, Belongs, CarryOut, Effect
  <1>3. CASE a \notin {"home", "auto", "mow", "park", "clear"}
    BY <1>3 DEF CarryOut, Effect
  <1> QED
    BY <1>1, <1>2, <1>3

LEMMA IsCarriedOut ==
  ASSUME NEW b \in Asks, CarryOut(b)
  PROVE  Effect(b)'
  BY DEF CarryOut, Effect

\* The steps fit what the job is for: a step towards a goal is repeated when it
\* is not answered, and counts, but for a mow.
FitsStep(name, step) ==
    /\ Belongs(name, step.ask)
    /\ Goal(name, step.ask) => step.twice /\ (step.counts \/ name = "mow")
Fits(name, steps) == \A i \in DOMAIN steps : FitsStep(name, steps[i])
Covers(name, steps) ==
    \A a \in Asks : Goal(name, a) => \E i \in DOMAIN steps : steps[i].ask = a

Planned ==
    \A c \in Callers : pc[c] # "idle" =>
       Fits(job[c].name, job[c].steps) /\ (c = Saver => job[c].name = "read")

FirstTry == \A c \in Callers : pc[c] \in {"idle", "lock"} => try[c] = 1

\* A question that is being asked, or is about to be repeated.
Held == pc[ConnTask] \in Asked \/ (pc[ConnTask] = "flush" /\ try[ConnTask] = 2)
Working == pc[ConnTask] # "idle" /\ clean[ConnTask]
ToDo(ask) ==
    \E i \in DOMAIN job[ConnTask].steps : job[ConnTask].steps[i].ask = ask

\* So far the job is good; a mow ignores an answer that it needs.
Sure(name) == good[ConnTask] /\ (name = "mow" => agreed[ConnTask])

Refused == [to : Asks, ok : {FALSE}, part : 1..Parts]

Kept ==
    \A name \in Names, a \in Asks :
       /\ Working /\ Sure(name) /\ name = job[ConnTask].name
       /\ Goal(name, a) /\ ~ToDo(a)
       => Effect(a) /\ owed \in Seq(Harmless(name))
Asking ==
    \A ask \in Asks :
       Working /\ Held /\ ask = At(ConnTask).ask =>
         /\ owed \in Seq({ask})
         /\ Effect(ask) \/ (rx \in Seq(Refused) /\ air \in Seq(Refused))

OkInv == OursInv /\ OtherTypes /\ Planned /\ FirstTry /\ Kept /\ Asking

LEMMA OkInit == Init => OkInv
  BY OursInit, OtherTypesInit DEF Init, OkInv, Planned, FirstTry, Kept, Asking, Working

\* Every plan fits its job and has a step for each goal.
LEMMA PlansFit ==
  /\ Fits("mow", Mow) /\ Covers("mow", Mow)
  /\ Fits("park", Park) /\ Covers("park", Park)
  /\ Fits("park for good", ParkForGood) /\ Covers("park for good", ParkForGood)
  /\ Fits("resume", Resume) /\ Covers("resume", Resume)
  /\ Fits("lawn", LawnSense) /\ Covers("lawn", LawnSense)
  /\ Fits("single", Single) /\ Covers("single", Single)
  /\ Fits("poll", Poll) /\ Covers("poll", Poll)
  /\ Fits("read", ReadSchedule) /\ Covers("read", ReadSchedule)
  <1>1. \A ask \in Asks :
          /\ Command(ask).ask = ask /\ Command(ask).twice /\ Command(ask).counts
          /\ IfOk(Command(ask)).ask = ask /\ IfOk(Command(ask)).twice
          /\ IfOk(Command(ask)).counts
          /\ Ignored(Command(ask)).ask = ask /\ Ignored(Command(ask)).twice
          /\ Query(ask).ask = ask
    BY DEF Command, IfOk, Ignored, Query
  <1>2. ASSUME NEW name, NEW s1, NEW s2, NEW s3,
               FitsStep(name, s1), FitsStep(name, s2), FitsStep(name, s3)
        PROVE  /\ Fits(name, <<s1>>) /\ Fits(name, <<s1, s2>>)
               /\ Fits(name, <<s1, s2, s3>>)
    BY <1>2 DEF Fits
  <1>3. ASSUME NEW name, NEW s1, NEW s2, NEW s3,
               \A a \in Asks : Goal(name, a) => a \in {s1.ask, s2.ask, s3.ask}
        PROVE  Covers(name, <<s1, s2, s3>>)
    <2> DEFINE s == <<s1, s2, s3>>
    <2>1. 1 \in DOMAIN s /\ 2 \in DOMAIN s /\ 3 \in DOMAIN s
          /\ s[1] = s1 /\ s[2] = s2 /\ s[3] = s3
      OBVIOUS
    <2> HIDE DEF s
    <2>2. Covers(name, s)
      BY <1>3, <2>1 DEF Covers
    <2> QED
      BY <2>2 DEF s
  <1>4. ASSUME NEW name, NEW s1, NEW s2,
               \A a \in Asks : Goal(name, a) => a \in {s1.ask, s2.ask}
        PROVE  Covers(name, <<s1, s2>>)
    <2> DEFINE s == <<s1, s2>>
    <2>1. 1 \in DOMAIN s /\ 2 \in DOMAIN s /\ s[1] = s1 /\ s[2] = s2
      OBVIOUS
    <2> HIDE DEF s
    <2>2. Covers(name, s)
      BY <1>4, <2>1 DEF Covers
    <2> QED
      BY <2>2 DEF s
  <1>5. ASSUME NEW name, NEW s1, \A a \in Asks : Goal(name, a) => a = s1.ask
        PROVE  Covers(name, <<s1>>)
    <2> DEFINE s == <<s1>>
    <2>1. 1 \in DOMAIN s /\ s[1] = s1
      OBVIOUS
    <2> HIDE DEF s
    <2>2. Covers(name, s)
      BY <1>5, <2>1 DEF Covers
    <2> QED
      BY <2>2 DEF s
  <1>6. /\ FitsStep("mow", Ignored(Command("auto")))
        /\ FitsStep("mow", Command("mow")) /\ FitsStep("mow", IfOk(Command("trigger")))
        /\ FitsStep("park", Command("park")) /\ FitsStep("park", IfOk(Command("trigger")))
    BY <1>1 DEF FitsStep, Goal, Belongs, Asks
  <1>7. /\ FitsStep("park for good", Command("clear"))
        /\ FitsStep("park for good", Command("home"))
        /\ FitsStep("park for good", Command("trigger"))
        /\ FitsStep("resume", Command("clear")) /\ FitsStep("resume", Command("auto"))
        /\ FitsStep("resume", Command("trigger"))
    BY <1>1 DEF FitsStep, Goal, Belongs, Asks
  <1>8. /\ FitsStep("lawn", Command("enable")) /\ FitsStep("lawn", Command("level"))
        /\ FitsStep("single", Command("single"))
        /\ FitsStep("poll", Query("state")) /\ FitsStep("read", Query("task"))
    BY <1>1 DEF FitsStep, Goal, Belongs, Asks
  <1>9. /\ Fits("mow", Mow) /\ Fits("park", Park)
        /\ Fits("park for good", ParkForGood) /\ Fits("resume", Resume)
    BY <1>2, <1>6, <1>7 DEF Mow, Park, ParkForGood, Resume
  <1>10. /\ Fits("lawn", LawnSense) /\ Fits("single", Single)
         /\ Fits("poll", Poll) /\ Fits("read", ReadSchedule)
    BY <1>2, <1>8 DEF LawnSense, Single, Poll, ReadSchedule
  <1>11. /\ \A a \in Asks : Goal("mow", a) =>
              a \in {Ignored(Command("auto")).ask, Command("mow").ask}
         /\ \A a \in Asks : Goal("park", a) => a = Command("park").ask
         /\ \A a \in Asks : Goal("park for good", a) =>
              a \in {Command("clear").ask, Command("home").ask}
         /\ \A a \in Asks : Goal("resume", a) =>
              a \in {Command("clear").ask, Command("auto").ask}
         /\ \A a \in Asks : Goal("lawn", a) =>
              a \in {Command("enable").ask, Command("level").ask}
         /\ \A a \in Asks : Goal("single", a) => a = Command("single").ask
         /\ \A a \in Asks : ~Goal("poll", a) /\ ~Goal("read", a)
    BY <1>1 DEF Goal, Asks
  <1>12. Covers("mow", Mow) /\ Covers("park", Park)
    BY <1>3, <1>4, <1>11 DEF Mow, Park
  <1>13. Covers("park for good", ParkForGood) /\ Covers("resume", Resume)
    BY <1>3, <1>11 DEF ParkForGood, Resume
  <1>14. Covers("lawn", LawnSense) /\ Covers("single", Single)
    BY <1>4, <1>5, <1>11 DEF LawnSense, Single
  <1>15. Covers("poll", Poll) /\ Covers("read", ReadSchedule)
    BY <1>11 DEF Covers
  <1> QED
    BY <1>9, <1>10, <1>12, <1>13, <1>14, <1>15

\* conn_task begins a job with all of its goals to do.
LEMMA WorkKeepsOk ==
  ASSUME OkInv, Work
  PROVE  Planned' /\ FirstTry' /\ Kept' /\ Asking'
  <1> USE DEF OkInv, OursInv, TurnInv, TurnTypes
  <1>1. PICK c \in Callers, name \in Names :
          \E steps : Begin(c, name, steps) /\ Fits(name, steps) /\ Covers(name, steps)
                     /\ (c = Saver => name = "read")
    BY PlansFit, RpcConstants, Zenon DEF Work, Names, Callers
  <1>2. PICK steps : Begin(c, name, steps) /\ Fits(name, steps) /\ Covers(name, steps)
                     /\ (c = Saver => name = "read")
    BY <1>1
  <1>3. /\ pc' = [pc EXCEPT ![c] = "lock"] /\ pc[c] = "idle"
        /\ job' = [job EXCEPT ![c] = [name |-> name, steps |-> steps]]
        /\ good' = [good EXCEPT ![c] = TRUE] /\ clean' = [clean EXCEPT ![c] = TRUE]
        /\ agreed' = [agreed EXCEPT ![c] = TRUE]
        /\ UNCHANGED <<try, rx, air, owed, mode, override, set>>
    BY <1>2 DEF Begin, GoTo, rxVars, mowerVars, modeVars
  <1>4. /\ pc'[c] = "lock" /\ job'[c].name = name /\ job'[c].steps = steps
        /\ \A d \in Callers \ {c} : pc'[d] = pc[d] /\ job'[d] = job[d]
    BY <1>3
  <1>5. Planned'
    BY <1>2, <1>4 DEF Planned
  <1>6. FirstTry'
    BY <1>3, <1>4 DEF FirstTry
  <1>7. CASE c = ConnTask
    <2>1. ~Held'
      BY <1>3, <1>4, <1>6, <1>7 DEF Held, Asked, FirstTry
    <2>2. Kept'
      <3>1. \A a \in Asks : Goal(name, a) => ToDo(a)'
        BY <1>2, <1>4, <1>7 DEF Covers, ToDo
      <3> QED
        BY <1>4, <1>7, <3>1 DEF Kept
    <2> QED
      BY <1>5, <1>6, <2>1, <2>2 DEF Asking
  <1>8. CASE c # ConnTask
    <2>1. /\ pc'[ConnTask] = pc[ConnTask] /\ job'[ConnTask] = job[ConnTask]
          /\ good'[ConnTask] = good[ConnTask] /\ clean'[ConnTask] = clean[ConnTask]
          /\ agreed'[ConnTask] = agreed[ConnTask]
      BY <1>3, <1>4, <1>8 DEF SeqsOK, OtherTypes
    <2>2. Kept'
      BY <1>3, <2>1 DEF Kept, Working, Sure, ToDo, Effect
    <2>3. Asking'
      BY <1>3, <2>1 DEF Asking, Working, Held, At, Effect
    <2> QED
      BY <1>5, <1>6, <2>2, <2>3
  <1> QED
    BY <1>7, <1>8

\* A call that goes on leaves its job as it is and is not back at the lock.
LEMMA PlansAreKept ==
  ASSUME OkInv, NEW c \in Callers, CallStep(c)
  PROVE  Planned' /\ FirstTry'
  <1> USE DEF OkInv, OursInv, TurnInv, TurnTypes
  <1>1. pc[c] # "idle" /\ job[c] \in Jobs /\ Fits(job[c].name, job[c].steps)
    BY DEF CallStep, Lock, Flush, Drain, Write, Woken, Timeout, Take, JobsOK, Planned
  <1>2. ASSUME NEW ok, Return(c, ok) PROVE Planned' /\ FirstTry'
    <2> DEFINE rest == Tail(job[c].steps)
    <2>1. /\ try'[c] = 1
          /\ \A d \in Callers \ {c} : pc'[d] = pc[d] /\ job'[d] = job[d]
                                      /\ try'[d] = try[d]
          /\ pc'[c] # "idle" => job'[c] = [job[c] EXCEPT !.steps = rest]
      BY <1>2 DEF Return, GoTo
    <2>2. Fits(job[c].name, rest)
      <3>1. \A i \in DOMAIN rest : i + 1 \in DOMAIN job[c].steps
                                   /\ rest[i] = job[c].steps[i + 1]
        BY <1>1, HeadTailProperties DEF Jobs
      <3> QED
        BY <1>1, <3>1 DEF Fits
    <2>3. pc'[c] # "idle" => job'[c].name = job[c].name /\ job'[c].steps = rest
      BY <1>1, <2>1 DEF Jobs
    <2> HIDE DEF rest
    <2> QED
      BY <1>1, <2>1, <2>2, <2>3 DEF Planned, FirstTry
  <1>3. ASSUME UNCHANGED job, NEW to \in {"flush", "drain", "write", "wait", "take"},
               GoTo(c, to), \A d \in Callers \ {c} : try'[d] = try[d]
        PROVE  Planned' /\ FirstTry'
    <2>1. pc'[c] = to /\ \A d \in Callers \ {c} : pc'[d] = pc[d]
      BY <1>3 DEF GoTo
    <2> QED
      BY <1>1, <1>3, <2>1 DEF Planned, FirstTry
  <1>4. CASE Unanswered(c)
    BY <1>2, <1>3, <1>4 DEF Unanswered, GiveUp
  <1>5. CASE Lock(c)
    BY <1>2, <1>3, <1>5 DEF Lock
  <1>6. CASE Flush(c) \/ Write(c)
    BY <1>2, <1>3, <1>6 DEF Flush, Write, GiveUp
  <1>7. CASE Drain(c) \/ Woken(c)
    BY <1>3, <1>7 DEF Drain, Woken
  <1>8. CASE Timeout(c)
    BY <1>4, <1>8 DEF Timeout
  <1>9. CASE Take(c)
    BY <1>2, <1>4, <1>9 DEF Take
  <1> QED
    BY <1>5, <1>6, <1>7, <1>8, <1>9 DEF CallStep

\* What is true of a job that goes on stays true while the mower is left alone.
LEMMA KeptOn ==
  ASSUME Kept, Working' => Working, job'[ConnTask] = job[ConnTask],
         good'[ConnTask] = good[ConnTask], agreed'[ConnTask] = agreed[ConnTask],
         UNCHANGED modeVars,
         \A name \in Names : /\ Working /\ name = job[ConnTask].name
                             /\ owed \in Seq(Harmless(name))
                             => owed' \in Seq(Harmless(name))
  PROVE  Kept'
  BY DEF Kept, Working, Sure, ToDo, Effect, modeVars

LEMMA AskingOn ==
  ASSUME Asking, Working' => Working, job'[ConnTask] = job[ConnTask],
         Held' => Held, UNCHANGED modeVars,
         rx' = rx \/ rx' = << >>,
         air' = air \/ air' = << >> \/ Missed,
         \A ask \in Asks : ask = At(ConnTask).ask =>
            (owed \in Seq({ask}) => owed' \in Seq({ask}))
  PROVE  Asking'
  <1> SUFFICES ASSUME NEW ask \in Asks, Working', Held', ask = At(ConnTask)'.ask
               PROVE  /\ owed' \in Seq({ask})
                      /\ Effect(ask)' \/ (rx' \in Seq(Refused) /\ air' \in Seq(Refused))
    BY DEF Asking
  <1>1. Working /\ Held /\ ask = At(ConnTask).ask
    BY DEF At
  <1>2. /\ owed \in Seq({ask})
        /\ Effect(ask) \/ (rx \in Seq(Refused) /\ air \in Seq(Refused))
    BY <1>1 DEF Asking
  <1>3. CASE Effect(ask)
    BY <1>1, <1>2, <1>3 DEF Effect, modeVars
  <1>4. CASE rx \in Seq(Refused) /\ air \in Seq(Refused)
    <2>1. << >> \in Seq(Refused) /\ (Missed => air' \in Seq(Refused))
      BY <1>4, MissedKeeps
    <2> QED
      BY <1>1, <1>2, <1>4, <2>1
  <1> QED
    BY <1>2, <1>3, <1>4

\* The saver asks for a task, which is harmless, and not while conn_task asks.
LEMMA SaverKeepsOk ==
  ASSUME OkInv, CallStep(Saver)
  PROVE  Kept' /\ Asking'
  <1> USE DEF OkInv, OursInv, TurnInv, TurnTypes
  <1>1. ConnTask \in Callers /\ Saver \in Callers /\ ConnTask # Saver
    BY RpcConstants
  <1>2. /\ pc'[ConnTask] = pc[ConnTask] /\ job'[ConnTask] = job[ConnTask]
        /\ good'[ConnTask] = good[ConnTask] /\ clean'[ConnTask] = clean[ConnTask]
        /\ agreed'[ConnTask] = agreed[ConnTask]
        /\ try'[ConnTask] = try[ConnTask]
    BY <1>1 DEF CallStep, Lock, Flush, Drain, Write, Woken, Timeout, Take, Unanswered,
       GiveUp, Return, GoTo, NoteClean, SeqsOK, OtherTypes
  <1>3. UNCHANGED modeVars
    BY DEF CallStep, Lock, Flush, Drain, Write, Woken, Timeout, Take, mowerVars
  <1>4. pc[Saver] # "idle" => At(Saver).ask = "task"
    <2>1. pc[Saver] # "idle" => job[Saver] \in Jobs /\ Fits("read", job[Saver].steps)
      BY <1>1 DEF Planned, JobsOK
    <2>2. pc[Saver] # "idle" => FitsStep("read", At(Saver))
      <3>1. ASSUME NEW st \in Seq(Steps) \ {<< >>}, Fits("read", st)
            PROVE  FitsStep("read", Head(st))
        BY <3>1 DEF Fits
      <3> QED
        BY <2>1, <3>1 DEF Jobs, At
    <2> QED
      BY <2>2 DEF FitsStep, Belongs, Goal
  <1>5. owed' = owed \/ (pc[Saver] = "write" /\ owed' = Append(owed, "task"))
    BY <1>4 DEF CallStep, Lock, Flush, Drain, Write, Woken, Timeout, Take, mowerVars
  <1>6. Held => UNCHANGED <<rx, air, owed>>
    <2> SUFFICES ASSUME Held PROVE UNCHANGED <<rx, air, owed>>
      OBVIOUS
    <2>1. mutex = ConnTask
      BY <1>1 DEF Held, Asked, OneQuestionAtATime
    <2>2. pc[Saver] \in {"idle", "lock"}
      BY <1>1, <2>1 DEF OneQuestionAtATime
    <2> QED
      BY <2>2 DEF CallStep, Lock, Flush, Drain, Write, Woken, Timeout, Take, rxVars,
         mowerVars
  <1>7. Kept'
    <2>1. ASSUME NEW name \in Names, owed \in Seq(Harmless(name))
          PROVE  owed' \in Seq(Harmless(name))
      <3>1. "task" \in Harmless(name)
        BY DEF Harmless, Asks
      <3>2. Append(owed, "task") \in Seq(Harmless(name))
        BY <2>1, <3>1, AppendProperties
      <3> QED
        BY <1>5, <2>1, <3>2
    <2> QED
      BY <1>2, <1>3, <2>1, KeptOn DEF Working
  <1>8. Asking'
    BY <1>2, <1>3, <1>6 DEF Asking, Working, Held, At, Effect, modeVars
  <1> QED
    BY <1>7, <1>8

\* The step that conn_task is at.
LEMMA StepFits ==
  ASSUME OkInv, pc[ConnTask] # "idle"
  PROVE  /\ job[ConnTask] \in Jobs /\ job[ConnTask].name \in Names
         /\ At(ConnTask).ask \in Asks /\ FitsStep(job[ConnTask].name, At(ConnTask))
         /\ At(ConnTask).ask \in Harmless(job[ConnTask].name)
  <1> DEFINE st == job[ConnTask].steps
  <1>1. job[ConnTask] \in Jobs /\ Fits(job[ConnTask].name, st) /\ ConnTask \in Callers
    BY DEF OkInv, OursInv, JobsOK, Planned
  <1>2. st \in Seq(Steps) /\ st # << >> /\ job[ConnTask].name \in Names
    BY <1>1 DEF Jobs
  <1>3. Head(st) = st[1] /\ 1 \in DOMAIN st /\ Head(st) \in Steps
    BY <1>2, HeadTailProperties
  <1>4. FitsStep(job[ConnTask].name, At(ConnTask))
    BY <1>1, <1>3 DEF Fits, At
  <1> QED
    BY <1>1, <1>2, <1>3, <1>4 DEF At, Steps, Harmless, FitsStep

\* What a call that returns ok says of the goal that it was a step to.
Truthful(ok) ==
    \A name \in Names, a \in Asks :
       /\ ok /\ clean[ConnTask] /\ name = job[ConnTask].name
       /\ Goal(name, a) /\ a = At(ConnTask).ask
       => Effect(a) /\ owed \in Seq(Harmless(name))

LEMMA TakeIsTruthful ==
  ASSUME OkInv, Take(ConnTask), Decodes
  PROVE  Truthful(rx[1].ok \/ ~At(ConnTask).twice)
  <1> SUFFICES ASSUME NEW name \in Names, NEW a \in Asks,
                      rx[1].ok \/ ~At(ConnTask).twice, clean[ConnTask],
                      name = job[ConnTask].name, Goal(name, a), a = At(ConnTask).ask
               PROVE  Effect(a) /\ owed \in Seq(Harmless(name))
    BY DEF Truthful
  <1>1. Working /\ Held
    BY DEF Take, Working, Held, Asked
  <1>2. rx[1].ok
    BY <1>1, StepFits DEF FitsStep, Working
  <1>3. owed \in Seq({a}) /\ (Effect(a) \/ rx \in Seq(Refused))
    BY <1>1 DEF OkInv, Asking
  <1>4. rx \notin Seq(Refused)
    <2>1. 1 \in DOMAIN rx
      BY RpcConstants DEF Decodes, OkInv, OursInv, SeqsOK
    <2>2. ASSUME rx \in Seq(Refused) PROVE FALSE
      <3>1. rx[1] \in Refused
        BY <2>1, <2>2
      <3>2. rx[1].ok = FALSE
        BY <3>1 DEF Refused
      <3> QED
        BY <1>2, <3>2
    <2> QED
      BY <2>2
  <1>5. a \in Harmless(name)
    BY <1>1, StepFits DEF Working
  <1>6. owed \in Seq(Harmless(name))
    BY <1>3, <1>5, SeqOver
  <1> QED
    BY <1>3, <1>4, <1>6

\* A call of conn_task returns, or its job goes on as it is.
LEMMA ConnReturnsOrGoesOn ==
  ASSUME OkInv, CallStep(ConnTask)
  PROVE  \/ /\ \E ok : Return(ConnTask, ok) /\ Truthful(ok)
            /\ UNCHANGED <<modeVars, owed, clean>>
         \/ /\ UNCHANGED <<job, good, agreed, modeVars>>
            /\ \E to \in {"flush", "drain", "write", "wait", "take"} :
                  GoTo(ConnTask, to)
  <1>1. Truthful(FALSE)
    BY DEF Truthful
  <1>2. UNCHANGED modeVars
    BY DEF CallStep, Lock, Flush, Drain, Write, Woken, Timeout, Take, mowerVars
  <1>3. CASE Lock(ConnTask) \/ Drain(ConnTask) \/ Woken(ConnTask)
    BY <1>1, <1>2, <1>3 DEF Lock, Drain, Woken, mowerVars
  <1>4. CASE Flush(ConnTask) \/ Write(ConnTask)
    BY <1>1, <1>2, <1>4 DEF Flush, Write, GiveUp
  <1>5. CASE Timeout(ConnTask)
    BY <1>1, <1>2, <1>5 DEF Timeout, Unanswered, GiveUp, mowerVars
  <1>6. CASE Take(ConnTask)
    <2>1. UNCHANGED <<owed, clean>>
      BY <1>6 DEF Take
    <2>2. CASE Decodes /\ Return(ConnTask, rx[1].ok \/ ~At(ConnTask).twice)
      BY <1>2, <1>6, <2>1, <2>2, TakeIsTruthful
    <2>3. CASE Unanswered(ConnTask)
      BY <1>1, <1>2, <2>1, <2>3 DEF Unanswered, GiveUp
    <2> QED
      BY <1>6, <2>2, <2>3 DEF Take
  <1> QED
    BY <1>3, <1>4, <1>5, <1>6 DEF CallStep

\* After a return each goal is still to do, or achieved, or the job has failed.
LEMMA ReturnAchieves ==
  ASSUME OkInv, pc[ConnTask] # "idle", clean[ConnTask],
         NEW ok, Return(ConnTask, ok), Truthful(ok), good'[ConnTask],
         job[ConnTask].name = "mow" => agreed'[ConnTask],
         NEW a \in Asks, Goal(job[ConnTask].name, a)
  PROVE  \/ \E i \in DOMAIN Tail(job[ConnTask].steps) :
               Tail(job[ConnTask].steps)[i].ask = a
         \/ Effect(a) /\ owed \in Seq(Harmless(job[ConnTask].name))
  <1> DEFINE st == job[ConnTask].steps
             rest == Tail(st)
  <1>1. st \in Seq(Steps) /\ st # << >> /\ job[ConnTask].name \in Names
    BY StepFits DEF Jobs
  <1>2. Len(rest) = Len(st) - 1 /\ rest \in Seq(Steps)
        /\ \A i \in 1..Len(rest) : rest[i] = st[i + 1]
    BY <1>1, HeadTailProperties
  <1>3. /\ good[ConnTask] /\ (ok \/ ~At(ConnTask).counts)
        /\ job[ConnTask].name = "mow" => agreed[ConnTask] /\ ok
    BY DEF Return, OkInv, OtherTypes
  <1>4. CASE a = At(ConnTask).ask
    <2>1. ok
      BY <1>3, <1>4, StepFits DEF FitsStep
    <2> QED
      BY <1>1, <1>4, <2>1 DEF Truthful
  <1>5. CASE a # At(ConnTask).ask /\ ToDo(a)
    <2>1. PICK i \in DOMAIN st : st[i].ask = a
      BY <1>5 DEF ToDo
    <2>2. i # 1
      BY <1>1, <1>5, <2>1 DEF At
    <2>3. i - 1 \in DOMAIN rest /\ rest[i - 1] = st[i]
      BY <1>1, <1>2, <2>1, <2>2
    <2> QED
      BY <2>1, <2>3
  <1>6. CASE ~ToDo(a)
    BY <1>1, <1>3, <1>6 DEF OkInv, Kept, Working, Sure
  <1> QED
    BY <1>4, <1>5, <1>6

LEMMA ReturnKeepsOk ==
  ASSUME OkInv, pc[ConnTask] # "idle",
         NEW ok, Return(ConnTask, ok), Truthful(ok), UNCHANGED <<modeVars, owed, clean>>
  PROVE  Kept' /\ Asking'
  <1> DEFINE rest == Tail(job[ConnTask].steps)
  <1>1. ConnTask \in Callers /\ pc'[ConnTask] \in {"idle", "lock"} /\ ~Held'
    BY ReturnTakesTurns DEF OkInv, OursInv, TurnInv, Held, Asked
  <1>2. pc'[ConnTask] # "idle" => /\ job'[ConnTask].name = job[ConnTask].name
                                  /\ job'[ConnTask].steps = rest
    <2>1. pc'[ConnTask] # "idle" =>
            job'[ConnTask] = [job[ConnTask] EXCEPT !.steps = rest]
      BY DEF Return, GoTo, OkInv, OursInv, TurnInv, TurnTypes
    <2> QED
      BY <2>1, StepFits DEF Jobs
  <1> HIDE DEF rest
  <1>3. Kept'
    <2> SUFFICES ASSUME NEW name \in Names, NEW a \in Asks, Working', Sure(name)',
                        name = job'[ConnTask].name, Goal(name, a), ~ToDo(a)'
                 PROVE  Effect(a)' /\ owed' \in Seq(Harmless(name))
      BY DEF Kept
    <2>1. clean[ConnTask] /\ name = job[ConnTask].name /\ Sure(name)'
          /\ ~\E i \in DOMAIN rest : rest[i].ask = a
      BY <1>2 DEF Working, ToDo
    <2>2. Effect(a) /\ owed \in Seq(Harmless(name))
      BY <2>1, ReturnAchieves DEF rest, Sure
    <2> QED
      BY <2>2 DEF Effect, modeVars
  <1> QED
    BY <1>1, <1>3 DEF Asking

LEMMA ConnKeepsOk ==
  ASSUME OkInv, CallStep(ConnTask)
  PROVE  Kept' /\ Asking'
  <1> USE DEF OkInv, OursInv, TurnInv, TurnTypes
  <1>1. pc[ConnTask] # "idle" /\ ConnTask \in Callers
    BY DEF CallStep, Lock, Flush, Drain, Write, Woken, Timeout, Take
  <1>2. CASE /\ \E ok : Return(ConnTask, ok) /\ Truthful(ok)
             /\ UNCHANGED <<modeVars, owed, clean>>
    BY <1>1, <1>2, ReturnKeepsOk
  <1>3. ASSUME UNCHANGED <<job, good, agreed, modeVars>>,
               NEW to \in {"flush", "drain", "write", "wait", "take"},
               GoTo(ConnTask, to)
        PROVE  Kept' /\ Asking'
    <2>1. pc'[ConnTask] = to /\ pc'[ConnTask] # "idle"
      BY <1>3 DEF GoTo
    <2>2. clean'[ConnTask] => clean[ConnTask]
      BY DEF CallStep, Lock, Flush, Drain, Write, Woken, Timeout, Take, NoteClean,
         SeqsOK
    <2>3. Working' => Working
      BY <1>1, <2>2 DEF Working
    <2>4. owed' = owed \/ owed' = Append(owed, At(ConnTask).ask)
      BY DEF CallStep, Lock, Flush, Drain, Write, Woken, Timeout, Take, mowerVars
    <2>5. Kept'
      <3>1. ASSUME NEW name \in Names, name = job[ConnTask].name,
                   owed \in Seq(Harmless(name))
            PROVE  owed' \in Seq(Harmless(name))
        <4>1. At(ConnTask).ask \in Harmless(name)
          BY <1>1, <3>1, StepFits
        <4> QED
          BY <2>4, <3>1, <4>1, AppendProperties
      <3> QED
        BY <1>3, <2>3, <3>1, KeptOn
    <2>6. ASSUME Held' => Held PROVE Asking'
      <3>1. rx' = rx \/ rx' = << >>
        BY DEF CallStep, Lock, Flush, Drain, Write, Woken, Timeout, Take, rxVars
      <3>2. air' = air \/ Missed
        BY DEF CallStep, Lock, Flush, Drain, Write, Woken, Timeout, Take, mowerVars
      <3>3. ASSUME NEW ask \in Asks, ask = At(ConnTask).ask, owed \in Seq({ask})
            PROVE  owed' \in Seq({ask})
        <4>1. Append(owed, ask) \in Seq({ask})
          BY <3>3, AppendProperties
        <4> QED
          BY <2>4, <3>3, <4>1
      <3>4. /\ Asking /\ job'[ConnTask] = job[ConnTask] /\ UNCHANGED modeVars
            /\ (air' = air \/ air' = << >> \/ Missed)
        BY <1>3, <3>2
      <3> HIDE DEF OkInv, OursInv, TurnInv, TurnTypes
      <3> QED
        BY <2>3, <2>6, <3>1, <3>3, <3>4, AskingOn
    <2>7. CASE Lock(ConnTask)
      <3>1. ~Held'
        BY <1>1, <1>3, <2>1, <2>7 DEF Lock, Return, GoTo, Held, Asked, FirstTry
      <3> QED
        BY <2>5, <2>6, <3>1
    <2>8. CASE Flush(ConnTask)
      <3>1. CASE try[ConnTask] = 2
        BY <2>5, <2>6, <2>8, <3>1 DEF Flush, Held
      <3>2. CASE try[ConnTask] # 2
        <4>1. pc'[ConnTask] = "drain" \/ pc'[ConnTask] \in {"idle", "lock"}
          BY <1>1, <2>8, ReturnTakesTurns DEF Flush, GiveUp, GoTo
        <4>2. pc'[ConnTask] = "drain"
          BY <1>3, <2>1, <4>1
        <4>3. rx' = << >> /\ Missed /\ NoteClean(ConnTask) /\ UNCHANGED owed
          BY <1>1, <2>8, <4>2, ReturnTakesTurns DEF Flush, GiveUp
        <4>4. try[ConnTask] = 1
          BY <1>1, <3>2
        <4>5. clean'[ConnTask] => owed' = << >> /\ air' = << >>
          BY <1>1, <4>3, <4>4 DEF NoteClean, Outstanding, Missed, SeqsOK
        <4>6. Asking'
          BY <4>3, <4>5 DEF Asking, Working
        <4> QED
          BY <2>5, <4>6
      <3> QED
        BY <3>1, <3>2
    <2>9. CASE \/ Drain(ConnTask) \/ Write(ConnTask) \/ Woken(ConnTask)
               \/ Timeout(ConnTask) \/ Take(ConnTask)
      <3>1. Held
        BY <2>9 DEF Drain, Write, Woken, Timeout, Take, Held, Asked
      <3> QED
        BY <2>5, <2>6, <3>1
    <2> QED
      BY <2>7, <2>8, <2>9 DEF CallStep
  <1> QED
    BY <1>2, <1>3, ConnReturnsOrGoesOn

\* The mower carries out what belongs to the job, and answers "ok" to what it has
\* carried out.
LEMMA MowerKeepsOk ==
  ASSUME OkInv, MowerWorks
  PROVE  Kept' /\ Asking'
  <1> USE DEF OkInv, OursInv
  <1>1. /\ owed # << >> /\ owed \in Seq(Asks) /\ owed' = Tail(owed)
        /\ UNCHANGED <<rx, pc, job, try, good, clean, agreed>> /\ air = << >>
    BY DEF MowerWorks, SeqsOK, rxVars, taskVars
  <1>2. PICK b \in Asks : b = Head(owed)
    BY <1>1, HeadTailProperties
  <1>3. \/ CarryOut(b)
        \/ UNCHANGED modeVars /\ (UNCHANGED air \/ Answers(b, FALSE))
    BY <1>2 DEF MowerWorks
  <1>4. \A S : owed \in Seq(S) => b \in S /\ owed' \in Seq(S)
    BY <1>1, <1>2, HeadTailProperties
  <1>5. Kept'
    <2> SUFFICES ASSUME NEW name \in Names, NEW a \in Asks, Working, Sure(name),
                        name = job[ConnTask].name, Goal(name, a), ~ToDo(a)
                 PROVE  Effect(a)' /\ owed' \in Seq(Harmless(name))
      BY <1>1 DEF Kept, Working, Sure, ToDo
    <2>1. Effect(a) /\ b \in Harmless(name) /\ owed' \in Seq(Harmless(name))
      BY <1>4 DEF Kept
    <2>2. CASE CarryOut(b)
      BY <2>1, <2>2, NothingIsUndone
    <2>3. CASE UNCHANGED modeVars
      BY <2>1, <2>3 DEF Effect, modeVars
    <2> QED
      BY <1>3, <2>1, <2>2, <2>3
  <1>6. Asking'
    <2> SUFFICES ASSUME NEW ask \in Asks, Working, Held, ask = At(ConnTask).ask
                 PROVE  /\ owed' \in Seq({ask})
                        /\ Effect(ask)' \/ (rx' \in Seq(Refused) /\ air' \in Seq(Refused))
      BY <1>1 DEF Asking, Working, Held, At
    <2>1. /\ owed \in Seq({ask})
          /\ Effect(ask) \/ (rx \in Seq(Refused) /\ air \in Seq(Refused))
      BY DEF Asking
    <2>2. b = ask /\ owed' \in Seq({ask})
      BY <1>4, <2>1
    <2>3. CASE CarryOut(b)
      BY <2>2, <2>3, IsCarriedOut
    <2>4. CASE UNCHANGED modeVars /\ UNCHANGED air
      BY <1>1, <2>1, <2>2, <2>4 DEF Effect, modeVars
    <2>5. CASE UNCHANGED modeVars /\ Answers(b, FALSE)
      <3>1. air' \in Seq(Refused)
        BY <2>5, RpcConstants DEF Answers, Refused
      <3> QED
        BY <1>1, <2>1, <2>2, <2>5, <3>1 DEF Effect, modeVars
    <2> QED
      BY <1>3, <2>3, <2>4, <2>5
  <1> QED
    BY <1>5, <1>6

LEMMA HostKeepsOk ==
  ASSUME OkInv, Notify \/ GiveSignal \/ Drop \/ Reconnect \/ UNCHANGED vars
  PROVE  Kept' /\ Asking'
  <1> USE DEF OkInv, OursInv
  <1>1. UNCHANGED <<pc, job, try, good, clean, agreed, modeVars>>
        /\ (owed' = owed \/ owed' = << >>)
    <2>1. CASE Notify \/ Drop
      BY <2>1 DEF Notify, Drop, taskVars
    <2>2. CASE GiveSignal \/ Reconnect
      BY <2>2 DEF GiveSignal, Reconnect, taskVars, mowerVars
    <2>3. CASE UNCHANGED vars
      BY <2>3 DEF vars, taskVars, mowerVars
    <2> QED
      BY <2>1, <2>2, <2>3
  <1>2. ASSUME NEW S, owed \in Seq(S) PROVE owed' \in Seq(S)
    <2>1. << >> \in Seq(S)
      OBVIOUS
    <2> QED
      BY <1>1, <1>2, <2>1
  <1>3. (Working' <=> Working) /\ (Held' <=> Held) /\ At(ConnTask)' = At(ConnTask)
    BY <1>1 DEF Working, Held, At
  <1>4. Kept'
    BY <1>1, <1>2, <1>3, KeptOn
  <1>5. CASE Notify
    <2>1. rx \in Seq(Refused) /\ air \in Seq(Refused)
             => rx' \in Seq(Refused) /\ air' \in Seq(Refused)
      BY <1>5, NotifyKeeps
    <2>2. \A ask : Effect(ask) => Effect(ask)'
      BY <1>1 DEF Effect, modeVars
    <2>3. Asking'
      BY <1>2, <1>3, <2>1, <2>2 DEF Asking
    <2> QED
      BY <1>4, <2>3
  <1>6. CASE GiveSignal \/ Drop \/ Reconnect \/ UNCHANGED vars
    <2>1. /\ rx' = rx \/ rx' = << >>
          /\ air' = air \/ air' = << >>
      BY <1>6 DEF GiveSignal, Drop, Reconnect, vars, rxVars, mowerVars
    <2>2. Asking /\ job'[ConnTask] = job[ConnTask] /\ UNCHANGED modeVars
          /\ (air' = air \/ air' = << >> \/ Missed)
      BY <1>1, <2>1
    <2> HIDE DEF OkInv, OursInv
    <2> QED
      BY <1>2, <1>3, <1>4, <2>1, <2>2, AskingOn
  <1> QED
    BY <1>5, <1>6

LEMMA OkKept == OkInv /\ [Next]_vars => OkInv'
  <1> SUFFICES ASSUME OkInv, [Next]_vars PROVE OkInv'
    OBVIOUS
  <1>1. OursInv' /\ OtherTypes'
    BY OursKept, OtherTypesKept DEF OkInv, OursInv
  <1>2. ASSUME NEW c \in Callers, CallStep(c) PROVE OkInv'
    <2>1. Kept' /\ Asking'
      BY <1>2, ConnKeepsOk, SaverKeepsOk DEF Callers
    <2> QED
      BY <1>1, <1>2, <2>1, PlansAreKept DEF OkInv
  <1>3. CASE Work
    BY <1>1, <1>3, WorkKeepsOk DEF OkInv
  <1>4. CASE MowerWorks \/ Notify \/ GiveSignal \/ Drop \/ Reconnect \/ UNCHANGED vars
    <2>1. UNCHANGED <<pc, job, try>>
      BY <1>4 DEF MowerWorks, Notify, GiveSignal, Drop, Reconnect, vars, taskVars
    <2>2. Planned' /\ FirstTry'
      BY <2>1 DEF OkInv, Planned, FirstTry
    <2> QED
      BY <1>1, <1>4, <2>2, MowerKeepsOk, HostKeepsOk DEF OkInv
  <1> QED
    BY <1>2, <1>3, <1>4 DEF Next

\* A job that ends well has achieved what it is for.
LEMMA EndIsAchieved ==
  ASSUME OkInv, [Next]_vars, pc[ConnTask] # "idle", pc'[ConnTask] = "idle",
         good'[ConnTask], clean[ConnTask],
         job[ConnTask].name = "mow" => agreed'[ConnTask],
         NEW a \in Asks, Goal(job[ConnTask].name, a)
  PROVE  Effect(a)'
  <1> USE DEF OkInv, OursInv, TurnInv, TurnTypes
  <1>1. ConnTask \in Callers /\ ConnTask # Saver
    BY RpcConstants
  <1>2. CallStep(ConnTask)
    <2>1. ASSUME CallStep(Saver) PROVE pc'[ConnTask] = pc[ConnTask]
      BY <1>1, <2>1 DEF CallStep, Lock, Flush, Drain, Write, Woken, Timeout, Take,
         Unanswered, GiveUp, Return, GoTo
    <2>2. ASSUME Work PROVE FALSE
      <3>1. PICK c \in Callers : \E name, steps : Begin(c, name, steps)
        BY <2>2 DEF Work
      <3> QED
        BY <1>1, <3>1 DEF Begin, GoTo
    <2> QED
      BY <2>1, <2>2 DEF Next, Notify, GiveSignal, Drop, Reconnect, MowerWorks, vars,
         taskVars
  <1>3. PICK ok : Return(ConnTask, ok) /\ Truthful(ok) /\ UNCHANGED modeVars
    BY <1>1, <1>2, ConnReturnsOrGoesOn DEF GoTo
  <1>4. Tail(job[ConnTask].steps) = << >>
    <2> DEFINE rest == Tail(job[ConnTask].steps)
               g == good[ConnTask] /\ (ok \/ ~At(ConnTask).counts)
    <2>1. g = good'[ConnTask]
      BY <1>1, <1>3 DEF Return, OtherTypes
    <2>2. ~(rest # << >> /\ (Head(rest).needsOk => g))
      BY <1>1, <1>3 DEF Return, GoTo
    <2> QED
      BY <2>1, <2>2
  <1>5. Effect(a)
    BY <1>3, <1>4, ReturnAchieves
  <1> QED
    BY <1>3, <1>5 DEF Effect, modeVars

\* A command that is logged as OK has put the mower in the state it stands for,
\* with drops, retries, refusals and another task in between, as long as no
\* answer to another question was outstanding when one of it was asked, and a
\* mow if the mower agreed to AUTO.
THEOREM OkMeansAchieved == Spec => OkIsAchieved
  <1>1. OkInv /\ [Next]_vars =>
          [\A name \in {"mow", "park", "park for good", "resume", "lawn", "single"} :
             Ends(name) /\ (name = "mow" => agreed'[ConnTask])
             => Achieved(name)']_vars
    <2> SUFFICES ASSUME OkInv, [Next]_vars,
                        NEW name \in {"mow", "park", "park for good", "resume", "lawn",
                                      "single"},
                        Ends(name), name = "mow" => agreed'[ConnTask]
                 PROVE  Achieved(name)'
      OBVIOUS
    <2>1. \A a \in Asks : Goal(name, a) => Effect(a)'
      BY EndIsAchieved DEF Ends
    <2>2. CASE name \in {"park", "single"}
      <3>1. name \in Asks /\ Goal(name, name)
        BY <2>2 DEF Asks, Goal
      <3> QED
        BY <2>1, <2>2, <3>1 DEF Effect, Achieved
    <2>3. CASE name = "park for good"
      <3>1. Effect("clear")' /\ Effect("home")'
        BY <2>1, <2>3 DEF Asks, Goal
      <3> QED
        BY <2>3, <3>1 DEF Effect, Achieved
    <2>4. CASE name = "resume"
      <3>1. Effect("clear")' /\ Effect("auto")'
        BY <2>1, <2>4 DEF Asks, Goal
      <3> QED
        BY <2>4, <3>1 DEF Effect, Achieved
    <2>5. CASE name = "lawn"
      <3>1. Effect("enable")' /\ Effect("level")'
        BY <2>1, <2>5 DEF Asks, Goal
      <3> QED
        BY <2>5, <3>1 DEF Effect, Achieved
    <2>6. CASE name = "mow"
      <3>1. Effect("auto")' /\ Effect("mow")'
        BY <2>1, <2>6 DEF Asks, Goal
      <3> QED
        BY <2>6, <3>1 DEF Effect, Achieved
    <2> QED
      BY <2>2, <2>3, <2>4, <2>5, <2>6
  <1> QED
    BY OkInit, OkKept, <1>1, PTL DEF Spec, OkIsAchieved
=============================================================================
