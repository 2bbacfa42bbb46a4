--------------------------- MODULE BleConnProofs ---------------------------
(***************************************************************************)
(* Theorems about BleConn, for all values of its constants.  The invariant *)
(* is proved in three layers, each on top of the one before: the types,    *)
(* which control state owns which flag, and who owns the link.  The bound  *)
(* on the attempts, a property of BleConnHistory, comes last.              *)
(***************************************************************************)
EXTENDS BleConnHistory, TLAPS

\* Types, and the two bounds that keep the counters in theirs.
ValueInv == ValueTypes /\ VariantBound /\ WatchdogBound
TypeInv  == FlagTypes /\ ValueInv

\* An attempt owns CONNECTING and HANDSHAKING, an armed retry carries the
\* wake's flags until it is taken, and is_connected() is true.
ControlInv ==
    AttemptOwner /\ RetryTaken /\ RetryIsRealWake /\ LinkFlagTruthful

LEMMA ConstantTypes ==
    /\ Rechecks \subseteq Nat
    /\ WakeRetry \in Nat /\ ConfirmRecheck \in Nat /\ LostContact \in Nat
    /\ HoldAfterWake \in Nat /\ HoldAfterCmd \in Nat /\ ConfirmMax \in Nat
    /\ PollFailLimit \in Nat /\ PollFailLimit > 0
    /\ MaxCalls \in Nat
  BY ConnConstants

LEMMA FlagInit == Init => FlagTypes
  BY Zenon DEF Init, FlagTypes

LEMMA FlagStep == FlagTypes /\ [Next]_vars => FlagTypes'
<1> SUFFICES ASSUME FlagTypes, [Next]_vars PROVE FlagTypes'
  OBVIOUS
<1> USE DEF FlagTypes, cfgVars, hostVars, wakeVars, pollVars, locals
<1>1. CASE StartAttempt
  BY <1>1 DEF StartAttempt, Goto
<1>2. CASE CheckConnect
  <2>1. UNCHANGED <<suspended, linkUp, connSem, restPending,
        confirmArrival, lostContactRecheck, wakeRetryPending,
        wakeReadPending, userWake, pollDue, answered, isUser,
        hadWakeRetry>>
    BY <1>2 DEF CheckConnect
  <2>2. scanning' \in BOOLEAN
    BY <1>2, Zenon DEF CheckConnect
  <2>3. QED
    BY <2>1, <2>2
<1>3. CASE ClaimConnecting
  BY <1>3 DEF ClaimConnecting, Goto, CloseLink
<1>4. CASE ForgetLink
  BY <1>4 DEF ForgetLink, Goto
<1>5. CASE Dial
  <2>1. UNCHANGED <<suspended, scanning, linkUp, restPending,
        confirmArrival, lostContactRecheck, wakeRetryPending,
        wakeReadPending, userWake, pollDue, answered, isUser,
        hadWakeRetry>>
    BY <1>5 DEF Dial, DialStarted, DialRefused, DialImpossible,
           AlreadyConnected, hostVars
  <2>2. connSem' \in BOOLEAN
    BY <1>5, Zenon DEF Dial, DialStarted, DialRefused, DialImpossible,
           AlreadyConnected, hostVars
  <2>3. QED
    BY <2>1, <2>2
<1>6. CASE AwaitConnect
  BY <1>6 DEF AwaitConnect
<1>7. CASE PrepareGatt
  BY <1>7 DEF PrepareGatt, Settled, GiveUp, CloseLink
<1>8. CASE EnterHandshake
  BY <1>8 DEF EnterHandshake, Goto
<1>9. CASE Phase1
  BY <1>9 DEF Phase1, HandshakePhase, GiveUp, CloseLink
<1>10. CASE Phase2
  BY <1>10 DEF Phase2, HandshakePhase, GiveUp, CloseLink
<1>11. CASE Phase3
  BY <1>11 DEF Phase3, HandshakePhase, GiveUp, CloseLink
<1>12. CASE ClaimAuthenticated
  BY <1>12 DEF ClaimAuthenticated, Goto, FreshSession
<1>13. CASE FinishAttempt
  BY <1>13 DEF FinishAttempt, Goto
<1>14. CASE AttemptFailed
  <2>1. UNCHANGED <<suspended, scanning, linkUp, connSem, restPending,
        confirmArrival, lostContactRecheck, pollDue, answered, isUser,
        hadWakeRetry>>
    BY <1>14 DEF AttemptFailed, Goto, RetryWake, SleepOff, EarnsRetry
  <2>2. wakeRetryPending' \in BOOLEAN
    BY <1>14, Zenon DEF AttemptFailed, Goto, RetryWake, SleepOff, EarnsRetry
  <2>3. wakeReadPending' \in BOOLEAN
    BY <1>14, Zenon DEF AttemptFailed, Goto, RetryWake, SleepOff, EarnsRetry
  <2>4. userWake' \in BOOLEAN
    BY <1>14, Zenon DEF AttemptFailed, Goto, RetryWake, SleepOff, EarnsRetry
  <2>5. QED
    BY <2>1, <2>2, <2>3, <2>4
<1>15. CASE TakeCommand
  BY <1>15 DEF TakeCommand
<1>16. CASE SendCommand
  BY <1>16 DEF SendCommand, Goto
<1>17. CASE BeginPoll
  BY <1>17 DEF BeginPoll
<1>18. CASE EndPoll
  <2>1. UNCHANGED <<suspended, scanning, linkUp, connSem, confirmArrival,
        wakeRetryPending, wakeReadPending, userWake, pollDue, answered,
        isUser, hadWakeRetry>>
    BY <1>18 DEF EndPoll, Goto, PollOk, PollFailed, MowerSlept,
           ScheduleAfterDrop, CloseLink
  <2>2. restPending' \in BOOLEAN
    BY <1>18, Zenon DEF EndPoll, Goto, PollOk, PollFailed, MowerSlept,
           ScheduleAfterDrop, CloseLink
  <2>3. lostContactRecheck' \in BOOLEAN
    BY <1>18, Zenon DEF EndPoll, Goto, PollOk, PollFailed, MowerSlept,
           ScheduleAfterDrop, CloseLink
  <2>4. QED
    BY <2>1, <2>2, <2>3
<1>19. CASE DecideRest
  <2>1. UNCHANGED <<suspended, scanning, linkUp, connSem, restPending,
        lostContactRecheck, wakeRetryPending, wakeReadPending, userWake,
        pollDue, answered, isUser, hadWakeRetry>>
    BY <1>19 DEF DecideRest, MayRest
  <2>2. confirmArrival' \in BOOLEAN
    BY <1>19, Zenon DEF DecideRest, MayRest
  <2>3. QED
    BY <2>1, <2>2
<1>20. CASE EnterRest
  BY <1>20 DEF EnterRest, Goto, CloseLink
<1>21. CASE ConnectSucceeded
  BY <1>21 DEF ConnectSucceeded
<1>22. CASE ConnectFailed
  BY <1>22 DEF ConnectFailed, LinkGone
<1>23. CASE LinkLost
  BY <1>23 DEF LinkLost, LinkGone, PlannedRest, ConfirmSoon,
           UnexpectedDrop, ScheduleAfterDrop
<1>24. CASE ScanComplete
  BY <1>24 DEF ScanComplete
<1>25. CASE MowerAnswers
  BY <1>25 DEF MowerAnswers
<1>26. CASE ForceWake
  <2>1. UNCHANGED <<suspended, scanning, linkUp, connSem, restPending,
        confirmArrival, lostContactRecheck, wakeRetryPending, pollDue,
        answered, isUser, hadWakeRetry>>
    BY <1>26 DEF ForceWake, Call, WakeEffect, CloseLink
  <2>2. wakeReadPending' \in BOOLEAN
    BY <1>26, Zenon DEF ForceWake, Call, WakeEffect, CloseLink
  <2>3. userWake' \in BOOLEAN
    BY <1>26, Zenon DEF ForceWake, Call, WakeEffect, CloseLink
  <2>4. QED
    BY <2>1, <2>2, <2>3
<1>27. CASE DisconnectTarget
  BY <1>27 DEF DisconnectTarget, Call, CloseLink
<1>28. CASE Suspend
  BY <1>28 DEF Suspend, Call, CloseLink
<1>29. CASE TriggerScan
  BY <1>29 DEF TriggerScan, Call
<1>30. ASSUME NEW c \in Commands, QueueCommand(c) PROVE FlagTypes'
  <2>1. UNCHANGED <<suspended, scanning, linkUp, connSem, restPending,
        lostContactRecheck, wakeRetryPending, pollDue, answered, isUser,
        hadWakeRetry>>
    BY <1>30 DEF QueueCommand, Call, WakeEffect, CloseLink
  <2>2. confirmArrival' \in BOOLEAN
    BY <1>30, Zenon DEF QueueCommand, Call, WakeEffect, CloseLink
  <2>3. wakeReadPending' \in BOOLEAN
    BY <1>30, Zenon DEF QueueCommand, Call, WakeEffect, CloseLink
  <2>4. userWake' \in BOOLEAN
    BY <1>30, Zenon DEF QueueCommand, Call, WakeEffect, CloseLink
  <2>5. QED
    BY <2>1, <2>2, <2>3, <2>4
<1>31. ASSUME NEW m \in Mowers, SetTarget(m) PROVE FlagTypes'
  <2>1. UNCHANGED <<suspended, scanning, linkUp, connSem, restPending,
        confirmArrival, lostContactRecheck, wakeRetryPending, pollDue,
        answered, isUser, hadWakeRetry>>
    BY <1>31 DEF SetTarget, Call, CloseLink
  <2>2. wakeReadPending' \in BOOLEAN
    BY <1>31, Zenon DEF SetTarget, Call, CloseLink
  <2>3. userWake' \in BOOLEAN
    BY <1>31, Zenon DEF SetTarget, Call, CloseLink
  <2>4. QED
    BY <2>1, <2>2, <2>3
<1>32. ASSUME NEW r \in Rechecks, SetIdleRecheck(r) PROVE FlagTypes'
  BY <1>32 DEF SetIdleRecheck, Call
<1>33. CASE Elapse
  BY <1>33 DEF Elapse, Sooner
<1>34. CASE UNCHANGED vars
  BY <1>34 DEF vars
<1>35. CASE TakeRetry
  BY <1>35 DEF TakeRetry, Goto
<1>36. CASE TakeWakeRead
  BY <1>36 DEF TakeWakeRead, Goto
<1>37. CASE TakeUserWake
  BY <1>37 DEF TakeUserWake, Goto
<1>38. QED
  BY <1>1, <1>2, <1>3, <1>4, <1>5, <1>6, <1>7, <1>8, <1>9, <1>10, <1>11,
     <1>12, <1>13, <1>14, <1>15, <1>16, <1>17, <1>18, <1>19, <1>20,
     <1>21, <1>22, <1>23, <1>24, <1>25, <1>26, <1>27, <1>28, <1>29,
     <1>30, <1>31, <1>32, <1>33, <1>34, <1>35, <1>36, <1>37
     DEF Next, ConnTask, Connecting, Authenticated, Host, PublicCall

LEMMA ValueInit == Init => ValueInv
  BY ConstantTypes DEF Init, ValueInv, ValueTypes, VariantBound, WatchdogBound,
     ConnStates, Readings, Commands, Acl, Pcs, TakePcs, ConnectPcs, AuthPcs

LEMMA ValueStep == ValueInv /\ [Next]_vars => ValueInv'
<1> SUFFICES ASSUME ValueInv, [Next]_vars PROVE ValueInv'
  OBVIOUS
<1> USE ConstantTypes
    DEF ValueInv, ValueTypes, VariantBound, WatchdogBound, cfgVars, hostVars,
        wakeVars, pollVars, locals,
        ConnStates, Readings, Commands, Acl, Pcs, TakePcs, ConnectPcs, AuthPcs
<1>1. CASE StartAttempt
  BY <1>1 DEF StartAttempt, Goto
<1>2. CASE CheckConnect
  BY <1>2 DEF CheckConnect
<1>3. CASE ClaimConnecting
  BY <1>3 DEF ClaimConnecting, Goto, CloseLink
<1>4. CASE ForgetLink
  BY <1>4 DEF ForgetLink, Goto
<1>5. CASE Dial
  BY <1>5 DEF Dial, DialStarted, DialRefused, DialImpossible,
           AlreadyConnected, hostVars
<1>6. CASE AwaitConnect
  BY <1>6 DEF AwaitConnect
<1>7. CASE PrepareGatt
  BY <1>7 DEF PrepareGatt, Settled, GiveUp, CloseLink
<1>8. CASE EnterHandshake
  BY <1>8 DEF EnterHandshake, Goto
<1>9. CASE Phase1
  BY <1>9 DEF Phase1, HandshakePhase, GiveUp, CloseLink
<1>10. CASE Phase2
  BY <1>10 DEF Phase2, HandshakePhase, GiveUp, CloseLink
<1>11. CASE Phase3
  BY <1>11 DEF Phase3, HandshakePhase, GiveUp, CloseLink
<1>12. CASE ClaimAuthenticated
  BY <1>12 DEF ClaimAuthenticated, Goto, FreshSession
<1>13. CASE FinishAttempt
  BY <1>13 DEF FinishAttempt, Goto
<1>14. CASE AttemptFailed
  BY <1>14 DEF AttemptFailed, Goto, RetryWake, SleepOff, EarnsRetry
<1>15. CASE TakeCommand
  BY <1>15 DEF TakeCommand
<1>16. CASE SendCommand
  BY <1>16 DEF SendCommand, Goto
<1>17. CASE BeginPoll
  BY <1>17 DEF BeginPoll
<1>18. CASE EndPoll
  BY <1>18 DEF EndPoll, Goto, PollOk, PollFailed, MowerSlept,
           ScheduleAfterDrop, CloseLink
<1>19. CASE DecideRest
  BY <1>19 DEF DecideRest, MayRest
<1>20. CASE EnterRest
  BY <1>20 DEF EnterRest, Goto, CloseLink
<1>21. CASE ConnectSucceeded
  BY <1>21 DEF ConnectSucceeded
<1>22. CASE ConnectFailed
  BY <1>22 DEF ConnectFailed, LinkGone
<1>23. CASE LinkLost
  BY <1>23 DEF LinkLost, LinkGone, PlannedRest, ConfirmSoon,
           UnexpectedDrop, ScheduleAfterDrop
<1>24. CASE ScanComplete
  BY <1>24 DEF ScanComplete
<1>25. CASE MowerAnswers
  BY <1>25 DEF MowerAnswers
<1>26. CASE ForceWake
  BY <1>26 DEF ForceWake, Call, WakeEffect, CloseLink
<1>27. CASE DisconnectTarget
  BY <1>27 DEF DisconnectTarget, Call, CloseLink
<1>28. CASE Suspend
  BY <1>28 DEF Suspend, Call, CloseLink
<1>29. CASE TriggerScan
  BY <1>29 DEF TriggerScan, Call
<1>30. ASSUME NEW c \in Commands, QueueCommand(c) PROVE ValueInv'
  BY <1>30 DEF QueueCommand, Call, WakeEffect, CloseLink
<1>31. ASSUME NEW m \in Mowers, SetTarget(m) PROVE ValueInv'
  BY <1>31 DEF SetTarget, Call, CloseLink
<1>32. ASSUME NEW r \in Rechecks, SetIdleRecheck(r) PROVE ValueInv'
  BY <1>32 DEF SetIdleRecheck, Call
<1>33. CASE Elapse
  BY <1>33 DEF Elapse, Sooner
<1>34. CASE UNCHANGED vars
  BY <1>34 DEF vars
<1>35. CASE TakeRetry
  BY <1>35 DEF TakeRetry, Goto
<1>36. CASE TakeWakeRead
  BY <1>36 DEF TakeWakeRead, Goto
<1>37. CASE TakeUserWake
  BY <1>37 DEF TakeUserWake, Goto
<1>38. QED
  BY <1>1, <1>2, <1>3, <1>4, <1>5, <1>6, <1>7, <1>8, <1>9, <1>10, <1>11,
     <1>12, <1>13, <1>14, <1>15, <1>16, <1>17, <1>18, <1>19, <1>20,
     <1>21, <1>22, <1>23, <1>24, <1>25, <1>26, <1>27, <1>28, <1>29,
     <1>30, <1>31, <1>32, <1>33, <1>34, <1>35, <1>36, <1>37
     DEF Next, ConnTask, Connecting, Authenticated, Host, PublicCall

LEMMA TypeInit == Init => TypeInv
  BY FlagInit, ValueInit DEF TypeInv

LEMMA TypeStep == TypeInv /\ [Next]_vars => TypeInv'
  BY FlagStep, ValueStep DEF TypeInv

\* Every variable keeps its type; the failures counted never pass the limit
\* that ends the session (components/ble/ble_manager.cpp:1810-1821).
THEOREM TypeCorrect == Spec => []TypeOK
<1>1. Init => TypeInv
  BY TypeInit
<1>2. TypeInv /\ [Next]_vars => TypeInv'
  BY TypeStep
<1>3. TypeInv => TypeOK
  BY DEF TypeInv, ValueInv, TypeOK
<1>4. QED
  BY <1>1, <1>2, <1>3, PTL DEF Spec

LEMMA ControlInit == Init => ControlInv
  BY DEF Init, ControlInv, AttemptOwner, RetryTaken, RetryIsRealWake,
     LinkFlagTruthful, TakePcs

LEMMA ControlStep == TypeInv /\ ControlInv /\ [Next]_vars => ControlInv'
<1> SUFFICES ASSUME TypeInv, ControlInv, [Next]_vars PROVE ControlInv'
  OBVIOUS
<1> USE DEF TypeInv, FlagTypes, ValueInv, ValueTypes, ControlInv,
        AttemptOwner, RetryTaken, RetryIsRealWake, LinkFlagTruthful, cfgVars,
        hostVars, wakeVars, pollVars, locals,
        ConnStates, Readings, Commands, Acl, Pcs, TakePcs, ConnectPcs, AuthPcs
<1>1. CASE StartAttempt
  BY <1>1 DEF StartAttempt, Goto
<1>2. CASE CheckConnect
  BY <1>2 DEF CheckConnect
<1>3. CASE ClaimConnecting
  BY <1>3 DEF ClaimConnecting, Goto, CloseLink
<1>4. CASE ForgetLink
  BY <1>4 DEF ForgetLink, Goto
<1>5. CASE Dial
  BY <1>5 DEF Dial, DialStarted, DialRefused, DialImpossible,
           AlreadyConnected, hostVars
<1>6. CASE AwaitConnect
  BY <1>6 DEF AwaitConnect
<1>7. CASE PrepareGatt
  BY <1>7 DEF PrepareGatt, Settled, GiveUp, CloseLink
<1>8. CASE EnterHandshake
  BY <1>8 DEF EnterHandshake, Goto
<1>9. CASE Phase1
  BY <1>9 DEF Phase1, HandshakePhase, GiveUp, CloseLink
<1>10. CASE Phase2
  BY <1>10 DEF Phase2, HandshakePhase, GiveUp, CloseLink
<1>11. CASE Phase3
  BY <1>11 DEF Phase3, HandshakePhase, GiveUp, CloseLink
<1>12. CASE ClaimAuthenticated
  BY <1>12 DEF ClaimAuthenticated, Goto, FreshSession
<1>13. CASE FinishAttempt
  BY <1>13 DEF FinishAttempt, Goto
<1>14. CASE AttemptFailed
  BY <1>14 DEF AttemptFailed, Goto, RetryWake, SleepOff, EarnsRetry
<1>15. CASE TakeCommand
  BY <1>15 DEF TakeCommand
<1>16. CASE SendCommand
  BY <1>16 DEF SendCommand, Goto
<1>17. CASE BeginPoll
  BY <1>17 DEF BeginPoll
<1>18. CASE EndPoll
  BY <1>18 DEF EndPoll, Goto, PollOk, PollFailed, MowerSlept,
           ScheduleAfterDrop, CloseLink
<1>19. CASE DecideRest
  BY <1>19 DEF DecideRest, MayRest
<1>20. CASE EnterRest
  BY <1>20 DEF EnterRest, Goto, CloseLink
<1>21. CASE ConnectSucceeded
  BY <1>21 DEF ConnectSucceeded
<1>22. CASE ConnectFailed
  BY <1>22 DEF ConnectFailed, LinkGone
<1>23. CASE LinkLost
  BY <1>23 DEF LinkLost, LinkGone, PlannedRest, ConfirmSoon,
           UnexpectedDrop, ScheduleAfterDrop
<1>24. CASE ScanComplete
  BY <1>24 DEF ScanComplete
<1>25. CASE MowerAnswers
  BY <1>25 DEF MowerAnswers
<1>26. CASE ForceWake
  BY <1>26 DEF ForceWake, Call, WakeEffect, CloseLink
<1>27. CASE DisconnectTarget
  BY <1>27 DEF DisconnectTarget, Call, CloseLink
<1>28. CASE Suspend
  BY <1>28 DEF Suspend, Call, CloseLink
<1>29. CASE TriggerScan
  BY <1>29 DEF TriggerScan, Call
<1>30. ASSUME NEW c \in Commands, QueueCommand(c) PROVE ControlInv'
  BY <1>30 DEF QueueCommand, Call, WakeEffect, CloseLink
<1>31. ASSUME NEW m \in Mowers, SetTarget(m) PROVE ControlInv'
  BY <1>31 DEF SetTarget, Call, CloseLink
<1>32. ASSUME NEW r \in Rechecks, SetIdleRecheck(r) PROVE ControlInv'
  BY <1>32 DEF SetIdleRecheck, Call
<1>33. CASE Elapse
  BY <1>33 DEF Elapse, Sooner
<1>34. CASE UNCHANGED vars
  BY <1>34 DEF vars
<1>35. CASE TakeRetry
  BY <1>35 DEF TakeRetry, Goto
<1>36. CASE TakeWakeRead
  BY <1>36 DEF TakeWakeRead, Goto
<1>37. CASE TakeUserWake
  BY <1>37 DEF TakeUserWake, Goto
<1>38. QED
  BY <1>1, <1>2, <1>3, <1>4, <1>5, <1>6, <1>7, <1>8, <1>9, <1>10, <1>11,
     <1>12, <1>13, <1>14, <1>15, <1>16, <1>17, <1>18, <1>19, <1>20,
     <1>21, <1>22, <1>23, <1>24, <1>25, <1>26, <1>27, <1>28, <1>29,
     <1>30, <1>31, <1>32, <1>33, <1>34, <1>35, <1>36, <1>37
     DEF Next, ConnTask, Connecting, Authenticated, Host, PublicCall

LEMMA ControlCorrect == Spec => [](TypeInv /\ ControlInv)
<1>1. Init => TypeInv /\ ControlInv
  BY TypeInit, ControlInit
<1>2. TypeInv /\ ControlInv /\ [Next]_vars => (TypeInv /\ ControlInv)'
  BY TypeStep, ControlStep
<1>3. QED
  BY <1>1, <1>2, PTL DEF Spec

\* CONNECTING and HANDSHAKING never outlive the attempt that announced them:
\* conn_task has no branch for these states and would ignore them for ever.
THEOREM NoAttemptIsStranded == Spec => []NoStrandedAttempt
<1>1. ControlInv => NoStrandedAttempt
  BY DEF ControlInv, AttemptOwner, NoStrandedAttempt
<1>2. QED
  BY <1>1, ControlCorrect, PTL

\* The retry that conn_task arms after a failed wake is a wake itself.
THEOREM RetriesAreWakes == Spec => []RetryIsRealWake
<1>1. ControlInv => RetryIsRealWake
  BY DEF ControlInv
<1>2. QED
  BY <1>1, ControlCorrect, PTL

\* is_connected() is never true of a link the host has reported lost.
THEOREM LinkFlagIsTruthful == Spec => []LinkFlagTruthful
<1>1. ControlInv => LinkFlagTruthful
  BY DEF ControlInv
<1>2. QED
  BY <1>1, ControlCorrect, PTL

LEMMA LinkInit == HInit => LinkOwner
  BY DEF HInit, Init, LinkOwner

LEMMA LinkStep ==
  ASSUME TypeInv, ControlInv, LinkOwner, Next, NoteLate
  PROVE  LinkOwner'
<1> USE DEF NoteLate, TypeInv, FlagTypes, ValueInv, ValueTypes, LinkOwner,
        cfgVars, hostVars, wakeVars, pollVars, locals, ConnStates, Readings,
        Commands, Acl, Pcs, TakePcs, ConnectPcs, AuthPcs
<1>1. CASE StartAttempt
  BY <1>1 DEF StartAttempt, Goto
<1>2. CASE CheckConnect
  BY <1>2 DEF CheckConnect
<1>3. CASE ClaimConnecting
  BY <1>3 DEF ClaimConnecting, Goto, CloseLink
<1>4. CASE ForgetLink
  BY <1>4 DEF ForgetLink, Goto
<1>5. CASE Dial
  BY <1>5 DEF Dial, DialStarted, DialRefused, DialImpossible,
           AlreadyConnected, hostVars
<1>6. CASE AwaitConnect
  BY <1>6 DEF AwaitConnect, ControlInv, LinkFlagTruthful
<1>7. CASE PrepareGatt
  BY <1>7 DEF PrepareGatt, Settled, GiveUp, CloseLink
<1>8. CASE EnterHandshake
  BY <1>8 DEF EnterHandshake, Goto
<1>9. CASE Phase1
  BY <1>9 DEF Phase1, HandshakePhase, GiveUp, CloseLink
<1>10. CASE Phase2
  BY <1>10 DEF Phase2, HandshakePhase, GiveUp, CloseLink
<1>11. CASE Phase3
  BY <1>11 DEF Phase3, HandshakePhase, GiveUp, CloseLink
<1>12. CASE ClaimAuthenticated
  BY <1>12 DEF ClaimAuthenticated, Goto, FreshSession
<1>13. CASE FinishAttempt
  BY <1>13 DEF FinishAttempt, Goto
<1>14. CASE AttemptFailed
  BY <1>14 DEF AttemptFailed, Goto, RetryWake, SleepOff, EarnsRetry
<1>15. CASE TakeCommand
  BY <1>15 DEF TakeCommand
<1>16. CASE SendCommand
  BY <1>16 DEF SendCommand, Goto
<1>17. CASE BeginPoll
  BY <1>17 DEF BeginPoll
<1>18. CASE EndPoll
  BY <1>18 DEF EndPoll, Goto, PollOk, PollFailed, MowerSlept,
           ScheduleAfterDrop, CloseLink
<1>19. CASE DecideRest
  BY <1>19 DEF DecideRest, MayRest
<1>20. CASE EnterRest
  BY <1>20 DEF EnterRest, Goto, CloseLink
<1>21. CASE ConnectSucceeded
  BY <1>21 DEF ConnectSucceeded
<1>22. CASE ConnectFailed
  BY <1>22 DEF ConnectFailed, LinkGone
<1>23. CASE LinkLost
  BY <1>23 DEF LinkLost, LinkGone, PlannedRest, ConfirmSoon,
           UnexpectedDrop, ScheduleAfterDrop
<1>24. CASE ScanComplete
  BY <1>24 DEF ScanComplete
<1>25. CASE MowerAnswers
  BY <1>25 DEF MowerAnswers
<1>26. CASE ForceWake
  BY <1>26 DEF ForceWake, Call, WakeEffect, CloseLink
<1>27. CASE DisconnectTarget
  BY <1>27 DEF DisconnectTarget, Call, CloseLink
<1>28. CASE Suspend
  BY <1>28 DEF Suspend, Call, CloseLink
<1>29. CASE TriggerScan
  BY <1>29 DEF TriggerScan, Call
<1>30. ASSUME NEW c \in Commands, QueueCommand(c) PROVE LinkOwner'
  BY <1>30 DEF QueueCommand, Call, WakeEffect, CloseLink
<1>31. ASSUME NEW m \in Mowers, SetTarget(m) PROVE LinkOwner'
  BY <1>31 DEF SetTarget, Call, CloseLink
<1>32. ASSUME NEW r \in Rechecks, SetIdleRecheck(r) PROVE LinkOwner'
  BY <1>32 DEF SetIdleRecheck, Call
<1>33. CASE Elapse
  BY <1>33 DEF Elapse, Sooner
<1>35. CASE TakeRetry
  BY <1>35 DEF TakeRetry, Goto
<1>36. CASE TakeWakeRead
  BY <1>36 DEF TakeWakeRead, Goto
<1>37. CASE TakeUserWake
  BY <1>37 DEF TakeUserWake, Goto
<1>38. QED
  BY <1>1, <1>2, <1>3, <1>4, <1>5, <1>6, <1>7, <1>8, <1>9, <1>10, <1>11,
     <1>12, <1>13, <1>14, <1>15, <1>16, <1>17, <1>18, <1>19, <1>20,
     <1>21, <1>22, <1>23, <1>24, <1>25, <1>26, <1>27, <1>28, <1>29,
     <1>30, <1>31, <1>32, <1>33, <1>35, <1>36, <1>37
     DEF Next, ConnTask, Connecting, Authenticated, Host, PublicCall

\* An open link outside an attempt belongs to a session, or its connect had been
\* cancelled when it completed: do_connect_and_handshake and the calls that end
\* a session leave no other behind, however they interleave.
THEOREM LinksAreAttended == HSpec => []UnattendedIsLate
<1>1. HInit => TypeInv /\ ControlInv /\ LinkOwner
  BY TypeInit, ControlInit, LinkInit DEF HInit
<1>2. TypeInv /\ ControlInv /\ LinkOwner /\ [HNext]_hvars
        => (TypeInv /\ ControlInv /\ LinkOwner)'
  <2> SUFFICES ASSUME TypeInv, ControlInv, LinkOwner, [HNext]_hvars
               PROVE  (TypeInv /\ ControlInv /\ LinkOwner)'
    OBVIOUS
  <2>1. [Next]_vars
    BY DEF HNext, hvars
  <2>2. TypeInv' /\ ControlInv'
    BY <2>1, TypeStep, ControlStep
  <2>3. LinkOwner'
    <3>1. CASE HNext
      BY <3>1, LinkStep DEF HNext
    <3>2. CASE UNCHANGED hvars
      BY <3>2 DEF hvars, vars, hostVars, LinkOwner, AuthPcs
    <3>3. QED
      BY <3>1, <3>2
  <2>4. QED
    BY <2>2, <2>3
<1>3. LinkOwner => UnattendedIsLate
  BY DEF LinkOwner, UnattendedIsLate, AuthPcs
<1>4. QED
  BY <1>1, <1>2, <1>3, PTL DEF HSpec

-----------------------------------------------------------------------------
(* Why a wake or a drop costs two attempts at the most (RetriesAreBounded   *)
(* of BleConnHistory).  An attempt beyond the first needs a one-shot flag,  *)
(* and each flag bounds the attempts made before it was set.                *)

\* What each state of the manager says of the attempts made so far.  The
\* parts were found by asking what arms the next attempt.
TriesType    == tries \in Nat
SessionTries == connState = "AUTHENTICATED" \/ pc = "firstPoll" \/ pc \in AuthPcs
                  => tries = 0
IdleTries    == pc = "sleep" /\ connState = "IDLE" => tries = 0
RecheckTries == lostContactRecheck => tries = 0
WakeTries    == userWake /\ ~wakeRetryPending /\ pc \notin TakePcs => tries = 0
RetryTries   == wakeRetryPending /\ pc # "takeRetry" => tries <= 1
TakeTries    == /\ pc = "takeRetry" /\ userWake /\ ~wakeRetryPending
                     => tries <= 1
                /\ pc \in TakePcs \ {"takeRetry"} /\ userWake /\ ~hadWakeRetry
                     => tries <= 1
AttemptTries == pc \in {"connect"} \cup ConnectPcs /\ isUser /\ ~hadWakeRetry
                  => tries <= 1

TriesInv == /\ TriesType /\ SessionTries /\ IdleTries /\ RecheckTries
            /\ WakeTries /\ RetryTries /\ TakeTries /\ AttemptTries
            /\ RetriesAreBounded

\* Only the start of an attempt counts one.
LEMMA TriesKept ==
  ASSUME CountTries, pc = "sleep" => pc' # "takeRetry"
  PROVE  tries' = tries \/ tries' = 0
  BY DEF CountTries, StartAttempt, Goto

LEMMA TriesInit == HInit => TriesInv
  BY DEF HInit, Init, TriesInv, TriesType, SessionTries, IdleTries,
     RecheckTries, WakeTries, RetryTries, TakeTries, AttemptTries,
     RetriesAreBounded,
     TakePcs, AuthPcs, ConnectPcs

LEMMA TriesStep ==
  ASSUME TriesInv, HNext
  PROVE  TriesInv'
<1> USE DEF TriesInv, TriesType, SessionTries, IdleTries, RecheckTries,
        WakeTries, RetryTries, TakeTries, AttemptTries, RetriesAreBounded,
        TakePcs, AuthPcs, ConnectPcs, HNext, cfgVars, hostVars, wakeVars,
        pollVars, locals
<1>1. CASE CountTries /\ (PublicCall \/ LinkLost \/ ClaimAuthenticated)
  <2>1. tries' = 0
    BY <1>1 DEF CountTries
  <2>2. QED
    BY <2>1
<1>2. CASE CountTries /\ StartAttempt
  <2>1. tries' = 0 \/ (tries < MaxTries /\ tries' = tries + 1)
                   \/ (tries >= MaxTries /\ tries' = tries)
    BY <1>2, MaxTriesIsEnough DEF CountTries
  <2>2. idleRecheck = 0 /\ ~confirmArrival
          => tries = 0 \/ (wakeRetryPending /\ tries <= 1)
    BY <1>2 DEF StartAttempt, Goto, MayReconnect
  <2>3. TriesType' /\ RetriesAreBounded'
    BY <1>2, <2>1, <2>2, MaxTriesIsEnough DEF StartAttempt
  <2>4. SessionTries' /\ IdleTries'
    BY <1>2 DEF StartAttempt, Goto
  <2>5. RecheckTries' /\ WakeTries' /\ RetryTries' /\ AttemptTries'
    BY <1>2 DEF StartAttempt, Goto
  <2>6. TakeTries'
    BY <1>2, <2>1, MaxTriesIsEnough DEF StartAttempt, Goto
  <2>7. QED
    BY <2>3, <2>4, <2>5, <2>6
<1>3. CASE CheckConnect
  <2>1. tries' = tries \/ tries' = 0
    BY <1>3, TriesKept DEF CheckConnect, Goto
  <2>2. QED
    BY <1>3, <2>1 DEF CheckConnect
<1>4. CASE ClaimConnecting
  <2>1. tries' = tries \/ tries' = 0
    BY <1>4, TriesKept DEF ClaimConnecting, Goto
  <2>2. QED
    BY <1>4, <2>1 DEF ClaimConnecting, Goto, CloseLink
<1>5. CASE ForgetLink
  <2>1. tries' = tries \/ tries' = 0
    BY <1>5, TriesKept DEF ForgetLink, Goto
  <2>2. QED
    BY <1>5, <2>1 DEF ForgetLink, Goto
<1>6. CASE Dial
  <2>1. tries' = tries \/ tries' = 0
    BY <1>6, TriesKept DEF Dial, Goto, DialStarted, DialRefused, DialImpossible,
       AlreadyConnected, hostVars
  <2>2. QED
    BY <1>6, <2>1 DEF Dial, DialStarted, DialRefused, DialImpossible,
           AlreadyConnected, hostVars
<1>7. CASE AwaitConnect
  <2>1. tries' = tries \/ tries' = 0
    BY <1>7, TriesKept DEF AwaitConnect, Goto
  <2>2. QED
    BY <1>7, <2>1 DEF AwaitConnect
<1>8. CASE PrepareGatt
  <2>1. tries' = tries \/ tries' = 0
    BY <1>8, TriesKept DEF PrepareGatt, Goto, GiveUp
  <2>2. QED
    BY <1>8, <2>1 DEF PrepareGatt, Settled, GiveUp, CloseLink
<1>9. CASE EnterHandshake
  <2>1. tries' = tries \/ tries' = 0
    BY <1>9, TriesKept DEF EnterHandshake, Goto
  <2>2. QED
    BY <1>9, <2>1 DEF EnterHandshake, Goto
<1>10. CASE Phase1
  <2>1. tries' = tries \/ tries' = 0
    BY <1>10, TriesKept DEF Phase1, Goto, HandshakePhase, GiveUp
  <2>2. QED
    BY <1>10, <2>1 DEF Phase1, HandshakePhase, GiveUp, CloseLink
<1>11. CASE Phase2
  <2>1. tries' = tries \/ tries' = 0
    BY <1>11, TriesKept DEF Phase2, Goto, HandshakePhase, GiveUp
  <2>2. QED
    BY <1>11, <2>1 DEF Phase2, HandshakePhase, GiveUp, CloseLink
<1>12. CASE Phase3
  <2>1. tries' = tries \/ tries' = 0
    BY <1>12, TriesKept DEF Phase3, Goto, HandshakePhase, GiveUp
  <2>2. QED
    BY <1>12, <2>1 DEF Phase3, HandshakePhase, GiveUp, CloseLink
<1>13. CASE FinishAttempt
  <2>1. tries' = tries \/ tries' = 0
    BY <1>13, TriesKept DEF FinishAttempt, Goto
  <2>2. QED
    BY <1>13, <2>1 DEF FinishAttempt, Goto
<1>14. CASE AttemptFailed
  <2>1. tries' = tries \/ tries' = 0
    BY <1>14, TriesKept DEF AttemptFailed, Goto
  <2>2. QED
    BY <1>14, <2>1 DEF AttemptFailed, Goto, RetryWake, SleepOff, EarnsRetry
<1>15. CASE TakeCommand
  <2>1. tries' = tries \/ tries' = 0
    BY <1>15, TriesKept DEF TakeCommand, Goto
  <2>2. QED
    BY <1>15, <2>1 DEF TakeCommand
<1>16. CASE SendCommand
  <2>1. tries' = tries \/ tries' = 0
    BY <1>16, TriesKept DEF SendCommand, Goto
  <2>2. QED
    BY <1>16, <2>1 DEF SendCommand, Goto
<1>17. CASE BeginPoll
  <2>1. tries' = tries \/ tries' = 0
    BY <1>17, TriesKept DEF BeginPoll, Goto
  <2>2. QED
    BY <1>17, <2>1 DEF BeginPoll
<1>18. CASE EndPoll
  <2>1. tries' = tries \/ tries' = 0
    BY <1>18, TriesKept DEF EndPoll, Goto
  <2>2. QED
    BY <1>18, <2>1 DEF EndPoll, Goto, PollOk, PollFailed, MowerSlept,
           ScheduleAfterDrop, CloseLink
<1>19. CASE DecideRest
  <2>1. tries' = tries \/ tries' = 0
    BY <1>19, TriesKept DEF DecideRest, Goto
  <2>2. QED
    BY <1>19, <2>1 DEF DecideRest, MayRest
<1>20. CASE EnterRest
  <2>1. tries' = tries \/ tries' = 0
    BY <1>20, TriesKept DEF EnterRest, Goto
  <2>2. QED
    BY <1>20, <2>1 DEF EnterRest, Goto, CloseLink
<1>21. CASE ConnectSucceeded
  <2>1. tries' = tries \/ tries' = 0
    BY <1>21, TriesKept DEF ConnectSucceeded, Goto
  <2>2. QED
    BY <1>21, <2>1 DEF ConnectSucceeded
<1>22. CASE ConnectFailed
  <2>1. tries' = tries \/ tries' = 0
    BY <1>22, TriesKept DEF ConnectFailed, Goto
  <2>2. QED
    BY <1>22, <2>1 DEF ConnectFailed, LinkGone
<1>23. CASE ScanComplete
  <2>1. tries' = tries \/ tries' = 0
    BY <1>23, TriesKept DEF ScanComplete, Goto
  <2>2. QED
    BY <1>23, <2>1 DEF ScanComplete
<1>24. CASE MowerAnswers
  <2>1. tries' = tries \/ tries' = 0
    BY <1>24, TriesKept DEF MowerAnswers, Goto
  <2>2. QED
    BY <1>24, <2>1 DEF MowerAnswers
<1>25. CASE Elapse
  <2>1. tries' = tries \/ tries' = 0
    BY <1>25, TriesKept DEF Elapse, Goto
  <2>2. QED
    BY <1>25, <2>1 DEF Elapse, Sooner
<1>26. CASE TakeRetry
  <2>1. tries' = tries \/ tries' = 0
    BY <1>26, TriesKept DEF TakeRetry, Goto
  <2>2. QED
    BY <1>26, <2>1 DEF TakeRetry, Goto
<1>27. CASE TakeWakeRead
  <2>1. tries' = tries \/ tries' = 0
    BY <1>27, TriesKept DEF TakeWakeRead, Goto
  <2>2. QED
    BY <1>27, <2>1 DEF TakeWakeRead, Goto
<1>28. CASE TakeUserWake
  <2>1. tries' = tries \/ tries' = 0
    BY <1>28, TriesKept DEF TakeUserWake, Goto
  <2>2. QED
    BY <1>28, <2>1 DEF TakeUserWake, Goto
<1>29. QED
  BY <1>1, <1>2, <1>3, <1>4, <1>5, <1>6, <1>7, <1>8, <1>9, <1>10, <1>11,
     <1>12, <1>13, <1>14, <1>15, <1>16, <1>17, <1>18, <1>19, <1>20,
     <1>21, <1>22, <1>23, <1>24, <1>25, <1>26, <1>27, <1>28
     DEF HNext, Next, ConnTask, Connecting, Authenticated, Host

\* With the re-check off and no park under confirmation, a wake or a drop
\* leads to two attempts at the most (ble_manager.cpp:1614-1665, 1780-1800).
THEOREM RetriesBounded == HSpec => []RetriesAreBounded
<1>1. TriesInv => RetriesAreBounded
  BY DEF TriesInv
<1>2. TriesInv /\ UNCHANGED hvars => TriesInv'
  BY DEF TriesInv, TriesType, SessionTries, IdleTries, RecheckTries, WakeTries,
     RetryTries, TakeTries, AttemptTries, RetriesAreBounded, TakePcs, hvars,
     vars, cfgVars,
     hostVars, wakeVars, pollVars, locals
<1>3. TriesInv /\ [HNext]_hvars => TriesInv'
  BY <1>2, TriesStep
<1>4. QED
  BY <1>1, <1>3, TriesInit, PTL DEF HSpec
=============================================================================
