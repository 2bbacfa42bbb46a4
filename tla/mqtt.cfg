SPECIFICATION FairSpec
CONSTANT QuickFlaps = FALSE
INVARIANTS CheckIsUnderWay
PROPERTIES NudgeIsEarned JoinsWhenHeard Recovers ChecksGoOn
