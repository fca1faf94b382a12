\* Six configurations, see MCSoftwareBackend.
CONSTANTS
    MaxWindows = 3
    MaxVersion = 2
    Setups <- AllSetups
SPECIFICATION Spec
INVARIANTS InputOrder AnswersOwnRequest NoFrameLost
PROPERTY WakesServed
\* Bounds spent, or run has returned.
CHECK_DEADLOCK FALSE
