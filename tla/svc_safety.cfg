\* Two start intents, a user stop and a revocation: a replacement with
\* everything else around it.
SPECIFICATION Spec
CONSTANTS
    MaxStart = 2
    MaxStop = 1
    Revocable = TRUE
    AlwaysVisible = FALSE
INVARIANTS ReplacedIsAsked ThreadIsManaged FieldIsRegistered KeptUntilAsked
\* The service may stop for good once nothing is asked of it.
CHECK_DEADLOCK FALSE
