SPECIFICATION Spec
CONSTANTS
    Senders = {wpas}
    IoQueueLen = 2
    MaxCommands = 2
INVARIANTS SleepAgrees NoStrandedSender SentAwake DisableUnderway
PROPERTIES SenderServed RebootServed
CHECK_DEADLOCK FALSE
