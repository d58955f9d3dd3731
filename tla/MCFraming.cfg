SPECIFICATION Spec
CONSTANTS
    MaxPacket = 7
    MacLen = 1
    Strays <- MCStrays
    Packets <- MCPackets
    MaxEvents = 2
    BreakPoints = {2}
INVARIANT
    SentIsReceived
\* main() of the STM32 and of the simulation return when the initialisation fails.
CHECK_DEADLOCK FALSE
