\* Two probes, two relays or one of each: enough for any two threads to meet.
CONSTANTS
    AllowTcpPings = {TRUE, FALSE}
    MaxSeq = 2
    MaxRelays = 2
    MaxFd = 5
    MaxUnread = 3
SPECIFICATION Spec
INVARIANTS TypeOK MisuseHasCause HandlersAccountedFor DescriptorsReturned
PROPERTIES ProbeEnds IndirectAnswered
CHECK_DEADLOCK FALSE
