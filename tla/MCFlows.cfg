SPECIFICATION FlowsSpec
\* EventLog: a log that outgrows its ring and a subscriber that outgrows its queue.
CONSTANTS
    Appenders = {"a1", "a2"}
    Subs = {"s1"}
    RingCap = 2
    QueueCap = 2
    MaxSeq = 4
    MaxFaults = 1
INVARIANT StreamExact
PROPERTY Delivered
PROPERTY ClientsServed
PROPERTY CallReturns
\* Every component may run out of work.
CHECK_DEADLOCK FALSE
