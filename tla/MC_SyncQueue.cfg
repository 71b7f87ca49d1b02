\* sync_queue with two producers, two consumer threads and three pushes
\* each: no lost wake-up, and the implementation refines the atomic queue.
CONSTANTS
    Producers <- MCProducers
    Consumers <- MCConsumers
    MaxPush = 3
SPECIFICATION Spec
INVARIANTS
    TypeOK
    NoLostWakeup
PROPERTIES
    RefinesQueueSpec
