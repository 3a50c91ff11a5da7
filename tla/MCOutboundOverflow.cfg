SPECIFICATION OutboundSpec
\* Everyone may be done.
CHECK_DEADLOCK FALSE
CONSTANTS
    Producers = {handler, translator}
    Capacity = 1
    MaxOffers = 3
SYMMETRY ProducerSymmetry
INVARIANT OverflowIsFinal
