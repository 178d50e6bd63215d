SPECIFICATION FairSpec
CONSTANTS
    Consumers = {c1, c2}
    MAX_DELIVERY_ATTEMPTS = 3
    BATCH_SIZE = 2
    STREAM_MAXLEN = 1
    MaxEvents = 2
    MaxMishaps = 2
INVARIANTS NoSilentLoss DeadLetterThreshold
PROPERTIES AckIsFinal EventuallySettled
