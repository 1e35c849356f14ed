CONSTANTS
    Database <- MCDatabase
    Counters = {0, 1, 2, 3, 4}
    Fixed = {0, 1}
    Rate <- MCRate
    Batch <- MCBatch
    Word = 4
    MaxMisread = 1
SPECIFICATION Spec
CHECK_DEADLOCK FALSE
INVARIANTS SafelyLoaded FieldsAreTheBatch
PROPERTY MeasuresOrExits
