\* Training columns of every kind; two rows, so that a sample of two, one or none
\* is under way while the table changes; one live error of one row; one failure.
CONSTANTS
    NaN = NaN
    Bins = 3
    RareOf = 4
    Columns <- MCColumns
    Values <- MCValues
    Probes <- MCProbes
    Window = 2
    MinSamples = 2
    LiveWindow = 1
    MaxRows = 2
    MaxFailures = 1
SPECIFICATION Spec
INVARIANTS
    TypeOK
    TrainingHasNoDrift
    EveryValueCounted
PROPERTIES
    GaugesShowTheReport
    HealthConverges
