SPECIFICATION Spec
CONSTANTS
    IntMax <- MCIntMax
    I128Max = 32767
    U32Max = 255
    DECIMAL128_MAX_PRECISION = 4
    FloatMax = 1000
    SubSecond = 2
    SecondsPerDay = 2
    MIN_DATE_DAYS <- MCMinDate
    MAX_DATE_DAYS = 300
    MaxOffset = 3
    BuildNested <- build_nested
    ReadNested <- NestedAt
    MeaningNested <- MeaningShaped
    Types <- MCTypes
    TypesIn <- MCTypesIn
    Values <- MCValues
    Gens <- MCGens
    Sample <- MCSample
    MaxItems = 2
    ProbesOf <- probe_values
    DrawsOf <- Draws
    CanFailIn <- CanFail
    DeriveFor <- generator_by_type
    BlindNested <- Blind
    OverfullNested <- Overfull
    ReadSchema <- load_schema_table
    DECIMAL256_MAX_PRECISION = 6
    DefaultDecimal <- MCDefaultDecimal
    LegacyDecimal <- MCLegacyDecimal
    DerivedTop <- MCDerivedTop
    WholeCap = 1
    FractionCap = 2
    Now = 100
    Cases <- SpacedCases
    BatchRows = 2
    MaxBatches = 1
INVARIANT
    NullabilityAsDeclared
