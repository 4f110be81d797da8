SPECIFICATION Spec
CONSTANTS
    Callers = {c1, c2, c3}
    Values = {v1, v2}
    Absent = Absent
    Corrupt = Corrupt
    Nobody = Nobody
    MaxDeaths = 1
    MaxPowerLosses = 1
    MaxDecays = 1
SYMMETRY Symmetry
INVARIANTS SingleFlight Agreement AcknowledgedIsDurable
PROPERTIES ValidEntryStays
