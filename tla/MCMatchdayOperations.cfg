SPECIFICATION Spec
CONSTANTS
    opening = opening
    final = final
    Matches = {opening, final}
    Placeholders = {final}
    Slots = {1, 2}
    Plan <- TwoSlots
    Overlapping = {"open", "report", "resolve", "deviate", "arrive"}
    DeviationIds = {1, 2}
    IncidentIds = {1, 2}
INVARIANTS
    DeviationsExplainSlots
    
PROPERTIES
    ClosesOnOfficialResults
    DayRunsItself
CHECK_DEADLOCK FALSE
