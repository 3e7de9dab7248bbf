SPECIFICATION Spec
CONSTANTS
    clubs = clubs
    corrected = corrected
    original = original
    changed = changed
    k1 = k1
    k2 = k2
    NoKey = NoKey
    Contents = {clubs}
    Uploads = {corrected}
    Labels = {original, changed}
    Keys = {k1, k2}
    Slow = {"stage", "import"}
    Meanwhile = {"stage", "import", "reject", "template"}
    DeliveryIds = {1, 2}
    WizardIds = {1}
    JobIds = {1, 2}
    ReplyIds = {1, 2}
    RunIds = {1, 2}
    MaxEdits = 1
    MaxChanges = 1
INVARIANTS
    RetransmissionsReuse
    ImportsAsApproved
    DeliveryShowsItsJob
SYMMETRY Symmetry
CHECK_DEADLOCK FALSE
