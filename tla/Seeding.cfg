CONSTANTS
    d1 = d1   d2 = d2   q1 = q1   q2 = q2   q3 = q3
    Domains = {d1, d2}
    Harvests <- Pages
    Queued = {d1}
    Requests = {q1, q2, q3}
    Kinds = {"click", "autoClick", "import", "approve", "approveTool", "reject", "toggle", "delete"}
SPECIFICATION Spec
INVARIANTS
    AllAdded
    ApprovedIsSeed
    ReviewSettled
    EveryClickCounts
PROPERTIES
    DecisionsStick
