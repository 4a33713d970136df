CONSTANTS
    Editors = {m, n}
    MaxSections = 3
    MaxRequests = 5
    StripMax = 1
    u1 = u1
    u2 = u2
    Users = {u1, u2}
    Sites = {1, 2}
    MaxPosts <- MCMaxPosts
    Visitors = {v}
    Staff = {staff}
    Rules = {1, 2}
    RuleRows <- MCRuleRows
    FormRows <- MCFormRows
    MaxChanges = 2
    Writers = {w1, w2, w3}
    Instructions = {i, j}
    Admins = {admin}
    Managers = {manager}
    DocIds = {d1, d2, d3}
    Backends = {"disabled", "clamav", "unknown"}
SPECIFICATION MCSpec
INVARIANTS LayoutHeals StripBounded TrialsExplained RulesAnswered DraftMatches DocumentSound
CHECK_DEADLOCK FALSE
