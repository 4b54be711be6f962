CONSTANTS
    Calls = {c1, c2}
    Tools = {"auth_status", "auth_login_if_needed", "login_link", "account_benefits", "orders_preview", "orders_list", "products_search"}
    Pages <- MCPages
    MaxMoves = 1
    NoCall = NoCall
SPECIFICATION Spec
INVARIANTS
    SessionClaims
    LedgerIsOwned
PROPERTIES
    CallsAnswered
CHECK_DEADLOCK FALSE
