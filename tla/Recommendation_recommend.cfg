CONSTANTS
    Option = {"p1", "p2", "q1", "r1"}
    Page <- MCPage
    Sorts <- MCSorts
    Requests <- MCRequests
    Conditions <- MCConditions
    Axes <- MCAxes
    Answers <- MCAnswers
    Details <- MCDetails
    Shelves <- MCShelves
    Wishes <- MCWishes
    Linked <- MCLinked
    DocumentBudget = 9
    InspectionBudget = 3
    ReadsPerInspection = 3
    ReviewsPerRead = 2
SPECIFICATION Spec
INVARIANTS
    BudgetHeld
    ResultsAreEarned
    OneScope
PROPERTIES
    StopIsHonoured
