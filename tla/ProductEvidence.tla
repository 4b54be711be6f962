--------------------------- MODULE ProductEvidence --------------------------
(***************************************************************************)
(* What an inspected product lets one conclude: the readings, conditions   *)
(* and comparisons of internal/core, without state.                        *)
(*                                                                         *)
(* An inspection maps each field to an observation: the value on the card  *)
(* and the value in the details (each a set of at most one number), whether*)
(* every declared record of it has a valid evidence and scope (sound), and *)
(* that scope.  A capacity is observed as the rows of selected attributes. *)
(* A reading is a set again: empty when evidence is missing or conflicts.  *)
(*                                                                         *)
(* WorseFirst is not used by the specification: it is a plausible mistake  *)
(* in the operator next to it.                                             *)
(***************************************************************************)
EXTENDS Integers, FiniteSets, Sequences

Unknown == {}
Known(x) == {x}
Value(reading) == CHOOSE x \in reading : TRUE

Capacities == {"memory", "storage"}

\* readProductCapacity: one standalone row in whole gigabytes; a compound row
\* spoils every standalone one.  Amounts are in thousandths of their unit.
CapacityReading(observation) ==
    LET rows == observation.rows
        alone == {i \in DOMAIN rows : rows[i].kind = "standalone"}
        row == rows[CHOOSE i \in alone : \A j \in alone : j <= i]
    IN  IF \/ ~observation.sound
           \/ \E i \in DOMAIN rows : rows[i].kind = "compound"
           \/ alone = {}
        THEN Unknown
        ELSE CASE row.unit = "TB" -> Known(row.amount)
               [] row.unit = "GB" /\ row.amount % 1000 = 0 -> Known(row.amount \div 1000)
               [] OTHER -> Unknown

\* A card and its details may both state a value: they must agree, and every
\* statement must be sound.
ScalarReading(observation) ==
    LET stated == observation.card \cup observation.detail
    IN  IF observation.sound /\ Cardinality(stated) = 1 THEN stated ELSE Unknown

Reading(inspection, field) ==
    IF field \in Capacities THEN CapacityReading(inspection.fields[field])
    ELSE ScalarReading(inspection.fields[field])

Scope(inspection, field) ==
    IF field \in Capacities THEN "selected_option" ELSE inspection.fields[field].scope

-----------------------------------------------------------------------------
(* Conditions.                                                             *)

Holds(value, condition) ==
    CASE condition.operator = "lte" -> value <= condition.bound
      [] condition.operator = "gte" -> value >= condition.bound
      [] condition.operator = "eq"  -> value = condition.bound

Assess(inspection, condition) ==
    LET reading == Reading(inspection, condition.field)
    IN  IF reading = Unknown THEN "unknown"
        ELSE IF \A x \in reading : Holds(x, condition) THEN "met" ELSE "unmet"

Unmet(inspection, conditions) == {c \in conditions : Assess(inspection, c) = "unmet"}
Unverified(inspection, conditions) == {c \in conditions : Assess(inspection, c) = "unknown"}

\* ConcludeProductConditions, and the exclusion of a candidate: what is unmet
\* outweighs what is unknown.
Conclusion(inspection, conditions) ==
    IF Unmet(inspection, conditions) # {} THEN "conditions_unmet"
    ELSE IF Unverified(inspection, conditions) # {} THEN "conditions_unverified"
    ELSE IF conditions # {} THEN "conditions_met"
    ELSE "conditions_not_declared"

Eligible(inspection, conditions) ==
    Conclusion(inspection, conditions) \in {"conditions_met", "conditions_not_declared"}

-----------------------------------------------------------------------------
(* Comparison over the requested axes.                                     *)

Comparable(left, right, axis) ==
    /\ Reading(left, axis.field) # Unknown
    /\ Reading(right, axis.field) # Unknown
    /\ Scope(left, axis.field) = Scope(right, axis.field)

Better(left, right, axis) ==
    \E a \in Reading(left, axis.field), b \in Reading(right, axis.field) :
        IF axis.direction \in {"minimize", "prefer_false"} THEN a < b ELSE a > b

WorseFirst(left, right, axes) ==
    IF axes = {} THEN "not_requested"
    ELSE IF \E x \in axes : ~Comparable(left, right, x) THEN "unknown"
    ELSE IF \E x \in axes : Better(right, left, x) THEN "dominated"
    ELSE IF \E x \in axes : Better(left, right, x) THEN "dominates"
    ELSE "equal"

\* CompareInspectedProducts, from the left product's side.
Relation(left, right, axes) ==
    LET better == \E x \in axes : Better(left, right, x)
        worse == \E x \in axes : Better(right, left, x)
    IN  IF axes = {} THEN "not_requested"
        ELSE IF \E x \in axes : ~Comparable(left, right, x) THEN "unknown"
        ELSE IF better /\ worse THEN "tradeoff"
        ELSE IF better THEN "dominates"
        ELSE IF worse THEN "dominated"
        ELSE "equal"

-----------------------------------------------------------------------------
(* Review counts of product pages: an option without a usable count, or    *)
(* with another count than the option before it, spoils its page's.        *)

UsableCount(inspection) == IF inspection.pageScoped THEN inspection.reviewCount ELSE Unknown

\* add of recommendationReviewCounts, for a page seen before or not.
CountAdded(count, seen, inspection) ==
    IF ~seen \/ count = UsableCount(inspection) THEN UsableCount(inspection) ELSE Unknown

=============================================================================
