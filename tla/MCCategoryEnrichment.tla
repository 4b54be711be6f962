------------------------ MODULE MCCategoryEnrichment ------------------------
(* Instances of CategoryEnrichment small enough for TLC.                   *)
EXTENDS CategoryEnrichment

BreadcrumbRow(position, target) == [position |-> position, target |-> target]

\* A page without breadcrumb, one whose rows come unsorted, and one whose
\* rows cannot be read.
MCDocuments == {
    <<>>,
    <<BreadcrumbRow(3, 20), BreadcrumbRow(1, Home), BreadcrumbRow(2, 10)>>,
    <<BreadcrumbRow(1, 10), BreadcrumbRow(1, 20)>> }

\* One row of the release that kept no path, one with a path that has since
\* grown a level.
LegacyRow(k, path) == [product |-> k, source |-> "breadcrumb", path |-> path, at |-> 0]
MCLegacyCategories ==
    {{LegacyRow(1, NoPath), LegacyRow(2, <<[id |-> 10, position |-> 2]>>)}}

Symmetry == Permutations(Caller)

=============================================================================
