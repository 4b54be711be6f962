-------------------------- MODULE MCRecommendation --------------------------
(* Instances of Recommendation small enough for TLC.                       *)
EXTENDS Recommendation

\* Two options of one product and one each of two others.
MCPage == ("p1" :> "p") @@ ("p2" :> "p") @@ ("q1" :> "q") @@ ("r1" :> "r")
MCSorts == <<"ranking", "sales", "latest">>

Asked(byQuery, answers, proceed, reviewCap, pageLimit, target, maxItems, past) ==
    [byQuery |-> byQuery, answers |-> answers, proceed |-> proceed, reviewCap |-> reviewCap,
     pageLimit |-> pageLimit, target |-> target, maxItems |-> maxItems, purchases |-> past]
MCRequests == {
    Asked(TRUE, <<>>, TRUE, 3, 2, 3, 1, TRUE),
    Asked(TRUE, <<>>, TRUE, 1, 2, 2, 0, FALSE),
    Asked(FALSE, <<"category", "brand">>, TRUE, 2, 2, 2, 0, FALSE),
    Asked(TRUE, <<"category", "category">>, FALSE, 5, 1, 2, 0, FALSE),
    Asked(TRUE, <<"category", "category", "brand">>, TRUE, 5, 1, 2, 0, FALSE) }

MCConditions == {[field |-> "price", operator |-> "lte", bound |-> 2]}
MCAxes == {[field |-> "price", direction |-> "minimize"], [field |-> "rating", direction |-> "maximize"]}

Answer(items, none, rejected, moved, verified) ==
    [items |-> items, none |-> none, rejected |-> rejected, moved |-> moved, verified |-> verified]
MCAnswers == {
    Answer(<<"p1", "q1">>, FALSE, FALSE, FALSE, TRUE),
    Answer(<<"p2", "r1", "p2">>, FALSE, FALSE, TRUE, TRUE),
    Answer(<<>>, FALSE, FALSE, FALSE, TRUE),
    Answer(<<>>, TRUE, FALSE, FALSE, TRUE),
    Answer(<<"p2">>, FALSE, TRUE, FALSE, TRUE),
    Answer(<<"q1">>, TRUE, FALSE, FALSE, FALSE) }

Seen(card, detail, sound) ==
    [card |-> card, detail |-> detail, sound |-> sound, scope |-> "selected_option"]
Observed(price, rating, needs, reviews, reviewCount, pageScoped) ==
    [fields |-> [price |-> price, rating |-> rating], needs |-> needs, reviews |-> reviews,
     reviewCount |-> reviewCount, pageScoped |-> pageScoped]
MCDetails == {
    Observed(Seen({1}, {}, TRUE), Seen({3}, {3}, TRUE), 1, 5, {4}, TRUE),
    Observed(Seen({2}, {}, TRUE), Seen({4}, {}, TRUE), 2, 5, {4}, TRUE),
    Observed(Seen({2}, {}, TRUE), Seen({}, {3}, TRUE), 3, 0, {5}, TRUE),
    Observed(Seen({3}, {}, TRUE), Seen({3}, {4}, TRUE), 1, 0, {4}, FALSE) }

Card(p, url, price, rating, reviews) ==
    [page |-> p, url |-> url,
     fields |-> [price |-> price, rating |-> rating, reviews |-> reviews, used |-> {}]]
MCCards == {Card("p", {"p1"}, {1}, {4}, {7}), Card("p", {"p2"}, {3}, {}, {7}),
            Card("q", {}, {1}, {5}, {})}
MCShelves == {Answer(items, FALSE, FALSE, FALSE, TRUE) : items \in SeqOf(MCCards, 3)}
Wish(filters, order, variants, limit, affiliate) ==
    [filters |-> filters, order |-> order, variants |-> variants, limit |-> limit,
     affiliate |-> affiliate]
MCWishes == {
    Wish({}, "rating", FALSE, 4, "configured"),
    Wish(MCConditions, "price", FALSE, 4, "disabled"),
    Wish({[field |-> "rating", operator |-> "gte", bound |-> 5]}, "reviews", TRUE, 2, "unconfigured"),
    Wish({[field |-> "used", operator |-> "eq", bound |-> 0]}, "reviews", FALSE, 1, "configured") }
MCLinked == {{"failed"}, {"p1"}, {"p1", "p2"}}

=============================================================================
