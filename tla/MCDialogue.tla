------------------------------ MODULE MCDialogue ------------------------------
(* A small instance of Dialogue: what a handful of users might write.        *)
EXTENDS Dialogue, TLC

CONSTANTS d1, d2

MCDistrict == {d1, d2}

\* Two whole prices, a fraction that ':g' rounds to the second, and one no clause can write.
MCPrice == {-1, 1, 2, 3}
MCReread == (-1 :> None) @@ (1 :> 1) @@ (2 :> 2) @@ (3 :> 2)

MCDistance == {100}
MCWeight == {0, 1}

Says(words) ==
  [kind |-> "REQUEST", refers |-> FALSE, keeps |-> FALSE, written |-> {},
   query |-> [words |-> words, districts |-> {}, floor |-> None, ceiling |-> None,
              roadLevel |-> "SOFT", distance |-> None, criteria |-> FALSE,
              weighted |-> FALSE, unsupported |-> FALSE]]

\* A planner that proposes a mode and weights, and one that makes up a condition.
MCHousingPlan ==
  {[DefaultPlan EXCEPT !.mode = m, !.weights = w] :
     m \in {"RANK", "BUFFER_FILTER"},
     w \in {f \in [Preference -> {None, 0, 1}] : f["price"] # None}}
  \union {[DefaultPlan EXCEPT !.districts = MCDistrict, !.floor = f, !.ceiling = c, !.distance = dist,
                             !.weights = [p \in Preference |-> 1]] :
            f \in {None, 2}, c \in {1, 2}, dist \in {None, 100}}

\* "Homes in d at most c, w", with or without the word for homes, new or as a follow-up.
Searches ==
  {[Says(e \union w \union (IF c = None THEN {} ELSE {"atMost", "digit"}))
      EXCEPT !.refers = r, !.written = d, !.query.districts = d, !.query.ceiling = c] :
     r \in BOOLEAN, d \in {{}, {d1}, {d2}}, c \in {None, 1}, e \in {{}, {"home"}},
     w \in {{}, {"convenient"}, {"aBitCheaper", "goodRoad"}}}

\* "From 3", with or without a word for a lower bound, "the rest unchanged".
Floors ==
  {[Says({"home", "price", "act", "digit"} \union w \union wants)
      EXCEPT !.refers = k, !.keeps = k, !.query.floor = 3, !.query.districts = d] :
     k \in BOOLEAN, d \in {{}, {d1}, {d2}},
     w \in {{}, {"atLeast", "compared"}}, wants \in {{}, {"convenient"}}}

\* Follow-ups without a bound: cheaper in words of one list or of another, the most
\* convenient, the price as such, within 500 metres; the rest unchanged or not.
FollowUps ==
  {[Says({"atMost", "digit"}) EXCEPT !.refers = TRUE, !.keeps = k, !.query.distance = 100] :
     k \in BOOLEAN}
  \union
  {[Says(w) EXCEPT !.refers = TRUE, !.keeps = k] :
     k \in BOOLEAN,
     w \in {{"aBitCheaper"}, {"someCheaper"}, {"cheap"}, {"lowHousePrice"}, {"affordable"},
            {"convenient", "atMost"}, {"home", "convenient", "atMost", "high"},
            {"price"}, {"high"}, {"nearbyRoad"}, {"roadWalk", "high"},
            {"home", "roadWalk", "high"}}}

\* Roads, near or by number, and weights.
Roads ==
  {[Says({e, "high", m, "act", "digit"} \union w)
      EXCEPT !.written = {d}, !.query.districts = {d}, !.query.roadLevel = "HARD",
             !.query.distance = dist, !.query.criteria = (m = "ws"), !.query.weighted = p] :
     e \in {"home", "road"}, d \in MCDistrict, w \in {{}, {"aBitCheaper"}},
     dist \in {None, 100}, m \in {"walkCondition", "ws"}, p \in BOOLEAN}

\* A question, thanks, a request no rule knows, a metric of the road for homes with and
\* without a number, a follow-up by score, a place to live, a hard wish for the road
\* without a term for it, a housing field for the road, bounds the wrong way round, weights
\* without a road.
Others ==
  {[Says({"explain", "walkIndex"}) EXCEPT !.kind = "KNOWLEDGE"],
   [Says({}) EXCEPT !.kind = "TALK", !.refers = TRUE],
   Says({}),
   Says({"home", "convenient", "gvi"}),
   [Says({"gvi", "digit", "near"}) EXCEPT !.refers = TRUE, !.query.criteria = TRUE],
   [Says({"score", "act"}) EXCEPT !.refers = TRUE],
   Says({"living", "convenient"}),
   [Says({"highWalk", "near"}) EXCEPT !.refers = TRUE, !.query.roadLevel = "HARD"],
   [Says({"home", "newWalk", "high"}) EXCEPT !.query.unsupported = TRUE],
   [Says({"home", "price", "atLeast", "atMost", "digit", "aBitCheaper"})
      EXCEPT !.query.floor = 2, !.query.ceiling = 1],
   [Says({"home", "lowPrice", "convenient"}) EXCEPT !.query.weighted = TRUE]}

MCText == Searches \union Floors \union FollowUps \union Roads \union Others

MCSymmetry == Permutations(MCDistrict)
=============================================================================
