---------------------------- MODULE HousingSearch ----------------------------
(***************************************************************************)
(* What the recognizers of workflow.py and capabilities.py read in a       *)
(* query, and the arguments of searchHousingCandidates that                *)
(* normalize_housing_search_arguments makes of it and of what the planner  *)
(* proposes.                                                               *)
(*                                                                         *)
(* A recognizer is a list of terms that a query is searched for, and the   *)
(* lists differ. A query is the set of its words here, a word standing for *)
(* the terms that are in the same lists; each list is a set of words, and  *)
(* README.md says which terms a word stands for. What regular expressions  *)
(* read is a field of the query. Weights are shares of a total.            *)
(***************************************************************************)
EXTENDS Integers, FiniteSets

CONSTANTS
  District,
  Price,        \* the bounds of a price, in a unit that makes them whole numbers
  Distance,     \* the valid distances
  Weight,       \* the weights a planner proposes
  HousingPlan,  \* its plans
  None

ASSUME SearchAssumption ==
  /\ Price \subseteq Int /\ Weight \subseteq Nat
  /\ None \notin Price \union Weight \union Distance

Preference == {"price", "convenience", "roadWalkability"}

Maybe(S) == S \union {None}

-----------------------------------------------------------------------------
(* The words, by the lists of the code *)

Cheap == {"cheap", "aBitCheaper", "cheaper", "someCheaper"}

LowPrice == {"lowPrice", "lowHousePrice", "aBitCheaper", "affordable"}

Convenient == {"convenient", "carefree"}

GoodRoad == {"goodRoad", "goodWalk"}

RoadOnlyMetric == {"gvi", "greenView", "roadNoise", "ws", "vegetation", "walkIndex"}

RoadWalk == {"walkCondition", "roadWalk"}

\* ROAD_ENTITY_TERMS; those of housing are one word, "home"
RoadEntity == {"road", "roadWalk", "nearbyRoad", "aroundRoad", "roadNoise"}

\* mentions_price of contextualize_with_state
PriceWord == {"price", "housePrice", "lowPrice", "lowHousePrice", "affordable"}

SpatialWord == {"near", "nearbyRoad", "aroundRoad"}

\* has_housing_preference of capabilities.py
PreferenceAlias ==
  LowPrice \union {"cheaper"} \union Convenient
  \union RoadWalk \union GoodRoad \union {"aroundRoad", "walking", "walkIndex"}

\* requested_preferences of normalize_housing_search_arguments: a list per preference
RequestTerm ==
  [price |-> LowPrice \union {"cheaper", "someCheaper"},
   convenience |-> Convenient,
   roadWalkability |-> RoadOnlyMetric \union RoadWalk \union GoodRoad
                         \union {"highWalk", "aroundRoad", "nearbyRoad", "walking"}]

\* has_housing_preference and has_preference of is_housing_search_query
LivingWish ==
  LowPrice \union Convenient \union GoodRoad \union {"newWalk", "goOut", "affordHome"}

Emphasis ==
  (LowPrice \ {"affordable"}) \union Convenient \union GoodRoad
  \union {"goOut", "affordHome", "walkCondition", "percentile", "high"}

Walk == RoadWalk \union {"walk", "walkIndex", "highWalk", "newWalk"}

\* The words of no list above: bounds, numbers, verbs and the rest.
Word ==
  {"home", "living", "wan", "atLeast", "atMost", "compared", "digit", "score", "act",
   "explain", "length"}
  \union Cheap \union RoadEntity \union PriceWord \union SpatialWord \union PreferenceAlias
  \union RequestTerm["roadWalkability"] \union LivingWish \union Emphasis \union Walk

(* districts    DISTRICT_NAMES in the query                                 *)
(* floor        explicit_price_min; ceiling: explicit_price_max             *)
(* roadLevel    HARD: the road's level is HIGH or VERY_HIGH                 *)
(* distance     explicit_buffer_meters                                      *)
(* criteria     a road metric compared to a number                          *)
(* weighted     speaks of weights                                           *)
(* unsupported  something normalize_housing_search_arguments refuses: a     *)
(*              housing field for the road, a limit or a threshold out of   *)
(*              range, a distance out of range or two of them               *)
Query ==
  [words : SUBSET Word, districts : SUBSET District,
   floor : Maybe(Price), ceiling : Maybe(Price),
   roadLevel : {"SOFT", "HARD"}, distance : Maybe(Distance),
   criteria : BOOLEAN, weighted : BOOLEAN, unsupported : BOOLEAN]

Speaks(q, list) == q.words \intersect list # {}

IsNear(q) == Speaks(q, SpatialWord) \/ q.distance # None

Requested(q) == {p \in Preference : Speaks(q, RequestTerm[p])}

\* What HOUSING_PLAN_SCHEMA admits, as far as it is used.
Planned ==
  [mode : {"RANK", "BUFFER_FILTER"}, districts : SUBSET District,
   floor : Maybe(Price), ceiling : Maybe(Price),
   weights : {w \in [Preference -> Maybe(Weight)] : w["price"] # None},
   distance : Maybe(Distance)]

ASSUME PlanAssumption == HousingPlan \subseteq Planned

\* The plan of deterministic_housing_search_arguments.
DefaultPlan ==
  [mode |-> "RANK", districts |-> {}, floor |-> None, ceiling |-> None,
   weights |-> [p \in Preference |-> IF p = "price" THEN 0 ELSE None], distance |-> None]

IsDeterministic(q) == ~q.weighted /\ ~q.criteria

-----------------------------------------------------------------------------
(* The parts of the arguments *)

Inverted(x) == x.floor # None /\ x.ceiling # None /\ x.floor > x.ceiling

Mode(q, planned) ==
  IF "roadWalkability" \in Requested(q)
  THEN IF q.roadLevel = "HARD" /\ IsNear(q) THEN "BUFFER_FILTER" ELSE "RANK"
  ELSE planned.mode

\* The weight of a preference before shares are made: the planner's only if the user
\* spoke of weights.
Proposed(q, planned, p) == IF q.weighted THEN planned.weights[p] ELSE None

Unweighted(q, planned) == \A p \in Requested(q) : Proposed(q, planned, p) = None

\* The sum of f over the preferences S.
SumOver(f, S) ==
  LET Part(p) == IF p \in S THEN f[p] ELSE 0
  IN Part("price") + Part("convenience") + Part("roadWalkability")

SumOfWeights(planned, S) ==
  SumOver(planned.weights, {p \in S : planned.weights[p] # None})

TotalOfAll(q, planned) == SumOfWeights(planned, Preference)  \* mutation of TotalWeight

TotalWeight(q, planned) == SumOfWeights(planned, Requested(q))

\* Two or more preferences: weights for all or for none, and not all zero.
WeightsRefused(q, planned) ==
  /\ Cardinality(Requested(q)) > 1
  /\ ~Unweighted(q, planned)
  /\ \/ \E p \in Requested(q) : Proposed(q, planned, p) = None
     \/ TotalWeight(q, planned) = 0

\* The share of each preference in total; None where the service is to choose.
Shares(q, share, total) ==
  [share |-> [p \in Preference |-> IF p \in Requested(q) THEN share[p] ELSE 0], total |-> total]

Everyone(share) == [p \in Preference |-> share]

Weights(q, planned) ==
  CASE Cardinality(Requested(q)) = 1 -> Shares(q, Everyone(1), 1)
    [] Cardinality(Requested(q)) # 1 /\ ~Unweighted(q, planned) ->
         Shares(q, planned.weights, TotalWeight(q, planned))
    [] Unweighted(q, planned) /\ Requested(q) = {"convenience", "roadWalkability"} ->
         Shares(q, Everyone(None), 1)
    [] OTHER -> Shares(q, Everyone(1), Cardinality(Requested(q)))

-----------------------------------------------------------------------------
(* normalize_housing_search_arguments *)

Refused(q, planned) ==
  \/ q.unsupported
  \/ Inverted(planned) \/ Inverted(q)
  \/ q.distance = None /\ planned.distance # None
  \/ Requested(q) = {}
  \/ WeightsRefused(q, planned)
  \/ Mode(q, planned) = "BUFFER_FILTER" /\ "roadWalkability" \notin Requested(q)

TrustsPlanner(q, planned) ==                        \* mutation of Normalized
  [tool |-> "searchHousingCandidates", districts |-> q.districts,
   floor |-> q.floor, ceiling |-> IF q.ceiling = None THEN planned.ceiling ELSE q.ceiling,
   wants |-> Requested(q), roadLevel |-> q.roadLevel, mode |-> Mode(q, planned),
   weights |-> Weights(q, planned), distance |-> q.distance]

\* Of the planner only the weights are taken, and the mode where no road is wanted.
Normalized(q, planned) ==
  [tool |-> "searchHousingCandidates", districts |-> q.districts,
   floor |-> q.floor, ceiling |-> q.ceiling,
   wants |-> Requested(q), roadLevel |-> q.roadLevel, mode |-> Mode(q, planned),
   weights |-> Weights(q, planned), distance |-> q.distance]

\* The arguments are ones the service can rank by: at least one preference, the shares
\* make a whole or are left to the service together, what is not asked for weighs
\* nothing, and only a hard wish for the road filters by it.
WellFormed(a) ==
  LET share == a.weights.share IN
  /\ a.wants # {}
  /\ \A p \in Preference \ a.wants : share[p] = 0
  /\ \/ \A p \in a.wants : share[p] = None
     \/ /\ \A p \in a.wants : share[p] # None
        /\ a.weights.total > 0
        /\ SumOver(share, a.wants) = a.weights.total
  /\ a.mode = "BUFFER_FILTER" => "roadWalkability" \in a.wants /\ a.roadLevel = "HARD"
=============================================================================
