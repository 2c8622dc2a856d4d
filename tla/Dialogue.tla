------------------------------- MODULE Dialogue -------------------------------
(***************************************************************************)
(* The turns of one conversation, from the query to the business state     *)
(* that _complete_run commits (conversation_state.py), by way of the       *)
(* routing and planning nodes of workflow.py.                              *)
(*                                                                         *)
(* A follow-up is made whole by text: clauses for what the last map query  *)
(* had are appended to the query, and what the recognizers read in the     *)
(* longer text is all that counts.  The state is replaced only by a turn   *)
(* of intent MAP_QUERY that completes.                                     *)
(*                                                                         *)
(* The models are external: the router answers any intent, a planner any   *)
(* plan of its schema.  Turns come one after the other here; that only     *)
(* one of two overlapping turns commits is RunStore's CommitChain.         *)
(***************************************************************************)
EXTENDS HousingSearch

CONSTANTS
  Text,     \* the queries users write, see TextAssumption
  Reread    \* the bound the patterns read where a clause writes the given one

\* A clause writes a fraction with the six digits of ':g'; a bound that comes from a
\* planner's filter may even be one the patterns do not read.
ASSUME RereadAssumption == Reread \in [Price -> Maybe(Price)]

(* Besides what is read in a query:                                         *)
(* kind     KNOWLEDGE is_knowledge_request, TALK conversation_kind          *)
(* refers   one of FOLLOWUP_REFERENCE_TERMS; keeps: "other conditions       *)
(*          unchanged", which is one of them                                *)
(* written  the districts as written, before normalize_user_query           *)
ASSUME TextAssumption ==
  \A t \in Text :
    /\ t.query \in Query
    /\ t.kind \in {"KNOWLEDGE", "TALK", "REQUEST"}
    /\ t.refers \in BOOLEAN /\ t.keeps \in BOOLEAN /\ (t.keeps => t.refers)
    /\ t.written \subseteq t.query.districts
    /\ t.query.ceiling # None => "atMost" \in t.query.words
    /\ t.query.floor # None => Speaks(t.query, PriceWord \union {"atLeast"})
    /\ t.query.floor # None \/ t.query.ceiling # None \/ t.query.distance # None
         => "digit" \in t.query.words
    /\ t.query.criteria => Speaks(t.query, RoadOnlyMetric) /\ "digit" \in t.query.words

VARIABLES
  state,     \* ConversationBusinessState, its entity and query contexts
  memory,    \* the entity that the latest memory that names one names
  turn,      \* the turn in progress
  executed   \* history: the scope of the last map query, if it was a housing search

dialogueVars == <<state, memory, turn, executed>>

Entity == {"HOUSING", "ROAD"}
Intent == {"MAP_QUERY", "RAG_QA", "HYBRID", "CLARIFY", "CONVERSATION"}
MapTool == {"queryMapPoints", "queryMapLines", "queryMapFeatures"}
Tool == {"searchHousingCandidates"} \union MapTool

ASSUME NoneAssumption == None \notin Entity \union Intent \union Tool

NoContext == [entity |-> None, tool |-> None, districts |-> {}, floor |-> None,
              ceiling |-> None, preferences |-> {}]

NoCall == [tool |-> None, districts |-> {}, floor |-> None, ceiling |-> None]

NoTurn == [pc |-> "IDLE"]

DialogueInit ==
  /\ state = NoContext
  /\ memory = None
  /\ turn = NoTurn
  /\ executed = NoCall

-----------------------------------------------------------------------------
(* contextualize_with_state *)

\* entity_from_text
ExplicitEntity(q) ==
  CASE "home" \in q.words /\ ~Speaks(q, RoadEntity) -> "HOUSING"
    [] "home" \notin q.words /\ Speaks(q, RoadEntity) -> "ROAD"
    [] OTHER -> None

IsFollowUp(t) ==
  LET explicit == ExplicitEntity(t.query) IN
  /\ t.kind # "KNOWLEDGE"
  /\ explicit # None => t.refers /\ explicit = state.entity
  /\ t.refers \/ t.query.districts # {} \/ Speaks(t.query, PreferenceAlias)
  /\ state.entity # None

\* The words of the clauses: for the object of the query, for a bound, for a preference.
ObjectClause(entity) == {IF entity = "HOUSING" THEN "home" ELSE "road", "act"}

BoundClause(word) == {"housePrice", word, "compared", "digit"}

PreferenceClause ==
  [price |-> {"lowHousePrice"}, convenience |-> {"convenient"},
   roadWalkability |-> {"roadWalk", "walkCondition"}]

\* A bound gets a clause unless the query has a word for such a bound; a query that
\* speaks of the price has to say that the rest is unchanged.
Inherits(t, bound, word) ==
  /\ bound # None /\ word \notin t.query.words
  /\ t.keeps \/ ~Speaks(t.query, PriceWord)

\* The preferences get clauses unless the query has a word of the alias list. A query may
\* ask for a preference in a word that is not in it: the old ones are then added to it.
Inherited(t) == IF Speaks(t.query, PreferenceAlias) THEN {} ELSE state.preferences

\* A clause has the form the patterns look for first, and so comes before a bound the
\* query may have in another form.
Bound(t, own, bound, word) ==
  IF Inherits(t, bound, word) /\ Reread[bound] # None THEN Reread[bound] ELSE own

ClauseWords(t) ==
  (IF ExplicitEntity(t.query) = None THEN ObjectClause(state.entity) ELSE {})
  \union (IF Inherits(t, state.floor, "atLeast") THEN BoundClause("atLeast") ELSE {})
  \union (IF Inherits(t, state.ceiling, "atMost") THEN BoundClause("atMost") ELSE {})
  \union UNION {PreferenceClause[p] : p \in Inherited(t)}

\* The level of the road is read next to a term for it, and the clause is one, unless the
\* query has another or a percentile.
LevelRead(t) ==
  IF "roadWalkability" \in Inherited(t) /\ ~Speaks(t.query, {"ws", "percentile"})
  THEN "SOFT" ELSE t.query.roadLevel

\* The query together with its clauses, as the recognizers read it.
WithState(t) ==
  [t.query EXCEPT
     !.words = @ \union ClauseWords(t),
     !.districts = IF @ = {} THEN state.districts ELSE @,
     !.floor = Bound(t, @, state.floor, "atLeast"),
     !.ceiling = Bound(t, @, state.ceiling, "atMost"),
     !.roadLevel = LevelRead(t)]

\* contextualize_followup_query: without a state to follow, a district alone takes the
\* entity of the latest memory that names one.
Contextualized(t) ==
  LET q == t.query IN
  IF IsFollowUp(t) THEN WithState(t)
  ELSE IF q.districts # {} /\ ~Speaks(q, {"home"} \union RoadEntity) /\ memory # None
       THEN [q EXCEPT !.words = @ \union ObjectClause(memory)]
  ELSE q

-----------------------------------------------------------------------------
(* route_intent *)

\* The housing may go without saying: a place to live with a cue, a ceiling and a wish, or
\* the price and a wish for the way of life leave no doubt.
SpeaksOfHousing(q) ==
  \/ "home" \in q.words
  \/ /\ Speaks(q, {"living", "affordHome"})
     /\ q.districts # {} \/ Speaks(q, PriceWord \union {"convenient", "wan"})
  \/ q.ceiling # None /\ Speaks(q, Cheap \union Walk \union {"convenient", "goodRoad"})
  \/ /\ ~Speaks(q, RoadEntity)
     /\ Speaks(q, Cheap \union PriceWord)
     /\ Speaks(q, Convenient \union GoodRoad \union {"walking", "goOut"})

\* Evidence of the road with a place or emphasis, or a wish with emphasis; a metric that
\* is not the walk index makes no search without a number.
IsHousingSearch(q) ==
  /\ SpeaksOfHousing(q)
  /\ Speaks(q, {"gvi", "greenView", "roadNoise"}) => "digit" \in q.words
  /\ \/ /\ Speaks(q, RoadOnlyMetric \union RoadWalk \union {"highWalk"})
        /\ IsNear(q) \/ Speaks(q, Emphasis)
     \/ Speaks(q, LivingWish) /\ Speaks(q, Emphasis)

CrossLayerClarification(q) == "home" \in q.words /\ Speaks(q, RoadOnlyMetric)

ActsByNumber(q) ==
  q.districts # {} /\ "act" \in q.words /\ "explain" \notin q.words
  /\ Speaks(q, {"compared", "digit"})

IsFrozenPointMapQuery(q) ==
  ActsByNumber(q) /\ "home" \in q.words /\ Speaks(q, {"housePrice", "lowHousePrice", "score"})

IsExplicitRoadMapQuery(q) ==
  ActsByNumber(q) /\ Speaks(q, RoadEntity) /\ Speaks(q, {"gvi", "ws", "length"})

\* What the rules decide, in their order, and else the model.
Routes(q) ==
  IF IsHousingSearch(q) THEN {"HOUSING"}
  ELSE IF CrossLayerClarification(q) THEN {"CLARIFY"}
  ELSE IF IsFrozenPointMapQuery(q) \/ IsExplicitRoadMapQuery(q) THEN {"MAP_QUERY"}
  ELSE Intent

\* The run of a query reads the state; nothing is committed while it executes.
Ask(t) ==
  /\ turn = NoTurn
  /\ turn' = [pc |-> "ROUTE", text |-> t, query |-> t.query, intent |-> None, call |-> NoCall]
  /\ UNCHANGED <<state, memory, executed>>

RouteTo(q, intent) ==
  turn' = [turn EXCEPT !.query = q,
    !.intent = IF intent = "HOUSING" THEN "MAP_QUERY" ELSE intent,
    !.pc = CASE intent = "HOUSING" -> "PLAN_HOUSING"
             [] intent \in {"MAP_QUERY", "HYBRID"} -> "PLAN_MAP"
             [] OTHER -> "ANSWER"]

RouteIntent ==
  /\ turn.pc = "ROUTE"
  /\ CASE turn.text.kind = "KNOWLEDGE" -> RouteTo(turn.query, "RAG_QA")
       [] turn.text.kind = "TALK" -> RouteTo(turn.query, "CONVERSATION")
       [] OTHER -> LET q == Contextualized(turn.text) IN
                   \E intent \in Routes(q) : RouteTo(q, intent)
  /\ UNCHANGED <<state, memory, executed>>

-----------------------------------------------------------------------------
(* plan_housing_search, plan_map and the tools *)

Plans(q) == IF IsDeterministic(q) THEN {DefaultPlan} ELSE HousingPlan

PlanHousingSearch ==
  /\ turn.pc = "PLAN_HOUSING"
  /\ \E planned \in Plans(turn.query) :
       /\ ~Refused(turn.query, planned)
       /\ turn' = [turn EXCEPT !.pc = "ANSWER", !.call = Normalized(turn.query, planned)]
  /\ UNCHANGED <<state, memory, executed>>

\* The first call of the plan, the only one that is remembered, and of its arguments what
\* is: the upper bound of a price filter.
PlanMap ==
  /\ turn.pc = "PLAN_MAP"
  /\ \E tool \in MapTool, ceiling \in Maybe(Price) :
       turn' = [turn EXCEPT !.pc = "ANSWER",
                            !.call = [NoCall EXCEPT !.tool = tool, !.ceiling = ceiling]]
  /\ UNCHANGED <<state, memory, executed>>

\* A plan is refused, a model or a tool fails, the user cancels: nothing is committed.
Fail ==
  /\ turn # NoTurn
  /\ turn' = NoTurn
  /\ UNCHANGED <<state, memory, executed>>

-----------------------------------------------------------------------------
(* build_committed_state *)

DistrictsOfText(call) == turn.text.written          \* mutation of SearchedDistricts

SearchedDistricts(call) == call.districts

KeepsFilters ==                                     \* mutation of RoadContext
  [state EXCEPT !.entity = "ROAD", !.tool = "queryMapLines", !.districts = turn.text.written]

RoadContext ==
  [entity |-> "ROAD", tool |-> "queryMapLines", districts |-> turn.text.written,
   floor |-> None, ceiling |-> None, preferences |-> {}]

\* Of a search its arguments; of a point query the districts the user wrote, and of its
\* price filters the upper bound; of a line query the districts alone.  Any other tool
\* leaves the context as it is.
Context(call) ==
  CASE call.tool = "searchHousingCandidates" ->
         [entity |-> "HOUSING", tool |-> call.tool, districts |-> SearchedDistricts(call),
          floor |-> call.floor, ceiling |-> call.ceiling, preferences |-> call.wants]
    [] call.tool = "queryMapPoints" ->
         [entity |-> "HOUSING", tool |-> call.tool, districts |-> turn.text.written,
          floor |-> None, ceiling |-> call.ceiling, preferences |-> {}]
    [] call.tool = "queryMapLines" -> RoadContext
    [] OTHER -> state

Scope(call) == [tool |-> call.tool, districts |-> call.districts,
                floor |-> call.floor, ceiling |-> call.ceiling]

\* The search that is now the last map query, if it is a search.
LastSearch(call) ==
  CASE call.tool = "searchHousingCandidates" -> Scope(call)
    [] call.tool = "queryMapFeatures" -> executed
    [] OTHER -> NoCall

\* The entity the memory of this turn names, by its query or else by its answer.
Named(t) ==
  IF ExplicitEntity(t.query) # None THEN {ExplicitEntity(t.query)} ELSE Entity \union {memory}

Complete ==
  /\ turn.pc = "ANSWER"
  /\ IF turn.intent = "MAP_QUERY"
     THEN state' = Context(turn.call) /\ executed' = LastSearch(turn.call)
     ELSE UNCHANGED <<state, executed>>
  /\ memory' \in Named(turn.text)
  /\ turn' = NoTurn

DialogueNext ==
  \/ \E t \in Text : Ask(t)
  \/ RouteIntent \/ PlanHousingSearch \/ PlanMap
  \/ Complete \/ Fail

DialogueSpec == DialogueInit /\ [][DialogueNext]_dialogueVars
-----------------------------------------------------------------------------
(* Properties *)

Search == turn # NoTurn /\ turn.call.tool = "searchHousingCandidates"

ContextType ==
  [entity : Maybe(Entity), tool : Maybe(Tool),
   districts : SUBSET District, floor : Maybe(Price), ceiling : Maybe(Price),
   preferences : SUBSET Preference]

\* The variables keep their types: what clauses make of a query is a query. A context of
\* roads has no bound and no preference, which are of homes, whatever was searched before.
DialogueTypeOK ==
  /\ state \in ContextType
  /\ state.entity # "HOUSING" =>
       state.floor = None /\ state.ceiling = None /\ state.preferences = {}
  /\ memory \in Maybe(Entity)
  /\ turn # NoTurn =>
       /\ turn.pc \in {"ROUTE", "PLAN_HOUSING", "PLAN_MAP", "ANSWER"}
       /\ turn.text \in Text /\ turn.query \in Query /\ turn.intent \in Maybe(Intent)
  /\ executed.tool \in {"searchHousingCandidates", None}

\* Where a lower bound is stated in a form without a word for it, "from 15000", and the
\* rest is to stay unchanged, the clause of the previous bound is read instead.
FloorIsShadowed == turn.text.keeps /\ "atLeast" \notin turn.text.query.words

Again(bound) == IF bound = None THEN None ELSE Reread[bound]

\* A condition of a housing search is the one the user states in this turn; one the user
\* does not state is absent or what the last map query left, as a clause writes it; and
\* none is invented by the planner, whatever it answers.  Preferences are those the user
\* states, alone where they are in words of the alias list (preference_only), and else
\* alone or together with those of the last query.
SearchIsGrounded ==
  Search =>
    LET q == turn.text.query
        a == turn.call
    IN /\ a.districts \in IF q.districts # {} THEN {q.districts} ELSE {{}, state.districts}
       /\ a.ceiling \in IF q.ceiling # None THEN {q.ceiling} ELSE {None, Again(state.ceiling)}
       /\ a.floor \in IF q.floor # None /\ ~FloorIsShadowed THEN {q.floor}
                      ELSE {q.floor, Again(state.floor)}
       /\ a.wants \in {Requested(q)} \union
            (IF Speaks(q, PreferenceAlias) THEN {} ELSE {Requested(q) \union state.preferences})
       /\ a.distance = q.distance

\* What a follow-up says that makes contextualize_with_state drop a bound of the last
\* search: any word for such a bound, be it of another thing (the most convenient, within
\* 500 metres), or the price, unless the rest is to stay unchanged.
Drops(t, word) == word \in t.query.words \/ (Speaks(t.query, PriceWord) /\ ~t.keeps)

\* A follow-up that refers to the last housing search, names no district and is not about
\* roads alone searches within the districts of that search, and within its bounds as
\* clauses write them, but for a bound it drops, however long ago they were stated and
\* whatever talk, questions, failures or refused plans lie in between; and a bound it
\* drops and does not state is gone, never another one.
FollowUpKeepsScope ==
  Search /\ executed # NoCall =>
    LET t == turn.text
        q == turn.text.query
    IN t.refers /\ q.districts = {} /\ ExplicitEntity(q) # "ROAD" =>
         /\ turn.call.districts = executed.districts
         /\ q.floor = None => turn.call.floor =
              IF Drops(t, "atLeast") THEN None ELSE Again(executed.floor)
         /\ q.ceiling = None => turn.call.ceiling =
              IF Drops(t, "atMost") THEN None ELSE Again(executed.ceiling)

\* Whatever weights the planner proposes, the service gets a search it can rank by.
SearchIsWellFormed == Search => WellFormed(turn.call)
=============================================================================
