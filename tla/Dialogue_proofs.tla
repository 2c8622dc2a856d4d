--------------------------- MODULE Dialogue_proofs ---------------------------
(***************************************************************************)
(* Proofs about Dialogue, for any texts, plans, districts and bounds.      *)
(*                                                                         *)
(* The argument: a housing search is made of the contextualized query of   *)
(* its turn, with the state that the turn began with (TurnOK); and while   *)
(* the last map query was a housing search, the state holds its scope      *)
(* (StateHoldsScope). That its weights make a whole is a lemma about       *)
(* Weights, one case per way the code finds the shares (WeightsMakeWhole). *)
(***************************************************************************)
EXTENDS Dialogue, FiniteSetTheorems, TLAPS

Phase == {"ROUTE", "PLAN_HOUSING", "PLAN_MAP", "ANSWER"}

IsTurn(u) ==
  /\ u = [pc |-> u.pc, text |-> u.text, query |-> u.query, intent |-> u.intent, call |-> u.call]
  /\ u.pc \in Phase /\ u.text \in Text /\ u.query \in Query /\ u.intent \in Maybe(Intent)

IsSearch(call) == call.tool = "searchHousingCandidates"

\* What build_committed_state takes from a call.
IsCall(call) ==
  /\ call.tool \in Maybe(Tool)
  /\ call.ceiling \in Maybe(Price)
  /\ IsSearch(call) => call.districts \in SUBSET District /\ call.floor \in Maybe(Price)
                        /\ call.wants \in SUBSET Preference

HasWeights(planned) == \A p \in Preference : planned.weights[p] \in Nat \union {None}

\* A call that is a search comes from the query, by a plan that was not refused, and the
\* query from the text.
TurnOK(u) ==
  /\ u.pc = "PLAN_HOUSING" \/ IsSearch(u.call)
       => u.text.kind = "REQUEST" /\ u.query = Contextualized(u.text)
  /\ IsSearch(u.call)
       => /\ Requested(u.query) # {}
          /\ \E planned : /\ HasWeights(planned) /\ ~Refused(u.query, planned)
                          /\ u.call = Normalized(u.query, planned)

StateHoldsScope ==
  executed # NoCall =>
    /\ IsSearch(executed) /\ state.entity = "HOUSING"
    /\ executed = [tool |-> "searchHousingCandidates", districts |-> state.districts,
                   floor |-> state.floor, ceiling |-> state.ceiling]

\* Bounds and preferences are of homes.
RoadIsBare ==
  state.entity # "HOUSING" => state.floor = None /\ state.ceiling = None /\ state.preferences = {}

DialogueInv ==
  /\ state \in ContextType /\ RoadIsBare
  /\ memory \in Maybe(Entity)
  /\ executed.tool \in {"searchHousingCandidates", None}
  /\ StateHoldsScope
  /\ turn # NoTurn => IsTurn(turn) /\ IsCall(turn.call) /\ TurnOK(turn)

-----------------------------------------------------------------------------
LEMMA ExplicitIsEntity ==
  ASSUME NEW q PROVE ExplicitEntity(q) \in Maybe(Entity)
BY DEF ExplicitEntity, Maybe, Entity

\* The words of the clauses are words.
LEMMA ClauseWordsAreWords ==
  ASSUME state \in ContextType, NEW t PROVE ClauseWords(t) \subseteq Word
<1>1. ObjectClause(state.entity) \subseteq Word
  BY DEF ObjectClause, Word, RoadEntity
<1>2. BoundClause("atLeast") \subseteq Word /\ BoundClause("atMost") \subseteq Word
  BY DEF BoundClause, Word, PriceWord
<1>3. Inherited(t) \subseteq Preference
  BY DEF Inherited, ContextType
<1>4. \A p \in Preference : PreferenceClause[p] \subseteq Word
  BY DEF Preference, PreferenceClause, Word, PriceWord, PreferenceAlias, RoadWalk, Convenient
<1> HIDE DEF Word
<1> QED BY <1>1, <1>2, <1>3, <1>4 DEF ClauseWords

LEMMA ObjectClauseIsWords ==
  ASSUME NEW entity PROVE ObjectClause(entity) \subseteq Word
BY DEF ObjectClause, Word, RoadEntity

\* What is inherited of a bound is a bound.
LEMMA BoundIsPrice ==
  ASSUME NEW t, NEW own \in Maybe(Price), NEW bound \in Maybe(Price), NEW word
  PROVE  Bound(t, own, bound, word) \in Maybe(Price)
BY RereadAssumption DEF Bound, Inherits, Maybe

\* What WithState makes of a query is a query.
LEMMA WithStateIsQuery ==
  ASSUME state \in ContextType, NEW t, t.query \in Query
  PROVE  WithState(t) \in Query
<1> DEFINE q == t.query
           With(wo, di, fl, ce, le) ==
             [q EXCEPT !.words = wo, !.districts = di, !.floor = fl, !.ceiling = ce,
                       !.roadLevel = le]
           words == q.words \union ClauseWords(t)
           districts == IF q.districts = {} THEN state.districts ELSE q.districts
           floor == Bound(t, q.floor, state.floor, "atLeast")
           ceiling == Bound(t, q.ceiling, state.ceiling, "atMost")
<1>1. state.districts \in SUBSET District
      /\ state.floor \in Maybe(Price) /\ state.ceiling \in Maybe(Price)
  BY DEF ContextType
<1>2. q.words \in SUBSET Word /\ q.districts \in SUBSET District
      /\ q.floor \in Maybe(Price) /\ q.ceiling \in Maybe(Price)
      /\ q.roadLevel \in {"SOFT", "HARD"}
  BY DEF Query
<1>3. words \in SUBSET Word
  BY <1>2, ClauseWordsAreWords
<1>4. districts \in SUBSET District
  BY <1>1, <1>2
<1>5. floor \in Maybe(Price) /\ ceiling \in Maybe(Price)
  BY <1>1, <1>2, BoundIsPrice
<1>6. LevelRead(t) \in {"SOFT", "HARD"}
  BY <1>2 DEF LevelRead
<1>7. \A wo \in SUBSET Word, di \in SUBSET District, fl, ce \in Maybe(Price),
         le \in {"SOFT", "HARD"} : With(wo, di, fl, ce, le) \in Query
  BY ZenonT(90) DEF Query
<1>8. WithState(t) = With(words, districts, floor, ceiling, LevelRead(t))
  BY Zenon DEF WithState
<1> HIDE DEF With, words, districts, floor, ceiling
<1> QED
  BY <1>3, <1>4, <1>5, <1>6, <1>7, <1>8

LEMMA ContextualizedIsQuery ==
  ASSUME state \in ContextType, NEW t, t.query \in Query
  PROVE  Contextualized(t) \in Query
<1> DEFINE q == t.query
           words == q.words \union ObjectClause(memory)
<1>1. words \in SUBSET Word
  BY ObjectClauseIsWords DEF Query
<1>2. \A wo \in SUBSET Word : [q EXCEPT !.words = wo] \in Query
  BY DEF Query
<1>3. Contextualized(t) \in {WithState(t), q, [q EXCEPT !.words = words]}
  BY Zenon DEF Contextualized
<1> HIDE DEF words
<1> QED BY <1>1, <1>2, <1>3, WithStateIsQuery

LEMMA FollowUpFields ==
  ASSUME NEW t, t.query \in Query, IsFollowUp(t)
  PROVE  LET q == t.query
             c == Contextualized(t)
         IN /\ c.words = q.words \union ClauseWords(t)
            /\ c.districts = IF q.districts = {} THEN state.districts ELSE q.districts
            /\ c.floor = Bound(t, q.floor, state.floor, "atLeast")
            /\ c.ceiling = Bound(t, q.ceiling, state.ceiling, "atMost")
            /\ c.distance = q.distance
<1>1. Contextualized(t) = WithState(t)
  BY DEF Contextualized
<1>2. t.query = [t.query EXCEPT !.words = t.query.words]
      /\ "districts" \in DOMAIN t.query /\ "floor" \in DOMAIN t.query
      /\ "ceiling" \in DOMAIN t.query /\ "words" \in DOMAIN t.query
  BY DEF Query
<1> QED
  BY <1>1, <1>2 DEF WithState

\* The object that memory adds is no word of a preference.
LEMMA OtherFields ==
  ASSUME NEW t, t.query \in Query, ~IsFollowUp(t)
  PROVE  LET q == t.query
             c == Contextualized(t)
         IN /\ c.districts = q.districts /\ c.floor = q.floor /\ c.ceiling = q.ceiling
            /\ c.distance = q.distance
            /\ Requested(c) = Requested(q)
<1>1. CASE Contextualized(t) = t.query
  BY <1>1
<1>2. CASE Contextualized(t) = [t.query EXCEPT !.words = @ \union ObjectClause(memory)]
  <2> DEFINE words == t.query.words \union ObjectClause(memory)
  <2>1. /\ Contextualized(t).words = words
        /\ Contextualized(t).districts = t.query.districts
        /\ Contextualized(t).floor = t.query.floor
        /\ Contextualized(t).ceiling = t.query.ceiling
        /\ Contextualized(t).distance = t.query.distance
    BY <1>2 DEF Query
  <2>2. \A p \in Preference : RequestTerm[p] \intersect {"home", "road", "act"} = {}
    BY DEF Preference, RequestTerm, LowPrice, Convenient, RoadOnlyMetric, RoadWalk, GoodRoad
  <2>3. ObjectClause(memory) \subseteq {"home", "road", "act"}
    BY DEF ObjectClause
  <2>4. \A p \in Preference :
          (words \intersect RequestTerm[p] # {}) <=> (t.query.words \intersect RequestTerm[p] # {})
    BY <2>2, <2>3
  <2> HIDE DEF words
  <2> QED BY <2>1, <2>4 DEF Requested, Speaks
<1> QED BY <1>1, <1>2 DEF Contextualized

\* A clause for a preference asks for it, and no clause asks for another.
LEMMA ClausesRequest ==
  ASSUME NEW t, NEW p \in Preference, state.preferences \subseteq Preference
  PROVE  ClauseWords(t) \intersect RequestTerm[p] # {} <=> p \in Inherited(t)
<1> DEFINE Other == {"home", "road", "act", "housePrice", "atLeast", "atMost", "compared", "digit"}
           clauses == UNION {PreferenceClause[r] : r \in Inherited(t)}
<1>1. RequestTerm[p] \intersect Other = {}
  BY DEF Preference, RequestTerm, LowPrice, Convenient, RoadOnlyMetric, RoadWalk, GoodRoad
<1>2. \A r \in Preference : PreferenceClause[r] \intersect RequestTerm[p] # {} <=> r = p
  BY DEF Preference, RequestTerm, PreferenceClause, LowPrice, Convenient, RoadOnlyMetric,
         RoadWalk, GoodRoad
<1>3. Inherited(t) \subseteq Preference
  BY DEF Inherited
<1>4. clauses \subseteq ClauseWords(t) /\ ClauseWords(t) \subseteq Other \union clauses
  BY DEF ClauseWords, ObjectClause, BoundClause
<1>5. clauses \intersect RequestTerm[p] # {} <=> p \in Inherited(t)
  BY <1>2, <1>3
<1> HIDE DEF Other, clauses
<1> QED BY <1>1, <1>4, <1>5

\* What SearchIsGrounded says of the arguments holds of the query they are made of.
LEMMA ContextualizedIsGrounded ==
  ASSUME NEW t \in Text, state \in ContextType
  PROVE  LET q == t.query
             c == Contextualized(t)
         IN /\ c.districts \in IF q.districts # {} THEN {q.districts} ELSE {{}, state.districts}
            /\ c.ceiling \in IF q.ceiling # None THEN {q.ceiling} ELSE {None, Again(state.ceiling)}
            /\ c.floor \in IF q.floor # None /\ ~(t.keeps /\ "atLeast" \notin q.words)
                           THEN {q.floor} ELSE {q.floor, Again(state.floor)}
            /\ Requested(c) \in {Requested(q)} \union
                 (IF Speaks(q, PreferenceAlias) THEN {}
                  ELSE {Requested(q) \union state.preferences})
            /\ c.distance = q.distance
<1> DEFINE q == t.query
           c == Contextualized(t)
<1>1. q \in Query
      /\ (q.ceiling # None => "atMost" \in q.words)
      /\ (q.floor # None => Speaks(q, PriceWord \union {"atLeast"}))
  BY TextAssumption
<1>2. CASE IsFollowUp(t)
  <2>1. /\ c.words = q.words \union ClauseWords(t)
        /\ c.districts = IF q.districts = {} THEN state.districts ELSE q.districts
        /\ c.floor = Bound(t, q.floor, state.floor, "atLeast")
        /\ c.ceiling = Bound(t, q.ceiling, state.ceiling, "atMost")
        /\ c.distance = q.distance
    BY <1>1, <1>2, FollowUpFields
  <2>2. c.ceiling \in IF q.ceiling # None THEN {q.ceiling} ELSE {None, Again(state.ceiling)}
    BY <1>1, <2>1 DEF Bound, Inherits, Again
  <2>3. q.floor # None /\ ~(t.keeps /\ "atLeast" \notin q.words) => ~Inherits(t, state.floor, "atLeast")
    BY <1>1 DEF Inherits, Speaks
  <2>4. c.floor \in IF q.floor # None /\ ~(t.keeps /\ "atLeast" \notin q.words)
                    THEN {q.floor} ELSE {q.floor, Again(state.floor)}
    BY <2>1, <2>3 DEF Bound, Inherits, Again
  <2>5. Requested(c) = Requested(q) \union Inherited(t)
    <3>1. state.preferences \subseteq Preference
      BY DEF ContextType
    <3>2. \A p \in Preference : Speaks(c, RequestTerm[p]) <=>
             (Speaks(q, RequestTerm[p]) \/ ClauseWords(t) \intersect RequestTerm[p] # {})
      BY <2>1 DEF Speaks
    <3>3. \A p \in Preference : Speaks(c, RequestTerm[p]) <=>
             (Speaks(q, RequestTerm[p]) \/ p \in Inherited(t))
      BY <3>1, <3>2, ClausesRequest
    <3>4. Inherited(t) \subseteq Preference
      BY <3>1 DEF Inherited
    <3> HIDE DEF c, q
    <3> QED BY <3>3, <3>4 DEF Requested
  <2>6. Inherited(t) = IF Speaks(q, PreferenceAlias) THEN {} ELSE state.preferences
    BY DEF Inherited
  <2> QED BY <2>1, <2>2, <2>4, <2>5, <2>6
<1>3. CASE ~IsFollowUp(t)
  <2>1. c.districts = q.districts /\ c.floor = q.floor /\ c.ceiling = q.ceiling
        /\ c.distance = q.distance /\ Requested(c) = Requested(q)
    BY <1>1, <1>3, OtherFields
  <2> QED BY <2>1
<1> QED BY <1>2, <1>3

\* It depends on the state and the memory alone.
LEMMA ContextualizedUnchanged ==
  ASSUME UNCHANGED <<state, memory>>, turn'.text = turn.text
  PROVE  Contextualized(turn.text)' = Contextualized(turn.text)
BY DEF Contextualized, WithState, IsFollowUp, ClauseWords, Inherited, Inherits, LevelRead, Bound

-----------------------------------------------------------------------------
LEMMA DialogueInitially == DialogueInit => DialogueInv
BY DEF DialogueInit, DialogueInv, NoContext, NoCall, NoTurn, ContextType, Maybe,
       StateHoldsScope, RoadIsBare

\* The parts of DialogueInv that are not about the turn, when a turn changes nothing else.
LEMMA RestKeeps ==
  ASSUME DialogueInv, UNCHANGED <<state, memory, executed>>,
         turn' # NoTurn => IsTurn(turn)' /\ IsCall(turn.call)' /\ TurnOK(turn)'
  PROVE  DialogueInv'
BY DEF DialogueInv, StateHoldsScope, RoadIsBare

LEMMA AskKeeps ==
  ASSUME DialogueInv, NEW t \in Text, Ask(t) PROVE DialogueInv'
<1>1. t.query \in Query
  BY TextAssumption
<1>2. /\ turn'.pc = "ROUTE" /\ turn'.text = t /\ turn'.query = t.query
      /\ turn'.intent = None /\ turn'.call = NoCall
      /\ turn' = [pc |-> "ROUTE", text |-> t, query |-> t.query, intent |-> None,
                  call |-> NoCall]
      /\ UNCHANGED <<state, memory, executed>>
  BY DEF Ask
<1>3. IsTurn(turn)'
  BY <1>1, <1>2 DEF IsTurn, Phase, Maybe
<1>4. IsCall(turn.call)'
  BY <1>2, NoneAssumption DEF IsCall, IsSearch, NoCall, Maybe, Tool
<1>5. TurnOK(turn)'
  BY <1>2, NoneAssumption DEF TurnOK, IsSearch, NoCall, Tool
<1> QED
  BY <1>2, <1>3, <1>4, <1>5, RestKeeps

LEMMA RouteToFields ==
  ASSUME IsTurn(turn), NEW q, NEW intent, RouteTo(q, intent)
  PROVE  /\ turn' = [pc |-> turn'.pc, text |-> turn'.text, query |-> turn'.query,
                     intent |-> turn'.intent, call |-> turn'.call]
         /\ turn'.query = q /\ turn'.text = turn.text /\ turn'.call = turn.call
         /\ turn'.intent = IF intent = "HOUSING" THEN "MAP_QUERY" ELSE intent
         /\ turn'.pc \in {"PLAN_HOUSING", "PLAN_MAP", "ANSWER"}
         /\ turn'.pc = "PLAN_HOUSING" => intent = "HOUSING"
BY DEF IsTurn, RouteTo

LEMMA RouteIntentKeeps ==
  ASSUME DialogueInv, RouteIntent PROVE DialogueInv'
<1>1. turn # NoTurn /\ IsTurn(turn) /\ IsCall(turn.call) /\ TurnOK(turn)
      /\ turn.pc = "ROUTE" /\ UNCHANGED <<state, memory, executed>>
      /\ state \in ContextType /\ memory \in Maybe(Entity)
  BY DEF DialogueInv, RouteIntent, NoTurn
<1>2. turn.text \in Text /\ turn.text.query \in Query /\ turn.query \in Query
      /\ turn.text.kind \in {"KNOWLEDGE", "TALK", "REQUEST"}
  BY <1>1, TextAssumption DEF IsTurn
<1>3. SUFFICES ASSUME NEW q \in Query, NEW intent \in Intent \union {"HOUSING"},
                      RouteTo(q, intent),
                      intent = "HOUSING" \/ IsSearch(turn.call)
                        => turn.text.kind = "REQUEST" /\ q = Contextualized(turn.text),
                      IsSearch(turn.call) => q = turn.query
               PROVE  DialogueInv'
  <2>1. CASE turn.text.kind \in {"KNOWLEDGE", "TALK"}
    <3>1. \E intent \in Intent : RouteTo(turn.query, intent)
      BY <2>1 DEF RouteIntent, Intent
    <3>2. ~IsSearch(turn.call)
      BY <1>1, <2>1 DEF TurnOK
    <3> QED BY <1>2, <1>3, <3>1, <3>2 DEF Intent
  <2>2. CASE turn.text.kind = "REQUEST"
    <3> DEFINE q == Contextualized(turn.text)
    <3>1. PICK intent \in Routes(q) : RouteTo(q, intent)
      BY <2>2 DEF RouteIntent
    <3>2. q \in Query
      BY <1>1, <1>2, ContextualizedIsQuery
    <3>3. intent \in Intent \union {"HOUSING"}
      BY <3>1 DEF Routes, Intent
    <3>4. IsSearch(turn.call) => q = turn.query
      BY <1>1 DEF TurnOK
    <3> HIDE DEF q
    <3> QED BY <1>3, <2>2, <3>1, <3>2, <3>3, <3>4 DEF q
  <2> QED BY <1>2, <2>1, <2>2
<1>4. IsTurn(turn)' /\ turn'.text = turn.text /\ turn'.call = turn.call /\ turn'.query = q
  BY <1>1, <1>3, RouteToFields DEF IsTurn, Phase, Maybe, Intent
<1>5. IsCall(turn.call)'
  BY <1>1, <1>4 DEF IsCall, IsSearch
<1>6. Contextualized(turn.text)' = Contextualized(turn.text)
  BY <1>1, <1>4, ContextualizedUnchanged
<1>7. TurnOK(turn)'
  <2>1. turn'.pc = "PLAN_HOUSING" => intent = "HOUSING"
    BY <1>1, <1>3, RouteToFields
  <2>2. IsSearch(turn.call)' = IsSearch(turn.call)
    BY <1>4 DEF IsSearch
  <2> QED BY <1>1, <1>3, <1>4, <1>6, <2>1, <2>2 DEF TurnOK
<1> QED
  BY <1>1, <1>4, <1>5, <1>7, RestKeeps

\* The arguments of a search have the query's conditions.
LEMMA NormalizedFields ==
  ASSUME NEW q \in Query, NEW planned
  PROVE  LET a == Normalized(q, planned) IN
         /\ a.tool = "searchHousingCandidates" /\ a.districts = q.districts
         /\ a.floor = q.floor /\ a.ceiling = q.ceiling /\ a.wants = Requested(q)
         /\ a.distance = q.distance
BY DEF Normalized

\* The weights a planner proposes, or the fixed plan, are numbers where they are given.
LEMMA PlansHaveWeights ==
  ASSUME NEW q, NEW planned \in Plans(q) PROVE HasWeights(planned)
<1>1. CASE planned = DefaultPlan
  BY <1>1 DEF DefaultPlan, HasWeights
<1>2. CASE planned \in HousingPlan
  <2>1. planned.weights \in [Preference -> Maybe(Weight)]
    BY <1>2, PlanAssumption DEF Planned
  <2>2. Weight \subseteq Nat
    BY SearchAssumption
  <2> QED BY <2>1, <2>2 DEF HasWeights, Maybe
<1> QED BY <1>1, <1>2 DEF Plans

LEMMA PlanHousingSearchKeeps ==
  ASSUME DialogueInv, PlanHousingSearch PROVE DialogueInv'
<1>1. turn # NoTurn /\ IsTurn(turn) /\ TurnOK(turn) /\ turn.pc = "PLAN_HOUSING"
      /\ UNCHANGED <<state, memory, executed>>
  BY DEF DialogueInv, PlanHousingSearch, NoTurn
<1>2. PICK planned \in Plans(turn.query) : ~Refused(turn.query, planned)
        /\ turn' = [turn EXCEPT !.pc = "ANSWER", !.call = Normalized(turn.query, planned)]
  BY DEF PlanHousingSearch
<1> DEFINE call == Normalized(turn.query, planned)
<1>3. IsTurn(turn)' /\ turn'.call = call /\ turn'.text = turn.text /\ turn'.query = turn.query
  <2> HIDE DEF call
  <2>1. turn' = [turn EXCEPT !.pc = "ANSWER", !.call = call]
    BY <1>2 DEF call
  <2> QED BY <1>1, <2>1 DEF IsTurn, Phase
<1>4. turn.query \in Query
  BY <1>1 DEF IsTurn
<1>5. call.tool = "searchHousingCandidates" /\ call.ceiling = turn.query.ceiling
      /\ call.floor = turn.query.floor /\ call.districts = turn.query.districts
      /\ call.wants = Requested(turn.query)
  BY <1>4, NormalizedFields
<1>6. turn.query.ceiling \in Maybe(Price) /\ turn.query.floor \in Maybe(Price)
      /\ turn.query.districts \in SUBSET District /\ Requested(turn.query) \in SUBSET Preference
  BY <1>4 DEF Query, Requested
<1> HIDE DEF call
<1>7. IsCall(turn.call)'
  BY <1>3, <1>5, <1>6 DEF IsCall, IsSearch, Maybe, Tool
<1>8. Contextualized(turn.text)' = Contextualized(turn.text)
  BY <1>1, <1>3, ContextualizedUnchanged
<1>9. Requested(turn.query) # {}
  BY <1>2 DEF Refused
<1>10. TurnOK(turn)'
  <2>1. turn'.text.kind = "REQUEST" /\ turn'.query = Contextualized(turn.text)'
    BY <1>1, <1>3, <1>8 DEF TurnOK
  <2>2. \E p : HasWeights(p) /\ ~Refused(turn'.query, p) /\ turn'.call = Normalized(turn'.query, p)
    BY <1>2, <1>3, PlansHaveWeights DEF call
  <2>3. Requested(turn'.query) # {}
    BY <1>3, <1>9
  <2>4. IsSearch(turn.call)' =>
          /\ Requested(turn'.query) # {}
          /\ (\E p : HasWeights(p) /\ ~Refused(turn.query, p) /\ turn.call = Normalized(turn.query, p))'
    BY <2>2, <2>3
  <2> QED BY <2>1, <2>4 DEF TurnOK
<1> QED
  BY <1>1, <1>3, <1>7, <1>10, RestKeeps

LEMMA PlanMapKeeps ==
  ASSUME DialogueInv, PlanMap PROVE DialogueInv'
<1>1. turn # NoTurn /\ IsTurn(turn) /\ turn.pc = "PLAN_MAP"
      /\ UNCHANGED <<state, memory, executed>>
  BY DEF DialogueInv, PlanMap, NoTurn
<1>2. PICK tool \in MapTool, ceiling \in Maybe(Price) :
        turn' = [turn EXCEPT !.pc = "ANSWER",
                             !.call = [NoCall EXCEPT !.tool = tool, !.ceiling = ceiling]]
  BY DEF PlanMap
<1> DEFINE call == [NoCall EXCEPT !.tool = tool, !.ceiling = ceiling]
<1>3. call.tool = tool /\ call.ceiling = ceiling
  BY DEF NoCall
<1>4. IsCall(call) /\ ~IsSearch(call)
  BY <1>3 DEF IsCall, IsSearch, Tool, Maybe, MapTool
<1> HIDE DEF call
<1>5. IsTurn(turn)' /\ turn'.call = call /\ turn'.pc = "ANSWER"
  <2>1. turn' = [turn EXCEPT !.pc = "ANSWER", !.call = call]
    BY <1>2 DEF call
  <2> QED BY <1>1, <2>1 DEF IsTurn, Phase
<1>6. IsCall(turn.call)' /\ TurnOK(turn)'
  BY <1>4, <1>5 DEF IsCall, IsSearch, TurnOK
<1> QED
  BY <1>1, <1>5, <1>6, RestKeeps

\* What a call commits is a context, and holds its scope if it is a search.
LEMMA ContextOfCall ==
  ASSUME NEW call, IsCall(call), state \in ContextType, RoadIsBare, IsTurn(turn)
  PROVE  /\ Context(call) \in ContextType
         /\ Context(call).entity # "HOUSING" =>
              /\ Context(call).floor = None /\ Context(call).ceiling = None
              /\ Context(call).preferences = {}
         /\ IsSearch(call) =>
              /\ Context(call).entity = "HOUSING" /\ Context(call).districts = call.districts
              /\ Context(call).floor = call.floor /\ Context(call).ceiling = call.ceiling
<1>1. turn.text.written \in SUBSET District
  <2>1. turn.text.query \in Query /\ turn.text.written \subseteq turn.text.query.districts
    BY TextAssumption DEF IsTurn
  <2> QED BY <2>1 DEF Query
<1>2. CASE IsSearch(call)
  <2>1. Context(call) =
          [entity |-> "HOUSING", tool |-> call.tool, districts |-> call.districts,
           floor |-> call.floor, ceiling |-> call.ceiling, preferences |-> call.wants]
    BY <1>2 DEF Context, IsSearch, SearchedDistricts
  <2>2. call.tool \in Tool /\ call.ceiling \in Maybe(Price) /\ call.floor \in Maybe(Price)
        /\ call.districts \in SUBSET District /\ call.wants \in SUBSET Preference
    BY <1>2 DEF IsCall, IsSearch, Tool
  <2> QED BY <2>1, <2>2 DEF ContextType, Maybe, Entity
<1>3. CASE call.tool = "queryMapPoints"
  <2>1. call.ceiling \in Maybe(Price)
    BY DEF IsCall
  <2>2. Context(call) =
          [entity |-> "HOUSING", tool |-> "queryMapPoints", districts |-> turn.text.written,
           floor |-> None, ceiling |-> call.ceiling, preferences |-> {}]
    BY <1>3 DEF Context
  <2> QED BY <1>1, <1>3, <2>1, <2>2 DEF ContextType, Maybe, Entity, Tool, MapTool, IsSearch
<1>4. CASE call.tool = "queryMapLines"
  <2>1. Context(call) =
          [entity |-> "ROAD", tool |-> "queryMapLines", districts |-> turn.text.written,
           floor |-> None, ceiling |-> None, preferences |-> {}]
    BY <1>4 DEF Context, RoadContext
  <2> QED BY <1>1, <1>4, <2>1 DEF ContextType, Maybe, Entity, Tool, MapTool, IsSearch
<1>5. CASE ~IsSearch(call) /\ call.tool \notin {"queryMapPoints", "queryMapLines"}
  BY <1>5 DEF Context, IsSearch, RoadIsBare
<1> QED BY <1>2, <1>3, <1>4, <1>5

LEMMA CompleteKeeps ==
  ASSUME DialogueInv, Complete PROVE DialogueInv'
<1>1. turn # NoTurn /\ IsTurn(turn) /\ IsCall(turn.call) /\ TurnOK(turn)
      /\ state \in ContextType /\ RoadIsBare /\ turn' = NoTurn
  BY DEF DialogueInv, Complete, NoTurn
<1>2. memory' \in Maybe(Entity)
  BY ExplicitIsEntity DEF DialogueInv, Complete, Named, Maybe
<1>3. CASE UNCHANGED <<state, executed>>
  BY <1>1, <1>2, <1>3 DEF DialogueInv, StateHoldsScope, RoadIsBare
<1>4. CASE state' = Context(turn.call) /\ executed' = LastSearch(turn.call)
  <2>1. state' \in ContextType /\ RoadIsBare'
    BY <1>1, <1>4, ContextOfCall DEF RoadIsBare
  <2>2. CASE IsSearch(turn.call)
    <3>1. executed' = [tool |-> "searchHousingCandidates", districts |-> turn.call.districts,
                       floor |-> turn.call.floor, ceiling |-> turn.call.ceiling]
      BY <1>4, <2>2 DEF LastSearch, IsSearch, Scope
    <3>2. state'.entity = "HOUSING" /\ state'.districts = turn.call.districts
          /\ state'.floor = turn.call.floor /\ state'.ceiling = turn.call.ceiling
      BY <1>1, <1>4, <2>2, ContextOfCall
    <3> QED BY <1>1, <1>2, <2>1, <3>1, <3>2 DEF DialogueInv, StateHoldsScope, IsSearch
  <2>3. CASE turn.call.tool = "queryMapFeatures"
    <3>1. state' = state /\ executed' = executed
      BY <1>4, <2>3 DEF Context, LastSearch
    <3> QED BY <1>1, <1>2, <3>1 DEF DialogueInv, StateHoldsScope, RoadIsBare
  <2>4. CASE ~IsSearch(turn.call) /\ turn.call.tool # "queryMapFeatures"
    <3>1. executed' = NoCall
      BY <1>4, <2>4 DEF LastSearch, IsSearch
    <3> QED BY <1>1, <1>2, <2>1, <3>1 DEF DialogueInv, StateHoldsScope, NoCall
  <2> QED BY <2>2, <2>3, <2>4
<1> QED BY <1>3, <1>4 DEF Complete

LEMMA FailKeeps ==
  ASSUME DialogueInv, Fail PROVE DialogueInv'
BY RestKeeps DEF Fail

LEMMA StutterKeeps ==
  ASSUME DialogueInv, UNCHANGED dialogueVars PROVE DialogueInv'
<1>1. UNCHANGED <<state, memory, turn, executed>>
  BY DEF dialogueVars
<1>2. Contextualized(turn.text)' = Contextualized(turn.text)
  BY <1>1, ContextualizedUnchanged
<1> QED
  BY <1>1, <1>2 DEF DialogueInv, StateHoldsScope, RoadIsBare, TurnOK

THEOREM DialogueInvariant == DialogueSpec => []DialogueInv
<1>1. DialogueInit => DialogueInv
  BY DialogueInitially
<1>2. DialogueInv /\ [DialogueNext]_dialogueVars => DialogueInv'
  BY AskKeeps, RouteIntentKeeps, PlanHousingSearchKeeps, PlanMapKeeps, CompleteKeeps,
     FailKeeps, StutterKeeps DEF DialogueNext
<1> QED BY <1>1, <1>2, PTL DEF DialogueSpec

-----------------------------------------------------------------------------
\* The state, the memory and the turn keep their types: follow-ups are made whole into
\* queries (contextualize_with_state), and what is committed is a context.
THEOREM DialogueTypeCorrect == DialogueSpec => []DialogueTypeOK
<1>1. DialogueInv => DialogueTypeOK
  BY DEF DialogueInv, DialogueTypeOK, IsTurn, Phase, RoadIsBare
<1> QED BY <1>1, DialogueInvariant, PTL

\* The conditions of a housing search come from the query of the turn or, where that is
\* silent, from the last map query, for any texts and any planner.
THEOREM SearchesAreGrounded == DialogueSpec => []SearchIsGrounded
<1>1. DialogueInv => SearchIsGrounded
  <2> SUFFICES ASSUME DialogueInv, Search PROVE SearchIsGrounded
    BY DEF SearchIsGrounded
  <2>1. IsTurn(turn) /\ TurnOK(turn) /\ state \in ContextType /\ IsSearch(turn.call)
    BY DEF DialogueInv, Search, IsSearch
  <2>2. PICK planned : turn.call = Normalized(turn.query, planned)
    BY <2>1 DEF TurnOK
  <2>3. turn.text \in Text /\ turn.text.kind = "REQUEST"
        /\ turn.query = Contextualized(turn.text) /\ turn.query \in Query
        /\ turn.text.query \in Query
    BY <2>1, TextAssumption DEF TurnOK, IsTurn
  <2> DEFINE a == turn.call
             c == turn.query
             q == turn.text.query
  <2>4. a.districts = c.districts /\ a.floor = c.floor /\ a.ceiling = c.ceiling
        /\ a.wants = Requested(c) /\ a.distance = c.distance
    BY <2>2, <2>3, NormalizedFields
  <2>5. /\ c.districts \in IF q.districts # {} THEN {q.districts} ELSE {{}, state.districts}
        /\ c.ceiling \in IF q.ceiling # None THEN {q.ceiling} ELSE {None, Again(state.ceiling)}
        /\ c.floor \in IF q.floor # None /\ ~FloorIsShadowed
                       THEN {q.floor} ELSE {q.floor, Again(state.floor)}
        /\ Requested(c) \in {Requested(q)} \union
             (IF Speaks(q, PreferenceAlias) THEN {}
              ELSE {Requested(q) \union state.preferences})
        /\ c.distance = q.distance
    BY ZenonT(40), <2>1, <2>3, ContextualizedIsGrounded DEF FloorIsShadowed
  <2> HIDE DEF a, c, q
  <2> QED
    BY <2>4, <2>5 DEF SearchIsGrounded, a, q
<1> QED BY <1>1, DialogueInvariant, PTL

\* A follow-up to a housing search that names no district has the districts of that search
\* and, as clauses write them, its bounds, but for one that contextualize_with_state drops,
\* through any turns in between that were no map queries.
THEOREM FollowUpsKeepScope == DialogueSpec => []FollowUpKeepsScope
<1>1. DialogueInv => FollowUpKeepsScope
  <2> DEFINE t == turn.text
             q == turn.text.query
             c == turn.query
             a == turn.call
  <2> SUFFICES ASSUME DialogueInv, Search, executed # NoCall,
                      t.refers, q.districts = {}, ExplicitEntity(q) # "ROAD"
               PROVE  /\ a.districts = executed.districts
                      /\ q.floor = None => a.floor =
                           IF Drops(t, "atLeast") THEN None ELSE Again(executed.floor)
                      /\ q.ceiling = None => a.ceiling =
                           IF Drops(t, "atMost") THEN None ELSE Again(executed.ceiling)
    BY DEF FollowUpKeepsScope
  <2>1. IsTurn(turn) /\ TurnOK(turn) /\ StateHoldsScope /\ IsSearch(turn.call)
        /\ state \in ContextType
    BY DEF DialogueInv, Search, IsSearch
  <2>2. PICK planned : a = Normalized(c, planned)
    BY <2>1 DEF TurnOK
  <2>3. t.kind = "REQUEST" /\ c = Contextualized(t) /\ c \in Query
        /\ q \in Query
    BY <2>1, TextAssumption DEF TurnOK, IsTurn
  <2>4. state.entity = "HOUSING" /\ state.entity # None
        /\ executed.districts = state.districts
        /\ executed.floor = state.floor /\ executed.ceiling = state.ceiling
    BY <2>1, NoneAssumption DEF StateHoldsScope, Entity
  <2>5. ExplicitEntity(q) \in {None, "HOUSING"}
    BY DEF ExplicitEntity
  <2>6. IsFollowUp(t)
    BY <2>3, <2>4, <2>5 DEF IsFollowUp
  <2>7. c.districts = state.districts
        /\ c.floor = Bound(t, q.floor, state.floor, "atLeast")
        /\ c.ceiling = Bound(t, q.ceiling, state.ceiling, "atMost")
    BY <2>3, <2>6, FollowUpFields
  <2>8. a.districts = c.districts /\ a.floor = c.floor /\ a.ceiling = c.ceiling
    BY <2>2, <2>3, NormalizedFields
  <2>9. \A bound, word : Bound(t, None, bound, word) =
          IF Drops(t, word) THEN None ELSE Again(bound)
    BY DEF Bound, Inherits, Drops, Again
  <2> HIDE DEF a, c, q, t
  <2> QED BY <2>4, <2>7, <2>8, <2>9
<1> QED BY <1>1, DialogueInvariant, PTL

-----------------------------------------------------------------------------
(* Weights *)

\* Preferences are three, and a count of them is a sum.
LEMMA CountIsSum ==
  ASSUME NEW S \in SUBSET Preference
  PROVE  Cardinality(S) = SumOver(Everyone(1), S)
<1> DEFINE A == S \intersect {"price"}
           B == S \intersect {"price", "convenience"}
           Part(p) == IF p \in S THEN 1 ELSE 0
<1>1. IsFiniteSet(A) /\ Cardinality(A) = Part("price")
  <2>1. CASE "price" \in S
    <3>1. A = {"price"}
      BY <2>1
    <3> QED BY <2>1, <3>1, FS_Singleton
  <2>2. CASE "price" \notin S
    <3>1. A = {}
      BY <2>2
    <3> QED BY <2>2, <3>1, FS_EmptySet
  <2> QED BY <2>1, <2>2
<1>2. IsFiniteSet(B) /\ Cardinality(B) = Cardinality(A) + Part("convenience")
  <2>1. CASE "convenience" \in S
    <3>1. B = A \union {"convenience"} /\ "convenience" \notin A
      BY <2>1
    <3> HIDE DEF A, B
    <3> QED BY <1>1, <2>1, <3>1, FS_AddElement
  <2>2. CASE "convenience" \notin S
    <3>1. B = A
      BY <2>2
    <3> QED BY <1>1, <2>2, <3>1
  <2> QED BY <2>1, <2>2
<1>3. Cardinality(S) = Cardinality(B) + Part("roadWalkability")
  <2>1. CASE "roadWalkability" \in S
    <3>1. S = B \union {"roadWalkability"} /\ "roadWalkability" \notin B
      BY <2>1 DEF Preference
    <3> HIDE DEF B
    <3> QED BY <1>2, <2>1, <3>1, FS_AddElement
  <2>2. CASE "roadWalkability" \notin S
    <3>1. S = B
      BY <2>2 DEF Preference
    <3>2. Cardinality(B) \in Nat
      BY <1>2, FS_CardinalityType
    <3> HIDE DEF B
    <3> QED BY <2>2, <3>1, <3>2
  <2> QED BY <2>1, <2>2
<1>4. SumOver(Everyone(1), S) = Part("price") + Part("convenience") + Part("roadWalkability")
  BY DEF SumOver, Everyone, Preference
<1> HIDE DEF A, B
<1> QED BY <1>1, <1>2, <1>3, <1>4

\* A sum is a number, and depends on what is summed only.
LEMMA SumOfNumbers ==
  ASSUME NEW S \in SUBSET Preference, NEW f, NEW g,
         \A p \in S : f[p] \in Nat /\ g[p] = f[p]
  PROVE  SumOver(f, S) \in Nat /\ SumOver(g, S) = SumOver(f, S)
<1> DEFINE Part(h, p) == IF p \in S THEN h[p] ELSE 0
<1>1. \A p : Part(f, p) \in Nat /\ Part(g, p) = Part(f, p)
  OBVIOUS
<1>2. \A h : SumOver(h, S) = Part(h, "price") + Part(h, "convenience") + Part(h, "roadWalkability")
  BY DEF SumOver
<1> HIDE DEF Part
<1> QED BY <1>1, <1>2

\* Shares of preferences that all have one are positive together and make their total.
MakesWhole(w, wants) ==
  /\ \A p \in Preference \ wants : w.share[p] = 0
  /\ \/ \A p \in wants : w.share[p] = None
     \/ /\ \A p \in wants : w.share[p] # None
        /\ w.total > 0
        /\ SumOver(w.share, wants) = w.total

LEMMA SharesMakeWhole ==
  ASSUME NEW wants \in SUBSET Preference, NEW q, Requested(q) = wants, NEW share, NEW total \in Nat,
         total > 0,
         \A p \in wants : share[p] \in Nat,
         (\A p \in wants : share[p] = None) \/ (\A p \in wants : share[p] # None),
         SumOver(share, wants) = total
  PROVE  MakesWhole(Shares(q, share, total), wants)
<1> DEFINE w == Shares(q, share, total)
<1>1. /\ \A p \in wants : w.share[p] = share[p]
      /\ \A p \in Preference \ wants : w.share[p] = 0
      /\ w.total = total
  BY DEF Shares
<1> HIDE DEF w
<1>2. SumOver(w.share, wants) = total
  BY <1>1, SumOfNumbers
<1> QED BY <1>1, <1>2 DEF MakesWhole, w

LEMMA WeightsMakeWhole ==
  ASSUME NEW q, NEW planned, Requested(q) # {}, HasWeights(planned),
         ~WeightsRefused(q, planned)
  PROVE  MakesWhole(Weights(q, planned), Requested(q))
<1> DEFINE wants == Requested(q)
           n == Cardinality(wants)
           one == Everyone(1)
<1>0. wants \in SUBSET Preference
  BY DEF Requested
<1>1. n = SumOver(one, wants) /\ \A p \in wants : one[p] = 1
  BY <1>0, CountIsSum DEF Everyone
<1>2. n \in Nat /\ n > 0
  <2>1. IsFiniteSet(Preference)
    <3>1. IsFiniteSet({"price"}) /\ IsFiniteSet({"convenience"}) /\ IsFiniteSet({"roadWalkability"})
      BY FS_Singleton
    <3>2. Preference = {"price"} \union ({"convenience"} \union {"roadWalkability"})
      BY DEF Preference
    <3> QED BY <3>1, <3>2, FS_Union
  <2>2. IsFiniteSet(wants)
    BY <1>0, <2>1, FS_Subset
  <2>3. n \in Nat /\ n # 0
    BY <2>2, FS_CardinalityType, FS_EmptySet
  <2> HIDE DEF n
  <2> QED BY <2>3
<1>3. CASE n = 1
  <2>1. wants # {"convenience", "roadWalkability"}
    <3> SUFFICES ASSUME wants = {"convenience", "roadWalkability"} PROVE n = 2
      BY <1>3
    <3> QED BY <1>1 DEF SumOver, Everyone, Preference
  <2>2. Weights(q, planned) = Shares(q, one, 1)
    BY <1>3, <2>1 DEF Weights
  <2>3. SumOver(one, wants) = 1
    BY <1>1, <1>3
  <2> HIDE DEF one, n, wants
  <2> QED BY <1>0, <1>1, <2>2, <2>3, SharesMakeWhole DEF wants
<1>4. CASE n # 1 /\ ~Unweighted(q, planned)
  <2>1. /\ \A p \in wants : Proposed(q, planned, p) # None
        /\ TotalWeight(q, planned) # 0
    BY <1>2, <1>4 DEF WeightsRefused
  <2>2. \A p \in wants : planned.weights[p] # None /\ planned.weights[p] \in Nat
    BY <1>0, <2>1 DEF Proposed, HasWeights
  <2>3. {p \in wants : planned.weights[p] # None} = wants
    BY <2>2
  <2>4. TotalWeight(q, planned) = SumOver(planned.weights, wants)
    BY <2>3 DEF TotalWeight, SumOfWeights
  <2>5. TotalWeight(q, planned) \in Nat
    BY <1>0, <2>2, <2>4, SumOfNumbers
  <2>6. Weights(q, planned) = Shares(q, planned.weights, TotalWeight(q, planned))
    BY <1>4 DEF Weights
  <2> DEFINE total == TotalWeight(q, planned)
  <2> HIDE DEF total, wants
  <2>7. total \in Nat /\ total > 0 /\ total = SumOver(planned.weights, wants)
    BY <2>1, <2>4, <2>5 DEF total
  <2> QED BY <1>0, <2>2, <2>6, <2>7, SharesMakeWhole DEF total, wants
<1>5. CASE n # 1 /\ Unweighted(q, planned) /\ wants = {"convenience", "roadWalkability"}
  <2>1. Weights(q, planned) = Shares(q, Everyone(None), 1)
    BY <1>5 DEF Weights
  <2>2. \A p \in wants : Weights(q, planned).share[p] = None
    BY <1>0, <2>1 DEF Shares, Everyone
  <2>3. \A p \in Preference \ wants : Weights(q, planned).share[p] = 0
    BY <2>1 DEF Shares, Everyone
  <2> QED BY <2>2, <2>3 DEF MakesWhole
<1>6. CASE n # 1 /\ Unweighted(q, planned) /\ wants # {"convenience", "roadWalkability"}
  <2>1. Weights(q, planned) = Shares(q, one, n)
    BY <1>6 DEF Weights
  <2> HIDE DEF one, n, wants
  <2> QED BY <1>0, <1>1, <1>2, <2>1, SharesMakeWhole DEF wants
<1> QED BY <1>3, <1>4, <1>5, <1>6

\* Whatever weights the planner proposes, a search that is not refused is one the service
\* can rank by: normalize_housing_search_arguments turns them into shares of a whole.
THEOREM SearchesAreWellFormed == DialogueSpec => []SearchIsWellFormed
<1>1. DialogueInv => SearchIsWellFormed
  <2> SUFFICES ASSUME DialogueInv, Search PROVE WellFormed(turn.call)
    BY DEF SearchIsWellFormed
  <2>1. IsTurn(turn) /\ TurnOK(turn) /\ IsSearch(turn.call)
    BY DEF DialogueInv, Search, IsSearch
  <2>2. PICK planned : /\ HasWeights(planned) /\ ~Refused(turn.query, planned)
                       /\ turn.call = Normalized(turn.query, planned)
    BY <2>1 DEF TurnOK
  <2> DEFINE q == turn.query
             a == turn.call
  <2>3. Requested(q) # {}
    BY <2>1 DEF TurnOK, IsTurn, Query
  <2>4. a.wants = Requested(q) /\ a.roadLevel = q.roadLevel /\ a.mode = Mode(q, planned)
        /\ a.weights = Weights(q, planned)
    BY <2>2 DEF Normalized
  <2>5. MakesWhole(a.weights, a.wants)
    BY <2>2, <2>3, <2>4, WeightsMakeWhole DEF Refused
  <2>6. a.mode = "BUFFER_FILTER" => "roadWalkability" \in a.wants /\ a.roadLevel = "HARD"
    BY <2>2, <2>4 DEF Refused, Mode
  <2> QED BY <2>3, <2>4, <2>5, <2>6 DEF WellFormed, MakesWhole
<1> QED BY <1>1, DialogueInvariant, PTL
=============================================================================
