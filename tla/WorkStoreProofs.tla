--------------------------- MODULE WorkStoreProofs ---------------------------
(***************************************************************************)
(* Proofs about WorkStore, for every set of tasks, Sessions, keys and      *)
(* limits.  The inductive invariant adds to the checked invariants what    *)
(* they rest on: an accepted item is done, and dependencies and attempts   *)
(* belong to items that exist, attempts to items of the round.             *)
(***************************************************************************)
EXTENDS WorkStore, TLAPS

Sinks(d) == \A S \in SUBSET Tasks : S # {} => \E x \in S : \A u \in S : <<x, u>> \notin d

AcceptedIsDone == \A t \in Tasks : items[t].acceptance = "accepted" => items[t].stage = "done"
DepsExist == \A e \in deps : items[e[1]].life # "absent" /\ items[e[2]].life # "absent"
UsedIsLinked ==
    \A i \in Used : /\ attempts[i].task \in Tasks
                    /\ items[attempts[i].task].life # "absent"
                    /\ items[attempts[i].task].linked

WorkInv == /\ WorkTypeOK /\ DependenciesAcyclic /\ ReadyNeverWaits
           /\ OpenAttemptIsHeld /\ OneAttemptPerKey
           /\ AcceptedIsDone /\ DepsExist /\ UsedIsLinked

-----------------------------------------------------------------------------
(* The dependency graph. *)

\* Every item reaches itself: the search of reaches starts there.
LEMMA ReachesSelf == ASSUME NEW d, NEW x \in Tasks PROVE Reaches(d, x, x)
BY DEF Reaches

\* The search of reaches follows an edge from what it has reached.
LEMMA ReachesStep ==
    ASSUME NEW d, NEW x \in Tasks, NEW y \in Tasks, NEW z \in Tasks,
           Reaches(d, x, y), <<y, z>> \in d
    PROVE  Reaches(d, x, z)
<1>. SUFFICES ASSUME NEW S \in SUBSET Tasks, x \in S, \A e \in d : e[1] \in S => e[2] \in S
              PROVE  z \in S
  BY DEF Reaches
<1>1. y \in S BY DEF Reaches
<1>. QED BY <1>1

\* Edges from t to items that do not reach t close no cycle (add_dependency).
LEMMA AddedEdges ==
    ASSUME NEW d \in SUBSET (Tasks \X Tasks), NEW t \in Tasks, NEW A \in SUBSET Tasks,
           Sinks(d), \A u \in A : u # t /\ ~Reaches(d, u, t)
    PROVE  Sinks(d \cup ({t} \X A))
<1>. SUFFICES ASSUME NEW S \in SUBSET Tasks, S # {}
              PROVE  \E x \in S : \A u \in S : <<x, u>> \notin d \cup ({t} \X A)
  BY DEF Sinks
<1>1. CASE A \cap S = {}
  <2>1. PICK x \in S : \A u \in S : <<x, u>> \notin d BY DEF Sinks
  <2>. QED BY <1>1, <2>1
<1>2. CASE A \cap S # {}
  <2>1. PICK a \in A \cap S : TRUE BY <1>2
  <2>. DEFINE R == {x \in S : Reaches(d, a, x)}
  <2>2. a \in R BY <2>1, ReachesSelf
  <2>3. t \notin R BY <2>1
  <2>4. PICK y \in R : \A u \in R : <<y, u>> \notin d BY <2>2 DEF Sinks
  <2>5. \A u \in S : <<y, u>> \notin d BY <2>1, <2>4, ReachesStep
  <2>. QED BY <2>3, <2>4, <2>5
<1>. QED BY <1>1, <1>2

\* Fewer edges have no more cycles.
LEMMA FewerEdges == ASSUME NEW d, NEW e \in SUBSET d, Sinks(d) PROVE Sinks(e)
BY DEF Sinks

-----------------------------------------------------------------------------
(* What refresh_readiness does to a row. *)

\* It moves a row between planned and ready, touches its condition, and nothing
\* else.
LEMMA RefreshedRow ==
    ASSUME NEW its \in [Tasks -> Item], NEW d, NEW t \in Tasks
    PROVE  /\ Refreshed(its, d)[t] \in Item
           /\ Refreshed(its, d)[t].life = its[t].life
           /\ Refreshed(its, d)[t].linked = its[t].linked
           /\ Refreshed(its, d)[t].acceptance = its[t].acceptance
           /\ \/ Refreshed(its, d)[t].stage = its[t].stage
              \/ {Refreshed(its, d)[t].stage, its[t].stage} \subseteq {"planned", "ready"}
<1>1. its[t] \in Item OBVIOUS
<1>2. CASE its[t].life = "active" /\ its[t].stage \in {"planned", "ready"}
  <2>1. Refreshed(its, d)[t] = Readiness(its, d, t) BY <1>2 DEF Refreshed
  <2>2. /\ Readiness(its, d, t) \in Item
        /\ Readiness(its, d, t).life = its[t].life
        /\ Readiness(its, d, t).linked = its[t].linked
        /\ Readiness(its, d, t).acceptance = its[t].acceptance
        /\ Readiness(its, d, t).stage \in {"planned", "ready"}
    <3>1. CASE ClosedDependency(its, d, t)
      BY <1>1, <1>2, <3>1 DEF Readiness, Item, Stages, AllConditions
    <3>2. CASE ~ClosedDependency(its, d, t)
      BY <1>1, <1>2, <3>2 DEF Readiness, Item, Stages, AllConditions
    <3>. QED BY <3>1, <3>2
  <2>. QED BY <1>2, <2>1, <2>2
<1>3. CASE ~(its[t].life = "active" /\ its[t].stage \in {"planned", "ready"})
  BY <1>1, <1>3 DEF Refreshed
<1>. QED BY <1>2, <1>3

\* Its result is a table again.
LEMMA RefreshedType ==
    ASSUME NEW its \in [Tasks -> Item], NEW d PROVE Refreshed(its, d) \in [Tasks -> Item]
<1>1. \A t \in Tasks : Refreshed(its, d)[t] \in Item BY RefreshedRow
<1>. QED BY <1>1 DEF Refreshed

\* What a review makes of the row of its item.
ReviewedAs(t, row) ==
    /\ items' = Refreshed([items EXCEPT ![t] = row], deps) /\ deps' = deps
    /\ [items EXCEPT ![t] = row] \in [Tasks -> Item]
    /\ row.life = items[t].life /\ row.linked = items[t].linked
    /\ row.acceptance = "accepted" => items[t].acceptance = "accepted" \/ row.stage = "done"
    /\ assignee' = assignee \/ row.stage = "done"

\* A review that is answered writes such a row.
LEMMA ReviewWrites ==
    ASSUME items \in [Tasks -> Item], NEW a, NEW t \in Tasks, NEW accept \in BOOLEAN,
           Review(a, t, accept)
    PROVE  \E row \in Item : ReviewedAs(t, row)
<1>. DEFINE plan == items[t].review = "plan"
            row == CASE plan /\ accept -> [items[t] EXCEPT !.stage = "ready", !.review = "none"]
                     [] plan /\ ~accept -> [items[t] EXCEPT !.stage = "planned", !.review = "none",
                                                          !.condition = "waiting"]
                     [] ~plan /\ accept -> [items[t] EXCEPT !.stage = "done", !.review = "none",
                                                          !.acceptance = "accepted"]
                     [] OTHER -> [items[t] EXCEPT !.stage = "executing", !.review = "none",
                                                  !.acceptance = "rejected"]
<1>1. items[t] \in Item OBVIOUS
<1>2. /\ row \in Item /\ row.life = items[t].life /\ row.linked = items[t].linked
      /\ row.acceptance = "accepted" => items[t].acceptance = "accepted" \/ row.stage = "done"
      /\ ~plan /\ accept => row.stage = "done"
  <2>1. CASE plan /\ accept BY <1>1, <2>1 DEF Item, Stages
  <2>2. CASE plan /\ ~accept BY <1>1, <2>2 DEF Item, Stages, AllConditions
  <2>3. CASE ~plan /\ accept BY <1>1, <2>3 DEF Item, Stages
  <2>4. CASE ~plan /\ ~accept BY <1>1, <2>4 DEF Item, Stages
  <2>. QED BY <2>1, <2>2, <2>3, <2>4
<1>3. items' = Refreshed([items EXCEPT ![t] = row], deps) /\ deps' = deps BY DEF Review
<1>4. assignee' = assignee \/ (~plan /\ accept) BY DEF Review
<1>. HIDE DEF row, plan
<1>5. [items EXCEPT ![t] = row] \in [Tasks -> Item] BY <1>2
<1>6. ReviewedAs(t, row) BY <1>2, <1>3, <1>4, <1>5 DEF ReviewedAs
<1>. QED BY <1>2, <1>6

\* A row it leaves at ready waits for nothing.
LEMMA RefreshedReady ==
    ASSUME NEW its \in [Tasks -> Item], NEW d \in SUBSET (Tasks \X Tasks), NEW t \in Tasks,
           Refreshed(its, d)[t].life = "active", Refreshed(its, d)[t].stage = "ready"
    PROVE  \/ DependenciesAccepted(Refreshed(its, d), d, t)
           \/ ClosedDependency(Refreshed(its, d), d, t)
<1>1. its[t] \in Item /\ its[t].life = "active" /\ its[t].stage \in {"planned", "ready"}
  BY RefreshedRow
<1>2. Refreshed(its, d)[t] = Readiness(its, d, t) BY <1>1 DEF Refreshed
<1>3. DependenciesAccepted(its, d, t) \/ ClosedDependency(its, d, t)
  BY <1>1, <1>2 DEF Readiness, Item
<1>4. \A e \in d : /\ Refreshed(its, d)[e[2]].acceptance = its[e[2]].acceptance
                   /\ Refreshed(its, d)[e[2]].life = its[e[2]].life
  BY RefreshedRow
<1>. QED BY <1>3, <1>4 DEF DependenciesAccepted, ClosedDependency


-----------------------------------------------------------------------------
(* Types. *)

\* The initial tables are well-formed.
LEMMA InitInv == WorkInit => WorkInv
<1>. SUFFICES ASSUME WorkInit PROVE WorkInv OBVIOUS
<1>1. WorkTypeOK
  <2>1. items \in [Tasks -> Item] BY DEF WorkInit, Item, Stages, AllConditions
  <2>2. attempts \in [Attempts -> Attempt] BY DEF WorkInit, Attempt
  <2>3. seats \in Seq(Sessions) /\ spoken \in 0..Len(seats) BY DEF WorkInit
  <2>. QED BY <2>1, <2>2, <2>3, QuestionAssumption DEF WorkInit, WorkTypeOK
<1>2. Used = {} BY DEF WorkInit, Used
<1>3. \A t \in Tasks : items[t].life = "absent" /\ items[t].acceptance = "pending"
  BY DEF WorkInit
<1>. QED BY <1>1, <1>2, <1>3 DEF WorkInit, WorkInv, DependenciesAcyclic, ReadyNeverWaits,
       OpenAttemptIsHeld, OneAttemptPerKey, AcceptedIsDone, DepsExist, UsedIsLinked, Active

\* A coordinator is heard in the name of the current epoch, anybody else in the
\* name of none (authorize, check_coordinator).
LEMMA HeardCurrent ==
    ASSUME NEW a \in Actors, NEW t, Heard(a), seats \in Seq(Sessions),
           PlansRound(a) \/ Coordinates(a, t) \/ Executes(a, t)
    PROVE  spoken' = spoken \/ (Len(seats) > 0 /\ spoken' = Len(seats))
<1>1. CASE a.role = "coordinator"
  <2>1. CheckCoordinator(a) BY <1>1 DEF PlansRound, Coordinates, Executes
  <2>2. a.epoch \in DOMAIN seats
    BY <1>1 DEF Actors, Planners, Authorities, Researcher, Executing
  <2>. QED BY <1>1, <2>1, <2>2 DEF Heard, CheckCoordinator
<1>2. CASE a.role # "coordinator" BY <1>2 DEF Heard
<1>. QED BY <1>1, <1>2


\* Whatever is carried out is carried out for nobody's epoch or for the current one.
LEMMA SpokenStep ==
    ASSUME WorkTypeOK, WorkNext
    PROVE  spoken' = spoken \/ (Len(seats) > 0 /\ spoken' = Len(seats))
<1>0. seats \in Seq(Sessions) BY DEF WorkTypeOK
<1>1. ASSUME NEW a \in Planners, Planning(a) PROVE spoken' = spoken \/ (Len(seats) > 0 /\ spoken' = Len(seats))
  <2>1. ASSUME NEW t \in Tasks, NEW linked \in BOOLEAN, NEW D \in SUBSET Tasks, Create(a, t, linked, D)
        PROVE  spoken' = spoken \/ (Len(seats) > 0 /\ spoken' = Len(seats))
      <3>1. PlansRound(a) BY <2>1 DEF Create, PlansRound
    <3>. QED BY <2>1, <3>1, <1>0, HeardCurrent DEF Create, Actors
  <2>2. ASSUME NEW t \in Tasks, NEW added \in SUBSET Tasks,
                      NEW removed \in SUBSET Tasks, UpdatePlan(a, t, added, removed)
        PROVE  spoken' = spoken \/ (Len(seats) > 0 /\ spoken' = Len(seats))
    BY <2>2, <1>0, HeardCurrent DEF UpdatePlan, Planners, Actors
  <2>3. ASSUME NEW t \in Tasks, LinkRound(a, t)
        PROVE  spoken' = spoken \/ (Len(seats) > 0 /\ spoken' = Len(seats))
    BY <2>3, <1>0, HeardCurrent DEF LinkRound, Planners, Actors
  <2>4. ASSUME NEW t \in Tasks, Close(a, t)
        PROVE  spoken' = spoken \/ (Len(seats) > 0 /\ spoken' = Len(seats))
    BY <2>4, <1>0, HeardCurrent DEF Close, Planners, Actors
  <2>5. ASSUME NEW t \in Tasks, NEW s \in Sessions, Assign(a, t, s)
        PROVE  spoken' = spoken \/ (Len(seats) > 0 /\ spoken' = Len(seats))
    BY <2>5, <1>0, HeardCurrent DEF Assign, Planners, Actors
  <2>6. ASSUME NEW t \in Tasks, NEW k \in Keys \cup {NoKey}, NEW i \in Attempts, BeginAttempt(a, t, k, i)
        PROVE  spoken' = spoken \/ (Len(seats) > 0 /\ spoken' = Len(seats))
    BY <2>6, <1>0, HeardCurrent DEF BeginAttempt, Planners, Actors
  <2>7. ASSUME NEW t \in Tasks, NEW accept \in BOOLEAN, Review(a, t, accept)
        PROVE  spoken' = spoken \/ (Len(seats) > 0 /\ spoken' = Len(seats))
    BY <2>7, <1>0, HeardCurrent DEF Review, Planners, Actors
  <2>8. ASSUME NEW s \in Sessions, HandoffCoordinator(a, s)
        PROVE  spoken' = spoken \/ (Len(seats) > 0 /\ spoken' = Len(seats))
    BY <2>8, <1>0, HeardCurrent DEF HandoffCoordinator, Planners, Actors
  <2>. QED BY <1>1, <2>1, <2>2, <2>3, <2>4, <2>5, <2>6, <2>7, <2>8 DEF Planning, DependenciesOf
<1>2. ASSUME NEW a \in Actors, Doing(a) PROVE spoken' = spoken \/ (Len(seats) > 0 /\ spoken' = Len(seats))
  <2>1. ASSUME NEW i \in Attempts, BindAttemptRun(a, i)
        PROVE  spoken' = spoken \/ (Len(seats) > 0 /\ spoken' = Len(seats))
    BY <2>1, <1>0, HeardCurrent DEF BindAttemptRun, Planners, Actors
  <2>2. ASSUME NEW i \in Attempts, NEW outcome \in Outcomes, FinishAttempt(a, i, outcome)
        PROVE  spoken' = spoken \/ (Len(seats) > 0 /\ spoken' = Len(seats))
    BY <2>2, <1>0, HeardCurrent DEF FinishAttempt, Planners, Actors
  <2>3. ASSUME NEW t \in Tasks, AddResult(a, t)
        PROVE  spoken' = spoken \/ (Len(seats) > 0 /\ spoken' = Len(seats))
    BY <2>3, <1>0, HeardCurrent DEF AddResult, Planners, Actors
  <2>4. ASSUME NEW t \in Tasks, NEW to \in Stages, NEW kind \in ReviewKinds, Advance(a, t, to, kind)
        PROVE  spoken' = spoken \/ (Len(seats) > 0 /\ spoken' = Len(seats))
    BY <2>4, <1>0, HeardCurrent DEF Advance, Planners, Actors
  <2>5. ASSUME NEW t \in Tasks, NEW c \in Conditions, SetCondition(a, t, c)
        PROVE  spoken' = spoken \/ (Len(seats) > 0 /\ spoken' = Len(seats))
    BY <2>5, <1>0, HeardCurrent DEF SetCondition, Planners, Actors
  <2>. QED BY <1>2, <2>1, <2>2, <2>3, <2>4, <2>5 DEF Doing
<1>3. ASSUME Server PROVE spoken' = spoken \/ (Len(seats) > 0 /\ spoken' = Len(seats))
  <2>1. ASSUME NEW i \in Attempts, UndeliveredAttemptFailed(i)
        PROVE  spoken' = spoken \/ (Len(seats) > 0 /\ spoken' = Len(seats))
    BY <2>1 DEF UndeliveredAttemptFailed
  <2>2. ASSUME NEW t \in Tasks, AnalysisStarted(t)
        PROVE  spoken' = spoken \/ (Len(seats) > 0 /\ spoken' = Len(seats))
    BY <2>2 DEF AnalysisStarted
  <2>3. ASSUME NEW t \in Tasks, AnalysisResolved(t)
        PROVE  spoken' = spoken \/ (Len(seats) > 0 /\ spoken' = Len(seats))
    BY <2>3 DEF AnalysisResolved
  <2>4. ASSUME NEW t \in Tasks, RequestDecision(t)
        PROVE  spoken' = spoken \/ (Len(seats) > 0 /\ spoken' = Len(seats))
    BY <2>4 DEF RequestDecision
  <2>5. ASSUME NEW t \in Tasks, AnswerDecision(t)
        PROVE  spoken' = spoken \/ (Len(seats) > 0 /\ spoken' = Len(seats))
    BY <2>5 DEF AnswerDecision
  <2>6. ASSUME NEW t \in Tasks, FlagAttention(t)
        PROVE  spoken' = spoken \/ (Len(seats) > 0 /\ spoken' = Len(seats))
    BY <2>6 DEF FlagAttention
  <2>7. ASSUME NEW t \in Tasks, ClearAttention(t)
        PROVE  spoken' = spoken \/ (Len(seats) > 0 /\ spoken' = Len(seats))
    BY <2>7 DEF ClearAttention
  <2>. QED BY <1>3, <2>1, <2>2, <2>3, <2>4, <2>5, <2>6, <2>7 DEF Server
<1>4. ASSUME Round PROVE spoken' = spoken \/ (Len(seats) > 0 /\ spoken' = Len(seats))
  <2>1. ASSUME NEW p \in Policies, SetPolicy(p)
        PROVE  spoken' = spoken \/ (Len(seats) > 0 /\ spoken' = Len(seats))
    BY <2>1 DEF SetPolicy
  <2>2. ASSUME NEW s \in Sessions, AssumeCoordinator(s)
        PROVE  spoken' = spoken \/ (Len(seats) > 0 /\ spoken' = Len(seats))
    BY <2>2 DEF AssumeCoordinator
  <2>3. ASSUME NEW q \in Questions, QuestionChanges(q)
        PROVE  spoken' = spoken \/ (Len(seats) > 0 /\ spoken' = Len(seats))
    BY <2>3 DEF QuestionChanges
  <2>. QED BY <1>4, <2>1, <2>2, <2>3 DEF Round
<1>. QED BY <1>1, <1>2, <1>3, <1>4 DEF WorkNext


\* The items keep their types.
LEMMA ItemsType == ASSUME WorkTypeOK, WorkNext PROVE items' \in [Tasks -> Item]
<1>0. items \in [Tasks -> Item] BY DEF WorkTypeOK
<1>1. ASSUME NEW a \in Planners, Planning(a) PROVE items' \in [Tasks -> Item]
  <2>1. ASSUME NEW t \in Tasks, NEW linked \in BOOLEAN, NEW D \in SUBSET Tasks, Create(a, t, linked, D)
        PROVE  items' \in [Tasks -> Item]
      <3>1. [items EXCEPT ![t].life = "active", ![t].linked = linked] \in [Tasks -> Item]
      BY <2>1, <1>0, ChoiceAssumption, ConditionAssumption DEF Create, Item, Stages, AllConditions
    <3>. QED BY <2>1, <3>1, RefreshedType DEF Create
  <2>2. ASSUME NEW t \in Tasks, NEW added \in SUBSET Tasks,
                      NEW removed \in SUBSET Tasks, UpdatePlan(a, t, added, removed)
        PROVE  items' \in [Tasks -> Item]
    BY <2>2, <1>0, RefreshedType DEF UpdatePlan
  <2>3. ASSUME NEW t \in Tasks, LinkRound(a, t)
        PROVE  items' \in [Tasks -> Item]
    <3>1. items' = [items EXCEPT ![t] = [@ EXCEPT !.linked = TRUE]] BY <2>3 DEF LinkRound
    <3>2. items[t] \in Item BY <1>0
    <3>3. [items[t] EXCEPT !.linked = TRUE] \in Item BY <3>2 DEF Item
    <3>. QED BY <3>1, <3>3, <1>0
  <2>4. ASSUME NEW t \in Tasks, Close(a, t)
        PROVE  items' \in [Tasks -> Item]
      <3>1. [items EXCEPT ![t].life = "closed"] \in [Tasks -> Item]
      BY <2>4, <1>0, ChoiceAssumption, ConditionAssumption DEF Close, Item, Stages, AllConditions
    <3>. QED BY <2>4, <3>1, RefreshedType DEF Close
  <2>5. ASSUME NEW t \in Tasks, NEW s \in Sessions, Assign(a, t, s)
        PROVE  items' \in [Tasks -> Item]
    BY <2>5, <1>0 DEF Assign, Item, Stages, AllConditions, itemVars
  <2>6. ASSUME NEW t \in Tasks, NEW k \in Keys \cup {NoKey}, NEW i \in Attempts, BeginAttempt(a, t, k, i)
        PROVE  items' \in [Tasks -> Item]
      <3>1. items' = [items EXCEPT ![t].stage = "executing", ![t].condition = "none"]
      BY <2>6 DEF BeginAttempt
    <3>2. items[t] \in Item BY <1>0
    <3>3. [items[t] EXCEPT !.stage = "executing", !.condition = "none"] \in Item
      BY <3>2 DEF Item, Stages, AllConditions
    <3>. QED BY <3>1, <3>3, <1>0
  <2>7. ASSUME NEW t \in Tasks, NEW accept \in BOOLEAN, Review(a, t, accept)
        PROVE  items' \in [Tasks -> Item]
      <3>0. PICK row \in Item : ReviewedAs(t, row) BY <2>7, <1>0, ReviewWrites
      <3>1. /\ items' = Refreshed([items EXCEPT ![t] = row], deps)
            /\ [items EXCEPT ![t] = row] \in [Tasks -> Item]
      BY <3>0 DEF ReviewedAs
    <3>. QED BY <3>1, RefreshedType
  <2>8. ASSUME NEW s \in Sessions, HandoffCoordinator(a, s)
        PROVE  items' \in [Tasks -> Item]
    BY <2>8, <1>0 DEF HandoffCoordinator, Item, Stages, AllConditions, itemVars
  <2>. QED BY <1>1, <2>1, <2>2, <2>3, <2>4, <2>5, <2>6, <2>7, <2>8 DEF Planning, DependenciesOf
<1>2. ASSUME NEW a \in Actors, Doing(a) PROVE items' \in [Tasks -> Item]
  <2>1. ASSUME NEW i \in Attempts, BindAttemptRun(a, i)
        PROVE  items' \in [Tasks -> Item]
    BY <2>1, <1>0 DEF BindAttemptRun
  <2>2. ASSUME NEW i \in Attempts, NEW outcome \in Outcomes, FinishAttempt(a, i, outcome)
        PROVE  items' \in [Tasks -> Item]
    BY <2>2, <1>0 DEF FinishAttempt
  <2>3. ASSUME NEW t \in Tasks, AddResult(a, t)
        PROVE  items' \in [Tasks -> Item]
      <3>1. items' = [items EXCEPT ![t].results = TRUE] BY <2>3 DEF AddResult
      <3>2. items[t] \in Item BY <1>0
      <3>3. [items[t] EXCEPT !.results = TRUE] \in Item BY <3>2 DEF Item
    <3>. QED BY <1>0, <3>1, <3>3
  <2>4. ASSUME NEW t \in Tasks, NEW to \in Stages, NEW kind \in ReviewKinds, Advance(a, t, to, kind)
        PROVE  items' \in [Tasks -> Item]
      <3>1. [items EXCEPT ![t].stage = to, ![t].review = IF to = "review" THEN kind ELSE "none"] \in [Tasks -> Item]
      BY <2>4, <1>0, ChoiceAssumption, ConditionAssumption DEF Advance, Item, Stages, AllConditions
    <3>. QED BY <2>4, <3>1, RefreshedType DEF Advance
  <2>5. ASSUME NEW t \in Tasks, NEW c \in Conditions, SetCondition(a, t, c)
        PROVE  items' \in [Tasks -> Item]
      <3>1. [items EXCEPT ![t].condition = c] \in [Tasks -> Item]
      BY <2>5, <1>0, ChoiceAssumption, ConditionAssumption DEF SetCondition, Item, Stages, AllConditions
    <3>. QED BY <2>5, <3>1, RefreshedType DEF SetCondition
  <2>. QED BY <1>2, <2>1, <2>2, <2>3, <2>4, <2>5 DEF Doing
<1>3. ASSUME Server PROVE items' \in [Tasks -> Item]
  <2>1. ASSUME NEW i \in Attempts, UndeliveredAttemptFailed(i)
        PROVE  items' \in [Tasks -> Item]
    BY <2>1, <1>0 DEF UndeliveredAttemptFailed, Item, Stages, AllConditions, itemVars
  <2>2. ASSUME NEW t \in Tasks, AnalysisStarted(t)
        PROVE  items' \in [Tasks -> Item]
    BY <2>2, <1>0 DEF AnalysisStarted, Item, Stages, AllConditions, itemVars
  <2>3. ASSUME NEW t \in Tasks, AnalysisResolved(t)
        PROVE  items' \in [Tasks -> Item]
    BY <2>3, <1>0 DEF AnalysisResolved, Item, Stages, AllConditions, itemVars
  <2>4. ASSUME NEW t \in Tasks, RequestDecision(t)
        PROVE  items' \in [Tasks -> Item]
    BY <2>4, <1>0 DEF RequestDecision, Item, Stages, AllConditions, itemVars
  <2>5. ASSUME NEW t \in Tasks, AnswerDecision(t)
        PROVE  items' \in [Tasks -> Item]
      <3>1. [items EXCEPT ![t].condition =
                 IF requests'[t] = 0 /\ @ = "asked" THEN "none" ELSE @] \in [Tasks -> Item]
      BY <2>5, <1>0, ChoiceAssumption, ConditionAssumption DEF AnswerDecision, Item, Stages, AllConditions
    <3>. QED BY <2>5, <3>1, RefreshedType DEF AnswerDecision
  <2>6. ASSUME NEW t \in Tasks, FlagAttention(t)
        PROVE  items' \in [Tasks -> Item]
    BY <2>6, <1>0 DEF FlagAttention, Item, Stages, AllConditions, itemVars
  <2>7. ASSUME NEW t \in Tasks, ClearAttention(t)
        PROVE  items' \in [Tasks -> Item]
    BY <2>7, <1>0 DEF ClearAttention, Item, Stages, AllConditions, itemVars
  <2>. QED BY <1>3, <2>1, <2>2, <2>3, <2>4, <2>5, <2>6, <2>7 DEF Server
<1>4. ASSUME Round PROVE items' \in [Tasks -> Item]
  <2>1. ASSUME NEW p \in Policies, SetPolicy(p)
        PROVE  items' \in [Tasks -> Item]
    BY <2>1, <1>0 DEF SetPolicy, Item, Stages, AllConditions, itemVars
  <2>2. ASSUME NEW s \in Sessions, AssumeCoordinator(s)
        PROVE  items' \in [Tasks -> Item]
    BY <2>2, <1>0 DEF AssumeCoordinator, Item, Stages, AllConditions, itemVars
  <2>3. ASSUME NEW q \in Questions, QuestionChanges(q)
        PROVE  items' \in [Tasks -> Item]
    BY <2>3, <1>0 DEF QuestionChanges, Item, Stages, AllConditions, itemVars
  <2>. QED BY <1>4, <2>1, <2>2, <2>3 DEF Round
<1>. QED BY <1>1, <1>2, <1>3, <1>4 DEF WorkNext


-----------------------------------------------------------------------------
(* What a step may do to each table. *)

\* An attempt keeps its identity and moves on from an open status.
AttemptsProgress ==
    /\ attempts' \in [Attempts -> Attempt]
    /\ \A i \in Attempts :
         attempts'[i] = attempts[i]
         \/ /\ Open(i) /\ attempts'[i].status # "unused"
            /\ attempts'[i].task = attempts[i].task
            /\ attempts'[i].session = attempts[i].session
            /\ attempts'[i].key = attempts[i].key

BeginsAttempt == \E a \in Planners, t \in Tasks, k \in Keys \cup {NoKey}, i \in Attempts :
                    BeginAttempt(a, t, k, i)

\* Only begin_attempt adds a row.
LEMMA AttemptsStep == ASSUME WorkTypeOK, WorkNext PROVE AttemptsProgress \/ BeginsAttempt
<1>0. attempts \in [Attempts -> Attempt] BY DEF WorkTypeOK
<1>9. ASSUME attempts' = attempts PROVE AttemptsProgress BY <1>0, <1>9 DEF AttemptsProgress
<1>1. ASSUME NEW a \in Planners, Planning(a) PROVE AttemptsProgress \/ BeginsAttempt
  <2>1. ASSUME NEW t \in Tasks, NEW linked \in BOOLEAN, NEW D \in SUBSET Tasks, Create(a, t, linked, D)
        PROVE  AttemptsProgress \/ BeginsAttempt
    BY <2>1, <1>9 DEF Create, itemVars
  <2>2. ASSUME NEW t \in Tasks, NEW added \in SUBSET Tasks,
                      NEW removed \in SUBSET Tasks, UpdatePlan(a, t, added, removed)
        PROVE  AttemptsProgress \/ BeginsAttempt
    BY <2>2, <1>9 DEF UpdatePlan, itemVars
  <2>3. ASSUME NEW t \in Tasks, LinkRound(a, t)
        PROVE  AttemptsProgress \/ BeginsAttempt
    BY <2>3, <1>9 DEF LinkRound, itemVars
  <2>4. ASSUME NEW t \in Tasks, Close(a, t)
        PROVE  AttemptsProgress \/ BeginsAttempt
      <3>1. attempts' = [i \in Attempts |-> IF i \in AttemptsOf(t) /\ Open(i)
                          THEN [attempts[i] EXCEPT !.status = "cancelled"] ELSE attempts[i]]
      BY <2>4 DEF Close
    <3>. QED BY <3>1, <1>0 DEF AttemptsProgress, Attempt, ClosedStatus
  <2>5. ASSUME NEW t \in Tasks, NEW s \in Sessions, Assign(a, t, s)
        PROVE  AttemptsProgress \/ BeginsAttempt
    BY <2>5, <1>9 DEF Assign, itemVars
  <2>6. ASSUME NEW t \in Tasks, NEW k \in Keys \cup {NoKey}, NEW i \in Attempts, BeginAttempt(a, t, k, i)
        PROVE  AttemptsProgress \/ BeginsAttempt
    BY <2>6 DEF BeginsAttempt
  <2>7. ASSUME NEW t \in Tasks, NEW accept \in BOOLEAN, Review(a, t, accept)
        PROVE  AttemptsProgress \/ BeginsAttempt
    BY <2>7, <1>9 DEF Review, itemVars
  <2>8. ASSUME NEW s \in Sessions, HandoffCoordinator(a, s)
        PROVE  AttemptsProgress \/ BeginsAttempt
    BY <2>8, <1>9 DEF HandoffCoordinator, itemVars
  <2>. QED BY <1>1, <2>1, <2>2, <2>3, <2>4, <2>5, <2>6, <2>7, <2>8 DEF Planning, DependenciesOf
<1>2. ASSUME NEW a \in Actors, Doing(a) PROVE AttemptsProgress \/ BeginsAttempt
  <2>1. ASSUME NEW i \in Attempts, BindAttemptRun(a, i)
        PROVE  AttemptsProgress \/ BeginsAttempt
      <3>1. attempts' = [attempts EXCEPT ![i].status = "running"] /\ Open(i)
      BY <2>1 DEF BindAttemptRun, Open, OpenStatus
    <3>. QED BY <3>1, <1>0 DEF AttemptsProgress, Attempt, OpenStatus
  <2>2. ASSUME NEW i \in Attempts, NEW outcome \in Outcomes, FinishAttempt(a, i, outcome)
        PROVE  AttemptsProgress \/ BeginsAttempt
      <3>1. attempts' = [attempts EXCEPT ![i].status = outcome] /\ Open(i)
      BY <2>2 DEF FinishAttempt
    <3>2. outcome \in ClosedStatus BY ChoiceAssumption DEF ClosedStatus
    <3>. QED BY <3>1, <3>2, <1>0 DEF AttemptsProgress, Attempt, ClosedStatus
  <2>3. ASSUME NEW t \in Tasks, AddResult(a, t)
        PROVE  AttemptsProgress \/ BeginsAttempt
    BY <2>3, <1>9 DEF AddResult, itemVars
  <2>4. ASSUME NEW t \in Tasks, NEW to \in Stages, NEW kind \in ReviewKinds, Advance(a, t, to, kind)
        PROVE  AttemptsProgress \/ BeginsAttempt
    BY <2>4, <1>9 DEF Advance, itemVars
  <2>5. ASSUME NEW t \in Tasks, NEW c \in Conditions, SetCondition(a, t, c)
        PROVE  AttemptsProgress \/ BeginsAttempt
    BY <2>5, <1>9 DEF SetCondition, itemVars
  <2>. QED BY <1>2, <2>1, <2>2, <2>3, <2>4, <2>5 DEF Doing
<1>3. ASSUME Server PROVE AttemptsProgress \/ BeginsAttempt
  <2>1. ASSUME NEW i \in Attempts, UndeliveredAttemptFailed(i)
        PROVE  AttemptsProgress \/ BeginsAttempt
      <3>1. attempts' = [attempts EXCEPT ![i].status = "failed"] /\ Open(i)
      BY <2>1 DEF UndeliveredAttemptFailed, Open, OpenStatus
    <3>. QED BY <3>1, <1>0 DEF AttemptsProgress, Attempt, ClosedStatus
  <2>2. ASSUME NEW t \in Tasks, AnalysisStarted(t)
        PROVE  AttemptsProgress \/ BeginsAttempt
    BY <2>2, <1>9 DEF AnalysisStarted, itemVars
  <2>3. ASSUME NEW t \in Tasks, AnalysisResolved(t)
        PROVE  AttemptsProgress \/ BeginsAttempt
    BY <2>3, <1>9 DEF AnalysisResolved, itemVars
  <2>4. ASSUME NEW t \in Tasks, RequestDecision(t)
        PROVE  AttemptsProgress \/ BeginsAttempt
    BY <2>4, <1>9 DEF RequestDecision, itemVars
  <2>5. ASSUME NEW t \in Tasks, AnswerDecision(t)
        PROVE  AttemptsProgress \/ BeginsAttempt
    BY <2>5, <1>9 DEF AnswerDecision, itemVars
  <2>6. ASSUME NEW t \in Tasks, FlagAttention(t)
        PROVE  AttemptsProgress \/ BeginsAttempt
    BY <2>6, <1>9 DEF FlagAttention, itemVars
  <2>7. ASSUME NEW t \in Tasks, ClearAttention(t)
        PROVE  AttemptsProgress \/ BeginsAttempt
    BY <2>7, <1>9 DEF ClearAttention, itemVars
  <2>. QED BY <1>3, <2>1, <2>2, <2>3, <2>4, <2>5, <2>6, <2>7 DEF Server
<1>4. ASSUME Round PROVE AttemptsProgress \/ BeginsAttempt
  <2>1. ASSUME NEW p \in Policies, SetPolicy(p)
        PROVE  AttemptsProgress \/ BeginsAttempt
    BY <2>1, <1>9 DEF SetPolicy, itemVars
  <2>2. ASSUME NEW s \in Sessions, AssumeCoordinator(s)
        PROVE  AttemptsProgress \/ BeginsAttempt
    BY <2>2, <1>9 DEF AssumeCoordinator, itemVars
  <2>3. ASSUME NEW q \in Questions, QuestionChanges(q)
        PROVE  AttemptsProgress \/ BeginsAttempt
    BY <2>3, <1>9 DEF QuestionChanges, itemVars
  <2>. QED BY <1>4, <2>1, <2>2, <2>3 DEF Round
<1>. QED BY <1>1, <1>2, <1>3, <1>4 DEF WorkNext


CreatesItem == \E a \in Planners, t \in Tasks, linked \in BOOLEAN, D \in SUBSET Tasks :
                  Create(a, t, linked, D)
ChangesPlan == \E a \in Planners, t \in Tasks, added, removed \in SUBSET Tasks :
                  UpdatePlan(a, t, added, removed)

\* Only create and update_plan touch the dependencies.
LEMMA DepsStep == ASSUME WorkNext PROVE deps' = deps \/ CreatesItem \/ ChangesPlan
<1>1. ASSUME NEW a \in Planners, Planning(a) PROVE deps' = deps \/ CreatesItem \/ ChangesPlan
  <2>1. ASSUME NEW t \in Tasks, NEW linked \in BOOLEAN, NEW D \in SUBSET Tasks, Create(a, t, linked, D)
        PROVE  deps' = deps \/ CreatesItem \/ ChangesPlan
    BY <2>1 DEF CreatesItem
  <2>2. ASSUME NEW t \in Tasks, NEW added \in SUBSET Tasks,
                      NEW removed \in SUBSET Tasks, UpdatePlan(a, t, added, removed)
        PROVE  deps' = deps \/ CreatesItem \/ ChangesPlan
    BY <2>2 DEF ChangesPlan
  <2>3. ASSUME NEW t \in Tasks, LinkRound(a, t)
        PROVE  deps' = deps \/ CreatesItem \/ ChangesPlan
    BY <2>3 DEF LinkRound, itemVars
  <2>4. ASSUME NEW t \in Tasks, Close(a, t)
        PROVE  deps' = deps \/ CreatesItem \/ ChangesPlan
    BY <2>4 DEF Close, itemVars
  <2>5. ASSUME NEW t \in Tasks, NEW s \in Sessions, Assign(a, t, s)
        PROVE  deps' = deps \/ CreatesItem \/ ChangesPlan
    BY <2>5 DEF Assign, itemVars
  <2>6. ASSUME NEW t \in Tasks, NEW k \in Keys \cup {NoKey}, NEW i \in Attempts, BeginAttempt(a, t, k, i)
        PROVE  deps' = deps \/ CreatesItem \/ ChangesPlan
    BY <2>6 DEF BeginAttempt, itemVars
  <2>7. ASSUME NEW t \in Tasks, NEW accept \in BOOLEAN, Review(a, t, accept)
        PROVE  deps' = deps \/ CreatesItem \/ ChangesPlan
    BY <2>7 DEF Review, itemVars
  <2>8. ASSUME NEW s \in Sessions, HandoffCoordinator(a, s)
        PROVE  deps' = deps \/ CreatesItem \/ ChangesPlan
    BY <2>8 DEF HandoffCoordinator, itemVars
  <2>. QED BY <1>1, <2>1, <2>2, <2>3, <2>4, <2>5, <2>6, <2>7, <2>8 DEF Planning, DependenciesOf
<1>2. ASSUME NEW a \in Actors, Doing(a) PROVE deps' = deps \/ CreatesItem \/ ChangesPlan
  <2>1. ASSUME NEW i \in Attempts, BindAttemptRun(a, i)
        PROVE  deps' = deps \/ CreatesItem \/ ChangesPlan
    BY <2>1 DEF BindAttemptRun, itemVars
  <2>2. ASSUME NEW i \in Attempts, NEW outcome \in Outcomes, FinishAttempt(a, i, outcome)
        PROVE  deps' = deps \/ CreatesItem \/ ChangesPlan
    BY <2>2 DEF FinishAttempt, itemVars
  <2>3. ASSUME NEW t \in Tasks, AddResult(a, t)
        PROVE  deps' = deps \/ CreatesItem \/ ChangesPlan
    BY <2>3 DEF AddResult, itemVars
  <2>4. ASSUME NEW t \in Tasks, NEW to \in Stages, NEW kind \in ReviewKinds, Advance(a, t, to, kind)
        PROVE  deps' = deps \/ CreatesItem \/ ChangesPlan
    BY <2>4 DEF Advance, itemVars
  <2>5. ASSUME NEW t \in Tasks, NEW c \in Conditions, SetCondition(a, t, c)
        PROVE  deps' = deps \/ CreatesItem \/ ChangesPlan
    BY <2>5 DEF SetCondition, itemVars
  <2>. QED BY <1>2, <2>1, <2>2, <2>3, <2>4, <2>5 DEF Doing
<1>3. ASSUME Server PROVE deps' = deps \/ CreatesItem \/ ChangesPlan
  <2>1. ASSUME NEW i \in Attempts, UndeliveredAttemptFailed(i)
        PROVE  deps' = deps \/ CreatesItem \/ ChangesPlan
    BY <2>1 DEF UndeliveredAttemptFailed, itemVars
  <2>2. ASSUME NEW t \in Tasks, AnalysisStarted(t)
        PROVE  deps' = deps \/ CreatesItem \/ ChangesPlan
    BY <2>2 DEF AnalysisStarted, itemVars
  <2>3. ASSUME NEW t \in Tasks, AnalysisResolved(t)
        PROVE  deps' = deps \/ CreatesItem \/ ChangesPlan
    BY <2>3 DEF AnalysisResolved, itemVars
  <2>4. ASSUME NEW t \in Tasks, RequestDecision(t)
        PROVE  deps' = deps \/ CreatesItem \/ ChangesPlan
    BY <2>4 DEF RequestDecision, itemVars
  <2>5. ASSUME NEW t \in Tasks, AnswerDecision(t)
        PROVE  deps' = deps \/ CreatesItem \/ ChangesPlan
    BY <2>5 DEF AnswerDecision, itemVars
  <2>6. ASSUME NEW t \in Tasks, FlagAttention(t)
        PROVE  deps' = deps \/ CreatesItem \/ ChangesPlan
    BY <2>6 DEF FlagAttention, itemVars
  <2>7. ASSUME NEW t \in Tasks, ClearAttention(t)
        PROVE  deps' = deps \/ CreatesItem \/ ChangesPlan
    BY <2>7 DEF ClearAttention, itemVars
  <2>. QED BY <1>3, <2>1, <2>2, <2>3, <2>4, <2>5, <2>6, <2>7 DEF Server
<1>4. ASSUME Round PROVE deps' = deps \/ CreatesItem \/ ChangesPlan
  <2>1. ASSUME NEW p \in Policies, SetPolicy(p)
        PROVE  deps' = deps \/ CreatesItem \/ ChangesPlan
    BY <2>1 DEF SetPolicy, itemVars
  <2>2. ASSUME NEW s \in Sessions, AssumeCoordinator(s)
        PROVE  deps' = deps \/ CreatesItem \/ ChangesPlan
    BY <2>2 DEF AssumeCoordinator, itemVars
  <2>3. ASSUME NEW q \in Questions, QuestionChanges(q)
        PROVE  deps' = deps \/ CreatesItem \/ ChangesPlan
    BY <2>3 DEF QuestionChanges, itemVars
  <2>. QED BY <1>4, <2>1, <2>2, <2>3 DEF Round
<1>. QED BY <1>1, <1>2, <1>3, <1>4 DEF WorkNext


\* An item never comes back from closed or leaves its round, and what is accepted
\* or done stays so.
Mild(its, u) ==
    /\ items[u].life = "closed" => its[u].life = "closed"
    /\ items[u].life # "absent" => its[u].life # "absent"
    /\ items[u].life # "absent" /\ items[u].linked => its[u].linked
    /\ items[u].acceptance = "accepted" => its[u].acceptance = "accepted"
    /\ its[u].acceptance = "accepted" => items[u].acceptance = "accepted"
                                         \/ its[u].stage = "done"
    /\ items[u].stage = "done" => its[u].stage = "done"
ItemStep(u) == Mild(items', u)

\* The refresh that follows a command adds nothing to what the command did.
LEMMA MildRefresh ==
    ASSUME NEW its \in [Tasks -> Item], NEW d, NEW u \in Tasks, Mild(its, u)
    PROVE  Mild(Refreshed(its, d), u)
BY RefreshedRow DEF Mild

\* The items change as ItemStep says, whoever is heard.
LEMMA ItemsStep == ASSUME WorkTypeOK, AcceptedIsDone, WorkNext, NEW u \in Tasks PROVE ItemStep(u)
<1>0. items \in [Tasks -> Item] /\ (items[u].acceptance = "accepted" => items[u].stage = "done")
  BY DEF WorkTypeOK, AcceptedIsDone
<1>9. ASSUME items' = items PROVE ItemStep(u) BY <1>9 DEF ItemStep, Mild
<1>1. ASSUME NEW a \in Planners, Planning(a) PROVE ItemStep(u)
  <2>1. ASSUME NEW t \in Tasks, NEW linked \in BOOLEAN, NEW D \in SUBSET Tasks, Create(a, t, linked, D)
        PROVE  ItemStep(u)
      <3>. DEFINE X == [items EXCEPT ![t].life = "active", ![t].linked = linked]
    <3>1. X \in [Tasks -> Item]
      BY <2>1, <1>0, ChoiceAssumption, ConditionAssumption DEF Create, Item, Stages, AllConditions
    <3>2. items' = Refreshed(X, deps') BY <2>1 DEF Create
    <3>3. Mild(X, u) BY <2>1, <1>0 DEF Create, Mild, Item, Active
    <3>. HIDE DEF X
    <3>. QED BY <3>1, <3>2, <3>3, MildRefresh DEF ItemStep
  <2>2. ASSUME NEW t \in Tasks, NEW added \in SUBSET Tasks,
                      NEW removed \in SUBSET Tasks, UpdatePlan(a, t, added, removed)
        PROVE  ItemStep(u)
    BY <2>2, <1>0, RefreshedRow DEF UpdatePlan, ItemStep, Mild
  <2>3. ASSUME NEW t \in Tasks, LinkRound(a, t)
        PROVE  ItemStep(u)
    BY <2>3, <1>0 DEF LinkRound, ItemStep, Mild, Item
  <2>4. ASSUME NEW t \in Tasks, Close(a, t)
        PROVE  ItemStep(u)
      <3>. DEFINE X == [items EXCEPT ![t].life = "closed"]
    <3>1. X \in [Tasks -> Item]
      BY <2>4, <1>0, ChoiceAssumption, ConditionAssumption DEF Close, Item, Stages, AllConditions
    <3>2. items' = Refreshed(X, deps') BY <2>4 DEF Close
    <3>3. Mild(X, u) BY <2>4, <1>0 DEF Close, Mild, Item, Active
    <3>. HIDE DEF X
    <3>. QED BY <3>1, <3>2, <3>3, MildRefresh DEF ItemStep
  <2>5. ASSUME NEW t \in Tasks, NEW s \in Sessions, Assign(a, t, s)
        PROVE  ItemStep(u)
    BY <2>5, <1>9 DEF Assign, itemVars
  <2>6. ASSUME NEW t \in Tasks, NEW k \in Keys \cup {NoKey}, NEW i \in Attempts, BeginAttempt(a, t, k, i)
        PROVE  ItemStep(u)
      <3>1. /\ items' = [items EXCEPT ![t].stage = "executing", ![t].condition = "none"]
          /\ items[t].stage \in {"ready", "executing"}
      BY <2>6 DEF BeginAttempt
    <3>. QED BY <3>1, <1>0 DEF ItemStep, Mild, Item
  <2>7. ASSUME NEW t \in Tasks, NEW accept \in BOOLEAN, Review(a, t, accept)
        PROVE  ItemStep(u)
      <3>0. PICK row \in Item : ReviewedAs(t, row) BY <2>7, <1>0, ReviewWrites
      <3>1. /\ items' = Refreshed([items EXCEPT ![t] = row], deps) /\ deps' = deps
            /\ [items EXCEPT ![t] = row] \in [Tasks -> Item]
            /\ row.life = items[t].life /\ row.linked = items[t].linked
            /\ row.acceptance = "accepted" => items[t].acceptance = "accepted" \/ row.stage = "done"
      BY <3>0 DEF ReviewedAs
    <3>2. items[t].stage = "review" BY <2>7 DEF Review
    <3>3. Mild([items EXCEPT ![t] = row], u) BY <3>1, <3>2, <1>0 DEF Mild
    <3>. QED BY <3>1, <3>3, MildRefresh DEF ItemStep
  <2>8. ASSUME NEW s \in Sessions, HandoffCoordinator(a, s)
        PROVE  ItemStep(u)
    BY <2>8, <1>9 DEF HandoffCoordinator, itemVars
  <2>. QED BY <1>1, <2>1, <2>2, <2>3, <2>4, <2>5, <2>6, <2>7, <2>8 DEF Planning, DependenciesOf
<1>2. ASSUME NEW a \in Actors, Doing(a) PROVE ItemStep(u)
  <2>1. ASSUME NEW i \in Attempts, BindAttemptRun(a, i)
        PROVE  ItemStep(u)
    BY <2>1, <1>9 DEF BindAttemptRun, itemVars
  <2>2. ASSUME NEW i \in Attempts, NEW outcome \in Outcomes, FinishAttempt(a, i, outcome)
        PROVE  ItemStep(u)
    BY <2>2, <1>9 DEF FinishAttempt, itemVars
  <2>3. ASSUME NEW t \in Tasks, AddResult(a, t)
        PROVE  ItemStep(u)
    BY <2>3, <1>0 DEF AddResult, ItemStep, Mild, Item
  <2>4. ASSUME NEW t \in Tasks, NEW to \in Stages, NEW kind \in ReviewKinds, Advance(a, t, to, kind)
        PROVE  ItemStep(u)
      <3>. DEFINE X == [items EXCEPT ![t].stage = to, ![t].review = IF to = "review" THEN kind ELSE "none"]
    <3>1. X \in [Tasks -> Item]
      BY <2>4, <1>0, ChoiceAssumption, ConditionAssumption DEF Advance, Item, Stages, AllConditions
    <3>2. items' = Refreshed(X, deps') BY <2>4 DEF Advance
    <3>3. Mild(X, u) BY <2>4, <1>0 DEF Advance, Mild, Item, Active, StageAllowed
    <3>. HIDE DEF X
    <3>. QED BY <3>1, <3>2, <3>3, MildRefresh DEF ItemStep
  <2>5. ASSUME NEW t \in Tasks, NEW c \in Conditions, SetCondition(a, t, c)
        PROVE  ItemStep(u)
      <3>. DEFINE X == [items EXCEPT ![t].condition = c]
    <3>1. X \in [Tasks -> Item]
      BY <2>5, <1>0, ChoiceAssumption, ConditionAssumption DEF SetCondition, Item, Stages, AllConditions
    <3>2. items' = Refreshed(X, deps') BY <2>5 DEF SetCondition
    <3>3. Mild(X, u) BY <2>5, <1>0 DEF SetCondition, Mild, Item, Active
    <3>. HIDE DEF X
    <3>. QED BY <3>1, <3>2, <3>3, MildRefresh DEF ItemStep
  <2>. QED BY <1>2, <2>1, <2>2, <2>3, <2>4, <2>5 DEF Doing
<1>3. ASSUME Server PROVE ItemStep(u)
  <2>1. ASSUME NEW i \in Attempts, UndeliveredAttemptFailed(i)
        PROVE  ItemStep(u)
    BY <2>1, <1>9 DEF UndeliveredAttemptFailed, itemVars
  <2>2. ASSUME NEW t \in Tasks, AnalysisStarted(t)
        PROVE  ItemStep(u)
    BY <2>2, <1>0 DEF AnalysisStarted, ItemStep, Mild, Item
  <2>3. ASSUME NEW t \in Tasks, AnalysisResolved(t)
        PROVE  ItemStep(u)
    BY <2>3, <1>0 DEF AnalysisResolved, ItemStep, Mild, Item
  <2>4. ASSUME NEW t \in Tasks, RequestDecision(t)
        PROVE  ItemStep(u)
    BY <2>4, <1>0 DEF RequestDecision, ItemStep, Mild, Item
  <2>5. ASSUME NEW t \in Tasks, AnswerDecision(t)
        PROVE  ItemStep(u)
      <3>. DEFINE X == [items EXCEPT ![t].condition =
                 IF requests'[t] = 0 /\ @ = "asked" THEN "none" ELSE @]
    <3>1. X \in [Tasks -> Item]
      BY <2>5, <1>0, ChoiceAssumption, ConditionAssumption DEF AnswerDecision, Item, Stages, AllConditions
    <3>2. items' = Refreshed(X, deps') BY <2>5 DEF AnswerDecision
    <3>3. Mild(X, u) BY <2>5, <1>0 DEF AnswerDecision, Mild, Item, Active
    <3>. HIDE DEF X
    <3>. QED BY <3>1, <3>2, <3>3, MildRefresh DEF ItemStep
  <2>6. ASSUME NEW t \in Tasks, FlagAttention(t)
        PROVE  ItemStep(u)
    BY <2>6, <1>0 DEF FlagAttention, ItemStep, Mild, Item
  <2>7. ASSUME NEW t \in Tasks, ClearAttention(t)
        PROVE  ItemStep(u)
    BY <2>7, <1>0 DEF ClearAttention, ItemStep, Mild, Item
  <2>. QED BY <1>3, <2>1, <2>2, <2>3, <2>4, <2>5, <2>6, <2>7 DEF Server
<1>4. ASSUME Round PROVE ItemStep(u)
  <2>1. ASSUME NEW p \in Policies, SetPolicy(p)
        PROVE  ItemStep(u)
    BY <2>1, <1>9 DEF SetPolicy, itemVars
  <2>2. ASSUME NEW s \in Sessions, AssumeCoordinator(s)
        PROVE  ItemStep(u)
    BY <2>2, <1>9 DEF AssumeCoordinator, itemVars
  <2>3. ASSUME NEW q \in Questions, QuestionChanges(q)
        PROVE  ItemStep(u)
    BY <2>3, <1>9 DEF QuestionChanges, itemVars
  <2>. QED BY <1>4, <2>1, <2>2, <2>3 DEF Round
<1>. QED BY <1>1, <1>2, <1>3, <1>4 DEF WorkNext


\* A command ends with a refresh of the whole table, or leaves alone what
\* eligibility is decided from and makes nothing ready.
Refreshes == \E X \in [Tasks -> Item] : items' = Refreshed(X, deps')
Keeps == /\ deps' = deps
         /\ \A v \in Tasks : /\ items'[v].life = items[v].life
                             /\ items'[v].acceptance = items[v].acceptance
                             /\ items'[v].stage = "ready" => items[v].stage = "ready"

\* Which of the two it is, by command.
LEMMA RefreshStep == ASSUME WorkTypeOK, WorkNext PROVE Refreshes \/ Keeps
<1>0. items \in [Tasks -> Item] BY DEF WorkTypeOK
<1>9. ASSUME items' = items, deps' = deps PROVE Keeps BY <1>9 DEF Keeps
<1>1. ASSUME NEW a \in Planners, Planning(a) PROVE Refreshes \/ Keeps
  <2>1. ASSUME NEW t \in Tasks, NEW linked \in BOOLEAN, NEW D \in SUBSET Tasks, Create(a, t, linked, D)
        PROVE  Refreshes \/ Keeps
      <3>. DEFINE X == [items EXCEPT ![t].life = "active", ![t].linked = linked]
    <3>1. X \in [Tasks -> Item]
      BY <2>1, <1>0, ChoiceAssumption, ConditionAssumption DEF Create, Item, Stages, AllConditions
    <3>2. items' = Refreshed(X, deps') BY <2>1 DEF Create
    <3>. HIDE DEF X
    <3>. QED BY <3>1, <3>2 DEF Refreshes
  <2>2. ASSUME NEW t \in Tasks, NEW added \in SUBSET Tasks,
                      NEW removed \in SUBSET Tasks, UpdatePlan(a, t, added, removed)
        PROVE  Refreshes \/ Keeps
      <3>. DEFINE X == items
    <3>1. X \in [Tasks -> Item]
      BY <2>2, <1>0, ChoiceAssumption, ConditionAssumption DEF UpdatePlan, Item, Stages, AllConditions
    <3>2. items' = Refreshed(X, deps') BY <2>2 DEF UpdatePlan
    <3>. HIDE DEF X
    <3>. QED BY <3>1, <3>2 DEF Refreshes
  <2>3. ASSUME NEW t \in Tasks, LinkRound(a, t)
        PROVE  Refreshes \/ Keeps
    BY <2>3, <1>0 DEF LinkRound, Keeps, Item
  <2>4. ASSUME NEW t \in Tasks, Close(a, t)
        PROVE  Refreshes \/ Keeps
      <3>. DEFINE X == [items EXCEPT ![t].life = "closed"]
    <3>1. X \in [Tasks -> Item]
      BY <2>4, <1>0, ChoiceAssumption, ConditionAssumption DEF Close, Item, Stages, AllConditions
    <3>2. items' = Refreshed(X, deps') BY <2>4 DEF Close
    <3>. HIDE DEF X
    <3>. QED BY <3>1, <3>2 DEF Refreshes
  <2>5. ASSUME NEW t \in Tasks, NEW s \in Sessions, Assign(a, t, s)
        PROVE  Refreshes \/ Keeps
    BY <2>5, <1>9 DEF Assign, itemVars
  <2>6. ASSUME NEW t \in Tasks, NEW k \in Keys \cup {NoKey}, NEW i \in Attempts, BeginAttempt(a, t, k, i)
        PROVE  Refreshes \/ Keeps
      <3>1. items' = [items EXCEPT ![t].stage = "executing", ![t].condition = "none"] /\ deps' = deps
      BY <2>6 DEF BeginAttempt
    <3>. QED BY <3>1, <1>0 DEF Keeps, Item
  <2>7. ASSUME NEW t \in Tasks, NEW accept \in BOOLEAN, Review(a, t, accept)
        PROVE  Refreshes \/ Keeps
      <3>0. PICK row \in Item : ReviewedAs(t, row) BY <2>7, <1>0, ReviewWrites
      <3>1. /\ items' = Refreshed([items EXCEPT ![t] = row], deps) /\ deps' = deps
            /\ [items EXCEPT ![t] = row] \in [Tasks -> Item]
      BY <3>0 DEF ReviewedAs
    <3>. QED BY <3>1 DEF Refreshes
  <2>8. ASSUME NEW s \in Sessions, HandoffCoordinator(a, s)
        PROVE  Refreshes \/ Keeps
    BY <2>8, <1>9 DEF HandoffCoordinator, itemVars
  <2>. QED BY <1>1, <2>1, <2>2, <2>3, <2>4, <2>5, <2>6, <2>7, <2>8 DEF Planning, DependenciesOf
<1>2. ASSUME NEW a \in Actors, Doing(a) PROVE Refreshes \/ Keeps
  <2>1. ASSUME NEW i \in Attempts, BindAttemptRun(a, i)
        PROVE  Refreshes \/ Keeps
    BY <2>1, <1>9 DEF BindAttemptRun, itemVars
  <2>2. ASSUME NEW i \in Attempts, NEW outcome \in Outcomes, FinishAttempt(a, i, outcome)
        PROVE  Refreshes \/ Keeps
    BY <2>2, <1>9 DEF FinishAttempt, itemVars
  <2>3. ASSUME NEW t \in Tasks, AddResult(a, t)
        PROVE  Refreshes \/ Keeps
    BY <2>3, <1>0 DEF AddResult, Keeps, Item
  <2>4. ASSUME NEW t \in Tasks, NEW to \in Stages, NEW kind \in ReviewKinds, Advance(a, t, to, kind)
        PROVE  Refreshes \/ Keeps
      <3>. DEFINE X == [items EXCEPT ![t].stage = to, ![t].review = IF to = "review" THEN kind ELSE "none"]
    <3>1. X \in [Tasks -> Item]
      BY <2>4, <1>0, ChoiceAssumption, ConditionAssumption DEF Advance, Item, Stages, AllConditions
    <3>2. items' = Refreshed(X, deps') BY <2>4 DEF Advance
    <3>. HIDE DEF X
    <3>. QED BY <3>1, <3>2 DEF Refreshes
  <2>5. ASSUME NEW t \in Tasks, NEW c \in Conditions, SetCondition(a, t, c)
        PROVE  Refreshes \/ Keeps
      <3>. DEFINE X == [items EXCEPT ![t].condition = c]
    <3>1. X \in [Tasks -> Item]
      BY <2>5, <1>0, ChoiceAssumption, ConditionAssumption DEF SetCondition, Item, Stages, AllConditions
    <3>2. items' = Refreshed(X, deps') BY <2>5 DEF SetCondition
    <3>. HIDE DEF X
    <3>. QED BY <3>1, <3>2 DEF Refreshes
  <2>. QED BY <1>2, <2>1, <2>2, <2>3, <2>4, <2>5 DEF Doing
<1>3. ASSUME Server PROVE Refreshes \/ Keeps
  <2>1. ASSUME NEW i \in Attempts, UndeliveredAttemptFailed(i)
        PROVE  Refreshes \/ Keeps
    BY <2>1, <1>9 DEF UndeliveredAttemptFailed, itemVars
  <2>2. ASSUME NEW t \in Tasks, AnalysisStarted(t)
        PROVE  Refreshes \/ Keeps
    BY <2>2, <1>0 DEF AnalysisStarted, Keeps, Item
  <2>3. ASSUME NEW t \in Tasks, AnalysisResolved(t)
        PROVE  Refreshes \/ Keeps
    BY <2>3, <1>0 DEF AnalysisResolved, Keeps, Item
  <2>4. ASSUME NEW t \in Tasks, RequestDecision(t)
        PROVE  Refreshes \/ Keeps
    BY <2>4, <1>0 DEF RequestDecision, Keeps, Item
  <2>5. ASSUME NEW t \in Tasks, AnswerDecision(t)
        PROVE  Refreshes \/ Keeps
      <3>. DEFINE X == [items EXCEPT ![t].condition =
                 IF requests'[t] = 0 /\ @ = "asked" THEN "none" ELSE @]
    <3>1. X \in [Tasks -> Item]
      BY <2>5, <1>0, ChoiceAssumption, ConditionAssumption DEF AnswerDecision, Item, Stages, AllConditions
    <3>2. items' = Refreshed(X, deps') BY <2>5 DEF AnswerDecision
    <3>. HIDE DEF X
    <3>. QED BY <3>1, <3>2 DEF Refreshes
  <2>6. ASSUME NEW t \in Tasks, FlagAttention(t)
        PROVE  Refreshes \/ Keeps
    BY <2>6, <1>0 DEF FlagAttention, Keeps, Item
  <2>7. ASSUME NEW t \in Tasks, ClearAttention(t)
        PROVE  Refreshes \/ Keeps
    BY <2>7, <1>0 DEF ClearAttention, Keeps, Item
  <2>. QED BY <1>3, <2>1, <2>2, <2>3, <2>4, <2>5, <2>6, <2>7 DEF Server
<1>4. ASSUME Round PROVE Refreshes \/ Keeps
  <2>1. ASSUME NEW p \in Policies, SetPolicy(p)
        PROVE  Refreshes \/ Keeps
    BY <2>1, <1>9 DEF SetPolicy, itemVars
  <2>2. ASSUME NEW s \in Sessions, AssumeCoordinator(s)
        PROVE  Refreshes \/ Keeps
    BY <2>2, <1>9 DEF AssumeCoordinator, itemVars
  <2>3. ASSUME NEW q \in Questions, QuestionChanges(q)
        PROVE  Refreshes \/ Keeps
    BY <2>3, <1>9 DEF QuestionChanges, itemVars
  <2>. QED BY <1>4, <2>1, <2>2, <2>3 DEF Round
<1>. QED BY <1>1, <1>2, <1>3, <1>4 DEF WorkNext


\* Dependencies stay between items that exist (create and add_dependency look
\* them up).
LEMMA DepsType ==
    ASSUME WorkTypeOK, DepsExist, AcceptedIsDone, WorkNext
    PROVE  deps' \in SUBSET (Tasks \X Tasks) /\ DepsExist'
<1>1. \A u \in Tasks : items[u].life # "absent" => items'[u].life # "absent"
  BY ItemsStep DEF ItemStep, Mild
<1>0. deps \in SUBSET (Tasks \X Tasks) /\ items \in [Tasks -> Item] BY DEF WorkTypeOK
<1>2. CASE deps' = deps BY <1>0, <1>1, <1>2 DEF DepsExist
<1>3. CASE CreatesItem
  <2>1. PICK a \in Planners, t \in Tasks, linked \in BOOLEAN, D \in SUBSET Tasks :
          Create(a, t, linked, D)
    BY <1>3 DEF CreatesItem
  <2>2. deps' = deps \cup ({t} \X D) /\ \A u \in D : items[u].life = "active"
    BY <2>1 DEF Create, Active
  <2>. DEFINE X == [items EXCEPT ![t].life = "active", ![t].linked = linked]
  <2>3. X \in [Tasks -> Item]
    <3>1. items[t] \in Item BY <1>0
    <3>2. [items[t] EXCEPT !.life = "active", !.linked = linked] \in Item BY <3>1 DEF Item
    <3>. QED BY <1>0, <3>2
  <2>4. items' = Refreshed(X, deps') /\ X[t].life = "active" BY <1>0, <2>1 DEF Create
  <2>. HIDE DEF X
  <2>5. items'[t].life # "absent"
    <3>1. Refreshed(X, deps')[t].life = X[t].life BY <2>3, RefreshedRow
    <3>. QED BY <2>4, <3>1
  <2>6. \A u \in D : items'[u].life # "absent" BY <1>1, <2>2
  <2>7. \A e \in {t} \X D : e[1] = t /\ e[2] \in D OBVIOUS
  <2>8. \A e \in deps : e[1] \in Tasks /\ e[2] \in Tasks BY <1>0
  <2>. QED BY <1>0, <1>1, <2>2, <2>5, <2>6, <2>7, <2>8 DEF DepsExist
<1>4. CASE ChangesPlan
  <2>1. PICK a \in Planners, t \in Tasks, added \in SUBSET Tasks, removed \in SUBSET Tasks :
          UpdatePlan(a, t, added, removed)
    BY <1>4 DEF ChangesPlan
  <2>. DEFINE kept == deps \ ({t} \X removed)
              new == {u \in added : <<t, u>> \notin kept}
  <2>2. /\ deps' = kept \cup ({t} \X new) /\ items[t].life = "active"
        /\ \A u \in new : items[u].life = "active"
    BY <2>1 DEF UpdatePlan, Active
  <2>3. \A e \in {t} \X new : e[1] = t /\ e[2] \in new /\ e[2] \in Tasks OBVIOUS
  <2>4. \A e \in kept : e \in deps /\ e[1] \in Tasks /\ e[2] \in Tasks BY <1>0
  <2>. HIDE DEF kept, new
  <2>5. deps' \in SUBSET (Tasks \X Tasks) BY <1>0, <2>2 DEF kept, new
  <2>. QED BY <1>0, <1>1, <2>2, <2>3, <2>4, <2>5 DEF DepsExist
<1>. QED BY <1>2, <1>3, <1>4, DepsStep

\* No plan change closes a cycle: create depends on nothing that depends on the
\* new item, add_dependency asks reaches.
LEMMA AcyclicStep ==
    ASSUME WorkTypeOK, DepsExist, DependenciesAcyclic, WorkNext
    PROVE  DependenciesAcyclic'
<1>0. deps \in SUBSET (Tasks \X Tasks) BY DEF WorkTypeOK
<1>1. Sinks(deps) BY DEF DependenciesAcyclic, Sinks
<1>. SUFFICES Sinks(deps') BY DEF DependenciesAcyclic, Sinks
<1>2. CASE deps' = deps BY <1>1, <1>2
<1>3. CASE CreatesItem
  <2>1. PICK a \in Planners, t \in Tasks, linked \in BOOLEAN, D \in SUBSET Tasks :
          Create(a, t, linked, D)
    BY <1>3 DEF CreatesItem
  <2>2. /\ deps' = deps \cup ({t} \X D) /\ items[t].life = "absent"
        /\ \A u \in D : items[u].life = "active"
    BY <2>1 DEF Create, Active
  <2>3. \A u \in D : u # t /\ ~Reaches(deps, u, t)
    <3>. SUFFICES ASSUME NEW u \in D PROVE u # t /\ ~Reaches(deps, u, t) OBVIOUS
    <3>1. u \in Tasks \ {t} BY <2>2
    <3>2. \A e \in deps : e[2] \in Tasks \ {t} BY <1>0, <2>2 DEF DepsExist
    <3>. QED BY <3>1, <3>2 DEF Reaches
  <2>. QED BY <1>0, <1>1, <2>2, <2>3, AddedEdges
<1>4. CASE ChangesPlan
  <2>1. PICK a \in Planners, t \in Tasks, added \in SUBSET Tasks, removed \in SUBSET Tasks :
          UpdatePlan(a, t, added, removed)
    BY <1>4 DEF ChangesPlan
  <2>. DEFINE kept == deps \ ({t} \X removed)
              new == {u \in added : <<t, u>> \notin kept}
  <2>2. deps' = kept \cup ({t} \X new) /\ \A u \in new : u # t /\ ~Reaches(kept, u, t)
    BY <2>1 DEF UpdatePlan
  <2>3. kept \in SUBSET (Tasks \X Tasks) /\ kept \in SUBSET deps /\ new \in SUBSET Tasks BY <1>0
  <2>. HIDE DEF kept, new
  <2>4. Sinks(kept) BY <1>1, <2>3, FewerEdges
  <2>. QED BY <2>2, <2>3, <2>4, AddedEdges
<1>. QED BY <1>2, <1>3, <1>4, DepsStep

\* After every command a ready item waits for nothing.
LEMMA ReadyStep ==
    ASSUME WorkTypeOK, ReadyNeverWaits, DepsExist, AcceptedIsDone, WorkNext
    PROVE  ReadyNeverWaits'
<1>0. deps \in SUBSET (Tasks \X Tasks) BY DEF WorkTypeOK
<1>1. CASE Refreshes
  <2>1. PICK X \in [Tasks -> Item] : items' = Refreshed(X, deps') BY <1>1 DEF Refreshes
  <2>2. deps' \in SUBSET (Tasks \X Tasks) BY DepsType
  <2>. QED BY <2>1, <2>2, RefreshedReady DEF ReadyNeverWaits, Active
<1>2. CASE Keeps
  <2>. SUFFICES ASSUME NEW t \in Tasks, items'[t].life = "active", items'[t].stage = "ready"
                PROVE  \/ DependenciesAccepted(items', deps', t)
                       \/ ClosedDependency(items', deps', t)
    BY DEF ReadyNeverWaits, Active
  <2>1. DependenciesAccepted(items, deps, t) \/ ClosedDependency(items, deps, t)
    BY <1>2 DEF Keeps, ReadyNeverWaits, Active
  <2>2. /\ deps' = deps
        /\ \A e \in deps : /\ items'[e[2]].acceptance = items[e[2]].acceptance
                           /\ items'[e[2]].life = items[e[2]].life
    BY <1>0, <1>2 DEF Keeps
  <2>. QED BY <2>1, <2>2 DEF DependenciesAccepted, ClosedDependency
<1>. QED BY <1>1, <1>2, RefreshStep


-----------------------------------------------------------------------------
(* Assignments and attempts. *)

\* The assigned Session is one of the Sessions or nobody.
LEMMA AssigneeType ==
    ASSUME WorkTypeOK, WorkNext PROVE assignee' \in [Tasks -> Sessions \cup {NoSession}]
<1>0. assignee \in [Tasks -> Sessions \cup {NoSession}] BY DEF WorkTypeOK
<1>1. ASSUME NEW a \in Planners, Planning(a) PROVE assignee' \in [Tasks -> Sessions \cup {NoSession}]
  <2>1. ASSUME NEW t \in Tasks, NEW linked \in BOOLEAN, NEW D \in SUBSET Tasks, Create(a, t, linked, D)
        PROVE  assignee' \in [Tasks -> Sessions \cup {NoSession}]
    BY <2>1, <1>0 DEF Create, itemVars
  <2>2. ASSUME NEW t \in Tasks, NEW added \in SUBSET Tasks,
                      NEW removed \in SUBSET Tasks, UpdatePlan(a, t, added, removed)
        PROVE  assignee' \in [Tasks -> Sessions \cup {NoSession}]
    BY <2>2, <1>0 DEF UpdatePlan, itemVars
  <2>3. ASSUME NEW t \in Tasks, LinkRound(a, t)
        PROVE  assignee' \in [Tasks -> Sessions \cup {NoSession}]
    BY <2>3, <1>0 DEF LinkRound, itemVars
  <2>4. ASSUME NEW t \in Tasks, Close(a, t)
        PROVE  assignee' \in [Tasks -> Sessions \cup {NoSession}]
    BY <2>4, <1>0 DEF Close, itemVars
  <2>5. ASSUME NEW t \in Tasks, NEW s \in Sessions, Assign(a, t, s)
        PROVE  assignee' \in [Tasks -> Sessions \cup {NoSession}]
    BY <2>5, <1>0 DEF Assign, itemVars
  <2>6. ASSUME NEW t \in Tasks, NEW k \in Keys \cup {NoKey}, NEW i \in Attempts, BeginAttempt(a, t, k, i)
        PROVE  assignee' \in [Tasks -> Sessions \cup {NoSession}]
    BY <2>6, <1>0 DEF BeginAttempt, itemVars
  <2>7. ASSUME NEW t \in Tasks, NEW accept \in BOOLEAN, Review(a, t, accept)
        PROVE  assignee' \in [Tasks -> Sessions \cup {NoSession}]
    BY <2>7, <1>0 DEF Review, itemVars
  <2>8. ASSUME NEW s \in Sessions, HandoffCoordinator(a, s)
        PROVE  assignee' \in [Tasks -> Sessions \cup {NoSession}]
    BY <2>8, <1>0 DEF HandoffCoordinator, itemVars
  <2>. QED BY <1>1, <2>1, <2>2, <2>3, <2>4, <2>5, <2>6, <2>7, <2>8 DEF Planning, DependenciesOf
<1>2. ASSUME NEW a \in Actors, Doing(a) PROVE assignee' \in [Tasks -> Sessions \cup {NoSession}]
  <2>1. ASSUME NEW i \in Attempts, BindAttemptRun(a, i)
        PROVE  assignee' \in [Tasks -> Sessions \cup {NoSession}]
    BY <2>1, <1>0 DEF BindAttemptRun, itemVars
  <2>2. ASSUME NEW i \in Attempts, NEW outcome \in Outcomes, FinishAttempt(a, i, outcome)
        PROVE  assignee' \in [Tasks -> Sessions \cup {NoSession}]
    BY <2>2, <1>0 DEF FinishAttempt, itemVars
  <2>3. ASSUME NEW t \in Tasks, AddResult(a, t)
        PROVE  assignee' \in [Tasks -> Sessions \cup {NoSession}]
    BY <2>3, <1>0 DEF AddResult, itemVars
  <2>4. ASSUME NEW t \in Tasks, NEW to \in Stages, NEW kind \in ReviewKinds, Advance(a, t, to, kind)
        PROVE  assignee' \in [Tasks -> Sessions \cup {NoSession}]
    BY <2>4, <1>0 DEF Advance, itemVars
  <2>5. ASSUME NEW t \in Tasks, NEW c \in Conditions, SetCondition(a, t, c)
        PROVE  assignee' \in [Tasks -> Sessions \cup {NoSession}]
    BY <2>5, <1>0 DEF SetCondition, itemVars
  <2>. QED BY <1>2, <2>1, <2>2, <2>3, <2>4, <2>5 DEF Doing
<1>3. ASSUME Server PROVE assignee' \in [Tasks -> Sessions \cup {NoSession}]
  <2>1. ASSUME NEW i \in Attempts, UndeliveredAttemptFailed(i)
        PROVE  assignee' \in [Tasks -> Sessions \cup {NoSession}]
    BY <2>1, <1>0 DEF UndeliveredAttemptFailed, itemVars
  <2>2. ASSUME NEW t \in Tasks, AnalysisStarted(t)
        PROVE  assignee' \in [Tasks -> Sessions \cup {NoSession}]
    BY <2>2, <1>0 DEF AnalysisStarted, itemVars
  <2>3. ASSUME NEW t \in Tasks, AnalysisResolved(t)
        PROVE  assignee' \in [Tasks -> Sessions \cup {NoSession}]
    BY <2>3, <1>0 DEF AnalysisResolved, itemVars
  <2>4. ASSUME NEW t \in Tasks, RequestDecision(t)
        PROVE  assignee' \in [Tasks -> Sessions \cup {NoSession}]
    BY <2>4, <1>0 DEF RequestDecision, itemVars
  <2>5. ASSUME NEW t \in Tasks, AnswerDecision(t)
        PROVE  assignee' \in [Tasks -> Sessions \cup {NoSession}]
    BY <2>5, <1>0 DEF AnswerDecision, itemVars
  <2>6. ASSUME NEW t \in Tasks, FlagAttention(t)
        PROVE  assignee' \in [Tasks -> Sessions \cup {NoSession}]
    BY <2>6, <1>0 DEF FlagAttention, itemVars
  <2>7. ASSUME NEW t \in Tasks, ClearAttention(t)
        PROVE  assignee' \in [Tasks -> Sessions \cup {NoSession}]
    BY <2>7, <1>0 DEF ClearAttention, itemVars
  <2>. QED BY <1>3, <2>1, <2>2, <2>3, <2>4, <2>5, <2>6, <2>7 DEF Server
<1>4. ASSUME Round PROVE assignee' \in [Tasks -> Sessions \cup {NoSession}]
  <2>1. ASSUME NEW p \in Policies, SetPolicy(p)
        PROVE  assignee' \in [Tasks -> Sessions \cup {NoSession}]
    BY <2>1, <1>0 DEF SetPolicy, itemVars
  <2>2. ASSUME NEW s \in Sessions, AssumeCoordinator(s)
        PROVE  assignee' \in [Tasks -> Sessions \cup {NoSession}]
    BY <2>2, <1>0 DEF AssumeCoordinator, itemVars
  <2>3. ASSUME NEW q \in Questions, QuestionChanges(q)
        PROVE  assignee' \in [Tasks -> Sessions \cup {NoSession}]
    BY <2>3, <1>0 DEF QuestionChanges, itemVars
  <2>. QED BY <1>4, <2>1, <2>2, <2>3 DEF Round
<1>. QED BY <1>1, <1>2, <1>3, <1>4 DEF WorkNext

\* While an attempt stays open its item stays active, and stays with the Session
\* assigned to it unless it is done.
HeldBy(u) == /\ items'[u].life = "active"
             /\ items'[u].stage = "done" \/ assignee'[u] = assignee[u]

\* assign refuses an item with an open attempt, close cancels the attempt, an
\* accepted result makes the item done.
LEMMA HeldStep ==
    ASSUME WorkTypeOK, WorkNext, NEW j \in Attempts, NEW u \in Tasks, j \in AttemptsOf(u),
           Open(j), attempts'[j].status \in OpenStatus, items[u].life = "active"
    PROVE  HeldBy(u)
<1>0. items \in [Tasks -> Item] /\ assignee \in [Tasks -> Sessions \cup {NoSession}]
  BY DEF WorkTypeOK
<1>8. HasOpenAttempt(u) BY DEF HasOpenAttempt
<1>9. ASSUME items' = items, assignee' = assignee PROVE HeldBy(u) BY <1>9 DEF HeldBy

<1>1. ASSUME NEW a \in Planners, Planning(a) PROVE HeldBy(u)
  <2>1. ASSUME NEW t \in Tasks, NEW linked \in BOOLEAN, NEW D \in SUBSET Tasks, Create(a, t, linked, D)
        PROVE  HeldBy(u)
      <3>. DEFINE X == [items EXCEPT ![t].life = "active", ![t].linked = linked]
    <3>1. X \in [Tasks -> Item]
      BY <2>1, <1>0, ChoiceAssumption, ConditionAssumption DEF Create, Item, Stages, AllConditions
    <3>2. items' = Refreshed(X, deps') BY <2>1 DEF Create
    <3>3. X[u].life = "active" /\ assignee'[u] = assignee[u]
      BY <2>1, <1>0 DEF Create, Item
    <3>. HIDE DEF X
    <3>. QED BY <3>1, <3>2, <3>3, RefreshedRow DEF HeldBy
  <2>2. ASSUME NEW t \in Tasks, NEW added \in SUBSET Tasks,
                      NEW removed \in SUBSET Tasks, UpdatePlan(a, t, added, removed)
        PROVE  HeldBy(u)
    BY <2>2, <1>0, RefreshedRow DEF UpdatePlan, HeldBy
  <2>3. ASSUME NEW t \in Tasks, LinkRound(a, t)
        PROVE  HeldBy(u)
    BY <2>3, <1>0 DEF LinkRound, HeldBy, Item
  <2>4. ASSUME NEW t \in Tasks, Close(a, t)
        PROVE  HeldBy(u)
      <3>. DEFINE X == [items EXCEPT ![t].life = "closed"]
    <3>1. t # u
      <4>1. SUFFICES ASSUME t = u PROVE FALSE OBVIOUS
      <4>2. attempts'[j] = [attempts[j] EXCEPT !.status = "cancelled"] BY <2>4, <4>1 DEF Close
      <4>3. attempts[j] \in Attempt BY DEF WorkTypeOK
      <4>. QED BY <4>2, <4>3 DEF OpenStatus, Attempt
    <3>2. X \in [Tasks -> Item] /\ X[u].life = "active" BY <1>0, <3>1 DEF Item
    <3>3. items' = Refreshed(X, deps) /\ assignee'[u] = assignee[u] BY <2>4, <3>1, <1>0 DEF Close
    <3>. HIDE DEF X
    <3>. QED BY <3>2, <3>3, RefreshedRow DEF HeldBy
  <2>5. ASSUME NEW t \in Tasks, NEW s \in Sessions, Assign(a, t, s)
        PROVE  HeldBy(u)
    BY <2>5, <1>0, <1>8 DEF Assign, HeldBy
  <2>6. ASSUME NEW t \in Tasks, NEW k \in Keys \cup {NoKey}, NEW i \in Attempts, BeginAttempt(a, t, k, i)
        PROVE  HeldBy(u)
      <3>1. /\ items' = [items EXCEPT ![t].stage = "executing", ![t].condition = "none"]
          /\ assignee' = assignee
      BY <2>6 DEF BeginAttempt
    <3>. QED BY <3>1, <1>0 DEF HeldBy, Item
  <2>7. ASSUME NEW t \in Tasks, NEW accept \in BOOLEAN, Review(a, t, accept)
        PROVE  HeldBy(u)
      <3>0. PICK row \in Item : ReviewedAs(t, row) BY <2>7, <1>0, ReviewWrites
      <3>1. /\ items' = Refreshed([items EXCEPT ![t] = row], deps)
            /\ [items EXCEPT ![t] = row] \in [Tasks -> Item]
            /\ row.life = items[t].life
            /\ assignee' = assignee \/ row.stage = "done"
      BY <3>0 DEF ReviewedAs
    <3>2. items' = Refreshed([items EXCEPT ![t] = row], deps) BY <3>1
    <3>3. assignee'[t] = assignee[t] \/ row.stage = "done" BY <3>1
    <3>4. u # t => assignee'[u] = assignee[u] BY <2>7, <1>0 DEF Review
    <3>5. [items EXCEPT ![t] = row] \in [Tasks -> Item] BY <3>1
    <3>. DEFINE Y == [items EXCEPT ![t] = row]
    <3>6. /\ Y[u].life = items[u].life
          /\ u # t => Y[u].stage = items[u].stage
          /\ u = t => Y[u].stage = row.stage
      BY <3>1, <1>0
    <3>. HIDE DEF Y
    <3>7. /\ items'[u].life = Y[u].life
          /\ \/ items'[u].stage = Y[u].stage
             \/ {items'[u].stage, Y[u].stage} \subseteq {"planned", "ready"}
      BY <3>2, <3>5, RefreshedRow DEF Y
    <3>. QED BY <1>0, <3>3, <3>4, <3>6, <3>7 DEF HeldBy
  <2>8. ASSUME NEW s \in Sessions, HandoffCoordinator(a, s)
        PROVE  HeldBy(u)
    BY <2>8, <1>9 DEF HandoffCoordinator, itemVars
  <2>. QED BY <1>1, <2>1, <2>2, <2>3, <2>4, <2>5, <2>6, <2>7, <2>8 DEF Planning, DependenciesOf
<1>2. ASSUME NEW a \in Actors, Doing(a) PROVE HeldBy(u)
  <2>1. ASSUME NEW i \in Attempts, BindAttemptRun(a, i)
        PROVE  HeldBy(u)
    BY <2>1, <1>9 DEF BindAttemptRun, itemVars
  <2>2. ASSUME NEW i \in Attempts, NEW outcome \in Outcomes, FinishAttempt(a, i, outcome)
        PROVE  HeldBy(u)
    BY <2>2, <1>9 DEF FinishAttempt, itemVars
  <2>3. ASSUME NEW t \in Tasks, AddResult(a, t)
        PROVE  HeldBy(u)
    BY <2>3, <1>0 DEF AddResult, HeldBy, Item
  <2>4. ASSUME NEW t \in Tasks, NEW to \in Stages, NEW kind \in ReviewKinds, Advance(a, t, to, kind)
        PROVE  HeldBy(u)
      <3>. DEFINE X == [items EXCEPT ![t].stage = to, ![t].review = IF to = "review" THEN kind ELSE "none"]
    <3>1. X \in [Tasks -> Item]
      BY <2>4, <1>0, ChoiceAssumption, ConditionAssumption DEF Advance, Item, Stages, AllConditions
    <3>2. items' = Refreshed(X, deps') BY <2>4 DEF Advance
    <3>3. X[u].life = "active" /\ assignee'[u] = assignee[u]
      BY <2>4, <1>0 DEF Advance, Item
    <3>. HIDE DEF X
    <3>. QED BY <3>1, <3>2, <3>3, RefreshedRow DEF HeldBy
  <2>5. ASSUME NEW t \in Tasks, NEW c \in Conditions, SetCondition(a, t, c)
        PROVE  HeldBy(u)
      <3>. DEFINE X == [items EXCEPT ![t].condition = c]
    <3>1. X \in [Tasks -> Item]
      BY <2>5, <1>0, ChoiceAssumption, ConditionAssumption DEF SetCondition, Item, Stages, AllConditions
    <3>2. items' = Refreshed(X, deps') BY <2>5 DEF SetCondition
    <3>3. X[u].life = "active" /\ assignee'[u] = assignee[u]
      BY <2>5, <1>0 DEF SetCondition, Item
    <3>. HIDE DEF X
    <3>. QED BY <3>1, <3>2, <3>3, RefreshedRow DEF HeldBy
  <2>. QED BY <1>2, <2>1, <2>2, <2>3, <2>4, <2>5 DEF Doing
<1>3. ASSUME Server PROVE HeldBy(u)
  <2>1. ASSUME NEW i \in Attempts, UndeliveredAttemptFailed(i)
        PROVE  HeldBy(u)
    BY <2>1, <1>9 DEF UndeliveredAttemptFailed, itemVars
  <2>2. ASSUME NEW t \in Tasks, AnalysisStarted(t)
        PROVE  HeldBy(u)
    BY <2>2, <1>0 DEF AnalysisStarted, HeldBy, Item
  <2>3. ASSUME NEW t \in Tasks, AnalysisResolved(t)
        PROVE  HeldBy(u)
    BY <2>3, <1>0 DEF AnalysisResolved, HeldBy, Item
  <2>4. ASSUME NEW t \in Tasks, RequestDecision(t)
        PROVE  HeldBy(u)
    BY <2>4, <1>0 DEF RequestDecision, HeldBy, Item
  <2>5. ASSUME NEW t \in Tasks, AnswerDecision(t)
        PROVE  HeldBy(u)
      <3>. DEFINE X == [items EXCEPT ![t].condition =
                 IF requests'[t] = 0 /\ @ = "asked" THEN "none" ELSE @]
    <3>1. X \in [Tasks -> Item]
      BY <2>5, <1>0, ChoiceAssumption, ConditionAssumption DEF AnswerDecision, Item, Stages, AllConditions
    <3>2. items' = Refreshed(X, deps') BY <2>5 DEF AnswerDecision
    <3>3. X[u].life = "active" /\ assignee'[u] = assignee[u]
      BY <2>5, <1>0 DEF AnswerDecision, Item
    <3>. HIDE DEF X
    <3>. QED BY <3>1, <3>2, <3>3, RefreshedRow DEF HeldBy
  <2>6. ASSUME NEW t \in Tasks, FlagAttention(t)
        PROVE  HeldBy(u)
    BY <2>6, <1>0 DEF FlagAttention, HeldBy, Item
  <2>7. ASSUME NEW t \in Tasks, ClearAttention(t)
        PROVE  HeldBy(u)
    BY <2>7, <1>0 DEF ClearAttention, HeldBy, Item
  <2>. QED BY <1>3, <2>1, <2>2, <2>3, <2>4, <2>5, <2>6, <2>7 DEF Server
<1>4. ASSUME Round PROVE HeldBy(u)
  <2>1. ASSUME NEW p \in Policies, SetPolicy(p)
        PROVE  HeldBy(u)
    BY <2>1, <1>9 DEF SetPolicy, itemVars
  <2>2. ASSUME NEW s \in Sessions, AssumeCoordinator(s)
        PROVE  HeldBy(u)
    BY <2>2, <1>9 DEF AssumeCoordinator, itemVars
  <2>3. ASSUME NEW q \in Questions, QuestionChanges(q)
        PROVE  HeldBy(u)
    BY <2>3, <1>9 DEF QuestionChanges, itemVars
  <2>. QED BY <1>4, <2>1, <2>2, <2>3 DEF Round
<1>. QED BY <1>1, <1>2, <1>3, <1>4 DEF WorkNext

\* Attempts stay with an item of the round, and with its Session.
LEMMA HoldStep ==
    ASSUME WorkInv, WorkNext PROVE OpenAttemptIsHeld' /\ UsedIsLinked' /\ OneAttemptPerKey'
<1>0. /\ attempts \in [Attempts -> Attempt] /\ items \in [Tasks -> Item]
      /\ WorkTypeOK /\ AcceptedIsDone
  BY DEF WorkInv, WorkTypeOK
<1>1. \A u \in Tasks : Mild(items', u) BY <1>0, ItemsStep DEF ItemStep
<1>2. CASE AttemptsProgress
  <2>1. \A i \in Used' : /\ i \in Used /\ i \in Attempts
                         /\ attempts'[i].task = attempts[i].task
                         /\ attempts'[i].session = attempts[i].session
                         /\ attempts'[i].key = attempts[i].key
    BY <1>2 DEF AttemptsProgress, Used, Open, OpenStatus
  <2>2. \A i \in Used' : attempts'[i].status \in OpenStatus => Open(i)
    BY <1>2 DEF AttemptsProgress, Used, Open
  <2>3. UsedIsLinked' BY <1>1, <2>1 DEF WorkInv, UsedIsLinked, Mild
  <2>4. OneAttemptPerKey' BY <2>1 DEF WorkInv, OneAttemptPerKey
  <2>5. OpenAttemptIsHeld'
    <3>. SUFFICES ASSUME NEW i \in Used', attempts'[i].status \in OpenStatus
                  PROVE  /\ items'[attempts'[i].task].life = "active"
                         /\ items'[attempts'[i].task].linked
                         /\ items'[attempts'[i].task].stage # "done"
                              => assignee'[attempts'[i].task] = attempts'[i].session
                         /\ \A j \in Used' : attempts'[j].task = attempts'[i].task /\ j # i
                              => attempts'[j].status \notin OpenStatus
      BY DEF OpenAttemptIsHeld, Open, Active, AttemptsOf
    <3>. DEFINE t == attempts[i].task
    <3>1. i \in Used /\ i \in Attempts /\ Open(i) BY <2>1, <2>2
    <3>2. t \in Tasks BY <3>1 DEF WorkInv, UsedIsLinked
    <3>3. /\ Active(t) /\ items[t].linked
          /\ items[t].stage # "done" => assignee[t] = attempts[i].session
          /\ \A j \in AttemptsOf(t) \ {i} : ~Open(j)
      BY <3>1 DEF WorkInv, OpenAttemptIsHeld
    <3>4. i \in AttemptsOf(t) BY <3>1 DEF AttemptsOf
    <3>5. HeldBy(t) BY <1>0, <3>1, <3>2, <3>3, <3>4, HeldStep DEF Active
    <3>6. items'[t].linked /\ (items[t].stage = "done" => items'[t].stage = "done")
      BY <1>1, <3>2, <3>3 DEF Mild, Active
    <3>7. \A j \in Used' : attempts'[j].task = t /\ j # i => attempts'[j].status \notin OpenStatus
      BY <2>1, <2>2, <3>3 DEF AttemptsOf
    <3>8. attempts'[i].task = t /\ attempts'[i].session = attempts[i].session BY <2>1
    <3>. HIDE DEF t
    <3>. QED BY <3>3, <3>5, <3>6, <3>7, <3>8 DEF HeldBy, Active
  <2>. QED BY <2>3, <2>4, <2>5
<1>3. CASE BeginsAttempt
  <2>1. PICK a \in Planners, t \in Tasks, k \in Keys \cup {NoKey}, i \in Attempts :
          BeginAttempt(a, t, k, i)
    BY <1>3 DEF BeginsAttempt
  <2>2. /\ attempts' = [attempts EXCEPT ![i] = [status |-> "queued", task |-> t,
                                                session |-> assignee[t], key |-> k]]
        /\ items' = [items EXCEPT ![t].stage = "executing", ![t].condition = "none"]
        /\ assignee' = assignee /\ i \notin Used
        /\ Active(t) /\ items[t].linked /\ ~HasOpenAttempt(t) /\ NewKey(t, k)
    BY <2>1 DEF BeginAttempt
  <2>3. Used' = Used \cup {i} BY <1>0, <2>2 DEF Used
  <2>4. \A j \in Used : j # i /\ attempts'[j] = attempts[j] BY <1>0, <2>2 DEF Used
  <2>5. /\ attempts'[i].status = "queued" /\ attempts'[i].task = t
        /\ attempts'[i].session = assignee[t] /\ attempts'[i].key = k
    <3>1. attempts'[i] = [status |-> "queued", task |-> t, session |-> assignee[t], key |-> k]
      BY <1>0, <2>2
    <3>. QED BY <3>1
  <2>6. \A u \in Tasks : /\ items'[u].life = items[u].life
                         /\ items'[u].linked = items[u].linked
                         /\ u # t => items'[u].stage = items[u].stage
    BY <1>0, <2>2 DEF Item
  <2>7. UsedIsLinked'
    <3>1. items[t].life # "absent" /\ items[t].linked BY <2>2 DEF Active
    <3>2. \A j \in Used : /\ attempts[j].task \in Tasks /\ items[attempts[j].task].life # "absent"
                          /\ items[attempts[j].task].linked
      BY DEF WorkInv, UsedIsLinked
    <3>. SUFFICES ASSUME NEW j \in Used'
                  PROVE  /\ attempts'[j].task \in Tasks
                         /\ items'[attempts'[j].task].life # "absent"
                         /\ items'[attempts'[j].task].linked
      BY DEF UsedIsLinked
    <3>3. CASE j = i BY <2>5, <2>6, <3>1, <3>3
    <3>4. CASE j \in Used BY <2>4, <2>6, <3>2, <3>4
    <3>. QED BY <2>3, <3>3, <3>4

  <2>8. OneAttemptPerKey'
    BY <2>2, <2>3, <2>4, <2>5 DEF WorkInv, OneAttemptPerKey, NewKey, AttemptsOf
  <2>9. \A j \in Used : Open(j) => attempts[j].task # t
    BY <2>2 DEF HasOpenAttempt, AttemptsOf
  <2>10. OpenAttemptIsHeld'
    <3>. SUFFICES ASSUME NEW n \in Used', attempts'[n].status \in OpenStatus
                  PROVE  /\ items'[attempts'[n].task].life = "active"
                         /\ items'[attempts'[n].task].linked
                         /\ items'[attempts'[n].task].stage # "done"
                              => assignee'[attempts'[n].task] = attempts'[n].session
                         /\ \A j \in Used' : attempts'[j].task = attempts'[n].task /\ j # n
                              => attempts'[j].status \notin OpenStatus
      BY DEF OpenAttemptIsHeld, Open, Active, AttemptsOf
    <3>1. CASE n = i
      <4>1. \A j \in Used' : attempts'[j].task = t /\ j # i => attempts'[j].status \notin OpenStatus
        BY <2>3, <2>4, <2>9 DEF Open
      <4>2. items[t].life = "active" /\ items[t].linked BY <2>2 DEF Active
      <4>3. items'[t].life = "active" /\ items'[t].linked BY <4>2, <2>6
      <4>4. assignee'[t] = assignee[t] BY <2>2
      <4>. HIDE <2>2
      <4>. QED BY <3>1, <4>1, <4>3, <4>4, <2>5
    <3>2. CASE n # i
      <4>. DEFINE u == attempts[n].task
      <4>1. n \in Used /\ attempts'[n] = attempts[n] /\ Open(n)
        BY <3>2, <2>3, <2>4 DEF Open
      <4>2. u \in Tasks /\ u # t BY <4>1, <2>9 DEF WorkInv, UsedIsLinked
      <4>3. /\ Active(u) /\ items[u].linked
            /\ items[u].stage # "done" => assignee[u] = attempts[n].session
            /\ \A j \in AttemptsOf(u) \ {n} : ~Open(j)
        BY <4>1 DEF WorkInv, OpenAttemptIsHeld
      <4>4. \A j \in Used' : attempts'[j].task = u /\ j # n => attempts'[j].status \notin OpenStatus
        BY <2>3, <2>4, <2>5, <4>2, <4>3 DEF AttemptsOf, Open
      <4>5. assignee'[u] = assignee[u] /\ attempts'[n].task = u BY <4>1, <2>2
      <4>6. attempts'[n].session = attempts[n].session BY <4>1
      <4>. HIDE DEF u
      <4>. QED BY <4>2, <4>3, <4>4, <4>5, <4>6, <2>6 DEF Active
    <3>. QED BY <3>1, <3>2
  <2>. QED BY <2>7, <2>8, <2>10
<1>. QED BY <1>0, <1>2, <1>3, AttemptsStep


-----------------------------------------------------------------------------
(* The round, and the ledger it keeps. *)

RoundSame == policy' = policy /\ seats' = seats /\ question' \in Questions
Reseats == /\ attempts' = attempts /\ policy' = policy /\ question' \in Questions
           /\ \E s \in Sessions : seats' = Append(seats, s)
Relimits == /\ attempts' = attempts /\ seats' = seats /\ spoken' = spoken
            /\ policy' \in Policies /\ question' \in Questions

\* The limits and the coordinator change only by commands of their own.
LEMMA RoundStep == ASSUME WorkTypeOK, WorkNext PROVE RoundSame \/ Reseats \/ Relimits
<1>0. question \in Questions /\ policy \in Policies BY DEF WorkTypeOK
<1>1. ASSUME NEW a \in Planners, Planning(a) PROVE RoundSame \/ Reseats \/ Relimits
  <2>1. ASSUME NEW t \in Tasks, NEW linked \in BOOLEAN, NEW D \in SUBSET Tasks, Create(a, t, linked, D)
        PROVE  RoundSame \/ Reseats \/ Relimits
    BY <2>1, <1>0 DEF Create, roundVars, RoundSame
  <2>2. ASSUME NEW t \in Tasks, NEW added \in SUBSET Tasks,
                      NEW removed \in SUBSET Tasks, UpdatePlan(a, t, added, removed)
        PROVE  RoundSame \/ Reseats \/ Relimits
    BY <2>2, <1>0 DEF UpdatePlan, roundVars, RoundSame
  <2>3. ASSUME NEW t \in Tasks, LinkRound(a, t)
        PROVE  RoundSame \/ Reseats \/ Relimits
    BY <2>3, <1>0 DEF LinkRound, roundVars, RoundSame
  <2>4. ASSUME NEW t \in Tasks, Close(a, t)
        PROVE  RoundSame \/ Reseats \/ Relimits
    BY <2>4, <1>0 DEF Close, roundVars, RoundSame
  <2>5. ASSUME NEW t \in Tasks, NEW s \in Sessions, Assign(a, t, s)
        PROVE  RoundSame \/ Reseats \/ Relimits
    BY <2>5, <1>0 DEF Assign, roundVars, RoundSame
  <2>6. ASSUME NEW t \in Tasks, NEW k \in Keys \cup {NoKey}, NEW i \in Attempts, BeginAttempt(a, t, k, i)
        PROVE  RoundSame \/ Reseats \/ Relimits
    BY <2>6, <1>0 DEF BeginAttempt, roundVars, RoundSame
  <2>7. ASSUME NEW t \in Tasks, NEW accept \in BOOLEAN, Review(a, t, accept)
        PROVE  RoundSame \/ Reseats \/ Relimits
    BY <2>7, <1>0 DEF Review, roundVars, RoundSame
  <2>8. ASSUME NEW s \in Sessions, HandoffCoordinator(a, s)
        PROVE  RoundSame \/ Reseats \/ Relimits
    BY <2>8, <1>0 DEF HandoffCoordinator, itemVars, Reseats
  <2>. QED BY <1>1, <2>1, <2>2, <2>3, <2>4, <2>5, <2>6, <2>7, <2>8 DEF Planning, DependenciesOf
<1>2. ASSUME NEW a \in Actors, Doing(a) PROVE RoundSame \/ Reseats \/ Relimits
  <2>1. ASSUME NEW i \in Attempts, BindAttemptRun(a, i)
        PROVE  RoundSame \/ Reseats \/ Relimits
    BY <2>1, <1>0 DEF BindAttemptRun, roundVars, RoundSame
  <2>2. ASSUME NEW i \in Attempts, NEW outcome \in Outcomes, FinishAttempt(a, i, outcome)
        PROVE  RoundSame \/ Reseats \/ Relimits
    BY <2>2, <1>0 DEF FinishAttempt, roundVars, RoundSame
  <2>3. ASSUME NEW t \in Tasks, AddResult(a, t)
        PROVE  RoundSame \/ Reseats \/ Relimits
    BY <2>3, <1>0 DEF AddResult, roundVars, RoundSame
  <2>4. ASSUME NEW t \in Tasks, NEW to \in Stages, NEW kind \in ReviewKinds, Advance(a, t, to, kind)
        PROVE  RoundSame \/ Reseats \/ Relimits
    BY <2>4, <1>0 DEF Advance, roundVars, RoundSame
  <2>5. ASSUME NEW t \in Tasks, NEW c \in Conditions, SetCondition(a, t, c)
        PROVE  RoundSame \/ Reseats \/ Relimits
    BY <2>5, <1>0 DEF SetCondition, roundVars, RoundSame
  <2>. QED BY <1>2, <2>1, <2>2, <2>3, <2>4, <2>5 DEF Doing
<1>3. ASSUME Server PROVE RoundSame \/ Reseats \/ Relimits
  <2>1. ASSUME NEW i \in Attempts, UndeliveredAttemptFailed(i)
        PROVE  RoundSame \/ Reseats \/ Relimits
    BY <2>1, <1>0 DEF UndeliveredAttemptFailed, roundVars, RoundSame
  <2>2. ASSUME NEW t \in Tasks, AnalysisStarted(t)
        PROVE  RoundSame \/ Reseats \/ Relimits
    BY <2>2, <1>0 DEF AnalysisStarted, roundVars, RoundSame
  <2>3. ASSUME NEW t \in Tasks, AnalysisResolved(t)
        PROVE  RoundSame \/ Reseats \/ Relimits
    BY <2>3, <1>0 DEF AnalysisResolved, roundVars, RoundSame
  <2>4. ASSUME NEW t \in Tasks, RequestDecision(t)
        PROVE  RoundSame \/ Reseats \/ Relimits
    BY <2>4, <1>0 DEF RequestDecision, roundVars, RoundSame
  <2>5. ASSUME NEW t \in Tasks, AnswerDecision(t)
        PROVE  RoundSame \/ Reseats \/ Relimits
    BY <2>5, <1>0 DEF AnswerDecision, roundVars, RoundSame
  <2>6. ASSUME NEW t \in Tasks, FlagAttention(t)
        PROVE  RoundSame \/ Reseats \/ Relimits
    BY <2>6, <1>0 DEF FlagAttention, roundVars, RoundSame
  <2>7. ASSUME NEW t \in Tasks, ClearAttention(t)
        PROVE  RoundSame \/ Reseats \/ Relimits
    BY <2>7, <1>0 DEF ClearAttention, roundVars, RoundSame
  <2>. QED BY <1>3, <2>1, <2>2, <2>3, <2>4, <2>5, <2>6, <2>7 DEF Server
<1>4. ASSUME Round PROVE RoundSame \/ Reseats \/ Relimits
  <2>1. ASSUME NEW p \in Policies, SetPolicy(p)
        PROVE  RoundSame \/ Reseats \/ Relimits
    BY <2>1, <1>0 DEF SetPolicy, itemVars, Relimits
  <2>2. ASSUME NEW s \in Sessions, AssumeCoordinator(s)
        PROVE  RoundSame \/ Reseats \/ Relimits
      <3>1. seats = <<>> /\ seats' = <<s>> BY <2>2 DEF AssumeCoordinator
    <3>2. seats' = Append(seats, s) BY <3>1
    <3>. QED BY <2>2, <1>0, <3>2 DEF AssumeCoordinator, itemVars, Reseats
  <2>3. ASSUME NEW q \in Questions, QuestionChanges(q)
        PROVE  RoundSame \/ Reseats \/ Relimits
    BY <2>3, <1>0 DEF QuestionChanges, itemVars, RoundSame
  <2>. QED BY <1>4, <2>1, <2>2, <2>3 DEF Round
<1>. QED BY <1>1, <1>2, <1>3, <1>4 DEF WorkNext

\* Open requests are counted up and down and not below zero.
LEMMA RequestsType == ASSUME WorkTypeOK, WorkNext PROVE requests' \in [Tasks -> Nat]
<1>0. requests \in [Tasks -> Nat] BY DEF WorkTypeOK
<1>1. ASSUME NEW a \in Planners, Planning(a) PROVE requests' \in [Tasks -> Nat]
  <2>1. ASSUME NEW t \in Tasks, NEW linked \in BOOLEAN, NEW D \in SUBSET Tasks, Create(a, t, linked, D)
        PROVE  requests' \in [Tasks -> Nat]
    BY <2>1, <1>0 DEF Create, itemVars
  <2>2. ASSUME NEW t \in Tasks, NEW added \in SUBSET Tasks,
                      NEW removed \in SUBSET Tasks, UpdatePlan(a, t, added, removed)
        PROVE  requests' \in [Tasks -> Nat]
    BY <2>2, <1>0 DEF UpdatePlan, itemVars
  <2>3. ASSUME NEW t \in Tasks, LinkRound(a, t)
        PROVE  requests' \in [Tasks -> Nat]
    BY <2>3, <1>0 DEF LinkRound, itemVars
  <2>4. ASSUME NEW t \in Tasks, Close(a, t)
        PROVE  requests' \in [Tasks -> Nat]
    BY <2>4, <1>0 DEF Close, itemVars
  <2>5. ASSUME NEW t \in Tasks, NEW s \in Sessions, Assign(a, t, s)
        PROVE  requests' \in [Tasks -> Nat]
    BY <2>5, <1>0 DEF Assign, itemVars
  <2>6. ASSUME NEW t \in Tasks, NEW k \in Keys \cup {NoKey}, NEW i \in Attempts, BeginAttempt(a, t, k, i)
        PROVE  requests' \in [Tasks -> Nat]
    BY <2>6, <1>0 DEF BeginAttempt, itemVars
  <2>7. ASSUME NEW t \in Tasks, NEW accept \in BOOLEAN, Review(a, t, accept)
        PROVE  requests' \in [Tasks -> Nat]
    BY <2>7, <1>0 DEF Review, itemVars
  <2>8. ASSUME NEW s \in Sessions, HandoffCoordinator(a, s)
        PROVE  requests' \in [Tasks -> Nat]
    BY <2>8, <1>0 DEF HandoffCoordinator, itemVars
  <2>. QED BY <1>1, <2>1, <2>2, <2>3, <2>4, <2>5, <2>6, <2>7, <2>8 DEF Planning, DependenciesOf
<1>2. ASSUME NEW a \in Actors, Doing(a) PROVE requests' \in [Tasks -> Nat]
  <2>1. ASSUME NEW i \in Attempts, BindAttemptRun(a, i)
        PROVE  requests' \in [Tasks -> Nat]
    BY <2>1, <1>0 DEF BindAttemptRun, itemVars
  <2>2. ASSUME NEW i \in Attempts, NEW outcome \in Outcomes, FinishAttempt(a, i, outcome)
        PROVE  requests' \in [Tasks -> Nat]
    BY <2>2, <1>0 DEF FinishAttempt, itemVars
  <2>3. ASSUME NEW t \in Tasks, AddResult(a, t)
        PROVE  requests' \in [Tasks -> Nat]
    BY <2>3, <1>0 DEF AddResult, itemVars
  <2>4. ASSUME NEW t \in Tasks, NEW to \in Stages, NEW kind \in ReviewKinds, Advance(a, t, to, kind)
        PROVE  requests' \in [Tasks -> Nat]
    BY <2>4, <1>0 DEF Advance, itemVars
  <2>5. ASSUME NEW t \in Tasks, NEW c \in Conditions, SetCondition(a, t, c)
        PROVE  requests' \in [Tasks -> Nat]
    BY <2>5, <1>0 DEF SetCondition, itemVars
  <2>. QED BY <1>2, <2>1, <2>2, <2>3, <2>4, <2>5 DEF Doing
<1>3. ASSUME Server PROVE requests' \in [Tasks -> Nat]
  <2>1. ASSUME NEW i \in Attempts, UndeliveredAttemptFailed(i)
        PROVE  requests' \in [Tasks -> Nat]
    BY <2>1, <1>0 DEF UndeliveredAttemptFailed, itemVars
  <2>2. ASSUME NEW t \in Tasks, AnalysisStarted(t)
        PROVE  requests' \in [Tasks -> Nat]
    BY <2>2, <1>0 DEF AnalysisStarted, itemVars
  <2>3. ASSUME NEW t \in Tasks, AnalysisResolved(t)
        PROVE  requests' \in [Tasks -> Nat]
    BY <2>3, <1>0 DEF AnalysisResolved, itemVars
  <2>4. ASSUME NEW t \in Tasks, RequestDecision(t)
        PROVE  requests' \in [Tasks -> Nat]
    BY <2>4, <1>0 DEF RequestDecision, itemVars
  <2>5. ASSUME NEW t \in Tasks, AnswerDecision(t)
        PROVE  requests' \in [Tasks -> Nat]
    BY <2>5, <1>0 DEF AnswerDecision, itemVars
  <2>6. ASSUME NEW t \in Tasks, FlagAttention(t)
        PROVE  requests' \in [Tasks -> Nat]
    BY <2>6, <1>0 DEF FlagAttention, itemVars
  <2>7. ASSUME NEW t \in Tasks, ClearAttention(t)
        PROVE  requests' \in [Tasks -> Nat]
    BY <2>7, <1>0 DEF ClearAttention, itemVars
  <2>. QED BY <1>3, <2>1, <2>2, <2>3, <2>4, <2>5, <2>6, <2>7 DEF Server
<1>4. ASSUME Round PROVE requests' \in [Tasks -> Nat]
  <2>1. ASSUME NEW p \in Policies, SetPolicy(p)
        PROVE  requests' \in [Tasks -> Nat]
    BY <2>1, <1>0 DEF SetPolicy, itemVars
  <2>2. ASSUME NEW s \in Sessions, AssumeCoordinator(s)
        PROVE  requests' \in [Tasks -> Nat]
    BY <2>2, <1>0 DEF AssumeCoordinator, itemVars
  <2>3. ASSUME NEW q \in Questions, QuestionChanges(q)
        PROVE  requests' \in [Tasks -> Nat]
    BY <2>3, <1>0 DEF QuestionChanges, itemVars
  <2>. QED BY <1>4, <2>1, <2>2, <2>3 DEF Round
<1>. QED BY <1>1, <1>2, <1>3, <1>4 DEF WorkNext

\* The invariant is inductive.
LEMMA InvStep == ASSUME WorkInv, [WorkNext]_workVars PROVE WorkInv'
<1>0. WorkTypeOK /\ DependenciesAcyclic /\ ReadyNeverWaits /\ AcceptedIsDone /\ DepsExist
  BY DEF WorkInv
<1>1. CASE UNCHANGED workVars
  BY <1>1 DEF WorkInv, workVars, WorkTypeOK, DependenciesAcyclic, ReadyNeverWaits, Active,
     DependenciesAccepted, ClosedDependency, OpenAttemptIsHeld, OneAttemptPerKey, AttemptsOf,
     Used, Open, AcceptedIsDone, DepsExist, UsedIsLinked
<1>2. CASE WorkNext
  <2>1. items' \in [Tasks -> Item] BY <1>0, <1>2, ItemsType
  <2>2. deps' \subseteq Tasks \X Tasks /\ DepsExist' BY <1>0, <1>2, DepsType
  <2>3. assignee' \in [Tasks -> Sessions \cup {NoSession}] BY <1>0, <1>2, AssigneeType
  <2>4. attempts' \in [Attempts -> Attempt]
    <3>1. CASE AttemptsProgress BY <3>1 DEF AttemptsProgress
    <3>2. CASE BeginsAttempt
      <4>1. PICK a \in Planners, t \in Tasks, k \in Keys \cup {NoKey}, i \in Attempts :
              BeginAttempt(a, t, k, i)
        BY <3>2 DEF BeginsAttempt
      <4>2. attempts' = [attempts EXCEPT ![i] = [status |-> "queued", task |-> t,
                                                 session |-> assignee[t], key |-> k]]
        BY <4>1 DEF BeginAttempt
      <4>3. /\ attempts \in [Attempts -> Attempt]
            /\ assignee[t] \in Sessions \cup {NoSession}
        BY <1>0 DEF WorkTypeOK
      <4>. QED BY <4>2, <4>3 DEF Attempt, OpenStatus
    <3>. QED BY <1>0, <1>2, <3>1, <3>2, AttemptsStep
  <2>5. requests' \in [Tasks -> Nat] BY <1>0, <1>2, RequestsType
  <2>6. seats' \in Seq(Sessions) /\ policy' \in Policies /\ question' \in Questions
        /\ Len(seats') >= Len(seats)
    <3>0. seats \in Seq(Sessions) /\ policy \in Policies BY <1>0 DEF WorkTypeOK
    <3>1. CASE RoundSame BY <3>0, <3>1 DEF RoundSame
    <3>2. CASE Relimits BY <3>0, <3>2 DEF Relimits
    <3>3. CASE Reseats BY <3>0, <3>3 DEF Reseats
    <3>. QED BY <1>0, <1>2, <3>1, <3>2, <3>3, RoundStep
  <2>7. spoken' \in 0..Len(seats')
    <3>1. spoken \in 0..Len(seats) /\ Len(seats) \in Nat /\ Len(seats') \in Nat
      BY <1>0, <2>6 DEF WorkTypeOK
    <3>2. spoken' = spoken \/ spoken' = Len(seats) BY <1>0, <1>2, SpokenStep
    <3>. QED BY <2>6, <3>1, <3>2
  <2>8. WorkTypeOK' BY <2>1, <2>2, <2>3, <2>4, <2>5, <2>6, <2>7 DEF WorkTypeOK
  <2>9. DependenciesAcyclic' BY <1>0, <1>2, AcyclicStep
  <2>10. ReadyNeverWaits' BY <1>0, <1>2, ReadyStep
  <2>11. OpenAttemptIsHeld' /\ UsedIsLinked' /\ OneAttemptPerKey' BY <1>2, HoldStep
  <2>12. AcceptedIsDone'
    <3>1. \A u \in Tasks : Mild(items', u) BY <1>0, <1>2, ItemsStep DEF ItemStep
    <3>. QED BY <1>0, <3>1 DEF AcceptedIsDone, Mild
  <2>. QED BY <2>2, <2>8, <2>9, <2>10, <2>11, <2>12 DEF WorkInv
<1>. QED BY <1>1, <1>2

\* The invariant holds of every behaviour of the store.
THEOREM InvHolds == WorkSpec => []WorkInv
BY InitInv, InvStep, PTL DEF WorkSpec

\* The tables stay well-formed.
THEOREM TypesHold == WorkSpec => []WorkTypeOK
<1>1. WorkInv => WorkTypeOK BY DEF WorkInv
<1>. QED BY InvHolds, <1>1, PTL

\* No sequence of plan changes makes items wait for each other.
THEOREM AcyclicHolds == WorkSpec => []DependenciesAcyclic
<1>1. WorkInv => DependenciesAcyclic BY DEF WorkInv
<1>. QED BY InvHolds, <1>1, PTL

\* A ready item waits for nothing, whatever changed last.
THEOREM ReadyHolds == WorkSpec => []ReadyNeverWaits
<1>1. WorkInv => ReadyNeverWaits BY DEF WorkInv
<1>. QED BY InvHolds, <1>1, PTL

\* An open attempt is held by the Session assigned to its item, and is the item's
\* only one.
THEOREM HeldHolds == WorkSpec => []OpenAttemptIsHeld
<1>1. WorkInv => OpenAttemptIsHeld BY DEF WorkInv
<1>. QED BY InvHolds, <1>1, PTL

\* A request key names at most one attempt of an item, for ever.
THEOREM KeyHolds == WorkSpec => []OneAttemptPerKey
<1>1. WorkInv => OneAttemptPerKey BY DEF WorkInv
<1>. QED BY InvHolds, <1>1, PTL

\* Coordinators are heard in the order of their epochs.
THEOREM FenceHolds == WorkSpec => AuthorityIsFenced
<1>1. ASSUME WorkInv, [WorkNext]_workVars PROVE [spoken' >= spoken]_workVars
  <2>1. CASE UNCHANGED workVars BY <2>1
  <2>2. CASE WorkNext
    <3>1. WorkTypeOK BY <1>1 DEF WorkInv
    <3>2. spoken' = spoken \/ spoken' = Len(seats) BY <2>2, <3>1, SpokenStep
    <3>3. spoken \in 0..Len(seats) /\ Len(seats) \in Nat BY <3>1 DEF WorkTypeOK
    <3>4. spoken' >= spoken BY <3>2, <3>3
    <3>. QED BY <3>4
  <2>. QED BY <1>1, <2>1, <2>2
<1>. QED BY InvHolds, <1>1, PTL DEF WorkSpec, AuthorityIsFenced

Settled ==
    /\ \A i \in Attempts : attempts[i].status \in ClosedStatus => attempts'[i] = attempts[i]
    /\ \A t \in Tasks :
         /\ items[t].acceptance = "accepted"
              => items'[t].acceptance = "accepted" /\ items'[t].stage = "done"
         /\ items[t].life = "closed" => items'[t].life = "closed"

\* What is over stays over.
THEOREM SettledHolds == WorkSpec => SettledForGood
<1>1. ASSUME WorkInv, WorkNext PROVE Settled
  <2>0. WorkTypeOK /\ AcceptedIsDone BY <1>1 DEF WorkInv
  <2>1. \A u \in Tasks : Mild(items', u) BY <1>1, <2>0, ItemsStep DEF ItemStep
  <2>2. \A i \in Attempts : attempts[i].status \in ClosedStatus => attempts'[i] = attempts[i]
    <3>1. CASE AttemptsProgress
      BY <3>1 DEF AttemptsProgress, Open, OpenStatus, ClosedStatus
    <3>2. CASE BeginsAttempt
      <4>1. PICK a \in Planners, t \in Tasks, k \in Keys \cup {NoKey}, i \in Attempts :
              BeginAttempt(a, t, k, i)
        BY <3>2 DEF BeginsAttempt
      <4>2. /\ attempts' = [attempts EXCEPT ![i] = [status |-> "queued", task |-> t,
                                                    session |-> assignee[t], key |-> k]]
            /\ attempts[i].status = "unused"
        BY <4>1 DEF BeginAttempt, Used
      <4>3. attempts \in [Attempts -> Attempt] BY <2>0 DEF WorkTypeOK
      <4>. QED BY <4>2, <4>3 DEF ClosedStatus
    <3>. QED BY <1>1, <2>0, <3>1, <3>2, AttemptsStep
  <2>. QED BY <2>0, <2>1, <2>2 DEF Settled, AcceptedIsDone, Mild
<1>2. ASSUME WorkInv, [WorkNext]_workVars PROVE [Settled]_workVars
  BY <1>1, <1>2
<1>3. SettledForGood <=> [][Settled]_workVars BY DEF SettledForGood, Settled
<1>. QED BY InvHolds, <1>2, <1>3, PTL DEF WorkSpec

-----------------------------------------------------------------------------
(* WorkStore implements RoundLedger. *)

\* The initial store is a fresh ledger.
LEMMA LedgerInitial == WorkInit => Ledger!LedgerInit
<1>. SUFFICES ASSUME WorkInit PROVE Ledger!LedgerInit OBVIOUS
<1>1. \A i \in Attempts : LedgerSlots[i] = "unused"
  <2>1. \A i \in Attempts : attempts[i].status = "unused" BY DEF WorkInit
  <2>. QED BY <2>1 DEF LedgerSlots, Open, OpenStatus
<1>2. LedgerSlots = [i \in Attempts |-> "unused"] BY <1>1 DEF LedgerSlots
<1>3. Len(seats) = 0 BY DEF WorkInit
<1>. QED BY <1>2, <1>3 DEF WorkInit, Ledger!LedgerInit

\* What the ledger counts is what round_stats counts: every attempt belongs to an
\* item of the round.
LEMMA LedgerCounts ==
    ASSUME UsedIsLinked
    PROVE  Ledger!Used = TotalAttempts /\ Ledger!Running = OpenAttempts
BY DEF Ledger!Used, Ledger!Running, LedgerSlots, TotalAttempts, OpenAttempts, Used, InRound,
       UsedIsLinked, Open, OpenStatus

\* The instance counts as this module does.
LEMMA SameCardinality == \A S : Ledger!Cardinality(S) = Cardinality(S)
BY DEF Cardinality, Ledger!Cardinality

\* Every step of the store is a step of the ledger, or none.
LEMMA LedgerStep ==
    ASSUME WorkInv, [WorkNext]_workVars PROVE [Ledger!LedgerNext]_(Ledger!ledgerVars)
<1>0. /\ WorkTypeOK /\ UsedIsLinked /\ attempts \in [Attempts -> Attempt]
      /\ seats \in Seq(Sessions)
  BY DEF WorkInv, WorkTypeOK
<1>1. CASE UNCHANGED workVars
  BY <1>1 DEF workVars, Ledger!ledgerVars, LedgerSlots, Open
<1>2. CASE WorkNext
  <2>1. Ledger!Speak BY <1>0, <1>2, SpokenStep DEF Ledger!Speak
  <2>2. CASE Relimits
    <3>1. LedgerSlots' = LedgerSlots BY <2>2 DEF Relimits, LedgerSlots, Open
    <3>2. Ledger!SetLimits BY <2>2, <3>1 DEF Relimits, Ledger!SetLimits
    <3>. QED BY <3>2 DEF Ledger!LedgerNext
  <2>3. CASE Reseats
    <3>1. LedgerSlots' = LedgerSlots BY <2>3 DEF Reseats, LedgerSlots, Open
    <3>2. Len(seats') = Len(seats) + 1 BY <1>0, <2>3 DEF Reseats
    <3>3. Ledger!Seat BY <2>1, <2>3, <3>1, <3>2 DEF Reseats, Ledger!Seat
    <3>. QED BY <3>3 DEF Ledger!LedgerNext
  <2>4. CASE RoundSame /\ AttemptsProgress
    <3>. DEFINE S == {n \in Attempts : Open(n) /\ ~Open(n)'}
    <3>1. S \in SUBSET Ledger!Running
      BY DEF Ledger!Running, LedgerSlots, Open, OpenStatus
    <3>2. \A n \in Attempts : LedgerSlots'[n] = IF n \in S THEN "closed" ELSE LedgerSlots[n]
      <4>. SUFFICES ASSUME NEW n \in Attempts
                    PROVE  LedgerSlots'[n] = IF n \in S THEN "closed" ELSE LedgerSlots[n]
        OBVIOUS
      <4>1. CASE attempts'[n] = attempts[n] BY <4>1 DEF LedgerSlots, Open
      <4>2. CASE Open(n) /\ attempts'[n].status # "unused"
        BY <4>2 DEF LedgerSlots, Open, OpenStatus
      <4>. QED BY <2>4, <4>1, <4>2 DEF AttemptsProgress
    <3>. HIDE DEF S
    <3>3. LedgerSlots' = [n \in Attempts |-> IF n \in S THEN "closed" ELSE LedgerSlots[n]]
      BY <3>2 DEF LedgerSlots
    <3>4. Ledger!Settle(S) BY <2>1, <2>4, <3>3 DEF RoundSame, Ledger!Settle
    <3>. QED BY <3>1, <3>4 DEF Ledger!LedgerNext
  <2>5. CASE BeginsAttempt
    <3>1. PICK a \in Planners, t \in Tasks, k \in Keys \cup {NoKey}, i \in Attempts :
            BeginAttempt(a, t, k, i)
      BY <2>5 DEF BeginsAttempt
    <3>2. /\ ~policy.paused /\ Cardinality(OpenAttempts) < policy.parallel
          /\ Cardinality(TotalAttempts) < policy.attempts
          /\ policy' = policy /\ seats' = seats /\ attempts[i].status = "unused"
          /\ attempts' = [attempts EXCEPT ![i] = [status |-> "queued", task |-> t,
                                                  session |-> assignee[t], key |-> k]]
      BY <3>1 DEF BeginAttempt, roundVars, Used
    <3>3. attempts'[i].status = "queued" /\ \A n \in Attempts \ {i} : attempts'[n] = attempts[n]
      BY <1>0, <3>2
    <3>4. LedgerSlots[i] = "unused" BY <3>2 DEF LedgerSlots, Open, OpenStatus
    <3>5. \A n \in Attempts :
            LedgerSlots'[n] = IF n = i THEN "open" ELSE LedgerSlots[n]
      BY <3>3 DEF LedgerSlots, Open, OpenStatus
    <3>6. LedgerSlots' = [LedgerSlots EXCEPT ![i] = "open"] BY <3>5 DEF LedgerSlots
    <3>7. /\ Ledger!Cardinality(Ledger!Running) < policy.parallel
          /\ Ledger!Cardinality(Ledger!Used) < policy.attempts
      BY <1>0, <3>2, LedgerCounts, SameCardinality
    <3>8. ~policy.paused /\ policy' = policy /\ Len(seats)' = Len(seats) BY <3>2
    <3>9. Ledger!Spend(i) BY <2>1, <3>4, <3>6, <3>7, <3>8 DEF Ledger!Spend
    <3>. QED BY <3>9 DEF Ledger!LedgerNext
  <2>. QED BY <1>0, <1>2, <2>2, <2>3, <2>4, <2>5, RoundStep, AttemptsStep
<1>. QED BY <1>1, <1>2

\* The store keeps the ledger: begin_attempt spends, whatever ends an attempt
\* settles, set_policy and the coordinator's commands change the rest.
THEOREM LedgerHolds == WorkSpec => KeepsLedger
<1>. QED BY InvHolds, LedgerInitial, LedgerStep, PTL DEF WorkSpec, KeepsLedger, Ledger!LedgerSpec

=============================================================================
