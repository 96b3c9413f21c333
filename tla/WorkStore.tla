------------------------------ MODULE WorkStore ------------------------------
(***************************************************************************)
(* Native work of one round (server/src/work_store): the work items, their *)
(* dependencies, assignments, attempts and open questions, the round's     *)
(* coordinator and its limits.                                             *)
(*                                                                         *)
(* The store is one SQLite connection behind a mutex and every command is  *)
(* one immediate transaction that reads again what it relies on, so one    *)
(* action is one command.  What goes wrong here goes wrong between the     *)
(* commands: they arrive from the researcher, from coordinators of any     *)
(* epoch ever granted, from executors and from the server's own passes, in *)
(* any order.                                                              *)
(*                                                                         *)
(* Revisions are left out: a caller that names the current one is the one  *)
(* that is heard, and every other is refused and changes nothing.  Items   *)
(* mirrored from Team tasks are left out too: these commands refuse them.  *)
(***************************************************************************)
EXTENDS Integers, Sequences, FiniteSets

CONSTANTS
    Tasks,          \* the items that may be created
    NoTask,
    Sessions,       \* conversations that execute or coordinate
    NoSession,
    Keys,           \* request keys of begin_attempt
    NoKey,          \* begun without a request key
    MaxAttempts,    \* bound: attempts ever begun
    Policies,       \* the limits the researcher chooses from
    Questions,      \* statuses of the research question that occur
    Conditions,     \* the conditions set_condition is given
    Outcomes,       \* how finish_attempt may end an attempt
    ReviewKinds,    \* what a review is asked for: a plan, a result
    Edges,          \* the dependencies a plan may name
    Events,         \* which of the optional commands occur
    MaxEpoch,       \* bound: coordinators ever seated
    MaxRequests     \* bound: open decision requests of one task (the code's is 5)

ASSUME SessionAssumption == NoSession \notin Sessions /\ NoTask \notin Tasks
ASSUME KeyAssumption == NoKey \notin Keys
ASSUME PolicyAssumption ==
    Policies \subseteq [executors : Nat, parallel : Nat, attempts : Nat, paused : BOOLEAN]
ASSUME PoliciesExist == Policies # {}
ASSUME ConditionAssumption == Conditions \subseteq {"none", "waiting", "paused"}
ASSUME QuestionAssumption == "open" \in Questions
                             /\ Questions \subseteq {"open", "resolved", "archived"}
ASSUME ChoiceAssumption == /\ Outcomes \subseteq {"completed", "failed", "cancelled"}
                           /\ ReviewKinds \subseteq {"plan", "result"}
                           /\ Edges \subseteq Tasks \X Tasks
ASSUME BoundAssumption == MaxAttempts \in Nat /\ MaxEpoch \in Nat /\ MaxRequests \in Nat
                           /\ Events \subseteq {"result", "analysis", "flag"}

VARIABLES
    items,      \* work_items, one record per task
    deps,       \* work_dependencies: pairs <<task, dependency>>
    assignee,   \* the open row of work_assignments of each task, if any
    attempts,   \* work_attempts
    requests,   \* how many decision_requests of each task are open
    seats,      \* round_coordinator_history: the holder of each epoch
    policy,     \* round_policies of the round
    question,   \* external: the round's question in the research store
    spoken      \* history: the latest epoch whose holder was heard

workVars == <<items, deps, assignee, attempts, requests, seats, policy, question, spoken>>
itemVars == <<items, deps, assignee, attempts, requests>>
roundVars == <<seats, policy, question>>

Attempts == 1..MaxAttempts

Stages == {"planned", "ready", "executing", "analyzing", "review", "done"}

\* auto: blocked by a closed dependency.  paused: paused or blocked by a person.
\* asked: needs input because of an open decision request.  flagged: needs input
\* because the server said so.  waiting: any other reason that stops nothing.
AllConditions == {"none", "waiting", "paused", "auto", "asked", "flagged"}

Item == [life : {"absent", "active", "closed"}, stage : Stages, condition : AllConditions,
         linked : BOOLEAN, review : {"none", "plan", "result"},
         acceptance : {"pending", "accepted", "rejected"}, results : BOOLEAN]

\* needs_report and result_submitted occur on mirrored Team tasks only.
OpenStatus == {"queued", "running"}
ClosedStatus == {"completed", "failed", "cancelled"}
Attempt == [status : {"unused"} \cup OpenStatus \cup ClosedStatus, task : Tasks \cup {NoTask},
            session : Sessions \cup {NoSession}, key : Keys \cup {NoKey}]

-----------------------------------------------------------------------------
(* Reading the tables. *)

Active(t) == items[t].life = "active"
Open(i) == attempts[i].status \in OpenStatus
Used == {i \in Attempts : attempts[i].status # "unused"}
AttemptsOf(t) == {i \in Used : attempts[i].task = t}

\* Variant: an attempt counts until its run is known.
HasQueuedAttempt(t) == \E i \in AttemptsOf(t) : attempts[i].status = "queued"

HasOpenAttempt(t) == \E i \in AttemptsOf(t) : Open(i)

InRound(t) == items[t].life # "absent" /\ items[t].linked
OpenAttempts == {i \in Used : InRound(attempts[i].task) /\ Open(i)}

\* Variant: closed items give their attempts back.
AttemptsOfActive == {i \in Used : InRound(attempts[i].task) /\ Active(attempts[i].task)}

TotalAttempts == {i \in Used : InRound(attempts[i].task)}
Executors == {assignee[t] : t \in {u \in Tasks : Active(u) /\ items[u].linked}} \ {NoSession}

\* Variant: the search starts at the wrong end.
ReachedFrom(d, from, target) ==
    \A S \in SUBSET Tasks :
        (target \in S /\ \A e \in d : e[1] \in S => e[2] \in S) => from \in S

\* target is in every set that holds from and the dependencies of its members.
Reaches(d, from, target) ==
    \A S \in SUBSET Tasks :
        (from \in S /\ \A e \in d : e[1] \in S => e[2] \in S) => target \in S

DependenciesAccepted(its, d, t) ==
    \A e \in d : e[1] = t => its[e[2]].acceptance = "accepted"

ClosedDependency(its, d, t) ==
    \E e \in d : e[1] = t /\ its[e[2]].life = "closed" /\ its[e[2]].acceptance # "accepted"

\* Variant: eligibility is granted and never taken back.
Promotion(its, d, t) ==
    IF DependenciesAccepted(its, d, t) /\ its[t].condition = "none"
    THEN [its[t] EXCEPT !.stage = "ready"] ELSE its[t]

\* What refresh_readiness makes of one row.  A row that a person holds at
\* planned stays there; a closed dependency leaves it as it is.
Readiness(its, d, t) ==
    LET row == its[t]
        lifted == IF row.condition = "auto" THEN "none" ELSE row.condition
        held == lifted # "none" /\ row.stage = "planned"
    IN  IF ClosedDependency(its, d, t)
        THEN IF lifted = "none" THEN [row EXCEPT !.condition = "auto", !.stage = "planned"]
                                ELSE row
        ELSE [row EXCEPT !.condition = lifted,
                         !.stage = IF DependenciesAccepted(its, d, t) /\ ~held
                                   THEN "ready" ELSE "planned"]

Refreshed(its, d) ==
    [t \in Tasks |-> IF its[t].life = "active" /\ its[t].stage \in {"planned", "ready"}
                     THEN Readiness(its, d, t) ELSE its[t]]

-----------------------------------------------------------------------------
(* Who is speaking.  A coordinator presents the holder and epoch it read at  *)
(* some time; an executor presents its Session.                              *)

Researcher == [role |-> "researcher", session |-> NoSession, epoch |-> 0]
Authorities == {[role |-> "coordinator", session |-> seats[e], epoch |-> e] : e \in DOMAIN seats}
Executing == {[role |-> "executor", session |-> s, epoch |-> 0] : s \in Sessions}
Planners == {Researcher} \cup Authorities
Actors == Planners \cup Executing

\* Variant: the holder is compared and the epoch is not.
CheckHolderOnly(a) ==
    /\ a.role = "coordinator"
    /\ Len(seats) > 0
    /\ a.session = seats[Len(seats)]

CheckCoordinator(a) ==
    /\ a.role = "coordinator"
    /\ a.epoch = Len(seats)
    /\ a.session = seats[Len(seats)]

PlansRound(a) == a.role = "researcher" \/ CheckCoordinator(a)
Coordinates(a, t) == a.role = "researcher" \/ (items[t].linked /\ CheckCoordinator(a))
Executes(a, t) == Coordinates(a, t) \/ (a.role = "executor" /\ assignee[t] = a.session)

Heard(a) == spoken' = IF a.role = "coordinator" THEN a.epoch ELSE spoken

-----------------------------------------------------------------------------
WorkInit ==
    /\ items = [t \in Tasks |->
                  [life |-> "absent", stage |-> "planned", condition |-> "none",
                   linked |-> FALSE, review |-> "none", acceptance |-> "pending",
                   results |-> FALSE]]
    /\ deps = {}
    /\ assignee = [t \in Tasks |-> NoSession]
    /\ attempts = [i \in Attempts |->
                     [status |-> "unused", task |-> NoTask, session |-> NoSession, key |-> NoKey]]
    /\ requests = [t \in Tasks |-> 0]
    /\ seats = <<>>
    /\ policy \in Policies
    /\ question = "open"
    /\ spoken = 0

(* Planning. *)

Create(a, t, linked, D) ==
    /\ items[t].life = "absent"
    /\ IF linked THEN PlansRound(a) /\ question # "archived" ELSE a.role = "researcher"
    /\ {t} \X D \subseteq Edges
    /\ \A u \in D : Active(u)
    /\ deps' = deps \cup ({t} \X D)
    /\ items' = Refreshed([items EXCEPT ![t].life = "active", ![t].linked = linked], deps')
    /\ Heard(a)
    /\ UNCHANGED <<assignee, attempts, requests>> /\ UNCHANGED roundVars

DependenciesOf(t) == {u \in Tasks : <<t, u>> \in deps}

\* Removing a dependency the item does not have changes nothing.
UpdatePlan(a, t, added, removed) ==
    LET kept == deps \ ({t} \X removed)
        new == {u \in added : <<t, u>> \notin kept}
    IN  /\ Active(t) /\ Coordinates(a, t) /\ items[t].stage # "done"
        /\ {t} \X added \subseteq Edges
        /\ \A u \in new : u # t /\ Active(u) /\ ~Reaches(kept, u, t)
        /\ deps' = kept \cup ({t} \X new)
        /\ items' = Refreshed(items, deps')
        /\ Heard(a)
        /\ UNCHANGED <<assignee, attempts, requests>> /\ UNCHANGED roundVars

LinkRound(a, t) ==
    /\ Active(t) /\ PlansRound(a) /\ ~items[t].linked
    /\ items' = [items EXCEPT ![t].linked = TRUE]
    /\ Heard(a)
    /\ UNCHANGED <<deps, assignee, attempts, requests>> /\ UNCHANGED roundVars

\* The roster's rule on who may execute is read before the transaction; it is
\* external, and every Session here passes it.
Assign(a, t, s) ==
    /\ Active(t) /\ Coordinates(a, t) /\ items[t].stage # "done"
    /\ ~HasOpenAttempt(t)
    /\ assignee[t] # s
    /\ items[t].linked => s \in Executors \/ Cardinality(Executors) < policy.executors
    /\ assignee' = [assignee EXCEPT ![t] = s]
    /\ Heard(a)
    /\ UNCHANGED <<items, deps, attempts, requests>> /\ UNCHANGED roundVars

Close(a, t) ==
    /\ Active(t) /\ Coordinates(a, t)
    /\ attempts' = [i \in Attempts |->
                      IF i \in AttemptsOf(t) /\ Open(i)
                      THEN [attempts[i] EXCEPT !.status = "cancelled"] ELSE attempts[i]]
    /\ assignee' = [assignee EXCEPT ![t] = NoSession]
    /\ items' = Refreshed([items EXCEPT ![t].life = "closed"], deps)
    /\ Heard(a)
    /\ UNCHANGED <<deps, requests>> /\ UNCHANGED roundVars

-----------------------------------------------------------------------------
(* Attempts.  A repeated request key returns the attempt it made before, so  *)
(* only a new one goes on.                                                   *)

\* Variant: the key is looked up among the open attempts.
NewOpenKey(t, k) == k = NoKey \/ \A i \in AttemptsOf(t) : Open(i) => attempts[i].key # k

NewKey(t, k) == k = NoKey \/ \A i \in AttemptsOf(t) : attempts[i].key # k

BeginAttempt(a, t, k, i) ==
    /\ Active(t) /\ Coordinates(a, t) /\ NewKey(t, k)
    /\ items[t].linked /\ question = "open"
    /\ items[t].stage \in {"ready", "executing"}
    /\ items[t].condition \notin {"paused", "auto"}
    /\ DependenciesAccepted(items, deps, t)
    /\ ~HasOpenAttempt(t)
    /\ assignee[t] # NoSession
    /\ ~policy.paused
    /\ Cardinality(OpenAttempts) < policy.parallel
    /\ Cardinality(TotalAttempts) < policy.attempts
    /\ i \notin Used /\ \A j \in Attempts : j < i => j \in Used
    /\ attempts' = [attempts EXCEPT ![i] = [status |-> "queued", task |-> t,
                                            session |-> assignee[t], key |-> k]]
    /\ items' = [items EXCEPT ![t].stage = "executing", ![t].condition = "none"]
    /\ Heard(a)
    /\ UNCHANGED <<deps, assignee, requests>> /\ UNCHANGED roundVars

BindAttemptRun(a, i) ==
    /\ attempts[i].status = "queued"
    /\ Active(attempts[i].task) /\ Executes(a, attempts[i].task)
    /\ attempts' = [attempts EXCEPT ![i].status = "running"]
    /\ Heard(a)
    /\ UNCHANGED <<items, deps, assignee, requests>> /\ UNCHANGED roundVars

\* No check that the item is active.
FinishAttempt(a, i, outcome) ==
    /\ i \in Used /\ Open(i) /\ Executes(a, attempts[i].task)
    /\ outcome = "completed" => attempts[i].status # "queued"
    /\ attempts' = [attempts EXCEPT ![i].status = outcome]
    /\ Heard(a)
    /\ UNCHANGED <<items, deps, assignee, requests>> /\ UNCHANGED roundVars

\* The server closes the attempt of a dispatch it could not deliver.
UndeliveredAttemptFailed(i) ==
    /\ attempts[i].status = "queued"
    /\ attempts' = [attempts EXCEPT ![i].status = "failed"]
    /\ UNCHANGED <<items, deps, assignee, requests, spoken>> /\ UNCHANGED roundVars

AddResult(a, t) ==
    /\ "result" \in Events
    /\ Active(t) /\ Executes(a, t)
    /\ a.role = "executor" => items[t].stage \in {"executing", "analyzing"}
    /\ items' = [items EXCEPT ![t].results = TRUE]
    /\ Heard(a)
    /\ UNCHANGED <<deps, assignee, attempts, requests>> /\ UNCHANGED roundVars

-----------------------------------------------------------------------------
(* Stages. *)

StageAllowed(from, to) ==
    <<from, to>> \in {<<"planned", "ready">>, <<"executing", "ready">>,
                      <<"executing", "analyzing">>, <<"executing", "review">>,
                      <<"analyzing", "review">>, <<"review", "ready">>}

Produced(t) == items[t].results \/ \E i \in AttemptsOf(t) : attempts[i].status = "completed"

\* Whether a plan is written at all is left out.
Advance(a, t, to, kind) ==
    LET from == items[t].stage
        leaves == from = "executing" /\ to \in {"analyzing", "review"}
    IN  /\ Active(t)
        /\ \/ StageAllowed(from, to)
           \/ to = "review" /\ kind = "plan" /\ from \in {"planned", "ready"}
        /\ IF leaves THEN Executes(a, t) ELSE Coordinates(a, t)
        /\ to # "ready" => items[t].linked
        /\ to = "ready" => DependenciesAccepted(items, deps, t)
        /\ to = "ready" \/ leaves => ~HasOpenAttempt(t)
        /\ leaves => Produced(t)
        /\ items' = Refreshed([items EXCEPT ![t].stage = to,
                                 ![t].review = IF to = "review" THEN kind ELSE "none"], deps)
        /\ Heard(a)
        /\ UNCHANGED <<deps, assignee, attempts, requests>> /\ UNCHANGED roundVars

Review(a, t, accept) ==
    LET plan == items[t].review = "plan"
    IN  /\ Active(t) /\ Coordinates(a, t) /\ items[t].stage = "review"
        /\ items' = Refreshed(
             [items EXCEPT ![t] =
                CASE plan /\ accept -> [@ EXCEPT !.stage = "ready", !.review = "none"]
                  [] plan /\ ~accept -> [@ EXCEPT !.stage = "planned", !.review = "none",
                                                  !.condition = "waiting"]
                  [] ~plan /\ accept -> [@ EXCEPT !.stage = "done", !.review = "none",
                                                  !.acceptance = "accepted"]
                  [] OTHER -> [@ EXCEPT !.stage = "executing", !.review = "none",
                                        !.acceptance = "rejected"]], deps)
        /\ assignee' = IF ~plan /\ accept THEN [assignee EXCEPT ![t] = NoSession] ELSE assignee
        /\ Heard(a)
        /\ UNCHANGED <<deps, attempts, requests>> /\ UNCHANGED roundVars

\* Server-owned: a finished experiment owes analysis, or owes none any more.
AnalysisStarted(t) ==
    /\ "analysis" \in Events
    /\ Active(t) /\ items[t].stage = "executing"
    /\ items' = [items EXCEPT ![t].stage = "analyzing"]
    /\ UNCHANGED <<deps, assignee, attempts, requests, spoken>> /\ UNCHANGED roundVars

AnalysisResolved(t) ==
    /\ Active(t) /\ items[t].stage = "analyzing"
    /\ items' = [items EXCEPT ![t].stage = "executing"]
    /\ UNCHANGED <<deps, assignee, attempts, requests, spoken>> /\ UNCHANGED roundVars

-----------------------------------------------------------------------------
(* Conditions. *)

SetCondition(a, t, c) ==
    /\ Active(t) /\ items[t].stage # "done"
    /\ c = "none" => items[t].condition # "none"
    /\ IF items[t].condition \in {"paused", "auto"} \/ c = "paused"
       THEN Coordinates(a, t) ELSE Executes(a, t)
    /\ items' = Refreshed([items EXCEPT ![t].condition = c], deps)
    /\ Heard(a)
    /\ UNCHANGED <<deps, assignee, attempts, requests>> /\ UNCHANGED roundVars

RequestDecision(t) ==
    /\ Active(t) /\ requests[t] < MaxRequests
    /\ requests' = [requests EXCEPT ![t] = @ + 1]
    /\ items' = [items EXCEPT ![t].condition = IF @ = "none" THEN "asked" ELSE @]
    /\ UNCHANGED <<deps, assignee, attempts, spoken>> /\ UNCHANGED roundVars

AnswerDecision(t) ==
    /\ requests[t] > 0
    /\ requests' = [requests EXCEPT ![t] = @ - 1]
    /\ items' = Refreshed([items EXCEPT ![t].condition =
                             IF requests'[t] = 0 /\ @ = "asked" THEN "none" ELSE @], deps)
    /\ UNCHANGED <<deps, assignee, attempts, spoken>> /\ UNCHANGED roundVars

FlagAttention(t) ==
    /\ "flag" \in Events
    /\ Active(t) /\ items[t].condition = "none"
    /\ items' = [items EXCEPT ![t].condition = "flagged"]
    /\ UNCHANGED <<deps, assignee, attempts, requests, spoken>> /\ UNCHANGED roundVars

\* The flag goes and nothing is refreshed.
ClearAttention(t) ==
    /\ items[t].life # "absent" /\ items[t].condition = "flagged"
    /\ items' = [items EXCEPT ![t].condition = "none"]
    /\ UNCHANGED <<deps, assignee, attempts, requests, spoken>> /\ UNCHANGED roundVars

-----------------------------------------------------------------------------
(* The round. *)

SetPolicy(p) ==
    /\ policy' = p
    /\ UNCHANGED itemVars /\ UNCHANGED <<seats, question, spoken>>

AssumeCoordinator(s) ==
    /\ seats = <<>> /\ MaxEpoch > 0
    /\ seats' = <<s>>
    /\ UNCHANGED itemVars /\ UNCHANGED <<policy, question, spoken>>

\* expected_epoch is the current one: any other is refused.
HandoffCoordinator(a, s) ==
    /\ seats # <<>> /\ PlansRound(a)
    /\ s # seats[Len(seats)]
    /\ Len(seats) < MaxEpoch
    /\ seats' = Append(seats, s)
    /\ Heard(a)
    /\ UNCHANGED itemVars /\ UNCHANGED <<policy, question>>

\* External: the researcher resolves, archives or restores the question.
QuestionChanges(q) ==
    /\ question' = q
    /\ UNCHANGED itemVars /\ UNCHANGED <<seats, policy, spoken>>

-----------------------------------------------------------------------------
Planning(a) ==
    \/ \E t \in Tasks, linked \in BOOLEAN, D \in SUBSET Tasks : Create(a, t, linked, D)
    \/ \E t \in Tasks, added \in SUBSET Tasks : \E removed \in SUBSET DependenciesOf(t) :
          UpdatePlan(a, t, added, removed)
    \/ \E t \in Tasks : LinkRound(a, t) \/ Close(a, t)
    \/ \E t \in Tasks, s \in Sessions : Assign(a, t, s)
    \/ \E t \in Tasks, k \in Keys \cup {NoKey}, i \in Attempts : BeginAttempt(a, t, k, i)
    \/ \E t \in Tasks, accept \in BOOLEAN : Review(a, t, accept)
    \/ \E s \in Sessions : HandoffCoordinator(a, s)

Doing(a) ==
    \/ \E i \in Attempts : BindAttemptRun(a, i)
    \/ \E i \in Attempts, outcome \in Outcomes : FinishAttempt(a, i, outcome)
    \/ \E t \in Tasks : AddResult(a, t)
    \/ \E t \in Tasks, to \in Stages, kind \in ReviewKinds : Advance(a, t, to, kind)
    \/ \E t \in Tasks, c \in Conditions : SetCondition(a, t, c)

Server ==
    \/ \E i \in Attempts : UndeliveredAttemptFailed(i)
    \/ \E t \in Tasks : \/ AnalysisStarted(t) \/ AnalysisResolved(t)
                        \/ RequestDecision(t) \/ AnswerDecision(t)
                        \/ FlagAttention(t) \/ ClearAttention(t)

Round ==
    \/ \E p \in Policies : SetPolicy(p)
    \/ \E s \in Sessions : AssumeCoordinator(s)
    \/ \E q \in Questions : QuestionChanges(q)

WorkNext ==
    \/ \E a \in Planners : Planning(a)
    \/ \E a \in Actors : Doing(a)
    \/ Server
    \/ Round

WorkSpec == WorkInit /\ [][WorkNext]_workVars
-----------------------------------------------------------------------------
(* What the store promises. *)

WorkTypeOK ==
    /\ items \in [Tasks -> Item]
    /\ deps \subseteq Tasks \X Tasks
    /\ assignee \in [Tasks -> Sessions \cup {NoSession}]
    /\ attempts \in [Attempts -> Attempt]
    /\ requests \in [Tasks -> Nat]
    /\ seats \in Seq(Sessions)
    /\ policy \in Policies
    /\ question \in Questions
    /\ spoken \in 0..Len(seats)

\* No items wait for each other: among any of them one depends on none of the
\* others, so work can go on.  add_dependency looks for a cycle in the edges of
\* that moment; no sequence of plan changes closes one behind its back.
DependenciesAcyclic ==
    \A S \in SUBSET Tasks : S # {} => \E t \in S : \A u \in S : <<t, u>> \notin deps

\* Whatever plan change, review, closure or lifted condition came last, a ready
\* item waits for nothing: its dependencies are accepted, or one of them is
\* closed for good (refresh_readiness leaves such a row alone while a person
\* holds it, and BeginAttempt asks again).
ReadyNeverWaits ==
    \A t \in Tasks : Active(t) /\ items[t].stage = "ready" =>
        DependenciesAccepted(items, deps, t) \/ ClosedDependency(items, deps, t)

\* A running attempt is never orphaned from its Session: until the item is done
\* the Session of its open attempt is the one assigned to it (assign refuses,
\* close cancels), and the item is in the round that pays for the attempt.
OpenAttemptIsHeld ==
    \A i \in Used : Open(i) =>
        LET t == attempts[i].task
        IN  /\ Active(t) /\ items[t].linked
            /\ items[t].stage # "done" => assignee[t] = attempts[i].session
            /\ \A j \in AttemptsOf(t) \ {i} : ~Open(j)

\* A dispatch that is repeated under its request key, before, during or after
\* the attempt it made, never makes another (begin_attempt).
OneAttemptPerKey ==
    \A i, j \in Used :
        attempts[i].task = attempts[j].task /\ attempts[i].key = attempts[j].key
            => i = j \/ attempts[i].key = NoKey

\* Commands are carried out in the name of coordinators in the order of their
\* epochs: once a later coordinator was heard no earlier one is, not even a
\* Session that held the round before and holds it again (check_coordinator).
AuthorityIsFenced == [][spoken' >= spoken]_workVars

\* What is over stays over: an attempt keeps its outcome, accepted work stays
\* accepted and done, and closed work stays closed, so what a dependent, a
\* budget or a review relied on is never taken back.
SettledForGood ==
    [][/\ \A i \in Attempts : attempts[i].status \in ClosedStatus
                                  => attempts'[i] = attempts[i]
       /\ \A t \in Tasks :
            /\ items[t].acceptance = "accepted"
                 => items'[t].acceptance = "accepted" /\ items'[t].stage = "done"
            /\ items[t].life = "closed" => items'[t].life = "closed"]_workVars

\* The whole store keeps the ledger of its round: no command, whichever item it
\* is about, opens an attempt beyond the limits of the moment or under a pause,
\* frees a used one, or speaks for a coordinator that is not the current one.
LedgerSlots == [i \in Attempts |-> CASE attempts[i].status = "unused" -> "unused"
                                     [] Open(i) -> "open"
                                     [] OTHER -> "closed"]
Ledger == INSTANCE RoundLedger WITH Slots <- Attempts, Limits <- Policies,
              slots <- LedgerSlots, limits <- policy, epoch <- Len(seats), spoken <- spoken
KeepsLedger == Ledger!LedgerSpec

-----------------------------------------------------------------------------
(* What the repository says and the code does not do. *)

\* commands.rs, in advance: "Work that leaves the executor's hands needs its
\* attempt finished."
DoneWorkIsFinished ==
    \A t \in Tasks : items[t].stage = "done" => ~HasOpenAttempt(t)

\* commands.rs, at refresh_readiness: dependencies decide planned versus ready and
\* a closed one blocks; what a person set is not touched.  So an item that nobody
\* holds is where its dependencies put it.
ReadinessIsCurrent ==
    \A t \in Tasks : items[t].condition = "none" => Refreshed(items, deps)[t] = items[t]

\* ADR 0217, section 2: the work store enforces the limits inside the same
\* transactions as the commands they limit, so no caller can bypass them.
ExecutorsWithinLimit ==
    [][Executors' \subseteq Executors \/ Cardinality(Executors') <= policy.executors]_workVars
=============================================================================
