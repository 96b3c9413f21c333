------------------------ MODULE RouteDeliveryProofs ------------------------
(***************************************************************************)
(* Proofs about RouteDelivery for every set of messages, attempts and      *)
(* Sessions and every limit: type correctness and the safety properties of *)
(* the routes, from one inductive invariant.  Crashes and failing          *)
(* statements are among the steps throughout.                              *)
(***************************************************************************)
EXTENDS RouteDelivery, TLAPS

-----------------------------------------------------------------------------
(* The inductive invariant. *)

\* What the running tick holds.
PassType ==
    [pc : {"idle", "routing", "marking", "reconciling", "closing", "telling", "delivering",
           "resolving", "sending", "settling", "failing", "noting"},
     todo : SUBSET (Messages \cup RouteIds), route : RouteIds \cup {NoRoute}, row : Row,
     to : Sessions \cup {NoSession}, outcome : {"delivered", "failed"},
     phase : {"routing", "reconciling", "delivering"}]

\* rearm stops at the limit of manual retries.
RetriesBounded == \A r \in RouteIds : routes[r].retries <= MaxRetries

\* The batch of a phase is of the kind that phase reads; a failed dispatch that
\* was read stays failed, for a dispatch is never retried.
BatchOK ==
    /\ pass.phase = "routing" => pass.todo \subseteq Messages
    /\ pass.phase = "reconciling" =>
          \A r \in pass.todo : r \in RouteIds /\ r.kind = "dispatch" /\ Is(r, "failed")
    /\ pass.phase = "delivering" => pass.todo \subseteq RouteIds
    /\ pass.pc \in {"routing", "reconciling", "delivering"} => pass.pc = pass.phase

\* The places where the tick holds a leased route.
InHand == {"resolving", "sending", "settling", "failing"}
\* Only the tick ends a route, so a leased one stays pending, with the retries
\* that were read, until the tick settles it: this is what makes the counters it
\* writes back current and the key of the failure note the right one.
HandOK ==
    /\ pass.pc \in InHand \cup {"marking", "noting", "closing", "telling"} => This \in RouteIds
    /\ At("marking") => This.kind = "discussion" /\ ~Is(This, "none")
    /\ pass.pc \in InHand => Is(This, "pending") /\ routes[This].retries = pass.row.retries
    /\ At("sending") => pass.to \in Sessions
    /\ At("settling") /\ pass.outcome = "delivered" =>
          pass.to \in Sessions /\ <<This, pass.to>> \in inbox
    /\ At("noting") => /\ This.kind = "dispatch" => Is(This, "failed")
                       /\ pass.row.retries <= MaxRetries
                       /\ Is(This, "failed") => routes[This].retries = pass.row.retries
    /\ pass.pc \in {"closing", "telling"} => This.kind = "dispatch" /\ Is(This, "failed")

\* The inductive invariant of tick, deliver_due and the handlers beside them.
RouteInv ==
    /\ RouteTypeOK /\ RetriesBounded /\ pass \in PassType /\ BatchOK /\ HandOK
    /\ DeliveredWasAdmitted /\ FailureIsNoted /\ UndeliveredStaysClosed /\ ReadMessageHasRoute

-----------------------------------------------------------------------------
(* The rows and the tick's record. *)

\* The three kinds of route are told apart by their source.
LEMMA TalkKind ==
    \A m \in Messages, s \in Sessions :
        Talk(m, s) \in RouteIds /\ Talk(m, s).kind = "discussion" /\ Talk(m, s).of = m
BY DEF RouteIds, Talk

\* See TalkKind: the route that dispatches an attempt.
LEMMA DispatchKind ==
    \A a \in Attempts :
        Dispatch(a) \in RouteIds /\ Dispatch(a).kind = "dispatch" /\ Dispatch(a).of = a
BY DEF RouteIds, Dispatch

\* See TalkKind: the route of an attempt's result.
LEMMA ResultKind ==
    \A a \in Attempts : Result(a) \in RouteIds /\ Result(a).kind = "result"
BY DEF RouteIds, Result

\* And conversely: the kind of a route gives its source back.
LEMMA RouteKind ==
    ASSUME NEW r \in RouteIds
    PROVE  /\ r.kind \in {"discussion", "dispatch", "result"}
           /\ r.kind = "dispatch" => r.of \in Attempts /\ r = Dispatch(r.of)
           /\ r.kind = "discussion" => r.of \in Messages /\ r.to \in Sessions /\ r = Talk(r.of, r.to)
<1>1. CASE \E m \in Messages, s \in Sessions : r = Talk(m, s)
  BY <1>1 DEF Talk
<1>2. CASE \E a \in Attempts : r = Dispatch(a)
  BY <1>2 DEF Dispatch
<1>3. CASE \E a \in Attempts : r = Result(a)
  BY <1>3 DEF Result
<1> QED BY <1>1, <1>2, <1>3 DEF RouteIds

\* Leases, backoffs and holds leave a row well formed.
LEMMA RowTypes ==
    /\ NoRow \in Row /\ NewRow \in Row
    /\ \A row \in Row : [row EXCEPT !.when = "now"] \in Row /\ [row EXCEPT !.when = "later"] \in Row
                        /\ [row EXCEPT !.when = "leased"] \in Row
    /\ \A row \in Row : row.retries \in Nat /\ row.attempts \in Nat
BY DEF Row, NoRow, NewRow

\* The values that the loops of tick start from and go back to.
LEMMA PassTypes ==
    ASSUME pass \in PassType
    PROVE  /\ Idle \in PassType /\ Routing \in PassType /\ Reconciling \in PassType
           /\ Delivering \in PassType /\ Continue \in PassType
           /\ Continue.pc = pass.phase /\ Continue.phase = pass.phase /\ Continue.todo = pass.todo
<1> USE RowTypes DEF PassType, Idle
<1>1. Idle \in PassType OBVIOUS
<1>2. Routing \in PassType BY DEF Routing, Unread
<1>3. Reconciling \in PassType BY DEF Reconciling, Unclosed
<1>4. Delivering \in PassType BY DEF Delivering, Due
<1>5. Continue \in PassType BY DEF Continue
<1>6. Continue.pc = pass.phase /\ Continue.phase = pass.phase /\ Continue.todo = pass.todo
  BY DEF Continue
<1> QED BY <1>1, <1>2, <1>3, <1>4, <1>5, <1>6

-----------------------------------------------------------------------------
(* Steps of HTTP handlers, Agents and the clock. *)

\* What may happen to a route outside the tick: nothing but its lease changes, it
\* is created, or the researcher retries a failed message.
MovesOutside(r) ==
    \/ /\ routes'[r].state = routes[r].state /\ routes'[r].retries = routes[r].retries
       /\ routes'[r].recipient = routes[r].recipient
    \/ routes[r].state = "none" /\ routes'[r] = NewRow
    \/ /\ r.kind = "discussion" /\ routes[r].state = "failed" /\ routes'[r].state = "pending"
       /\ routes[r].retries < MaxRetries /\ routes'[r].retries = routes[r].retries + 1

\* Such a step, taken at any moment of a running tick, keeps the invariant.
LEMMA OutsideStep ==
    ASSUME RouteInv, RouteTypeOK', \A r \in RouteIds : MovesOutside(r),
           UNCHANGED <<inbox, pass, notes, faults>>,
           \A a \in Attempts : attempts'[a] = "undelivered" => attempts[a] = "undelivered",
           \A m \in Messages : marks'[m] = "done" => marks[m] = "done"
    PROVE  RouteInv'
<1> USE RouteAssumption, RowTypes DEF RouteInv, RouteTypeOK, MovesOutside, Is, At, This
<1>1. NewRow.state = "pending" /\ NewRow.retries = 0
  BY DEF NewRow, NoRow
<1>2. RetriesBounded'
  BY <1>1 DEF RetriesBounded
<1>3. BatchOK'
  BY <1>1 DEF BatchOK
<1>4. HandOK'
  BY <1>1 DEF HandOK, InHand
<1>5. DeliveredWasAdmitted'
  BY <1>1 DEF DeliveredWasAdmitted
<1>6. FailureIsNoted'
  BY <1>1 DEF FailureIsNoted
<1>7. UndeliveredStaysClosed'
  BY <1>1, DispatchKind DEF UndeliveredStaysClosed
<1>8. ReadMessageHasRoute'
  <2> SUFFICES ASSUME NEW m \in Messages, marks'[m] = "done"
               PROVE  \E s \in Sessions : routes'[Talk(m, s)].state # "none"
    BY DEF ReadMessageHasRoute
  <2>1. PICK s \in Sessions : routes[Talk(m, s)].state # "none"
    BY DEF ReadMessageHasRoute
  <2>2. Talk(m, s) \in RouteIds
    BY TalkKind
  <2> QED BY <1>1, <2>1, <2>2
<1> QED BY <1>2, <1>3, <1>4, <1>5, <1>6, <1>7, <1>8

\* Steps of the other stores do not move routes.
LEMMA OtherStores ==
    ASSUME RouteInv, UNCHANGED routes PROVE \A r \in RouteIds : MovesOutside(r)
BY DEF MovesOutside

\* create_route of any route is such a step.
LEMMA CreateOutside ==
    ASSUME RouteInv, NEW r \in RouteIds, Create(r)
    PROVE  routes' \in [RouteIds -> Row] /\ \A q \in RouteIds : MovesOutside(q)
BY RowTypes DEF RouteInv, RouteTypeOK, Create, MovesOutside, Is

\* The handlers one by one.
LEMMA OutsideActions ==
    ASSUME RouteInv,
           \/ Handoff \/ \E m \in Messages : PostMessage(m)
           \/ \E a \in Attempts : BeginAttempt(a) \/ RouteDispatch(a) \/ BindRun(a) \/ EndAttempt(a)
                                  \/ ReportResult(a) \/ PauseOrResume(a)
           \/ \E s \in Sessions : ReplaceSession(s)
           \/ \E r \in RouteIds : RetryRoute(r) \/ TimePasses(r)
    PROVE  RouteInv'
<1> USE RouteAssumption DEF RouteInv, RouteTypeOK, work, people
<1>1. CASE Handoff
  BY <1>1, OtherStores, OutsideStep DEF Handoff
<1>2. ASSUME NEW m \in Messages, PostMessage(m) PROVE RouteInv'
  BY <1>2, OtherStores, OutsideStep DEF PostMessage
<1>3. ASSUME NEW a \in Attempts, BeginAttempt(a) PROVE RouteInv'
  BY <1>3, OtherStores, OutsideStep DEF BeginAttempt
<1>4. ASSUME NEW a \in Attempts, RouteDispatch(a) PROVE RouteInv'
  BY <1>4, CreateOutside, DispatchKind, OutsideStep DEF RouteDispatch
<1>5. ASSUME NEW a \in Attempts, BindRun(a) PROVE RouteInv'
  BY <1>5, OtherStores, OutsideStep DEF BindRun
<1>6. ASSUME NEW a \in Attempts, EndAttempt(a) PROVE RouteInv'
  BY <1>6, OtherStores, OutsideStep DEF EndAttempt
<1>7. ASSUME NEW a \in Attempts, ReportResult(a) PROVE RouteInv'
  BY <1>7, CreateOutside, ResultKind, OutsideStep DEF ReportResult
<1>8. ASSUME NEW a \in Attempts, PauseOrResume(a) PROVE RouteInv'
  BY <1>8, OtherStores, OutsideStep DEF PauseOrResume
<1>9. ASSUME NEW s \in Sessions, ReplaceSession(s) PROVE RouteInv'
  BY <1>9, OtherStores, OutsideStep DEF ReplaceSession
<1>10. ASSUME NEW r \in RouteIds, RetryRoute(r) PROVE RouteInv'
  <2>1. [NewRow EXCEPT !.retries = routes[r].retries + 1] \in Row
    <3>1. routes[r].retries + 1 \in Nat
      BY RowTypes
    <3> QED BY <3>1 DEF NewRow, NoRow, Row
  <2>2. routes' \in [RouteIds -> Row]
    BY <1>10, <2>1 DEF RetryRoute
  <2>3. [NewRow EXCEPT !.retries = routes[r].retries + 1].retries = routes[r].retries + 1
        /\ [NewRow EXCEPT !.retries = routes[r].retries + 1].state = "pending"
    BY DEF NewRow, NoRow
  <2>4. \A q \in RouteIds : MovesOutside(q)
    BY <1>10, <2>3 DEF RetryRoute, MovesOutside, MayRearm, Retryable, Is
  <2> QED BY <1>10, <2>2, <2>4, OutsideStep DEF RetryRoute
<1>11. ASSUME NEW r \in RouteIds, TimePasses(r) PROVE RouteInv'
  <2>1. routes' \in [RouteIds -> Row]
    BY <1>11, RowTypes DEF TimePasses
  <2>2. \A q \in RouteIds : MovesOutside(q)
    BY <1>11, RowTypes DEF TimePasses, MovesOutside, Row
  <2> QED BY <1>11, <2>1, <2>2, OutsideStep DEF TimePasses
<1> QED
  BY <1>1, <1>2, <1>3, <1>4, <1>5, <1>6, <1>7, <1>8, <1>9, <1>10, <1>11

-----------------------------------------------------------------------------
(* Steps of the tick: routing and reconciliation. *)

\* No step of the tick removes a route or revives a failed dispatch.
RowsStay ==
    \A r \in RouteIds :
        /\ routes[r].state # "none" => routes'[r].state # "none"
        /\ r.kind = "dispatch" /\ routes[r].state = "failed" => routes'[r].state = "failed"

\* Then what was given up stays given up,
LEMMA ClosedStay ==
    ASSUME RouteInv, RowsStay, UNCHANGED attempts PROVE UndeliveredStaysClosed'
BY DispatchKind DEF RouteInv, RowsStay, UndeliveredStaysClosed, Is

\* a message marked read keeps its route,
LEMMA ReadStay ==
    ASSUME RouteInv, RowsStay, UNCHANGED marks PROVE ReadMessageHasRoute'
<1> SUFFICES ASSUME NEW m \in Messages, marks'[m] = "done"
             PROVE  \E s \in Sessions : routes'[Talk(m, s)].state # "none"
  BY DEF ReadMessageHasRoute, Is
<1>1. PICK s \in Sessions : routes[Talk(m, s)].state # "none"
  BY DEF RouteInv, ReadMessageHasRoute, Is
<1> QED BY <1>1, TalkKind DEF RowsStay

\* and the rest of the batch keeps its meaning.
LEMMA BatchStay ==
    ASSUME RouteInv, RowsStay, pass'.phase = pass.phase, pass'.todo \subseteq pass.todo,
           pass'.pc \in {"routing", "reconciling", "delivering"} => pass'.pc = pass.phase
    PROVE  BatchOK'
BY DEF RouteInv, RowsStay, BatchOK, Is

\* Where each phase of the tick begins.
LEMMA LoopPc ==
    /\ Routing.pc = "routing" /\ Reconciling.pc = "reconciling"
    /\ Delivering.pc = "delivering" /\ Idle.pc = "idle"
<1>1. Routing.pc = "routing"
  BY DEF Routing, Idle
<1>2. Reconciling.pc = "reconciling"
  BY DEF Reconciling, Idle
<1>3. Delivering.pc = "delivering"
  BY DEF Delivering, Idle
<1>4. Idle.pc = "idle"
  BY DEF Idle
<1> QED BY <1>1, <1>2, <1>3, <1>4

\* A phase with an empty batch reads the next one.
LEMMA AdvanceStep == ASSUME RouteInv, Advance PROVE RouteInv'
<1> USE DEF RouteInv, Advance, work, people
<1>1. pass' \in {Routing, Reconciling, Delivering, Idle}
  BY DEF NextPhase
<1>2. pass' \in PassType /\ pass'.pc \in {"idle", "routing", "reconciling", "delivering"}
  BY <1>1, PassTypes, LoopPc
<1>3. RouteTypeOK'
  BY <1>2 DEF RouteTypeOK, PassType
<1>4. BatchOK'
  <2>1. CASE pass' = Routing
    BY <2>1 DEF BatchOK, Routing, Unread, Idle
  <2>2. CASE pass' = Reconciling
    BY <2>2 DEF BatchOK, Reconciling, Unclosed, Idle, Is
  <2>3. CASE pass' = Delivering
    BY <2>3 DEF BatchOK, Delivering, Due, Idle
  <2>4. CASE pass' = Idle
    BY <2>4 DEF BatchOK, Idle
  <2> QED BY <1>1, <2>1, <2>2, <2>3, <2>4
<1>6. HandOK'
  BY <1>2 DEF HandOK, InHand, At
<1>7. FailureIsNoted'
  <2>1. ~At("noting")
    BY DEF NextPhase, At
  <2> QED BY <2>1 DEF FailureIsNoted, Is
<1> QED
  BY <1>2, <1>3, <1>4, <1>6, <1>7
     DEF RetriesBounded, DeliveredWasAdmitted, UndeliveredStaysClosed, ReadMessageHasRoute, Is

\* route_chatter stores the route and holds it until the message is marked.
LEMMA RouteChatterStep ==
    ASSUME RouteInv, NEW m \in Messages, RouteChatter(m) PROVE RouteInv'
<1> USE DEF RouteInv, RouteChatter, work, people
<1>1. Talk(m, member) \in RouteIds /\ Talk(m, member).kind = "discussion"
  BY TalkKind DEF RouteTypeOK
<1>2. routes' \in [RouteIds -> Row] /\ RowsStay /\ routes'[Talk(m, member)].state # "none"
  BY <1>1, RowTypes DEF RouteTypeOK, Create, RowsStay, Is, NewRow, NoRow
<1>3. /\ pass' \in PassType /\ pass'.pc = "marking" /\ pass'.route = Talk(m, member)
      /\ pass'.todo \subseteq pass.todo /\ pass'.phase = pass.phase
  BY <1>1 DEF PassType
<1>4. RouteTypeOK'
  BY <1>1, <1>2, <1>3 DEF RouteTypeOK, PassType
<1>5. RetriesBounded' /\ DeliveredWasAdmitted' /\ FailureIsNoted'
  BY <1>2, RouteAssumption
     DEF RouteTypeOK, Create, RetriesBounded, DeliveredWasAdmitted, FailureIsNoted,
     Is, NewRow, NoRow, At
<1>6. HandOK'
  BY <1>1, <1>2, <1>3 DEF HandOK, InHand, At, This, Is
<1> QED BY <1>2, <1>3, <1>4, <1>5, <1>6, BatchStay, ClosedStay, ReadStay

\* The tick goes back to the loop of its phase.
LEMMA ContinueStep ==
    ASSUME RouteInv, RowsStay, pass' = Continue
    PROVE  pass' \in PassType /\ BatchOK' /\ HandOK'
<1>1. /\ pass' \in PassType /\ pass'.phase = pass.phase /\ pass'.todo = pass.todo
      /\ pass'.pc = pass.phase /\ pass.phase \in {"routing", "reconciling", "delivering"}
  BY PassTypes DEF RouteInv, PassType
<1>2. BatchOK'
  BY <1>1, BatchStay
<1>3. HandOK'
  BY <1>1 DEF HandOK, InHand, At
<1> QED BY <1>1, <1>2, <1>3

\* The message is marked after its route was stored, by the same pass.
LEMMA MarkRoutedStep == ASSUME RouteInv, MarkRouted PROVE RouteInv'
<1> USE DEF RouteInv, MarkRouted, work, people
<1>1. RowsStay
  BY DEF RowsStay
<1>2. pass' \in PassType /\ BatchOK' /\ HandOK'
  BY <1>1, ContinueStep
<1>3. RouteTypeOK'
  BY <1>2 DEF RouteTypeOK, PassType
<1>4. ReadMessageHasRoute'
  <2> SUFFICES ASSUME NEW m \in Messages, marks'[m] = "done"
               PROVE  \E s \in Sessions : ~Is(Talk(m, s), "none")'
    BY DEF ReadMessageHasRoute
  <2>1. CASE m = This.of
    BY <2>1, RouteKind DEF HandOK, At, Is
  <2>2. CASE m # This.of
    BY <2>2 DEF JustRead, ReadMessageHasRoute, RouteTypeOK, Is
  <2> QED BY <2>1, <2>2
<1>5. FailureIsNoted'
  BY DEF FailureIsNoted, At, Is
<1> QED
  BY <1>1, <1>2, <1>3, <1>4, <1>5, ClosedStay DEF RetriesBounded, DeliveredWasAdmitted, Is

\* reconcile_failed_dispatches picks a failed dispatch of its batch.
LEMMA ReconcileStep == ASSUME RouteInv, NEW r \in RouteIds, Reconcile(r) PROVE RouteInv'
<1> USE DEF RouteInv, Reconcile, work, people
<1>1. RowsStay
  BY DEF RowsStay
<1>2. /\ pass' \in PassType /\ pass'.pc = "closing" /\ pass'.route = r
      /\ pass'.todo \subseteq pass.todo /\ pass'.phase = pass.phase
  BY DEF PassType
<1>3. RouteTypeOK'
  BY <1>2 DEF RouteTypeOK, PassType
<1>4. r.kind = "dispatch" /\ Is(r, "failed")
  BY DEF BatchOK, At
<1>5. HandOK'
  BY <1>2, <1>4 DEF HandOK, InHand, At, This, Is
<1>6. FailureIsNoted'
  BY DEF FailureIsNoted, At, Is
<1> QED
  BY <1>1, <1>2, <1>3, <1>5, <1>6, BatchStay, ClosedStay, ReadStay
     DEF RetriesBounded, DeliveredWasAdmitted, Is

\* close_failed_dispatch closes an attempt only when its dispatch has failed.
LEMMA CloseAttemptStep == ASSUME RouteInv, CloseAttempt PROVE RouteInv'
<1> USE DEF RouteInv, CloseAttempt, people
<1>1. RowsStay
  BY DEF RowsStay
<1>2. This \in RouteIds /\ This.kind = "dispatch" /\ Is(This, "failed")
  BY DEF HandOK, At
<1>3. This.of \in Attempts /\ This = Dispatch(This.of)
  BY <1>2, RouteKind
<1>4. pass' \in PassType /\ BatchOK' /\ HandOK'
  <2>1. CASE attempts[This.of] = "queued"
    <3>1. /\ pass' \in PassType /\ pass'.pc = "telling" /\ pass'.route = This
          /\ pass'.todo = pass.todo /\ pass'.phase = pass.phase
      BY <2>1 DEF PassType, This
    <3>2. HandOK'
      BY <1>2, <3>1 DEF HandOK, InHand, At, This, Is
    <3> QED BY <1>1, <3>1, <3>2, BatchStay
  <2>2. CASE attempts[This.of] # "queued"
    BY <1>1, <2>2, ContinueStep
  <2> QED BY <2>1, <2>2
<1>5. RouteTypeOK'
  BY <1>3, <1>4 DEF RouteTypeOK, PassType
<1>6. UndeliveredStaysClosed'
  BY <1>2, <1>3 DEF UndeliveredStaysClosed, RouteTypeOK, Is
<1>7. FailureIsNoted'
  BY DEF FailureIsNoted, At, Is
<1> QED
  BY <1>1, <1>4, <1>5, <1>6, <1>7, ReadStay DEF RetriesBounded, DeliveredWasAdmitted, Is

\* The result that tells the coordinator is a new route or an old one.
LEMMA TellCoordinatorStep == ASSUME RouteInv, TellCoordinator PROVE RouteInv'
<1> USE DEF RouteInv, TellCoordinator, work, people
<1>1. Result(This.of) \in RouteIds
  BY RouteKind, ResultKind DEF HandOK, At
<1>2. routes' \in [RouteIds -> Row] /\ RowsStay
  BY <1>1, RowTypes DEF RouteTypeOK, Create, RowsStay, Is, NewRow, NoRow
<1>3. pass' \in PassType /\ BatchOK' /\ HandOK'
  BY <1>2, ContinueStep
<1>4. RouteTypeOK'
  BY <1>2, <1>3 DEF RouteTypeOK, PassType
<1>5. RetriesBounded' /\ DeliveredWasAdmitted' /\ FailureIsNoted'
  BY <1>1, <1>2, RouteAssumption
     DEF RouteTypeOK, Create, RetriesBounded, DeliveredWasAdmitted, FailureIsNoted, Is,
         NewRow, NoRow, At
<1> QED BY <1>2, <1>3, <1>4, <1>5, ClosedStay, ReadStay

-----------------------------------------------------------------------------
(* Steps of the tick: delivery. *)

\* A due row is leased and read; one that is not due any more is passed over.
LEMMA LeaseStep == ASSUME RouteInv, NEW r \in RouteIds, Lease(r) PROVE RouteInv'
<1> USE DEF RouteInv, Lease, work, people
<1>1. routes' \in [RouteIds -> Row] /\ routes[r] \in Row
  <2>1. routes[r] \in Row /\ [routes[r] EXCEPT !.when = "leased"] \in Row
    BY RowTypes DEF RouteTypeOK
  <2>2. CASE IsDue(r)
    <3>1. routes' = [routes EXCEPT ![r] = [routes[r] EXCEPT !.when = "leased"]]
      BY <2>2 DEF RouteTypeOK
    <3> QED BY <2>1, <3>1 DEF RouteTypeOK
  <2>3. CASE ~IsDue(r)
    BY <2>1, <2>3 DEF RouteTypeOK
  <2> QED BY <2>2, <2>3
<1>2. \A q \in RouteIds : /\ routes'[q].state = routes[q].state
                          /\ routes'[q].retries = routes[q].retries
                          /\ routes'[q].recipient = routes[q].recipient
  BY <1>1 DEF RouteTypeOK, Row
<1>3. RowsStay
  BY <1>2 DEF RowsStay
<1>4. pass.phase = "delivering"
  BY DEF BatchOK, At
<1>5. pass' \in PassType /\ BatchOK' /\ HandOK'
  <2>1. CASE IsDue(r)
    <3>1. /\ pass' \in PassType /\ pass'.pc = "resolving" /\ pass'.route = r
          /\ pass'.row = routes[r] /\ pass'.todo \subseteq pass.todo /\ pass'.phase = pass.phase
      <4>1. routes[r] \in Row
        BY <1>1
      <4>2. pass' = [pass EXCEPT !.pc = "resolving", !.route = r, !.row = routes[r],
                                 !.todo = pass.todo \ {r}]
        BY <2>1
      <4> QED BY <4>1, <4>2 DEF PassType
    <3>2. HandOK'
      BY <1>2, <2>1, <3>1 DEF HandOK, InHand, At, This, Is, IsDue
    <3> QED BY <1>3, <3>1, <3>2, BatchStay
  <2>2. CASE ~IsDue(r)
    <3>1. /\ pass' \in PassType /\ pass'.pc = "delivering"
          /\ pass'.todo \subseteq pass.todo /\ pass'.phase = pass.phase
      BY <2>2 DEF PassType, At
    <3>2. HandOK'
      BY <3>1 DEF HandOK, InHand, At
    <3> QED BY <1>3, <1>4, <3>1, <3>2, BatchStay
  <2> QED BY <2>1, <2>2
<1>6. RouteTypeOK'
  BY <1>1, <1>5 DEF RouteTypeOK, PassType
<1>7. RetriesBounded' /\ DeliveredWasAdmitted' /\ FailureIsNoted'
  BY <1>2 DEF RetriesBounded, DeliveredWasAdmitted, FailureIsNoted, Is, At
<1> QED BY <1>3, <1>5, <1>6, <1>7, ClosedStay, ReadStay

\* The recipient is found, or the route is held or given up.
LEMMA ResolveStep == ASSUME RouteInv, Resolve PROVE RouteInv'
<1> USE DEF RouteInv, Resolve, work, people
<1>1. This \in RouteIds /\ Is(This, "pending") /\ routes[This].retries = pass.row.retries
  BY DEF HandOK, InHand, At
<1>2. routes' \in [RouteIds -> Row]
  <2>1. routes[This] \in Row /\ [routes[This] EXCEPT !.when = "later"] \in Row
    BY <1>1, RowTypes DEF RouteTypeOK
  <2>2. CASE UNCHANGED routes
    BY <2>2 DEF RouteTypeOK
  <2>3. CASE routes' = [routes EXCEPT ![This] = [routes[This] EXCEPT !.when = "later"]]
    BY <1>1, <2>1, <2>3 DEF RouteTypeOK
  <2> QED BY <2>2, <2>3
<1>3. \A q \in RouteIds : /\ routes'[q].state = routes[q].state
                          /\ routes'[q].retries = routes[q].retries
                          /\ routes'[q].recipient = routes[q].recipient
  BY <1>1, RowTypes DEF RouteTypeOK, Row
<1>4. RowsStay
  BY <1>3 DEF RowsStay
<1>5. pass' \in PassType /\ BatchOK' /\ HandOK'
  <2>1. CASE Gone(This)
    <3>1. /\ pass' \in PassType /\ pass'.pc = "failing" /\ pass'.route = This /\ pass'.row = pass.row
          /\ pass'.todo = pass.todo /\ pass'.phase = pass.phase
      BY <2>1 DEF PassType, This
    <3>2. HandOK'
      BY <1>1, <1>3, <3>1 DEF HandOK, InHand, At, This, Is
    <3> QED BY <1>4, <3>1, <3>2, BatchStay
  <2>2. CASE ~Gone(This) /\ Held(This)
    BY <1>4, <2>2, ContinueStep
  <2>3. CASE ~Gone(This) /\ ~Held(This)
    <3>1. Recipient(This) \in Sessions
      BY <1>1, RouteKind, RouteAssumption DEF Recipient, RouteTypeOK
    <3>2. /\ pass' \in PassType /\ pass'.pc = "sending" /\ pass'.route = This /\ pass'.row = pass.row
          /\ pass'.to \in Sessions /\ pass'.todo = pass.todo /\ pass'.phase = pass.phase
      BY <2>3, <3>1 DEF PassType, This
    <3>3. HandOK'
      BY <1>1, <1>3, <3>2 DEF HandOK, InHand, At, This, Is
    <3> QED BY <1>4, <3>2, <3>3, BatchStay
  <2> QED BY <2>1, <2>2, <2>3
<1>6. RouteTypeOK'
  BY <1>2, <1>5 DEF RouteTypeOK, PassType
<1>7. RetriesBounded' /\ DeliveredWasAdmitted' /\ FailureIsNoted'
  BY <1>3 DEF RetriesBounded, DeliveredWasAdmitted, FailureIsNoted, Is, At
<1> QED BY <1>4, <1>5, <1>6, <1>7, ClosedStay, ReadStay

\* The sink admits the prompt under the key of route and recipient, or fails.
LEMMA DeliverStep == ASSUME RouteInv, Deliver PROVE RouteInv'
<1> USE DEF RouteInv, Deliver, work, people
<1>1. This \in RouteIds /\ Is(This, "pending") /\ routes[This].retries = pass.row.retries
      /\ pass.to \in Sessions
  BY DEF HandOK, InHand, At
<1>2. RowsStay
  BY DEF RowsStay
<1>3. inbox' \subseteq RouteIds \X Sessions /\ inbox \subseteq inbox'
  BY <1>1 DEF RouteTypeOK, DeliveryKey
<1>4. /\ pass' \in PassType /\ pass'.pc = "settling" /\ pass'.route = This /\ pass'.row = pass.row
      /\ pass'.to = pass.to /\ pass'.todo = pass.todo /\ pass'.phase = pass.phase
  BY DEF PassType, This
<1>5. pass'.outcome = "delivered" => <<This, pass.to>> \in inbox'
  BY DEF PassType, DeliveryKey
<1>6. HandOK'
  BY <1>1, <1>4, <1>5 DEF HandOK, InHand, At, This, Is
<1>7. RouteTypeOK'
  BY <1>3, <1>4 DEF RouteTypeOK, PassType
<1>8. RetriesBounded' /\ DeliveredWasAdmitted' /\ FailureIsNoted'
  BY <1>3 DEF RetriesBounded, DeliveredWasAdmitted, FailureIsNoted, Is, At
<1> QED BY <1>2, <1>4, <1>6, <1>7, <1>8, BatchStay, ClosedStay, ReadStay

\* The outcome of a try is written to the row that was leased.
LEMMA SettleStep == ASSUME RouteInv, Settle PROVE RouteInv'
<1> USE DEF RouteInv, Settle, work, people
<1>1. This \in RouteIds /\ Is(This, "pending") /\ routes[This] \in Row /\ Tried \in Nat
      /\ routes[This].retries = pass.row.retries
  BY RowTypes DEF HandOK, InHand, At, RouteTypeOK, PassType, Tried
<1>2. CASE pass.outcome = "delivered"
  <2> DEFINE row == [routes[This] EXCEPT !.state = "delivered", !.recipient = pass.to, !.when = "now"]
  <2>1. pass.to \in Sessions /\ <<This, pass.to>> \in inbox
    BY <1>2 DEF HandOK, At
  <2>2. row \in Row /\ row.state = "delivered" /\ row.recipient = pass.to
        /\ row.retries = routes[This].retries
    BY <1>1, <2>1 DEF Row
  <2>3. routes' = [routes EXCEPT ![This] = row] /\ pass' = Continue
    BY <1>1, <1>2 DEF Write
  <2> HIDE DEF row
  <2>4. routes' \in [RouteIds -> Row] /\ RowsStay
    BY <1>1, <2>2, <2>3 DEF RouteTypeOK, RowsStay, Is
  <2>5. pass' \in PassType /\ BatchOK' /\ HandOK'
    BY <2>3, <2>4, ContinueStep
  <2>6. RouteTypeOK'
    BY <2>4, <2>5 DEF RouteTypeOK, PassType
  <2>7. RetriesBounded' /\ DeliveredWasAdmitted' /\ FailureIsNoted'
    BY <1>1, <2>1, <2>2, <2>3
       DEF RouteTypeOK, RetriesBounded, DeliveredWasAdmitted, FailureIsNoted, Is, At
  <2> QED BY <2>4, <2>5, <2>6, <2>7, ClosedStay, ReadStay
<1>3. CASE pass.outcome = "failed" /\ Tried < MaxAttempts
  <2> DEFINE row == [routes[This] EXCEPT !.attempts = Tried, !.when = "later"]
  <2>1. row \in Row /\ row.state = routes[This].state /\ row.recipient = routes[This].recipient
        /\ row.retries = routes[This].retries
    BY <1>1 DEF Row
  <2>2. routes' = [routes EXCEPT ![This] = row] /\ pass' = Continue
    <3>1. pass.outcome # "delivered" /\ ~(Tried >= MaxAttempts)
      BY <1>1, <1>3, RouteAssumption
    <3> QED BY <1>1, <1>3, <3>1 DEF Write
  <2> HIDE DEF row
  <2>3. routes' \in [RouteIds -> Row] /\ RowsStay
    BY <1>1, <2>1, <2>2 DEF RouteTypeOK, RowsStay, Is
  <2>4. pass' \in PassType /\ BatchOK' /\ HandOK'
    BY <2>2, <2>3, ContinueStep
  <2>5. RouteTypeOK'
    BY <2>3, <2>4 DEF RouteTypeOK, PassType
  <2>6. RetriesBounded' /\ DeliveredWasAdmitted' /\ FailureIsNoted'
    BY <1>1, <2>1, <2>2
       DEF RouteTypeOK, RetriesBounded, DeliveredWasAdmitted, FailureIsNoted, Is, At
  <2> QED BY <2>3, <2>4, <2>5, <2>6, ClosedStay, ReadStay
<1>4. CASE pass.outcome = "failed" /\ Tried >= MaxAttempts
  <2>1. RowsStay /\ UNCHANGED routes
    BY <1>1, <1>4, RouteAssumption DEF RowsStay
  <2>2. /\ pass' \in PassType /\ pass'.pc = "failing" /\ pass'.route = This /\ pass'.row = pass.row
        /\ pass'.todo = pass.todo /\ pass'.phase = pass.phase
    BY <1>1, <1>4, RouteAssumption DEF PassType, This
  <2>3. HandOK'
    BY <1>1, <2>1, <2>2 DEF HandOK, InHand, At, This, Is
  <2>4. RouteTypeOK'
    BY <2>1, <2>2 DEF RouteTypeOK, PassType
  <2>5. RetriesBounded' /\ DeliveredWasAdmitted' /\ FailureIsNoted'
    BY <2>1 DEF RetriesBounded, DeliveredWasAdmitted, FailureIsNoted, Is, At
  <2> QED BY <2>1, <2>2, <2>3, <2>4, <2>5, BatchStay, ClosedStay, ReadStay
<1> QED BY <1>2, <1>3, <1>4

\* A route fails with the retries it was leased with.
LEMMA FailStep == ASSUME RouteInv, Fail PROVE RouteInv'
<1> USE DEF RouteInv, Fail, work, people
<1> DEFINE row == [routes[This] EXCEPT !.state = "failed", !.when = "now", !.attempts = Tried]
<1>1. This \in RouteIds /\ Is(This, "pending") /\ routes[This] \in Row /\ Tried \in Nat
      /\ routes[This].retries = pass.row.retries /\ routes[This].retries <= MaxRetries
  BY RowTypes DEF HandOK, InHand, At, RouteTypeOK, PassType, Tried, RetriesBounded
<1>2. row \in Row /\ row.state = "failed" /\ row.retries = routes[This].retries
  BY <1>1 DEF Row
<1>3. routes' = [routes EXCEPT ![This] = row]
  BY <1>1 DEF Write
<1> HIDE DEF row
<1>4. routes' \in [RouteIds -> Row] /\ RowsStay
  BY <1>1, <1>2, <1>3 DEF RouteTypeOK, RowsStay, Is
<1>5. /\ pass' \in PassType /\ pass'.pc = "noting" /\ pass'.route = This /\ pass'.row = pass.row
      /\ pass'.todo = pass.todo /\ pass'.phase = pass.phase
  BY <1>1 DEF PassType, This
<1>6. HandOK'
  BY <1>1, <1>2, <1>3, <1>5 DEF HandOK, InHand, At, This, Is, RouteTypeOK
<1>7. RouteTypeOK'
  BY <1>4, <1>5 DEF RouteTypeOK, PassType
<1>8. RetriesBounded' /\ DeliveredWasAdmitted' /\ FailureIsNoted'
  BY <1>1, <1>2, <1>3, <1>5
     DEF RouteTypeOK, RetriesBounded, DeliveredWasAdmitted, FailureIsNoted, Is, At, This
<1> QED BY <1>4, <1>5, <1>6, <1>7, <1>8, BatchStay, ClosedStay, ReadStay

\* The failure is noted under the retries of the row that failed.
LEMMA NoteStep == ASSUME RouteInv, Note PROVE RouteInv'
<1> USE DEF RouteInv, Note, work, people
<1>1. /\ This \in RouteIds /\ (This.kind = "dispatch" => Is(This, "failed"))
      /\ pass.row.retries \in 0 .. MaxRetries
      /\ Is(This, "failed") => routes[This].retries = pass.row.retries
  BY RowTypes, RouteAssumption DEF HandOK, At, PassType
<1>2. RowsStay
  BY DEF RowsStay
<1>3. pass' \in PassType /\ BatchOK' /\ HandOK'
  <2>1. CASE This.kind = "dispatch"
    <3>1. /\ pass' \in PassType /\ pass'.pc = "closing" /\ pass'.route = This
          /\ pass'.todo = pass.todo /\ pass'.phase = pass.phase
      BY <2>1 DEF PassType, This
    <3>2. HandOK'
      BY <1>1, <2>1, <3>1 DEF HandOK, InHand, At, This, Is
    <3> QED BY <1>2, <3>1, <3>2, BatchStay
  <2>2. CASE This.kind # "dispatch"
    BY <1>2, <2>2, ContinueStep
  <2> QED BY <2>1, <2>2
<1>4. RouteTypeOK'
  BY <1>1, <1>3 DEF RouteTypeOK, PassType, NoteKey
<1>5. FailureIsNoted'
  BY <1>1 DEF FailureIsNoted, NoteKey, Is, At
<1> QED
  BY <1>2, <1>3, <1>4, <1>5, ClosedStay, ReadStay
     DEF RetriesBounded, DeliveredWasAdmitted, Is

-----------------------------------------------------------------------------
(* The invariant and what follows from it. *)

\* A crash or a failing statement gives up the phase and nothing that is stored.
LEMMA FaultStep == ASSUME RouteInv, StatementFails \/ Crash PROVE RouteInv'
<1> USE DEF RouteInv, StatementFails, Crash, work, people
<1>1. RowsStay
  BY DEF RowsStay
<1>2. pass' \in {Reconciling, Delivering, Idle}
  BY DEF PassType
<1>3. pass' \in PassType /\ pass'.pc \in {"idle", "reconciling", "delivering"}
  BY <1>2, PassTypes, LoopPc
<1>4. RouteTypeOK'
  BY <1>3, RouteAssumption DEF RouteTypeOK, PassType
<1>5. BatchOK'
  <2>1. CASE pass' = Reconciling
    BY <2>1 DEF BatchOK, Reconciling, Unclosed, Idle, Is
  <2>2. CASE pass' = Delivering
    BY <2>2 DEF BatchOK, Delivering, Due, Idle
  <2>3. CASE pass' = Idle
    BY <2>3 DEF BatchOK, Idle
  <2> QED BY <1>2, <2>1, <2>2, <2>3
<1>6. HandOK'
  BY <1>3 DEF HandOK, InHand, At
<1>7. FailureIsNoted'
  BY DEF FailureIsNoted, RouteTypeOK
<1> QED
  BY <1>1, <1>3, <1>4, <1>5, <1>6, <1>7, ClosedStay, ReadStay
     DEF RetriesBounded, DeliveredWasAdmitted, Is

\* The empty tables satisfy the invariant.
LEMMA InvInit == RouteInit => RouteInv
<1> SUFFICES ASSUME RouteInit PROVE RouteInv
  OBVIOUS
<1> USE DEF RouteInit
<1>1. NoRow.state = "none" /\ NoRow.retries = 0
  BY DEF NoRow
<1>2. Idle \in PassType /\ Idle.pc = "idle" /\ Idle.todo = {} /\ Idle.route = NoRoute
      /\ Idle.row = NoRow /\ Idle.phase = "routing"
  BY RowTypes DEF Idle, PassType
<1>3. RouteTypeOK
  BY <1>2, RowTypes, RouteAssumption DEF RouteTypeOK
<1>4. BatchOK /\ HandOK
  BY <1>2 DEF BatchOK, HandOK, InHand, At
<1>5. RetriesBounded /\ DeliveredWasAdmitted /\ FailureIsNoted
  BY <1>1, RouteAssumption DEF RetriesBounded, DeliveredWasAdmitted, FailureIsNoted, Is
<1>6. UndeliveredStaysClosed /\ ReadMessageHasRoute
  BY DEF UndeliveredStaysClosed, ReadMessageHasRoute
<1> QED BY <1>2, <1>3, <1>4, <1>5, <1>6 DEF RouteInv

\* Every step of the tick, the handlers and the environment keeps it.
LEMMA InvStep == RouteInv /\ [RouteNext]_vars => RouteInv'
<1> SUFFICES ASSUME RouteInv, [RouteNext]_vars PROVE RouteInv'
  OBVIOUS
<1>1. CASE Tick
  BY <1>1, AdvanceStep, MarkRoutedStep, CloseAttemptStep, TellCoordinatorStep, ResolveStep,
     DeliverStep, SettleStep, FailStep, NoteStep, RouteChatterStep, ReconcileStep, LeaseStep DEF Tick
<1>2. CASE StatementFails \/ Crash
  BY <1>2, FaultStep
<1>3. CASE UNCHANGED vars
  BY <1>3 DEF vars, RouteInv, RouteTypeOK, RetriesBounded, BatchOK, HandOK, At, This, Is,
     DeliveredWasAdmitted, FailureIsNoted, UndeliveredStaysClosed, ReadMessageHasRoute
<1> QED BY <1>1, <1>2, <1>3, OutsideActions DEF RouteNext

\* The invariant holds in every state that tick and the handlers reach.
THEOREM RouteInvariant == RouteSpec => []RouteInv
<1> QED BY InvInit, InvStep, PTL DEF RouteSpec

\* The rows and what the tick holds of them are well formed, in every state that
\* tick and the handlers reach.
THEOREM RouteTypesCorrect == RouteSpec => []RouteTypeOK
<1>1. RouteInv => RouteTypeOK
  BY DEF RouteInv
<1> QED BY <1>1, RouteInvariant, PTL

\* A message that route_conversation marked read has a stored route, whatever
\* crashes, failing statements and replaced Sessions come between the two.
THEOREM NoMessageIsLost == RouteSpec => []ReadMessageHasRoute
<1>1. RouteInv => ReadMessageHasRoute
  BY DEF RouteInv
<1> QED BY <1>1, RouteInvariant, PTL

\* A route marked delivered names a Session that admitted its prompt: deliver_due
\* writes the recipient it resolved before it sent, not the one of the moment.
THEOREM DeliveredIsAdmitted == RouteSpec => []DeliveredWasAdmitted
<1>1. RouteInv => DeliveredWasAdmitted
  BY DEF RouteInv
<1> QED BY <1>1, RouteInvariant, PTL

\* While nothing breaks, each failure of a route has its own note: the key that
\* deliver_due makes of the leased row carries the retries of the row that failed.
THEOREM FailuresAreNoted == RouteSpec => []FailureIsNoted
<1>1. RouteInv => FailureIsNoted
  BY DEF RouteInv
<1> QED BY <1>1, RouteInvariant, PTL

\* An attempt closed by close_failed_dispatch is never delivered afterwards: its
\* dispatch stays failed, since retry_route refuses dispatches.
THEOREM GivenUpStaysGivenUp == RouteSpec => []UndeliveredStaysClosed
<1>1. RouteInv => UndeliveredStaysClosed
  BY DEF RouteInv
<1> QED BY <1>1, RouteInvariant, PTL
=============================================================================
