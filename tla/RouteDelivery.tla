---------------------------- MODULE RouteDelivery ----------------------------
(***************************************************************************)
(* The orchestrator's routes (server/src/orchestrator/mod.rs, delivery.rs, *)
(* sink.rs): durable rows that carry a message of the conversation to a    *)
(* member, a started attempt to its executor, and a result to the round's  *)
(* coordinator.                                                            *)
(*                                                                         *)
(* One task of the server runs tick again and again (app_state.rs): it     *)
(* routes the unread messages, closes the attempts that failed dispatches  *)
(* left queued, then leases and delivers what is due.  Everything else, a  *)
(* retry, a handoff, a new Session for a member, a pause, comes from HTTP  *)
(* handlers and Agents between any two of its transactions; the process    *)
(* may die or a statement may fail at any of them.                         *)
(*                                                                         *)
(* Time is abstract: a route's when says whether it may be leased now, or  *)
(* waits for the end of its lease, or of its backoff or hold.              *)
(***************************************************************************)
EXTENDS Integers, FiniteSets

CONSTANTS
    Messages,    \* top-level messages that name nobody: for the project manager
    Attempts,    \* execution attempts, each of its own task
    Sessions,    \* public Sessions
    Manager,     \* the project manager's first Session
    Executor,    \* the Session the tasks are assigned to
    MaxAttempts, \* MAX_ATTEMPTS
    MaxRetries,  \* MAX_MANUAL_RETRIES
    MaxFaults    \* bound: crashes and failing statements

ASSUME RouteAssumption ==
    /\ Manager \in Sessions /\ Executor \in Sessions \ {Manager}
    /\ MaxAttempts \in Nat \ {0} /\ MaxRetries \in Nat /\ MaxFaults \in Nat

VARIABLES
    routes,     \* message_routes
    marks,      \* channel_messages.routing
    attempts,   \* work_attempts.status
    member,     \* the project manager's current public Session
    former,     \* the Sessions it has left
    holder,     \* the round's coordinator
    stopped,    \* attempts whose task is paused or blocked, or its round paused
    inbox,      \* the prompts Sessions admitted, under route:<route>:<session>
    pass,       \* the running tick
    notes,      \* history: failure notes, by their key
    faults      \* history: crashes and failing statements

vars == <<routes, marks, attempts, member, former, holder, stopped, inbox, pass, notes, faults>>

Coordinator == "coordinator"

\* (source, target): the UNIQUE key of a route.
Talk(m, s) == [kind |-> "discussion", of |-> m, to |-> s]
Dispatch(a) == [kind |-> "dispatch", of |-> a, to |-> Executor]
Result(a) == [kind |-> "result", of |-> a, to |-> Coordinator]
RouteIds == {Talk(m, s) : m \in Messages, s \in Sessions}
            \cup {Dispatch(a) : a \in Attempts} \cup {Result(a) : a \in Attempts}

NoSession == "none"
Row == [state : {"none", "pending", "delivered", "failed"}, attempts : Nat, retries : Nat,
        when : {"now", "leased", "later"}, recipient : Sessions \cup {NoSession}]
NoRow == [state |-> "none", attempts |-> 0, retries |-> 0, when |-> "now", recipient |-> NoSession]
NewRow == [NoRow EXCEPT !.state = "pending"]

\* Where the tick is: the rest of its current batch, the route it works on with
\* the row as it was leased, the Session it was resolved to and the outcome
\* there, and the phase close_failed_dispatch was called from.
NoRoute == [kind |-> "none", of |-> "none", to |-> "none"]
Idle == [pc |-> "idle", todo |-> {}, route |-> NoRoute, row |-> NoRow, to |-> NoSession,
         outcome |-> "failed", phase |-> "routing"]

Is(r, s) == routes[r].state = s
IsDue(r) == Is(r, "pending") /\ routes[r].when = "now"
OpenAttempt == {"queued", "running"}

\* Variant: a dispatch may be retried too.
RetryableAny(r) == r.kind \in {"discussion", "dispatch"}
\* The kinds the researcher originated.
Retryable(r) == r.kind = "discussion"
\* create_route: INSERT OR IGNORE.
Create(r) == routes' = IF Is(r, "none") THEN [routes EXCEPT ![r] = NewRow] ELSE routes

RouteInit ==
    /\ routes = [r \in RouteIds |-> NoRow]
    /\ marks = [m \in Messages |-> "unsent"]
    /\ attempts = [a \in Attempts |-> "none"]
    /\ member = Manager
    /\ former = {}
    /\ holder = member
    /\ stopped = {}
    /\ inbox = {}
    /\ pass = Idle
    /\ notes = {}
    /\ faults = 0

-----------------------------------------------------------------------------
(* HTTP handlers and Agents. *)

work == <<attempts, stopped>>
people == <<member, former, holder>>

PostMessage(m) ==
    /\ marks[m] = "unsent"
    /\ marks' = [marks EXCEPT ![m] = "pending"]
    /\ UNCHANGED <<routes, work, people, inbox, pass, notes, faults>>

\* begin_attempt; the same handler then routes the dispatch, and a replay of the
\* command does so again.
BeginAttempt(a) ==
    /\ attempts[a] = "none" /\ a \notin stopped
    /\ attempts' = [attempts EXCEPT ![a] = "queued"]
    /\ UNCHANGED <<routes, marks, people, stopped, inbox, pass, notes, faults>>

RouteDispatch(a) ==
    /\ attempts[a] # "none"
    /\ Create(Dispatch(a))
    /\ UNCHANGED <<marks, work, people, inbox, pass, notes, faults>>

\* bind_attempt_run, by the executor: the code does not ask whether it has the
\* prompt of the dispatch.
BindRun(a) ==
    /\ attempts[a] = "queued"
    /\ attempts' = [attempts EXCEPT ![a] = "running"]
    /\ UNCHANGED <<routes, marks, people, stopped, inbox, pass, notes, faults>>

\* finish_attempt by a report or a cancellation, or the end of its task.
EndAttempt(a) ==
    /\ attempts[a] \in OpenAttempt
    /\ attempts' = [attempts EXCEPT ![a] = "ended"]
    /\ UNCHANGED <<routes, marks, people, stopped, inbox, pass, notes, faults>>

\* The report of the executor routes its result last; reporting again what is
\* already recorded does it again, of an attempt closed as undelivered too.
ReportResult(a) ==
    /\ attempts[a] \in {"ended", "undelivered"}
    /\ Create(Result(a))
    /\ UNCHANGED <<marks, work, people, inbox, pass, notes, faults>>

PauseOrResume(a) ==
    /\ stopped' = IF a \in stopped THEN stopped \ {a} ELSE stopped \cup {a}
    /\ UNCHANGED <<routes, marks, attempts, people, inbox, pass, notes, faults>>

\* replace_session of the project manager; it gets a Session it never had.
ReplaceSession(s) ==
    /\ s \notin former \cup {member, Executor}
    /\ member' = s
    /\ former' = former \cup {member}
    /\ UNCHANGED <<routes, marks, work, holder, inbox, pass, notes, faults>>

\* handoff_coordinator: of the manager's Sessions, only the current one may.
Handoff ==
    /\ holder # member
    /\ holder' = member
    /\ UNCHANGED <<routes, marks, work, member, former, inbox, pass, notes, faults>>

\* rearm: the condition of its one write.
MayRearm(r) == Is(r, "failed") /\ routes[r].retries < MaxRetries
\* retry_route
RetryRoute(r) ==
    /\ Retryable(r)
    /\ MayRearm(r)
    /\ routes' = [routes EXCEPT ![r] = [NewRow EXCEPT !.retries = routes[r].retries + 1]]
    /\ UNCHANGED <<marks, work, people, inbox, pass, notes, faults>>

\* A lease, a backoff or a hold runs out.
TimePasses(r) ==
    /\ routes[r].when # "now"
    /\ routes' = [routes EXCEPT ![r].when = "now"]
    /\ UNCHANGED <<marks, work, people, inbox, pass, notes, faults>>

-----------------------------------------------------------------------------
(* tick, first half: route_conversation and reconcile_failed_dispatches. *)

At(pc) == pass.pc = pc
This == pass.route

\* Variant: no failed dispatch is looked for.
UnclosedForgotten == {}
\* The batches that the phases read.
Unread == {m \in Messages : marks[m] = "pending"}
Unclosed == {r \in RouteIds : r.kind = "dispatch" /\ Is(r, "failed") /\ attempts[r.of] = "queued"}
Due == {r \in RouteIds : IsDue(r)}

Routing == [Idle EXCEPT !.pc = "routing", !.todo = Unread]
Reconciling == [Idle EXCEPT !.pc = "reconciling", !.todo = Unclosed, !.phase = "reconciling"]
Delivering == [Idle EXCEPT !.pc = "delivering", !.todo = Due, !.phase = "delivering"]

\* Back to the loop of the phase, with the rest of its batch.
Continue == [Idle EXCEPT !.pc = pass.phase, !.phase = pass.phase, !.todo = pass.todo]
NextPhase ==
             \/ At("idle") /\ pass' = Routing
             \/ At("routing") /\ pass.todo = {} /\ pass' = Reconciling
             \/ At("reconciling") /\ pass.todo = {} /\ pass' = Delivering
             \/ At("delivering") /\ pass.todo = {} /\ pass' = Idle

Advance ==
    /\ NextPhase
    /\ UNCHANGED <<routes, marks, work, people, inbox, notes, faults>>

\* route_chatter: the route is written for the manager's Session of this moment.
RouteChatter(m) ==
    /\ At("routing") /\ m \in pass.todo
    /\ Create(Talk(m, member))
    /\ pass' = [pass EXCEPT !.pc = "marking", !.route = Talk(m, member), !.todo = @ \ {m}]
    /\ UNCHANGED <<marks, work, people, inbox, notes, faults>>

\* Variant: the whole batch is marked with its first message.
ReadBatch == {This.of} \cup pass.todo
\* The messages that are marked with the route.
JustRead == {This.of}
MarkRouted ==
    /\ At("marking")
    /\ marks' = [m \in Messages |-> IF m \in JustRead THEN "done" ELSE marks[m]]
    /\ pass' = Continue
    /\ UNCHANGED <<routes, work, people, inbox, notes, faults>>

\* reconcile_failed_dispatches calls close_failed_dispatch for each.
Reconcile(r) ==
    /\ At("reconciling") /\ r \in pass.todo
    /\ pass' = [pass EXCEPT !.pc = "closing", !.route = r, !.todo = @ \ {r}]
    /\ UNCHANGED <<routes, marks, work, people, inbox, notes, faults>>

\* close_failed_dispatch: an attempt that never began is closed, and the
\* coordinator is told with a result.
CloseAttempt ==
    /\ At("closing")
    /\ IF attempts[This.of] = "queued"
       THEN /\ attempts' = [attempts EXCEPT ![This.of] = "undelivered"]
            /\ pass' = [pass EXCEPT !.pc = "telling"]
       ELSE /\ pass' = Continue
            /\ UNCHANGED attempts
    /\ UNCHANGED <<routes, marks, people, stopped, inbox, notes, faults>>

TellCoordinator ==
    /\ At("telling")
    /\ Create(Result(This.of))
    /\ pass' = Continue
    /\ UNCHANGED <<marks, work, people, inbox, notes, faults>>

-----------------------------------------------------------------------------
(* tick, second half: deliver_due. *)

\* The lease is a conditional write; the row is read after it.
Lease(r) ==
    /\ At("delivering") /\ r \in pass.todo
    /\ IF IsDue(r)
       THEN /\ routes' = [routes EXCEPT ![r].when = "leased"]
            /\ pass' = [pass EXCEPT !.pc = "resolving", !.route = r, !.row = routes[r],
                                    !.todo = @ \ {r}]
       ELSE /\ pass' = [pass EXCEPT !.todo = @ \ {r}]
            /\ UNCHANGED routes
    /\ UNCHANGED <<marks, work, people, inbox, notes, faults>>

\* recipient: Gone, Hold, or a Session.
Gone(r) == r.kind = "dispatch" /\ attempts[r.of] \notin OpenAttempt
Held(r) == r.kind = "dispatch" /\ r.of \in stopped
Recipient(r) == CASE r.kind = "discussion" -> IF r.to \in former THEN member ELSE r.to
                  [] r.kind = "dispatch" -> Executor
                  [] r.kind = "result" -> holder

Resolve ==
    /\ At("resolving")
    /\ \/ Gone(This) /\ pass' = [pass EXCEPT !.pc = "failing"] /\ UNCHANGED routes
       \/ /\ ~Gone(This) /\ Held(This)
          /\ routes' = [routes EXCEPT ![This].when = "later"]
          /\ pass' = Continue
       \/ /\ ~Gone(This) /\ ~Held(This)
          /\ pass' = [pass EXCEPT !.pc = "sending", !.to = Recipient(This)]
          /\ UNCHANGED routes
    /\ UNCHANGED <<marks, work, people, inbox, notes, faults>>

\* Variant: the key of the prompt names the target and not the recipient.
KeyOfTarget(r, s) == <<r, r.to>>
\* The client message id of the prompt.
DeliveryKey(r, s) == <<r, s>>

\* sink.deliver: the Session admits the prompt, or has admitted it before; or it
\* cannot be configured or the prompt cannot be stored, whatever it had before.
Deliver ==
    /\ At("sending")
    /\ \/ /\ inbox' = inbox \cup {DeliveryKey(This, pass.to)}
          /\ pass' = [pass EXCEPT !.pc = "settling", !.outcome = "delivered"]
       \/ /\ pass' = [pass EXCEPT !.pc = "settling", !.outcome = "failed"]
          /\ UNCHANGED inbox
    /\ UNCHANGED <<routes, marks, work, people, notes, faults>>

\* Every later write is conditional on the state alone, and writes counters that
\* were read with the lease.
Write(row) == routes' = IF Is(This, "pending") THEN [routes EXCEPT ![This] = row] ELSE routes
\* Variant: the try that just failed is not counted.
TriedBefore == pass.row.attempts
Tried == pass.row.attempts + 1

Settle ==
    /\ At("settling")
    /\ \/ /\ pass.outcome = "delivered"
          /\ Write([routes[This] EXCEPT !.state = "delivered", !.recipient = pass.to, !.when = "now"])
          /\ pass' = Continue
       \/ /\ pass.outcome = "failed" /\ Tried < MaxAttempts
          /\ Write([routes[This] EXCEPT !.attempts = Tried, !.when = "later"])
          /\ pass' = Continue
       \/ /\ pass.outcome = "failed" /\ Tried >= MaxAttempts
          /\ pass' = [pass EXCEPT !.pc = "failing"]
          /\ UNCHANGED routes
    /\ UNCHANGED <<marks, work, people, inbox, notes, faults>>

Fail ==
    /\ At("failing")
    /\ Write([routes[This] EXCEPT !.state = "failed", !.when = "now", !.attempts = Tried])
    /\ pass' = IF Is(This, "pending") THEN [pass EXCEPT !.pc = "noting"] ELSE Continue
    /\ UNCHANGED <<marks, work, people, inbox, notes, faults>>

\* Variant: every failure has the key of the first.
NoteKeyOfRoute(r) == <<r, 0>>
\* The note of a failure is keyed by the route and its retries; then a failed
\* dispatch closes its attempt.
NoteKey(r) == <<r, pass.row.retries>>
Note ==
    /\ At("noting")
    /\ notes' = notes \cup {NoteKey(This)}
    /\ pass' = IF This.kind = "dispatch" THEN [pass EXCEPT !.pc = "closing"] ELSE Continue
    /\ UNCHANGED <<routes, marks, work, people, inbox, faults>>

\* A statement fails: the phase is given up, and with deliver_due the tick.
Writing == {"marking", "closing", "telling", "settling", "failing", "noting"}
StatementFails ==
    /\ pass.pc \in Writing /\ faults < MaxFaults
    /\ faults' = faults + 1
    /\ pass' = CASE pass.phase = "routing" -> Reconciling
                 [] pass.phase = "reconciling" -> Delivering
                 [] pass.phase = "delivering" -> Idle
    /\ UNCHANGED <<routes, marks, work, people, inbox, notes>>

Crash ==
    /\ faults < MaxFaults
    /\ faults' = faults + 1
    /\ pass' = Idle
    /\ UNCHANGED <<routes, marks, work, people, inbox, notes>>

-----------------------------------------------------------------------------
Tick ==
    \/ Advance \/ MarkRouted \/ CloseAttempt \/ TellCoordinator
    \/ Resolve \/ Deliver \/ Settle \/ Fail \/ Note
    \/ \E m \in Messages : RouteChatter(m)
    \/ \E r \in RouteIds : Reconcile(r) \/ Lease(r)

RouteNext ==
    \/ Tick
    \/ StatementFails \/ Crash \/ Handoff
    \/ \E m \in Messages : PostMessage(m)
    \/ \E a \in Attempts : BeginAttempt(a) \/ RouteDispatch(a) \/ BindRun(a) \/ EndAttempt(a)
                           \/ ReportResult(a) \/ PauseOrResume(a)
    \/ \E s \in Sessions : ReplaceSession(s)
    \/ \E r \in RouteIds : RetryRoute(r) \/ TimePasses(r)

\* The server runs tick every few seconds, and time goes on.
RouteSpec == /\ RouteInit /\ [][RouteNext]_vars
             /\ WF_vars(Tick) /\ \A r \in RouteIds : WF_vars(TimePasses(r))

-----------------------------------------------------------------------------
\* Every value has its type: the rows, and what the tick holds of them.
RouteTypeOK ==
    /\ routes \in [RouteIds -> Row]
    /\ marks \in [Messages -> {"unsent", "pending", "done"}]
    /\ attempts \in [Attempts -> {"none", "queued", "running", "ended", "undelivered"}]
    /\ member \in Sessions /\ holder \in Sessions /\ former \subseteq Sessions
    /\ stopped \subseteq Attempts /\ faults \in 0 .. MaxFaults
    /\ inbox \subseteq RouteIds \X Sessions /\ notes \subseteq RouteIds \X (0 .. MaxRetries)
    /\ pass.route \in RouteIds \cup {NoRoute} /\ pass.row \in Row

\* A route marked delivered names the Session it was for at that time, and that
\* Session has the prompt, also when an earlier try reached another one before
\* the handoff or the replacement.
DeliveredWasAdmitted ==
    \A r \in RouteIds : Is(r, "delivered") => <<r, routes[r].recipient>> \in inbox

\* While nothing breaks, every failure of a route, the first and each one after
\* a retry, is noted in the conversation, except the one being noted now.
FailureIsNoted ==
    \A r \in RouteIds :
        (faults = 0 /\ Is(r, "failed") /\ ~(At("noting") /\ This = r))
            => <<r, routes[r].retries>> \in notes

\* An attempt closed because its dispatch could not be delivered is over: its
\* dispatch stays failed, so no later try or retry hands it to a Session.
UndeliveredStaysClosed ==
    \A a \in Attempts : attempts[a] = "undelivered" => Is(Dispatch(a), "failed")

\* A message is marked read only after its route is stored: whatever happens in
\* between, no message is lost.
ReadMessageHasRoute ==
    \A m \in Messages : marks[m] = "done" => \E s \in Sessions : ~Is(Talk(m, s), "none")

\* Every pending route is delivered or fails in the end, whatever crashes and
\* errors come; a dispatch may instead wait while its work is stopped.
RoutesSettle ==
    \A r \in RouteIds : Is(r, "pending") ~> (~Is(r, "pending") \/ Held(r))

\* An attempt whose dispatch failed does not hold the slot of its task for ever,
\* even when the process dies between the two.
SlotIsFreed ==
    \A a \in Attempts :
        (Is(Dispatch(a), "failed") /\ attempts[a] = "queued") ~> attempts[a] # "queued"

\* What orchestrator/mod.rs:1610 says of a dispatch that could not be delivered:
\* the attempt "is closed as failed and the coordinator is told".
CoordinatorIsTold ==
    \A a \in Attempts : attempts[a] = "undelivered" ~> ~Is(Result(a), "none")

=============================================================================
