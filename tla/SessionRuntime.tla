--------------------------- MODULE SessionRuntime ---------------------------
(***************************************************************************)
(* The running half of one Session: the API handlers that admit, steer and *)
(* cancel prompts (agent_runtime/dispatch.rs, permissions.rs), the handle  *)
(* the sessions map keeps for the Session, and the actors behind it        *)
(* (agent_runtime/actor.rs, pool.rs).  Every step either leaves the store  *)
(* alone or takes exactly one transaction of PromptQueue.                  *)
(*                                                                         *)
(* Actors are numbered by generation: dispatch makes a new one whenever it *)
(* finds no handle or a closed channel.  A handler that takes several      *)
(* locks is several steps; what it remembers in between is a call.         *)
(***************************************************************************)
EXTENDS PromptQueue, Sequences

CONSTANTS
    MaxActors,  \* bound: actor generations between two restarts
    MaxSends,   \* bound: dispatches of one run
    Events      \* which environment events this instance lets happen

EventKinds == {"idle", "disconnect", "evict", "fail", "crash", "ready",
               "resend", "steer", "edit", "remove", "cancel", "permission", "storage"}
ASSUME EventAssumption == Events \subseteq EventKinds
ASSUME ActorAssumption == MaxActors \in Nat /\ MaxSends \in Nat
ASSUME EndingAssumption == {"failed", "cancelled"} \subseteq Outcomes

VARIABLES
    actors,     \* session actors, by generation
    handle,     \* the generation registered in AgentRuntime.sessions, or NoActor
    current,    \* the generation in session_generations, or NoActor
    cancels,    \* AgentRuntime.cancellations: the dispatch a run may be cancelled by
    sends,      \* how many times each run was given a cancellation channel
    calls,      \* handlers between two of their steps
    asks,       \* runs whose permission handler waits for an answer
    prompted    \* history: how often the provider was given each run's prompt

memVars == <<actors, handle, current, cancels, sends, calls, asks, prompted>>
vars == <<storeVars, memVars>>

Gens == 1..MaxActors
NoActor == 0
NoRun == 0

\* SessionCommand.  A prompt carries the receiving end of the cancellation
\* channel made for that dispatch (token); "ready" stands for every command
\* that neither starts a run nor stops the actor.
Prompt(r, t) == [kind |-> "prompt", run |-> r, token |-> t]
Control == [kind |-> "ready", run |-> NoRun, token |-> 0]
Shutdown == [kind |-> "shutdown", run |-> NoRun, token |-> 0]
NoCommand == [kind |-> "none", run |-> NoRun, token |-> 0]

\* An actor: where it is in run_acp_session, its command channel, the command
\* it works on, the queue item it claimed, whether a Shutdown stopped the turn,
\* the outcome of the turn, and the handle's active flag.
IdleActor == [pc |-> "none", chan |-> <<>>, cmd |-> NoCommand, drain |-> NoCommand,
              item |-> NoItem, stop |-> FALSE, outcome |-> "completed", active |-> FALSE]

\* The receiver lives until run_session_actor returns.
ReceiverAlive(g) == actors[g].pc \notin {"none", "closed", "gone"}
Fresh(g) == actors[g].pc = "none" /\ \A f \in Gens : f < g => actors[f].pc # "none"

\* Every sender is gone: the handle was replaced or removed, no handler holds a
\* clone of it.
Orphaned(g) == handle # g /\ \A c \in calls : c.to # g

\* The receiver of a cancellation channel resolves when its sender fires or is
\* dropped: both mean that the map no longer holds that dispatch.
CancelSeen(cmd) == cancels[cmd.run] # cmd.token

\* The cancellation made for the next dispatch of a run.
NextToken(r) == sends[r] + 1
Register(r) ==
    /\ NextToken(r) <= MaxSends
    /\ sends' = [sends EXCEPT ![r] = NextToken(r)]
    /\ cancels' = [cancels EXCEPT ![r] = NextToken(r)]

RemoveCancel(r) == cancels' = [cancels EXCEPT ![r] = 0]

\* finish_run as its callers use it: the first one transitions, later ones do not.
FinishOnce(r, s) == IF IsActive(r) THEN FinishRun(r, s) ELSE UNCHANGED storeVars

\* Variant: the permission handlers write the status whatever it was.
MarkAlways(r, s) == /\ runs' = [runs EXCEPT ![r].status = s]
                    /\ UNCHANGED <<queue, claims, accepted, steered, dropped>>

\* set_run_status as the permission handlers use it.
MarkIfActive(r, s) == IF IsActive(r) THEN SetRunStatus(r, s) ELSE UNCHANGED storeVars

\* Bound: prompts are admitted while every queued one can still become a run.
WillBecomeRun == {i \in ItemIds : IsRow(i) /\ \A r \in RunIds : runs[r].item # i}
Room == Cardinality({r \in RunIds : Inserted(r)}) + Cardinality(WillBecomeRun) < MaxRuns

SessionInit ==
    /\ StoreInit
    /\ actors = [g \in Gens |-> IdleActor]
    /\ handle = NoActor
    /\ current = NoActor
    /\ cancels = [r \in RunIds |-> 0]
    /\ sends = [r \in RunIds |-> 0]
    /\ calls = {}
    /\ asks = {}
    /\ prompted = [r \in RunIds |-> 0]

-----------------------------------------------------------------------------
(* The API handlers. *)

Call(step, r, i) == [step |-> step, run |-> r, item |-> i, cmd |-> NoCommand, to |-> NoActor]

\* The run is committed.  The handler goes on to dispatch it, unless the title or
\* the session event, which are written after the commit, fails: then it returns
\* the error, and nobody dispatches the run.
CommittedTo(r) ==
    \/ calls' = calls \cup {Call("admitted", r, NoItem)}
    \/ "storage" \in Events /\ UNCHANGED calls

\* start_admitting, the prompt started: the handler goes on to dispatch_started_run.
StartPrompt(c) ==
    /\ Room
    /\ \E r \in RunIds : AdmitAndStart(r, c) /\ CommittedTo(r)
    /\ UNCHANGED <<actors, handle, current, cancels, sends, asks, prompted>>

\* start_admitting, the prompt was queued.
QueuePrompt(c) ==
    /\ Room
    /\ \E i \in ItemIds : AdmitAndQueue(i, c)
    /\ UNCHANGED memVars

\* A send whose client id already has a run: the store answers with that run, and
\* the handler dispatches it.  start_admitting does so for every retry;
\* start_with_visibility and start_structured_composer look the id up first, and
\* only a retry that looked before the first one committed comes here.
ResendPrompt(c) ==
    /\ "resend" \in Events
    /\ \E r \in KnownRun(c) : /\ c \in PlainIds \/ sends[r] # 0
                             /\ calls' = calls \cup {Call("admitted", r, NoItem)}
    /\ UNCHANGED <<storeVars, actors, handle, current, cancels, sends, asks, prompted>>

\* start_with_visibility and start_structured_composer: the first send of its id.
StartDraft(c) ==
    /\ Room
    /\ \E r \in RunIds : StartOrRefuse(r, c) /\ CommittedTo(r)
    /\ UNCHANGED <<actors, handle, current, cancels, sends, asks, prompted>>

\* initialize_conversation: a Ready command on its way to dispatch; bound: one
\* is under way at a time.
ReadyUnderWay == \/ \E c \in calls : c.step = "ready" \/ c.cmd = Control
                 \/ \E g \in Gens : \E n \in DOMAIN actors[g].chan : actors[g].chan[n] = Control
Initialize ==
    /\ "ready" \in Events /\ ~ReadyUnderWay
    /\ calls' = calls \cup {Call("ready", NoRun, NoItem)}
    /\ UNCHANGED <<storeVars, actors, handle, current, cancels, sends, asks, prompted>>

\* dispatch_started_run up to the moment dispatch has read the sessions map.
RegisterAndLookUp(c) ==
    /\ c \in calls /\ c.step = "admitted"
    /\ Register(c.run)
    /\ calls' = (calls \ {c}) \cup
                {[c EXCEPT !.step = "deliver", !.to = handle,
                           !.cmd = Prompt(c.run, NextToken(c.run))]}
    /\ UNCHANGED <<storeVars, actors, handle, current, asks, prompted>>

LookUp(c) ==
    /\ c \in calls /\ c.step = "ready"
    /\ calls' = (calls \ {c}) \cup {[c EXCEPT !.step = "deliver", !.to = handle, !.cmd = Control]}
    /\ UNCHANGED <<storeVars, actors, handle, current, cancels, sends, asks, prompted>>

StartsRun(cmd) == cmd.kind = "prompt"

\* Variant: the handler dispatches once more after a send that succeeded.
SendAgain(c) ==
    /\ c \in calls /\ c.step = "deliver" /\ c.to # NoActor /\ ReceiverAlive(c.to)
    /\ actors' = [actors EXCEPT ![c.to].chan = Append(@, c.cmd)]
    /\ UNCHANGED <<storeVars, handle, current, cancels, sends, calls, asks, prompted>>

\* dispatch, the channel it looked up is open.
Send(c) ==
    /\ c \in calls /\ c.step = "deliver" /\ c.to # NoActor /\ ReceiverAlive(c.to)
    /\ actors' = [actors EXCEPT ![c.to].chan = Append(@, c.cmd),
                                ![c.to].active = @ \/ StartsRun(c.cmd)]
    /\ calls' = calls \ {c}
    /\ UNCHANGED <<storeVars, handle, current, cancels, sends, asks, prompted>>

\* Variant: the new channel starts out empty.
SpawnIdleActor(c) ==
    /\ c \in calls /\ c.step = "deliver" /\ (c.to # NoActor => ~ReceiverAlive(c.to))
    /\ \E g \in Gens :
          /\ Fresh(g)
          /\ actors' = [actors EXCEPT ![g] = [IdleActor EXCEPT !.pc = "new"]]
          /\ current' = g
    /\ calls' = calls \ {c}
    /\ UNCHANGED <<storeVars, handle, cancels, sends, asks, prompted>>

\* dispatch, no handle or a closed channel: a new generation, with the command
\* in its channel, takes over session_generations and then, without a second
\* look, the sessions map; its task starts last.
SpawnActor(c) ==
    /\ c \in calls /\ c.step = "deliver" /\ (c.to # NoActor => ~ReceiverAlive(c.to))
    /\ \E g \in Gens :
          /\ Fresh(g)
          /\ actors' = [actors EXCEPT ![g] = [IdleActor EXCEPT !.pc = "new", !.chan = <<c.cmd>>,
                                                              !.active = StartsRun(c.cmd)]]
          /\ current' = g
    /\ calls' = calls \ {c}
    /\ UNCHANGED <<storeVars, handle, cancels, sends, asks, prompted>>

InsertHandle(g) ==
    /\ actors[g].pc = "new"
    /\ actors' = [actors EXCEPT ![g].pc = "boot"]
    /\ handle' = g
    /\ UNCHANGED <<storeVars, current, cancels, sends, calls, asks, prompted>>

\* send_queued_prompt_now: move the item, then look for an active run; cancel
\* it, or else claim the head, start it and dispatch it.
SteerMove(i) ==
    /\ "steer" \in Events
    /\ MoveToHead(i)
    /\ calls' = calls \cup {Call("steer", NoRun, NoItem)}
    /\ UNCHANGED <<actors, handle, current, cancels, sends, asks, prompted>>

FirstActive(r) == IsActive(r) /\ \A q \in RunIds : q < r => ~IsActive(q)

SteerCancel(c) ==
    /\ c \in calls /\ c.step = "steer"
    /\ \E r \in RunIds : FirstActive(r) /\ RemoveCancel(r)
    /\ calls' = calls \ {c}
    /\ UNCHANGED <<storeVars, actors, handle, current, sends, asks, prompted>>

SteerIdle(c) ==
    /\ c \in calls /\ c.step = "steer" /\ ~HasActiveRun
    /\ calls' = (calls \ {c}) \cup {[c EXCEPT !.step = "claim"]}
    /\ UNCHANGED <<storeVars, actors, handle, current, cancels, sends, asks, prompted>>

SteerClaim(c) ==
    /\ c \in calls /\ c.step = "claim"
    /\ \/ \E i \in ItemIds : ClaimNext(i) /\ calls' = (calls \ {c}) \cup {Call("start", NoRun, i)}
       \/ (\A i \in ItemIds : ~IsPending(i)) /\ calls' = calls \ {c} /\ UNCHANGED storeVars
    /\ UNCHANGED <<actors, handle, current, cancels, sends, asks, prompted>>

\* start_run_from_queue_item reports a failure: its transaction failed, or it
\* committed and one of the writes after it failed.
StartFails(k) == /\ "storage" \in Events
                 /\ LoseClaim(k) \/ \E r \in RunIds : StartClaimed(r, k)

\* claim_next_queued_prompt registers a cancellation of its own, which
\* dispatch_started_run then replaces.
SteerStart(c) ==
    /\ c \in calls /\ c.step = "start"
    /\ \E k \in claims :
          /\ k.item = c.item
          /\ \/ \E r \in RunIds : /\ StartClaimed(r, k)
                                 /\ Register(r)
                                 /\ calls' = (calls \ {c}) \cup {Call("admitted", r, NoItem)}
             \/ StartFails(k) /\ calls' = calls \ {c} /\ UNCHANGED <<cancels, sends>>
    /\ UNCHANGED <<actors, handle, current, asks, prompted>>

\* AgentRuntime::cancel
Cancel(r) ==
    /\ "cancel" \in Events
    /\ cancels[r] # 0
    /\ RemoveCancel(r)
    /\ UNCHANGED <<storeVars, actors, handle, current, sends, calls, asks, prompted>>

\* edit_queued_prompt and remove_queued_prompt over HTTP.
EditQueued(i) == "edit" \in Events /\ EditItem(i) /\ UNCHANGED memVars
RemoveQueued(i) == "remove" \in Events /\ RemoveItem(i) /\ UNCHANGED memVars

\* disconnect_conversation at any time, and enforce_warm_actor_limit when the
\* active flag is off, take the handle out of the map; the Shutdown follows when
\* the lock of the map is free again.
TakeHandle ==
    /\ handle # NoActor
    /\ "disconnect" \in Events \/ ("evict" \in Events /\ ~actors[handle].active)
    /\ handle' = NoActor
    /\ calls' = calls \cup {[Call("shutdown", NoRun, NoItem) EXCEPT !.to = handle,
                                                                   !.cmd = Shutdown]}
    /\ UNCHANGED <<storeVars, actors, current, cancels, sends, asks, prompted>>

SendShutdown(c) ==
    /\ c \in calls /\ c.step = "shutdown"
    /\ actors' = IF ReceiverAlive(c.to)
                 THEN [actors EXCEPT ![c.to].chan = Append(@, c.cmd)] ELSE actors
    /\ calls' = calls \ {c}
    /\ UNCHANGED <<storeVars, handle, current, cancels, sends, asks, prompted>>

-----------------------------------------------------------------------------
(* The actor: run_session_actor and run_acp_session. *)

At(g, pc) == actors[g].pc = pc
Working(g) == actors[g].cmd
NextMail(g) == actors[g].chan[1]
HasMail(g) == actors[g].chan # <<>>

Become(g, a) == actors' = [actors EXCEPT ![g] = a]
Goto(g, pc) == Become(g, [actors[g] EXCEPT !.pc = pc])
Receive(g, pc) == Become(g, [actors[g] EXCEPT !.pc = pc, !.chan = Tail(@)])

\* Variant: the pending drain is read and not taken.
TurnKeepingDrain(g, cmd, chan) == [actors[g] EXCEPT !.pc = "turn", !.cmd = cmd, !.chan = chan,
                                       !.item = NoItem, !.stop = FALSE, !.active = TRUE]

\* The turn of a prompt starts: active_run_id and the active flag are set and
\* the prompt goes to the provider.
Turn(g, cmd, chan) == [actors[g] EXCEPT !.pc = "turn", !.cmd = cmd, !.drain = NoCommand,
                                       !.chan = chan, !.item = NoItem, !.stop = FALSE,
                                       !.active = TRUE]
BeginTurn(g, cmd, chan) ==
    /\ Become(g, Turn(g, cmd, chan))
    /\ prompted' = [prompted EXCEPT ![cmd.run] = @ + 1]

\* The provider session is created or resumed; a generation that is no longer
\* the registered one gives up.
Boot(g) ==
    /\ At(g, "boot")
    /\ Goto(g, IF current = g THEN "top" ELSE "failed")
    /\ UNCHANGED <<storeVars, handle, current, cancels, sends, calls, asks, prompted>>

\* The head of the loop: the pending drain, then the queue if no command is
\* waiting in the channel, then the channel.
TakeDrain(g) ==
    /\ At(g, "top") /\ actors[g].drain # NoCommand
    /\ BeginTurn(g, actors[g].drain, actors[g].chan)
    /\ UNCHANGED <<storeVars, handle, current, cancels, sends, calls, asks>>

LookAtChannel(g) ==
    /\ At(g, "top") /\ actors[g].drain = NoCommand
    /\ Goto(g, IF HasMail(g) THEN "recv" ELSE "claim")
    /\ UNCHANGED <<storeVars, handle, current, cancels, sends, calls, asks, prompted>>

\* claim_next_queued_prompt finds an item, here or at the turn boundary.
ClaimItem(g) ==
    /\ At(g, "claim") \/ At(g, "boundary")
    /\ \E i \in ItemIds :
          /\ ClaimNext(i)
          /\ Become(g, [actors[g] EXCEPT !.item = i,
                           !.pc = IF @ = "claim" THEN "start" ELSE "restart"])
    /\ UNCHANGED <<handle, current, cancels, sends, calls, asks, prompted>>

\* After the boundary a stopped actor leaves the loop, any other goes round it.
AfterBoundary(g) == IF actors[g].stop THEN "closing" ELSE "top"

\* claim_next_queued_prompt returns None: the queue is empty, or starting the
\* claimed item failed.
NothingDrained(g) ==
    IF actors[g].pc \in {"claim", "start"}
    THEN [actors[g] EXCEPT !.pc = "recv", !.item = NoItem]
    ELSE [actors[g] EXCEPT !.pc = AfterBoundary(g), !.item = NoItem,
                           !.cmd = NoCommand, !.active = FALSE]

\* Variant: a claim that failed is taken for an empty queue.
ClaimGivesUp(g) ==
    /\ At(g, "claim") \/ At(g, "boundary")
    /\ Become(g, NothingDrained(g))
    /\ UNCHANGED <<storeVars, handle, current, cancels, sends, calls, asks, prompted>>

ClaimNothing(g) ==
    /\ At(g, "claim") \/ At(g, "boundary")
    /\ \A i \in ItemIds : ~IsPending(i)
    /\ Become(g, NothingDrained(g))
    /\ UNCHANGED <<storeVars, handle, current, cancels, sends, calls, asks, prompted>>

FailToStart(g) ==
    /\ At(g, "start") \/ At(g, "restart")
    /\ \E k \in claims : k.item = actors[g].item /\ StartFails(k)
    /\ Become(g, NothingDrained(g))
    /\ UNCHANGED <<handle, current, cancels, sends, calls, asks, prompted>>

\* The claimed item becomes a run with a cancellation of its own: from the loop
\* its turn begins, at the boundary it is the pending drain of the next round.
StartDrained(g) ==
    /\ \E k \in claims, r \in RunIds :
          /\ k.item = actors[g].item
          /\ StartClaimed(r, k)
          /\ Register(r)
          /\ \/ At(g, "start") /\ BeginTurn(g, Prompt(r, NextToken(r)), actors[g].chan)
             \/ /\ At(g, "restart")
                /\ Become(g, [actors[g] EXCEPT !.pc = AfterBoundary(g), !.item = NoItem,
                                               !.cmd = Prompt(r, NextToken(r)),
                                               !.drain = Prompt(r, NextToken(r))])
                /\ UNCHANGED prompted
    /\ UNCHANGED <<handle, current, calls, asks>>

\* receiver.recv() in the loop: a prompt, a control, a Shutdown, the idle
\* timeout, or a channel all of whose senders are gone.
ReceivePrompt(g) ==
    /\ At(g, "recv") /\ HasMail(g) /\ NextMail(g).kind = "prompt"
    /\ BeginTurn(g, NextMail(g), Tail(actors[g].chan))
    /\ UNCHANGED <<storeVars, handle, current, cancels, sends, calls, asks>>

ReceiveControl(g) ==
    /\ At(g, "recv") /\ HasMail(g) /\ NextMail(g).kind # "prompt"
    /\ Receive(g, IF NextMail(g).kind = "shutdown" THEN "closing" ELSE "top")
    /\ UNCHANGED <<storeVars, handle, current, cancels, sends, calls, asks, prompted>>

StopWaiting(g) ==
    /\ At(g, "recv") /\ ~HasMail(g)
    /\ "idle" \in Events \/ Orphaned(g)
    /\ Goto(g, "closing")
    /\ UNCHANGED <<storeVars, handle, current, cancels, sends, calls, asks, prompted>>

\* The select loop of a turn.  The provider answers:
EndTurn(g, s) ==
    /\ At(g, "turn")
    /\ Become(g, [actors[g] EXCEPT !.pc = "finish", !.outcome = s])
    /\ UNCHANGED <<storeVars, handle, current, cancels, sends, calls, asks, prompted>>

\* the cancellation resolves:
CancelTurn(g) ==
    /\ At(g, "turn") /\ CancelSeen(Working(g))
    /\ Become(g, [actors[g] EXCEPT !.pc = "finish", !.outcome = "cancelled"])
    /\ UNCHANGED <<storeVars, handle, current, cancels, sends, calls, asks, prompted>>

\* a Shutdown or another control arrives:
TurnControl(g) ==
    /\ At(g, "turn") /\ HasMail(g) /\ NextMail(g).kind # "prompt"
    /\ IF NextMail(g).kind = "shutdown"
       THEN Become(g, [actors[g] EXCEPT !.pc = "finish", !.outcome = "cancelled",
                                        !.chan = Tail(@), !.stop = TRUE])
       ELSE Receive(g, "turn")
    /\ UNCHANGED <<storeVars, handle, current, cancels, sends, calls, asks, prompted>>

\* Variants: the prompt is dropped and its run left alone; the wrong run is failed.
DropPrompt(g) ==
    /\ At(g, "turn") /\ HasMail(g) /\ NextMail(g).kind = "prompt"
    /\ Receive(g, "turn")
    /\ UNCHANGED <<storeVars, handle, current, cancels, sends, calls, asks, prompted>>
RejectWrongRun(g) ==
    /\ At(g, "turn") /\ HasMail(g) /\ NextMail(g).kind = "prompt"
    /\ FinishOnce(Working(g).run, "failed")
    /\ RemoveCancel(NextMail(g).run)
    /\ Receive(g, "turn")
    /\ UNCHANGED <<handle, current, sends, calls, asks, prompted>>

\* another prompt arrives, and its run is failed.
RejectPrompt(g) ==
    /\ At(g, "turn") /\ HasMail(g) /\ NextMail(g).kind = "prompt"
    /\ FinishOnce(NextMail(g).run, "failed")
    /\ RemoveCancel(NextMail(g).run)
    /\ Receive(g, "turn")
    /\ UNCHANGED <<handle, current, sends, calls, asks, prompted>>

\* The turn ended: the run gets its outcome.
FinishTurn(g) ==
    /\ At(g, "finish")
    /\ RemoveCancel(Working(g).run)
    /\ FinishOnce(Working(g).run, actors[g].outcome)
    /\ Goto(g, "boundary")
    /\ UNCHANGED <<handle, current, sends, calls, asks, prompted>>

\* The connection, the provider or the journal fails at one of the awaits.
FailActor(g) ==
    /\ "fail" \in Events
    /\ actors[g].pc \in {"boot", "recv", "turn", "finish"}
    /\ Become(g, [actors[g] EXCEPT !.pc = "failed", !.active = FALSE])
    /\ UNCHANGED <<storeVars, handle, current, cancels, sends, calls, asks, prompted>>

\* run_session_actor after an error: the active run, then every command still
\* in the channel, one store transaction at a time.
FailActiveRun(g) ==
    /\ At(g, "failed") /\ Working(g) # NoCommand
    /\ FinishOnce(Working(g).run, "failed")
    /\ Become(g, [actors[g] EXCEPT !.cmd = NoCommand, !.active = FALSE])
    /\ UNCHANGED <<handle, current, cancels, sends, calls, asks, prompted>>

FailCommand(g) ==
    /\ At(g, "failed") /\ Working(g) = NoCommand /\ HasMail(g)
    /\ IF NextMail(g).kind = "prompt"
       THEN FinishOnce(NextMail(g).run, "failed") /\ RemoveCancel(NextMail(g).run)
       ELSE UNCHANGED <<storeVars, cancels>>
    /\ Receive(g, "failed")
    /\ UNCHANGED <<handle, current, sends, calls, asks, prompted>>

FailDone(g) ==
    /\ At(g, "failed") /\ Working(g) = NoCommand /\ ~HasMail(g)
    /\ Goto(g, "closing")
    /\ UNCHANGED <<storeVars, handle, current, cancels, sends, calls, asks, prompted>>

\* run_session_actor returns: the receiver is dropped with what it still holds.
Close(g) ==
    /\ At(g, "closing")
    /\ Become(g, [IdleActor EXCEPT !.pc = "closed"])
    /\ UNCHANGED <<storeVars, handle, current, cancels, sends, calls, asks, prompted>>

\* Variant: the generation is cleared whoever owns it.
UnregisterAny(g) ==
    /\ At(g, "closed")
    /\ Goto(g, "gone")
    /\ handle' = IF handle = g THEN NoActor ELSE handle
    /\ current' = NoActor
    /\ UNCHANGED <<storeVars, cancels, sends, calls, asks, prompted>>

\* The spawned task clears the registries, each only if it is still its own.
Unregister(g) ==
    /\ At(g, "closed")
    /\ Goto(g, "gone")
    /\ handle' = IF handle = g THEN NoActor ELSE handle
    /\ current' = IF current = g THEN NoActor ELSE current
    /\ UNCHANGED <<storeVars, cancels, sends, calls, asks, prompted>>

-----------------------------------------------------------------------------
(* Permission requests of the provider, and the end of the process. *)

AskPermission(g) ==
    /\ "permission" \in Events
    /\ At(g, "turn")
    /\ MarkIfActive(Working(g).run, "waiting_permission")
    /\ asks' = asks \cup {Working(g).run}
    /\ UNCHANGED <<actors, handle, current, cancels, sends, calls, prompted>>

\* The answer, or the cancellation, of a request: it may come after the run ended.
AnswerPermission(r) ==
    /\ r \in asks
    /\ asks' = asks \ {r}
    /\ MarkIfActive(r, "running")
    /\ UNCHANGED <<actors, handle, current, cancels, sends, calls, prompted>>

Crash ==
    /\ "crash" \in Events
    /\ Restart
    /\ actors' = [g \in Gens |-> IdleActor]
    /\ handle' = NoActor
    /\ current' = NoActor
    /\ cancels' = [r \in RunIds |-> 0]
    /\ sends' = [r \in RunIds |-> 0]
    /\ calls' = {}
    /\ asks' = {}
    /\ UNCHANGED prompted

-----------------------------------------------------------------------------
CallStep == \E c \in calls :
    \/ RegisterAndLookUp(c) \/ LookUp(c) \/ Send(c) \/ SpawnActor(c) \/ SendShutdown(c)
    \/ SteerCancel(c) \/ SteerIdle(c) \/ SteerClaim(c) \/ SteerStart(c)

\* The steps an actor takes by itself, and those it waits for.
ActorStep(g) ==
    \/ InsertHandle(g) \/ Boot(g) \/ TakeDrain(g) \/ LookAtChannel(g)
    \/ ClaimItem(g) \/ ClaimNothing(g) \/ StartDrained(g)
    \/ ReceivePrompt(g) \/ ReceiveControl(g)
    \/ CancelTurn(g) \/ TurnControl(g) \/ RejectPrompt(g) \/ FinishTurn(g)
    \/ FailActiveRun(g) \/ FailCommand(g) \/ FailDone(g)
    \/ Close(g) \/ Unregister(g)

TurnEnds(g) == \E s \in Outcomes \ {"failed"} : EndTurn(g, s)

Environment ==
    \/ \E c \in PlainIds \cup {NoClient} : StartPrompt(c) \/ QueuePrompt(c)
    \/ \E c \in PlainIds \cup DraftIds : ResendPrompt(c)
    \/ \E c \in DraftIds \cup {NoClient} : StartDraft(c)
    \/ \E i \in ItemIds : SteerMove(i) \/ EditQueued(i) \/ RemoveQueued(i)
    \/ \E r \in RunIds : Cancel(r)
    \/ \E g \in Gens : StopWaiting(g) \/ FailActor(g) \/ FailToStart(g) \/ AskPermission(g)
    \/ Initialize \/ TakeHandle \/ Crash

SessionNext ==
    \/ Environment
    \/ CallStep
    \/ \E g \in Gens : ActorStep(g) \/ TurnEnds(g)
    \/ \E r \in RunIds : AnswerPermission(r)

\* Handlers and actors are tokio tasks that hold no lock across a step, so each
\* goes on; the provider is assumed to end every turn.
SessionFairness ==
    /\ WF_vars(CallStep)
    /\ \A g \in Gens : WF_vars(ActorStep(g)) /\ WF_vars(TurnEnds(g))

SessionSpec == SessionInit /\ [][SessionNext]_vars /\ SessionFairness

-----------------------------------------------------------------------------
(* Properties. *)

\* What a command channel carries, and what an actor works on.
Prompts == [kind : {"prompt"}, run : RunIds, token : Nat]
Commands == Prompts \cup {Control, Shutdown}
ActorType == [pc : {"none", "new", "boot", "top", "claim", "start", "recv", "turn", "finish",
                    "boundary", "restart", "failed", "closing", "closed", "gone"},
              chan : Seq(Commands), cmd : Prompts \cup {NoCommand},
              drain : Prompts \cup {NoCommand}, item : ItemIds \cup {NoItem},
              stop : BOOLEAN, outcome : Outcomes \cup {"completed"}, active : BOOLEAN]
CallType == [step : {"admitted", "ready", "deliver", "steer", "claim", "start", "shutdown"},
             run : RunIds \cup {NoRun}, item : ItemIds \cup {NoItem},
             cmd : Commands \cup {NoCommand}, to : Gens \cup {NoActor}]

\* The registries, the actors and the handlers under way are well formed.
SessionTypeOK ==
    /\ StoreTypeOK
    /\ actors \in [Gens -> ActorType]
    /\ handle \in Gens \cup {NoActor} /\ current \in Gens \cup {NoActor}
    /\ cancels \in [RunIds -> Nat] /\ sends \in [RunIds -> Nat]
    /\ calls \subseteq CallType /\ asks \subseteq RunIds
    /\ prompted \in [RunIds -> Nat]

\* Where the work of a run can be: with a handler, in the channel of an actor
\* that still reads it, or in an actor's hands.
HeldByCall(r) == {c \in calls : c.run = r}
HeldByActor(g, r) ==
    /\ actors[g].pc \notin {"none", "closing", "closed", "gone"}
    /\ \/ Working(g).run = r
       \/ \E n \in DOMAIN actors[g].chan : actors[g].chan[n].run = r
Holders(r) == Cardinality(HeldByCall(r)) + Cardinality({g \in Gens : HeldByActor(g, r)})

\* A busy Session is being served: an active run, which keeps every later
\* prompt in the queue, is always with some handler or actor that will end it,
\* and with only one.
RunHasOneHolder == \A r \in RunIds : IsActive(r) => Holders(r) = 1

\* Faults may leave a run without a holder, never with two.
NeverTwoHolders == \A r \in RunIds : IsActive(r) => Holders(r) <= 1

\* No lost wake-up: a prompt is queued behind a run, and when that run has
\* ended somebody is on the way to the queue.
OnTheWay(g) == \/ actors[g].pc \in {"new", "boot", "top", "claim", "start", "boundary", "restart",
                                    "turn", "finish"}
               \/ At(g, "recv") /\ HasMail(g)
QueueIsWatched ==
    (\E i \in ItemIds : IsPending(i)) /\ ~HasActiveRun
        => calls # {} \/ \E g \in Gens : OnTheWay(g)

\* The two registries agree in the end: the sessions map routes prompts to an
\* actor whose generation has been superseded, and whose updates the journal
\* would therefore discard, only while a newer actor is being registered or
\* before the old one has noticed that it must give up.
RoutedToCurrent ==
    handle # NoActor /\ handle # current =>
        \/ \E g \in Gens : At(g, "new")
        \/ actors[handle].pc \in {"boot", "failed", "closing", "closed"}

\* The provider is given the prompt of a run at most once, however actors are
\* evicted, disconnected, failed, replaced or restarted in between: a drained
\* command is taken from its place once, and the item of a run that a restart
\* interrupts is run again as a new run.
PromptedAtMostOnce == \A r \in RunIds : prompted[r] <= 1

\* Retrying a client message id is exactly-once: the retried send gets the run it
\* already created and starts no second turn (server/tests/api.rs).
RetryStartsNoTurn == \A r \in RunIds : runs[r].client # NoClient => prompted[r] <= 1

\* While an actor works on a run nobody else ends that run: a prompt rejected
\* in mid-turn, a failing older actor or a late handler ends its own run only.
OnlyItsActorEndsATurn ==
    [][\A g \in Gens :
          (/\ At(g, "turn") /\ IsActive(Working(g).run)
           /\ runs'[Working(g).run].status \notin ActiveStatus)
              => actors'[g].pc # "turn"]_vars

\* Every step of the runtime is a transaction of the store or leaves it alone.
ImplementsStore == StoreSpec

\* Every run ends, if the provider ends every turn.
EveryRunEnds == \A r \in RunIds : IsActive(r) ~> IsTerminal(r)

\* Every queued prompt is drained or withdrawn.
EveryItemIsDrained == \A i \in ItemIds : IsPending(i) ~> ~IsPending(i)

\* ABSTRACTIONS.md and ADR 0164: a Session has at most one active run.
OneActiveRun == \A r, q \in RunIds : IsActive(r) /\ IsActive(q) => r = q

\* ADR 0204: an actor with an active prompt is never selected for eviction.
Evicted(g) == handle = g /\ handle' = NoActor /\ ReceiverAlive(g)
EvictionSparesPrompts ==
    [][\A g \in Gens : \A r \in RunIds : Evicted(g) /\ HeldByActor(g, r) => ~IsActive(r)]_vars

=============================================================================
