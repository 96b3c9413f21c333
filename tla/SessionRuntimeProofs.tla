------------------------- MODULE SessionRuntimeProofs -------------------------
(***************************************************************************)
(* Proofs about SessionRuntime for every number of actors, sends and rows  *)
(* and every choice of events: type correctness, the refinement of         *)
(* PromptQueue, and the safety properties of the runs, the queue and the   *)
(* registries.                                                             *)
(***************************************************************************)
EXTENDS SessionRuntime, PromptQueueProofs, FiniteSetTheorems

-----------------------------------------------------------------------------
(* Type correctness, with the shape of actors and handlers it needs. *)

\* What an actor has in hand at each place of run_acp_session.
ActorShape(a) ==
    /\ a.pc \in {"none", "closed", "gone"} => a.chan = <<>>
    /\ a.pc \in {"none", "new", "boot", "claim", "start", "recv", "closed", "gone"}
         => a.cmd = NoCommand
    /\ a.pc \in {"turn", "finish", "boundary", "restart"} => a.cmd # NoCommand
    /\ a.drain # NoCommand => a.pc \in {"top", "closing"}
    /\ a.drain # NoCommand \/ a.pc = "top" => a.cmd = a.drain
    /\ a.pc = "finish" => a.outcome \in Outcomes

\* What a handler remembers between its steps.
CallShape(c) ==
    /\ c.step = "admitted" => c.run # NoRun /\ c.cmd = NoCommand
    /\ c.step = "deliver" => c.cmd # NoCommand /\ c.cmd # Shutdown /\ c.cmd.run = c.run
    /\ c.step = "shutdown" => c.cmd = Shutdown /\ c.to # NoActor
    /\ c.step \notin {"admitted", "deliver"} => c.run = NoRun
    /\ c.step \notin {"deliver", "shutdown"} => c.cmd = NoCommand

RuntimeType ==
    /\ SessionTypeOK
    /\ \A g \in Gens : ActorShape(actors[g])
    /\ \A c \in calls : CallShape(c)

LEMMA Numbers ==
    /\ MaxActors \in Nat /\ MaxSends \in Nat /\ MaxRuns \in Nat /\ MaxItems \in Nat
    /\ RunIds \subseteq Nat /\ NoRun \notin RunIds
    /\ Gens \subseteq Nat /\ NoActor \notin Gens
    /\ ItemIds \subseteq Nat /\ NoItem \notin ItemIds
BY ActorAssumption, BoundAssumption DEF RunIds, NoRun, Gens, NoActor, ItemIds, NoItem

\* Commands are told apart by the run they name.
LEMMA CommandFacts ==
    /\ \A r \in RunIds, t \in Nat : Prompt(r, t) \in Prompts
    /\ \A c \in Prompts : c.kind = "prompt" /\ c.run \in RunIds /\ c # NoCommand
                          /\ c # Control /\ c # Shutdown
    /\ NoCommand.run = NoRun /\ Control.run = NoRun /\ Shutdown.run = NoRun
    /\ Control # NoCommand /\ Shutdown # NoCommand /\ Control # Shutdown
    /\ \A c \in Commands : c \in Prompts <=> c.kind = "prompt"
    /\ \A c \in Commands : c \in Prompts <=> c.run # NoRun
    /\ \A c \in Commands : c.kind # "none"
    /\ \A c \in Commands : c.kind = "shutdown" <=> c = Shutdown
    /\ NoCommand \notin Commands
<1>1. \A c \in Prompts : c.kind = "prompt" /\ c.run \in RunIds BY DEF Prompts
<1>2. /\ NoCommand.run = NoRun /\ Control.run = NoRun /\ Shutdown.run = NoRun
      /\ NoCommand.kind = "none" /\ Control.kind = "ready" /\ Shutdown.kind = "shutdown"
  BY DEF NoCommand, Control, Shutdown
<1>3. \A r \in RunIds, t \in Nat : Prompt(r, t) \in Prompts BY DEF Prompt, Prompts
<1> QED
  BY <1>1, <1>2, <1>3, Numbers DEF Commands

LEMMA RuntimeInit == SessionInit => RuntimeType
<1> SUFFICES ASSUME SessionInit PROVE RuntimeType
  OBVIOUS
<1>1. StoreTypeOK BY TypeInit DEF SessionInit
<1>2. IdleActor \in ActorType /\ ActorShape(IdleActor)
  BY DEF IdleActor, ActorType, ActorShape
<1> QED
  BY <1>1, <1>2, Numbers DEF SessionInit, RuntimeType, SessionTypeOK

\* Every step of the runtime is a transaction of the store or leaves it alone.
LEMMA FinishIsStoreStep ==
    ASSUME NEW r \in RunIds, NEW s \in Outcomes, FinishOnce(r, s)
    PROVE  [StoreNext]_storeVars
BY DEF FinishOnce, StoreNext, storeVars

LEMMA MarkIsStoreStep ==
    ASSUME NEW r \in RunIds, NEW s \in ActiveStatus, MarkIfActive(r, s)
    PROVE  [StoreNext]_storeVars
BY DEF MarkIfActive, StoreNext, storeVars

LEMMA FailureIsStoreStep ==
    ASSUME NEW k \in claims, StartFails(k)
    PROVE  StoreNext
BY DEF StartFails, StoreNext

LEMMA StoreStep ==
    ASSUME RuntimeType, [SessionNext]_vars
    PROVE  [StoreNext]_storeVars
<1> USE DEF storeVars
<1>0. "failed" \in Outcomes /\ "cancelled" \in Outcomes BY EndingAssumption
<1>1. ASSUME Environment PROVE [StoreNext]_storeVars
  <2>1. ASSUME NEW c \in PlainIds \cup {NoClient}, StartPrompt(c) \/ QueuePrompt(c)
        PROVE  [StoreNext]_storeVars
    BY <2>1 DEF StartPrompt, QueuePrompt, StoreNext
  <2>2. ASSUME NEW c \in PlainIds \cup DraftIds, ResendPrompt(c) PROVE [StoreNext]_storeVars
    BY <2>2 DEF ResendPrompt
  <2>3. ASSUME NEW c \in DraftIds \cup {NoClient}, StartDraft(c) PROVE [StoreNext]_storeVars
    BY <2>3 DEF StartDraft, StoreNext
  <2>4. ASSUME NEW i \in ItemIds, SteerMove(i) \/ EditQueued(i) \/ RemoveQueued(i)
        PROVE  [StoreNext]_storeVars
    BY <2>4 DEF SteerMove, EditQueued, RemoveQueued, StoreNext
  <2>5. ASSUME NEW r \in RunIds, Cancel(r) PROVE [StoreNext]_storeVars
    BY <2>5 DEF Cancel
  <2>6. ASSUME NEW g \in Gens, StopWaiting(g) \/ FailActor(g) PROVE [StoreNext]_storeVars
    BY <2>6 DEF StopWaiting, FailActor
  <2>7. ASSUME NEW g \in Gens, FailToStart(g) PROVE [StoreNext]_storeVars
    BY <2>7, FailureIsStoreStep DEF FailToStart
  <2>8. ASSUME NEW g \in Gens, AskPermission(g) PROVE [StoreNext]_storeVars
    <3>1. Working(g).run \in RunIds
      BY <2>8, CommandFacts
         DEF AskPermission, At, Working, RuntimeType, SessionTypeOK, ActorType, ActorShape
    <3> QED BY <2>8, <3>1, MarkIsStoreStep DEF AskPermission, ActiveStatus
  <2>9. CASE Initialize \/ TakeHandle BY <2>9 DEF Initialize, TakeHandle
  <2>10. CASE Crash BY <2>10 DEF Crash, StoreNext
  <2> QED
    BY <1>1, <2>1, <2>2, <2>3, <2>4, <2>5, <2>6, <2>7, <2>8, <2>9, <2>10 DEF Environment
<1>2. ASSUME NEW c \in calls,
             \/ RegisterAndLookUp(c) \/ LookUp(c) \/ Send(c) \/ SpawnActor(c) \/ SendShutdown(c)
             \/ SteerCancel(c) \/ SteerIdle(c)
      PROVE  [StoreNext]_storeVars
  BY <1>2 DEF RegisterAndLookUp, LookUp, Send, SpawnActor, SendShutdown, SteerCancel, SteerIdle
<1>3. ASSUME NEW c \in calls, SteerClaim(c) \/ SteerStart(c)
      PROVE  [StoreNext]_storeVars
  BY <1>3, FailureIsStoreStep DEF SteerClaim, SteerStart, StoreNext
<1>4. ASSUME NEW g \in Gens, ActorStep(g) \/ TurnEnds(g) PROVE [StoreNext]_storeVars
  <2>1. CASE \/ InsertHandle(g) \/ Boot(g) \/ TakeDrain(g) \/ LookAtChannel(g) \/ ClaimNothing(g)
             \/ ReceivePrompt(g) \/ ReceiveControl(g) \/ CancelTurn(g) \/ TurnControl(g)
             \/ FailDone(g) \/ Close(g) \/ Unregister(g) \/ TurnEnds(g)
    BY <2>1 DEF InsertHandle, Boot, TakeDrain, LookAtChannel, ClaimNothing, ReceivePrompt,
       ReceiveControl, CancelTurn, TurnControl, FailDone, Close, Unregister, TurnEnds, EndTurn
  <2>2. CASE ClaimItem(g) \/ StartDrained(g)
    BY <2>2 DEF ClaimItem, StartDrained, StoreNext
  <2>3. actors[g] \in ActorType /\ ActorShape(actors[g])
    BY DEF RuntimeType, SessionTypeOK
  <2>4. HasMail(g) => NextMail(g) \in Commands
    BY <2>3 DEF HasMail, NextMail, ActorType
  <2>5. CASE RejectPrompt(g)
    <3>1. NextMail(g).run \in RunIds BY <2>4, <2>5, CommandFacts DEF RejectPrompt
    <3> QED BY <2>5, <3>1, <1>0, FinishIsStoreStep DEF RejectPrompt
  <2>6. CASE FailCommand(g)
    <3>1. CASE NextMail(g).kind = "prompt"
      <4>1. NextMail(g).run \in RunIds BY <2>4, <2>6, <3>1, CommandFacts DEF FailCommand
      <4> QED BY <2>6, <3>1, <4>1, <1>0, FinishIsStoreStep DEF FailCommand
    <3>2. CASE NextMail(g).kind # "prompt" BY <2>6, <3>2 DEF FailCommand
    <3> QED BY <3>1, <3>2
  <2>7. Working(g) # NoCommand => Working(g).run \in RunIds
    BY <2>3, CommandFacts DEF Working, ActorType
  <2>8. CASE FailActiveRun(g) BY <2>7, <2>8, <1>0, FinishIsStoreStep DEF FailActiveRun
  <2>9. CASE FinishTurn(g)
    <3>1. Working(g).run \in RunIds /\ actors[g].outcome \in Outcomes
      BY <2>3, <2>7, <2>9 DEF FinishTurn, At, Working, ActorShape
    <3> QED BY <2>9, <3>1, FinishIsStoreStep DEF FinishTurn
  <2> QED BY <1>4, <2>1, <2>2, <2>5, <2>6, <2>8, <2>9 DEF ActorStep
<1>5. ASSUME NEW r \in RunIds, AnswerPermission(r) PROVE [StoreNext]_storeVars
  BY <1>5, MarkIsStoreStep DEF AnswerPermission, ActiveStatus
<1>6. CASE UNCHANGED vars BY <1>6 DEF vars
<1> QED
  BY <1>1, <1>2, <1>3, <1>4, <1>5, <1>6 DEF SessionNext, CallStep

\* One actor becomes another well-formed one.
ActorsOK == /\ actors \in [Gens -> ActorType]
            /\ \A g \in Gens : ActorShape(actors[g])

LEMMA OneActorChanges ==
    ASSUME ActorsOK, NEW g \in Gens, NEW a \in ActorType, ActorShape(a),
           actors' = [actors EXCEPT ![g] = a]
    PROVE  ActorsOK'
BY DEF ActorsOK

\* The fields of an actor, and its channel.
LEMMA ActorFields ==
    ASSUME ActorsOK, NEW g \in Gens
    PROVE  /\ actors[g] \in ActorType /\ ActorShape(actors[g])
           /\ actors[g].chan \in Seq(Commands)
           /\ Working(g) \in Prompts \cup {NoCommand}
           /\ HasMail(g) => /\ NextMail(g) \in Commands /\ Tail(actors[g].chan) \in Seq(Commands)
                            /\ NextMail(g).kind = "prompt" => NextMail(g) \in Prompts
<1>1. actors[g] \in ActorType /\ ActorShape(actors[g]) BY DEF ActorsOK
<1>2. actors[g].chan \in Seq(Commands) /\ Working(g) \in Prompts \cup {NoCommand}
  BY <1>1 DEF ActorType, Working
<1>3. HasMail(g) => NextMail(g) \in Commands /\ Tail(actors[g].chan) \in Seq(Commands)
  BY <1>2 DEF HasMail, NextMail
<1> QED BY <1>1, <1>2, <1>3, CommandFacts

\* What a step that only moves an actor on, or reads its channel, makes of it.
LEMMA MovedActor ==
    ASSUME NEW a \in ActorType, ActorShape(a), a.drain = NoCommand,
           NEW pc \in {"boot", "top", "claim", "start", "recv", "turn", "boundary", "failed", "closing"},
           NEW chan \in Seq(Commands),
           pc \in {"boot", "top", "claim", "start", "recv"} => a.cmd = NoCommand,
           pc \in {"turn", "boundary"} => a.cmd # NoCommand
    PROVE  /\ [a EXCEPT !.pc = pc] \in ActorType /\ ActorShape([a EXCEPT !.pc = pc])
           /\ [a EXCEPT !.pc = pc, !.chan = chan] \in ActorType
           /\ ActorShape([a EXCEPT !.pc = pc, !.chan = chan])
BY DEF ActorType, ActorShape

LEMMA TurnActor ==
    ASSUME NEW g \in Gens, actors[g] \in ActorType, NEW cmd \in Prompts, NEW chan \in Seq(Commands)
    PROVE  Turn(g, cmd, chan) \in ActorType /\ ActorShape(Turn(g, cmd, chan))
BY CommandFacts DEF Turn, ActorType, ActorShape

LEMMA UndrainedActor ==
    ASSUME NEW g \in Gens, actors[g] \in ActorType, ActorShape(actors[g]),
           actors[g].pc \in {"claim", "start", "boundary", "restart"}
    PROVE  NothingDrained(g) \in ActorType /\ ActorShape(NothingDrained(g))
<1>1. CASE actors[g].pc \in {"claim", "start"}
  BY <1>1 DEF NothingDrained, ActorType, ActorShape
<1>2. CASE actors[g].pc \in {"boundary", "restart"}
  <2>1. AfterBoundary(g) \in {"closing", "top"} BY DEF AfterBoundary
  <2>2. actors[g].drain = NoCommand BY <1>2 DEF ActorShape
  <2> QED BY <1>2, <2>1, <2>2 DEF NothingDrained, ActorType, ActorShape
<1> QED BY <1>1, <1>2

\* A handler's send, and the end of one.
LEMMA SentActor ==
    ASSUME NEW a \in ActorType, ActorShape(a), a.pc \notin {"none", "closed", "gone"},
           NEW cmd \in Commands, NEW b \in BOOLEAN
    PROVE  LET n == [a EXCEPT !.chan = Append(@, cmd), !.active = b]
           IN  n \in ActorType /\ ActorShape(n)
<1>. DEFINE n == [a EXCEPT !.chan = Append(@, cmd), !.active = b]
<1>1. Append(a.chan, cmd) \in Seq(Commands) BY DEF ActorType
<1>2. n \in ActorType BY <1>1 DEF ActorType
<1>3. /\ n.pc = a.pc /\ n.cmd = a.cmd /\ n.drain = a.drain /\ n.outcome = a.outcome
  BY DEF ActorType
<1>. HIDE DEF n
<1>4. ActorShape(n) BY <1>3 DEF ActorShape
<1> QED BY <1>2, <1>4 DEF n

LEMMA ActorsStep == RuntimeType /\ [SessionNext]_vars => ActorsOK'
<1> SUFFICES ASSUME RuntimeType, [SessionNext]_vars PROVE ActorsOK'
  OBVIOUS
<1>0. ActorsOK BY DEF RuntimeType, SessionTypeOK, ActorsOK
<1>1. CASE UNCHANGED actors BY <1>0, <1>1 DEF ActorsOK
<1>2. "failed" \in Outcomes /\ "cancelled" \in Outcomes BY EndingAssumption
<1>3. ASSUME NEW c \in calls PROVE c \in CallType /\ CallShape(c)
  BY DEF RuntimeType, SessionTypeOK
<1>4. ASSUME Environment, actors' # actors PROVE ActorsOK'
  <2>1. CASE Crash
    <3>1. IdleActor \in ActorType /\ ActorShape(IdleActor)
      BY DEF IdleActor, ActorType, ActorShape
    <3> QED BY <2>1, <3>1 DEF Crash, ActorsOK
  <2>2. ASSUME NEW g \in Gens, StopWaiting(g) \/ FailActor(g) PROVE ActorsOK'
    <3> DEFINE a == actors[g]
    <3>1. /\ a \in ActorType /\ ActorShape(a) /\ a.chan \in Seq(Commands) BY <1>0, ActorFields
    <3>2. CASE StopWaiting(g)
      <4>1. a.drain = NoCommand BY <2>2, <3>1, <3>2 DEF StopWaiting, At, ActorShape
      <4>2. [a EXCEPT !.pc = "closing"] \in ActorType /\ ActorShape([a EXCEPT !.pc = "closing"])
        BY <3>1, <4>1, MovedActor
      <4> QED BY <1>0, <3>2, <4>2, OneActorChanges DEF StopWaiting, Goto, Become
    <3>3. CASE FailActor(g)
      <4> DEFINE n == [a EXCEPT !.pc = "failed", !.active = FALSE]
      <4>1. a.drain = NoCommand BY <3>1, <3>3 DEF FailActor, ActorShape
      <4>2. n \in ActorType /\ ActorShape(n) BY <3>1, <4>1 DEF ActorType, ActorShape
      <4>3. actors' = [actors EXCEPT ![g] = n] BY <3>3 DEF FailActor, Become
      <4> HIDE DEF n
      <4> QED BY <1>0, <4>2, <4>3, OneActorChanges
    <3> QED BY <2>2, <3>2, <3>3
  <2>3. ASSUME NEW g \in Gens, FailToStart(g) PROVE ActorsOK'
    <3>1. NothingDrained(g) \in ActorType /\ ActorShape(NothingDrained(g))
      BY <1>0, <2>3, ActorFields, UndrainedActor DEF FailToStart, At
    <3> QED BY <1>0, <2>3, <3>1, OneActorChanges DEF FailToStart, Become
  <2> QED
    BY <1>4, <2>1, <2>2, <2>3 DEF Environment, StartPrompt, QueuePrompt, ResendPrompt, StartDraft,
       SteerMove, EditQueued, RemoveQueued, Cancel, AskPermission, Initialize, TakeHandle, memVars
<1>5. ASSUME CallStep, actors' # actors PROVE ActorsOK'
  <2>1. PICK c \in calls : Send(c) \/ SpawnActor(c) \/ SendShutdown(c)
    BY <1>5 DEF CallStep, RegisterAndLookUp, LookUp, SteerCancel, SteerIdle, SteerClaim, SteerStart
  <2>2. c \in CallType /\ CallShape(c) BY <1>3
  <2>3. c.cmd \in Commands
    <3>1. c.step = "deliver" \/ c.step = "shutdown"
      BY <2>1 DEF Send, SpawnActor, SendShutdown
    <3>2. c.cmd \in Commands \cup {NoCommand} BY <2>2 DEF CallType
    <3>3. Shutdown # NoCommand BY CommandFacts
    <3> QED BY <2>2, <3>1, <3>2, <3>3 DEF CallShape
  <2>4. CASE Send(c) \/ SendShutdown(c)
    <3> DEFINE g == c.to
               b == IF Send(c) THEN actors[g].active \/ StartsRun(c.cmd) ELSE actors[g].active
               n == [actors[g] EXCEPT !.chan = Append(@, c.cmd), !.active = b]
    <3>1. g \in Gens /\ ReceiverAlive(g)
      BY <1>5, <2>2, <2>4 DEF CallType, CallShape, Send, SendShutdown
    <3>2. /\ actors[g] \in ActorType /\ ActorShape(actors[g]) /\ b \in BOOLEAN
      BY <1>0, <3>1, ActorFields DEF ActorType
    <3>3. n \in ActorType /\ ActorShape(n)
      BY <2>3, <3>1, <3>2, SentActor DEF ReceiverAlive
    <3>4. actors' = [actors EXCEPT ![g] = n]
      <4>1. CASE Send(c) BY <2>4, <4>1 DEF Send
      <4>2. CASE ~Send(c)
        <5>1. n = [actors[g] EXCEPT !.chan = Append(@, c.cmd)] BY <3>2, <4>2 DEF ActorType
        <5> QED BY <2>4, <3>1, <4>2, <5>1 DEF SendShutdown
      <4> QED BY <4>1, <4>2
    <3> HIDE DEF n, g
    <3> QED BY <1>0, <3>1, <3>3, <3>4, OneActorChanges
  <2>5. CASE SpawnActor(c)
    <3>1. PICK g \in Gens :
             actors' = [actors EXCEPT ![g] = [IdleActor EXCEPT !.pc = "new", !.chan = <<c.cmd>>,
                                                               !.active = StartsRun(c.cmd)]]
      BY <2>5 DEF SpawnActor
    <3> DEFINE n == [IdleActor EXCEPT !.pc = "new", !.chan = <<c.cmd>>,
                                      !.active = StartsRun(c.cmd)]
    <3>2. <<c.cmd>> \in Seq(Commands) BY <2>3
    <3>3. StartsRun(c.cmd) \in BOOLEAN BY DEF StartsRun
    <3>4. n \in ActorType /\ ActorShape(n)
      BY <3>2, <3>3 DEF IdleActor, ActorType, ActorShape
    <3> HIDE DEF n
    <3> QED BY <1>0, <3>1, <3>4, OneActorChanges DEF n
  <2> QED BY <2>1, <2>4, <2>5
<1>6. ASSUME NEW g \in Gens, ActorStep(g) \/ TurnEnds(g) PROVE ActorsOK'
  <2> DEFINE a == actors[g]
  <2>1. /\ a \in ActorType /\ ActorShape(a) /\ a.chan \in Seq(Commands)
        /\ Working(g) \in Prompts \cup {NoCommand}
        /\ HasMail(g) => /\ NextMail(g) \in Commands /\ Tail(a.chan) \in Seq(Commands)
                         /\ NextMail(g).kind = "prompt" => NextMail(g) \in Prompts
    BY <1>0, ActorFields
  <2>2. ASSUME NEW n \in ActorType, ActorShape(n), Become(g, n) PROVE ActorsOK'
    BY <1>0, <2>2, OneActorChanges DEF Become
  <2>3. ASSUME NEW pc \in {"boot", "top", "claim", "start", "recv", "turn", "boundary",
                           "failed", "closing"},
               Goto(g, pc), a.drain = NoCommand,
               pc \in {"boot", "top", "claim", "start", "recv"} => a.cmd = NoCommand,
               pc \in {"turn", "boundary"} => a.cmd # NoCommand
        PROVE  ActorsOK'
    <3>1. [a EXCEPT !.pc = pc] \in ActorType /\ ActorShape([a EXCEPT !.pc = pc])
      BY <2>1, <2>3, MovedActor
    <3> QED BY <2>2, <2>3, <3>1 DEF Goto
  <2>4. ASSUME NEW pc \in {"boot", "top", "claim", "start", "recv", "turn", "boundary",
                           "failed", "closing"},
               Receive(g, pc), HasMail(g), a.drain = NoCommand,
               pc \in {"boot", "top", "claim", "start", "recv"} => a.cmd = NoCommand,
               pc \in {"turn", "boundary"} => a.cmd # NoCommand
        PROVE  ActorsOK'
    <3> DEFINE chan == Tail(a.chan)
               n == [a EXCEPT !.pc = pc, !.chan = chan]
    <3>1. chan \in Seq(Commands) BY <2>1, <2>4
    <3>2. Become(g, n) BY <2>4 DEF Receive
    <3> HIDE DEF chan
    <3>3. n \in ActorType /\ ActorShape(n) BY <2>1, <2>4, <3>1, MovedActor
    <3> HIDE DEF n
    <3> QED BY <2>2, <3>2, <3>3
  <2>5. ASSUME NEW cmd \in Prompts, NEW chan \in Seq(Commands), Become(g, Turn(g, cmd, chan))
        PROVE  ActorsOK'
    BY <2>1, <2>2, <2>5, TurnActor
  <2>6. ASSUME NEW s \in Outcomes, Become(g, [a EXCEPT !.pc = "finish", !.outcome = s]),
               At(g, "turn")
        PROVE  ActorsOK'
    <3>1. /\ [a EXCEPT !.pc = "finish", !.outcome = s] \in ActorType
          /\ ActorShape([a EXCEPT !.pc = "finish", !.outcome = s])
      BY <2>1, <2>6 DEF ActorType, ActorShape, At
    <3> QED BY <2>2, <2>6, <3>1
  <2>7. CASE InsertHandle(g)
    <3>1. a.pc = "new" /\ Goto(g, "boot") BY <2>7 DEF InsertHandle, Goto, Become
    <3>2. a.drain = NoCommand /\ a.cmd = NoCommand BY <2>1, <3>1 DEF ActorShape
    <3> QED BY <2>3, <3>1, <3>2
  <2>8. CASE Boot(g)
    <3>1. a.drain = NoCommand /\ a.cmd = NoCommand BY <2>1, <2>8 DEF ActorShape, Boot, At
    <3>2. Goto(g, "top") \/ Goto(g, "failed") BY <2>8 DEF Boot
    <3> QED BY <2>3, <3>1, <3>2
  <2>9. CASE TakeDrain(g)
    <3>1. a.drain \in Prompts BY <2>1, <2>9 DEF TakeDrain, ActorType
    <3> QED BY <2>1, <2>5, <2>9, <3>1 DEF TakeDrain, BeginTurn
  <2>10. CASE LookAtChannel(g)
    <3>1. a.drain = NoCommand /\ a.cmd = NoCommand
      BY <2>1, <2>10 DEF ActorShape, LookAtChannel, At
    <3>2. Goto(g, "recv") \/ Goto(g, "claim") BY <2>10 DEF LookAtChannel
    <3> QED BY <2>3, <3>1, <3>2
  <2>11. CASE ClaimItem(g)
    <3>1. PICK i \in ItemIds : Become(g, [a EXCEPT !.item = i,
                                             !.pc = IF @ = "claim" THEN "start" ELSE "restart"])
      BY <2>11 DEF ClaimItem
    <3>2. a.pc = "claim" \/ a.pc = "boundary" BY <2>11 DEF ClaimItem, At
    <3> DEFINE n == [a EXCEPT !.item = i, !.pc = IF @ = "claim" THEN "start" ELSE "restart"]
    <3>3. n \in ActorType /\ ActorShape(n) BY <2>1, <3>2 DEF ActorType, ActorShape
    <3> HIDE DEF n
    <3> QED BY <2>2, <3>1, <3>3 DEF n
  <2>12. CASE ClaimNothing(g)
    BY <2>1, <2>2, <2>12, UndrainedActor DEF ClaimNothing, At
  <2>13. CASE StartDrained(g)
    <3>1. PICK r \in RunIds :
             /\ sends' = [sends EXCEPT ![r] = NextToken(r)]
             /\ \/ At(g, "start") /\ BeginTurn(g, Prompt(r, NextToken(r)), a.chan)
                \/ /\ At(g, "restart")
                   /\ Become(g, [a EXCEPT !.pc = AfterBoundary(g), !.item = NoItem,
                                          !.cmd = Prompt(r, NextToken(r)),
                                          !.drain = Prompt(r, NextToken(r))])
      BY <2>13 DEF StartDrained, Register
    <3> DEFINE cmd == Prompt(r, NextToken(r))
    <3>2. NextToken(r) \in Nat BY DEF NextToken, RuntimeType, SessionTypeOK
    <3>3. cmd \in Prompts /\ cmd # NoCommand BY <3>2, CommandFacts
    <3> HIDE DEF cmd
    <3>4. CASE BeginTurn(g, cmd, a.chan) BY <2>1, <2>5, <3>3, <3>4 DEF BeginTurn
    <3>5. CASE Become(g, [a EXCEPT !.pc = AfterBoundary(g), !.item = NoItem,
                                   !.cmd = cmd, !.drain = cmd])
      <4> DEFINE n == [a EXCEPT !.pc = AfterBoundary(g), !.item = NoItem, !.cmd = cmd, !.drain = cmd]
      <4>1. AfterBoundary(g) \in {"closing", "top"} BY DEF AfterBoundary
      <4>2. n \in ActorType /\ ActorShape(n) BY <2>1, <3>3, <4>1 DEF ActorType, ActorShape
      <4> HIDE DEF n
      <4> QED BY <2>2, <3>5, <4>2 DEF n
    <3> QED BY <3>1, <3>4, <3>5 DEF cmd
  <2>14. CASE ReceivePrompt(g)
    BY <2>1, <2>5, <2>14 DEF ReceivePrompt, BeginTurn
  <2>15. CASE ReceiveControl(g)
    <3>1. a.drain = NoCommand /\ a.cmd = NoCommand
      BY <2>1, <2>15 DEF ActorShape, ReceiveControl, At
    <3>2. HasMail(g) /\ (Receive(g, "closing") \/ Receive(g, "top")) BY <2>15 DEF ReceiveControl
    <3> QED BY <2>4, <3>1, <3>2
  <2>16. CASE CancelTurn(g) BY <1>2, <2>6, <2>16 DEF CancelTurn
  <2>17. CASE TurnEnds(g) BY <2>6, <2>17 DEF TurnEnds, EndTurn
  <2>18. CASE TurnControl(g) \/ RejectPrompt(g)
    <3>1. a.drain = NoCommand /\ a.cmd # NoCommand
      BY <2>1, <2>18 DEF ActorShape, TurnControl, RejectPrompt, At
    <3>2. CASE Receive(g, "turn")
      BY <2>4, <2>18, <3>1, <3>2 DEF TurnControl, RejectPrompt
    <3>3. CASE ~Receive(g, "turn")
      <4> DEFINE chan == Tail(a.chan)
                 n == [a EXCEPT !.pc = "finish", !.outcome = "cancelled",
                                !.chan = chan, !.stop = TRUE]
      <4>1. Become(g, n) BY <2>18, <3>3 DEF TurnControl, RejectPrompt
      <4>2. chan \in Seq(Commands) BY <2>1, <2>18, <3>3 DEF TurnControl, RejectPrompt
      <4> HIDE DEF chan
      <4>3. n \in ActorType /\ ActorShape(n) BY <1>2, <2>1, <3>1, <4>2 DEF ActorType, ActorShape
      <4> HIDE DEF n
      <4> QED BY <2>2, <4>1, <4>3
    <3> QED BY <3>2, <3>3
  <2>19. CASE FinishTurn(g)
    <3>1. a.drain = NoCommand /\ a.cmd # NoCommand
      BY <2>1, <2>19 DEF ActorShape, FinishTurn, At
    <3> QED BY <2>3, <2>19, <3>1 DEF FinishTurn
  <2>20. CASE FailActiveRun(g)
    <3> DEFINE n == [a EXCEPT !.cmd = NoCommand, !.active = FALSE]
    <3>1. n \in ActorType /\ ActorShape(n)
      BY <2>1, <2>20 DEF ActorType, ActorShape, FailActiveRun, At
    <3>2. Become(g, n) BY <2>20 DEF FailActiveRun
    <3> HIDE DEF n
    <3> QED BY <2>2, <3>1, <3>2
  <2>21. CASE FailCommand(g)
    <3>1. a.drain = NoCommand BY <2>1, <2>21 DEF ActorShape, FailCommand, At
    <3> QED BY <2>4, <2>21, <3>1 DEF FailCommand
  <2>22. CASE FailDone(g)
    <3>1. a.drain = NoCommand BY <2>1, <2>22 DEF ActorShape, FailDone, At
    <3> QED BY <2>3, <2>22, <3>1 DEF FailDone
  <2>23. CASE Close(g)
    <3>0. IdleActor \in ActorType BY DEF IdleActor, ActorType
    <3>1. [IdleActor EXCEPT !.pc = "closed"] \in ActorType BY <3>0 DEF ActorType
    <3>2. ActorShape([IdleActor EXCEPT !.pc = "closed"]) BY DEF IdleActor, ActorShape
    <3> QED BY <2>2, <2>23, <3>1, <3>2 DEF Close
  <2>24. CASE Unregister(g)
    <3>1. [a EXCEPT !.pc = "gone"] \in ActorType /\ ActorShape([a EXCEPT !.pc = "gone"])
      BY <2>1, <2>24 DEF ActorType, ActorShape, Unregister, At
    <3> QED BY <2>2, <2>24, <3>1 DEF Unregister, Goto
  <2> HIDE DEF a
  <2> QED
    BY <1>6, <2>7, <2>8, <2>9, <2>10, <2>11, <2>12, <2>13, <2>14, <2>15, <2>16, <2>17, <2>18,
       <2>19, <2>20, <2>21, <2>22, <2>23, <2>24 DEF ActorStep
<1> QED
  BY <1>1, <1>4, <1>5, <1>6 DEF SessionNext, AnswerPermission, vars, memVars

\* The handlers under way and the tables stay well formed.
CallsOK == \A c \in calls : c \in CallType /\ CallShape(c)

LEMMA NewCalls ==
    /\ \A r \in RunIds : Call("admitted", r, NoItem) \in CallType
                         /\ CallShape(Call("admitted", r, NoItem))
    /\ \A s \in {"ready", "steer", "claim", "start"}, i \in ItemIds \cup {NoItem} :
          Call(s, NoRun, i) \in CallType /\ CallShape(Call(s, NoRun, i))
    /\ \A g \in Gens :
          LET c == [Call("shutdown", NoRun, NoItem) EXCEPT !.to = g, !.cmd = Shutdown]
          IN  c \in CallType /\ CallShape(c)
<1>1. Shutdown \in Commands BY DEF Commands
<1> QED
  BY <1>1, Numbers, CommandFacts DEF Call, CallType, CallShape

LEMMA CallsStep == RuntimeType /\ [SessionNext]_vars => CallsOK'
<1> SUFFICES ASSUME RuntimeType, [SessionNext]_vars PROVE CallsOK'
  OBVIOUS
<1>0. CallsOK BY DEF RuntimeType, SessionTypeOK, CallsOK
<1>1. CASE UNCHANGED calls BY <1>0, <1>1 DEF CallsOK
<1>2. ASSUME NEW n \in CallType, CallShape(n), calls' \subseteq calls \cup {n} PROVE CallsOK'
  BY <1>0, <1>2 DEF CallsOK
<1>3. ASSUME Environment, calls' # calls PROVE CallsOK'
  <2>1. ASSUME NEW c \in PlainIds \cup DraftIds, ResendPrompt(c) PROVE CallsOK'
    <3>1. PICK r \in RunIds : calls' = calls \cup {Call("admitted", r, NoItem)}
      BY <2>1 DEF ResendPrompt, KnownRun
    <3> QED BY <1>2, <3>1, NewCalls
  <2>2. ASSUME NEW c \in Clients, StartPrompt(c) \/ StartDraft(c) PROVE CallsOK'
    <3>1. PICK r \in RunIds : calls' = calls \cup {Call("admitted", r, NoItem)}
      BY <1>3, <2>2 DEF StartPrompt, StartDraft, CommittedTo
    <3> QED BY <1>2, <3>1, NewCalls
  <2>3. ASSUME NEW i \in ItemIds, SteerMove(i) PROVE CallsOK'
    BY <1>2, <2>3, NewCalls DEF SteerMove
  <2>4. CASE Initialize BY <1>2, <2>4, NewCalls DEF Initialize
  <2>5. CASE TakeHandle
    <3>1. handle \in Gens BY <2>5 DEF TakeHandle, RuntimeType, SessionTypeOK
    <3> QED BY <1>2, <2>5, <3>1, NewCalls DEF TakeHandle
  <2>6. CASE Crash BY <2>6 DEF Crash, CallsOK
  <2> QED
    BY <1>3, <2>1, <2>2, <2>3, <2>4, <2>5, <2>6 DEF Environment, QueuePrompt, EditQueued,
       RemoveQueued, Cancel, StopWaiting, FailActor, FailToStart, AskPermission, memVars, Clients
<1>4. ASSUME CallStep PROVE CallsOK'
  <2>1. PICK c \in calls :
           \/ RegisterAndLookUp(c) \/ LookUp(c) \/ Send(c) \/ SpawnActor(c) \/ SendShutdown(c)
           \/ SteerCancel(c) \/ SteerIdle(c) \/ SteerClaim(c) \/ SteerStart(c)
    BY <1>4 DEF CallStep
  <2>2. c \in CallType /\ CallShape(c) BY <1>0 DEF CallsOK
  <2>3. handle \in Gens \cup {NoActor} BY DEF RuntimeType, SessionTypeOK
  <2>4. CASE Send(c) \/ SpawnActor(c) \/ SendShutdown(c) \/ SteerCancel(c)
    BY <1>0, <2>4 DEF CallsOK, Send, SpawnActor, SendShutdown, SteerCancel
  <2>5. CASE RegisterAndLookUp(c)
    <3> DEFINE cmd == Prompt(c.run, NextToken(c.run))
               n == [c EXCEPT !.step = "deliver", !.to = handle, !.cmd = cmd]
    <3>1. c.step = "admitted" /\ calls' = (calls \ {c}) \cup {n} BY <2>5 DEF RegisterAndLookUp
    <3>2. c.run \in RunIds BY <2>2, <3>1 DEF CallType, CallShape
    <3>3. NextToken(c.run) \in Nat BY <3>2 DEF NextToken, RuntimeType, SessionTypeOK
    <3>4. cmd \in Prompts /\ cmd \in Commands /\ cmd # NoCommand /\ cmd # Shutdown
      BY <3>2, <3>3, CommandFacts DEF Commands
    <3>5. cmd.run = c.run BY DEF Prompt
    <3> HIDE DEF cmd
    <3>6. n \in CallType /\ CallShape(n) BY <2>2, <2>3, <3>4, <3>5 DEF CallType, CallShape
    <3> HIDE DEF n
    <3> QED BY <1>2, <3>1, <3>6
  <2>6. CASE LookUp(c)
    <3> DEFINE n == [c EXCEPT !.step = "deliver", !.to = handle, !.cmd = Control]
    <3>1. c.step = "ready" /\ calls' = (calls \ {c}) \cup {n} BY <2>6 DEF LookUp
    <3>2. Control \in Commands /\ Control # NoCommand /\ Control # Shutdown /\ Control.run = NoRun
      BY CommandFacts DEF Commands
    <3>3. n \in CallType /\ CallShape(n) BY <2>2, <2>3, <3>1, <3>2 DEF CallType, CallShape
    <3> HIDE DEF n
    <3> QED BY <1>2, <3>1, <3>3
  <2>7. CASE SteerIdle(c)
    <3> DEFINE n == [c EXCEPT !.step = "claim"]
    <3>1. c.step = "steer" /\ calls' = (calls \ {c}) \cup {n} BY <2>7 DEF SteerIdle
    <3>2. n \in CallType /\ CallShape(n) BY <2>2, <3>1 DEF CallType, CallShape
    <3> HIDE DEF n
    <3> QED BY <1>2, <3>1, <3>2
  <2>8. CASE SteerClaim(c)
    <3>1. \/ calls' \subseteq calls
          \/ \E i \in ItemIds : calls' = (calls \ {c}) \cup {Call("start", NoRun, i)}
      BY <2>8 DEF SteerClaim
    <3> QED BY <1>0, <1>2, <3>1, NewCalls DEF CallsOK
  <2>9. CASE SteerStart(c)
    <3>1. \/ calls' \subseteq calls
          \/ \E r \in RunIds : calls' = (calls \ {c}) \cup {Call("admitted", r, NoItem)}
      BY <2>9 DEF SteerStart
    <3> QED BY <1>0, <1>2, <3>1, NewCalls DEF CallsOK
  <2> QED BY <2>1, <2>4, <2>5, <2>6, <2>7, <2>8, <2>9
<1>5. ASSUME NEW g \in Gens, ActorStep(g) \/ TurnEnds(g) PROVE CallsOK'
  BY <1>1, <1>5 DEF ActorStep, TurnEnds, InsertHandle, Boot, TakeDrain, LookAtChannel, ClaimItem,
     ClaimNothing, StartDrained, ReceivePrompt, ReceiveControl, CancelTurn, TurnControl,
     RejectPrompt, FinishTurn, FailActiveRun, FailCommand, FailDone, Close, Unregister, EndTurn
<1> QED
  BY <1>1, <1>3, <1>4, <1>5 DEF SessionNext, AnswerPermission, vars, memVars

TablesOK ==
    /\ handle \in Gens \cup {NoActor} /\ current \in Gens \cup {NoActor}
    /\ cancels \in [RunIds -> Nat] /\ sends \in [RunIds -> Nat]
    /\ asks \subseteq RunIds /\ prompted \in [RunIds -> Nat]

LEMMA TablesStep == RuntimeType /\ [SessionNext]_vars => TablesOK'
<1> SUFFICES ASSUME RuntimeType, [SessionNext]_vars PROVE TablesOK'
  OBVIOUS
<1>0. TablesOK BY DEF RuntimeType, SessionTypeOK, TablesOK
<1>1. ASSUME NEW r, RemoveCancel(r) PROVE cancels' \in [RunIds -> Nat]
  BY <1>0, <1>1 DEF TablesOK, RemoveCancel
<1>2. ASSUME NEW r \in RunIds, Register(r)
      PROVE  cancels' \in [RunIds -> Nat] /\ sends' \in [RunIds -> Nat]
  BY <1>0, <1>2 DEF TablesOK, Register, NextToken
<1>3. ASSUME NEW g \in Gens, NEW cmd, NEW chan, BeginTurn(g, cmd, chan)
      PROVE  prompted' \in [RunIds -> Nat]
  <2>1. prompted' = [prompted EXCEPT ![cmd.run] = @ + 1] BY <1>3 DEF BeginTurn
  <2>2. CASE cmd.run \in RunIds
    <3>1. prompted[cmd.run] + 1 \in Nat BY <1>0, <2>2 DEF TablesOK
    <3> QED BY <1>0, <2>1, <3>1 DEF TablesOK
  <2>3. CASE cmd.run \notin RunIds BY <1>0, <2>1, <2>3 DEF TablesOK
  <2> QED BY <2>2, <2>3
<1>4. CASE Environment
  <2>1. CASE Crash BY <1>0, <2>1 DEF Crash, TablesOK
  <2>2. ASSUME NEW r \in RunIds, Cancel(r) PROVE TablesOK'
    BY <1>0, <1>1, <2>2 DEF Cancel, TablesOK
  <2>3. CASE TakeHandle BY <1>0, <2>3 DEF TakeHandle, TablesOK
  <2>4. ASSUME NEW g \in Gens, AskPermission(g) PROVE TablesOK'
    <3>1. ActorsOK BY DEF RuntimeType, SessionTypeOK, ActorsOK
    <3>2. Working(g) # NoCommand
      BY <2>4, <3>1, ActorFields DEF AskPermission, At, Working, ActorShape
    <3>3. Working(g).run \in RunIds BY <3>1, <3>2, ActorFields, CommandFacts
    <3> QED BY <1>0, <2>4, <3>3 DEF AskPermission, TablesOK
  <2>5. CASE UNCHANGED <<handle, current, cancels, sends, asks, prompted>>
    BY <1>0, <2>5 DEF TablesOK
  <2> QED
    BY <1>4, <2>1, <2>2, <2>3, <2>4, <2>5 DEF Environment, StartPrompt, QueuePrompt, ResendPrompt,
       StartDraft, SteerMove, EditQueued, RemoveQueued, StopWaiting, FailActor, FailToStart,
       Initialize, memVars
<1>5. ASSUME NEW c \in calls, 
             \/ RegisterAndLookUp(c) \/ LookUp(c) \/ Send(c) \/ SpawnActor(c) \/ SendShutdown(c)
             \/ SteerCancel(c) \/ SteerIdle(c) \/ SteerClaim(c) \/ SteerStart(c)
      PROVE  TablesOK'
  <2>1. CASE RegisterAndLookUp(c)
    <3>1. c.run \in RunIds
      BY <2>1 DEF RegisterAndLookUp, RuntimeType, SessionTypeOK, CallType, CallShape
    <3> QED BY <1>0, <1>2, <2>1, <3>1 DEF RegisterAndLookUp, TablesOK
  <2>2. CASE SpawnActor(c) BY <1>0, <2>2 DEF SpawnActor, TablesOK
  <2>3. CASE SteerCancel(c) BY <1>0, <1>1, <2>3 DEF SteerCancel, TablesOK
  <2>4. CASE SteerStart(c) BY <1>0, <1>2, <2>4 DEF SteerStart, TablesOK
  <2>5. CASE UNCHANGED <<handle, current, cancels, sends, asks, prompted>>
    BY <1>0, <2>5 DEF TablesOK
  <2> QED
    BY <1>5, <2>1, <2>2, <2>3, <2>4, <2>5 DEF LookUp, Send, SendShutdown, SteerIdle, SteerClaim
<1>6. ASSUME NEW g \in Gens, ActorStep(g) \/ TurnEnds(g) PROVE TablesOK'
  <2>1. CASE InsertHandle(g) BY <1>0, <2>1 DEF InsertHandle, TablesOK
  <2>2. CASE TakeDrain(g) \/ ReceivePrompt(g)
    BY <1>0, <1>3, <2>2 DEF TakeDrain, ReceivePrompt, TablesOK
  <2>3. CASE StartDrained(g)
    <3>1. UNCHANGED <<handle, current, asks>> BY <2>3 DEF StartDrained
    <3>2. \E r \in RunIds : Register(r) BY <2>3 DEF StartDrained
    <3>3. \/ UNCHANGED prompted
          \/ \E cmd : BeginTurn(g, cmd, actors[g].chan)
      BY <2>3 DEF StartDrained
    <3> QED BY <1>0, <1>2, <1>3, <3>1, <3>2, <3>3 DEF TablesOK
  <2>4. CASE RejectPrompt(g) \/ FinishTurn(g)
    BY <1>0, <1>1, <2>4 DEF RejectPrompt, FinishTurn, TablesOK
  <2>5. CASE FailCommand(g)
    <3>1. UNCHANGED cancels \/ RemoveCancel(NextMail(g).run) BY <2>5 DEF FailCommand
    <3> QED BY <1>0, <1>1, <2>5, <3>1 DEF FailCommand, TablesOK
  <2>6. CASE Unregister(g) BY <1>0, <2>6 DEF Unregister, TablesOK
  <2>7. CASE UNCHANGED <<handle, current, cancels, sends, asks, prompted>>
    BY <1>0, <2>7 DEF TablesOK
  <2> QED
    BY <1>6, <2>1, <2>2, <2>3, <2>4, <2>5, <2>6, <2>7 DEF ActorStep, TurnEnds, Boot,
       LookAtChannel, ClaimItem, ClaimNothing, ReceiveControl, CancelTurn, TurnControl,
       FailActiveRun, FailDone, Close, EndTurn
<1>7. ASSUME NEW r \in RunIds, AnswerPermission(r) PROVE TablesOK'
  BY <1>0, <1>7 DEF AnswerPermission, TablesOK
<1>8. CASE UNCHANGED vars BY <1>0, <1>8 DEF TablesOK, vars, memVars
<1> QED
  BY <1>4, <1>5, <1>6, <1>7, <1>8 DEF SessionNext, CallStep

LEMMA RuntimeStep == RuntimeType /\ [SessionNext]_vars => RuntimeType'
<1> SUFFICES ASSUME RuntimeType, [SessionNext]_vars PROVE RuntimeType'
  OBVIOUS
<1>1. StoreTypeOK' BY StoreStep, TypeStep DEF RuntimeType, SessionTypeOK
<1> QED
  BY <1>1, ActorsStep, CallsStep, TablesStep
     DEF RuntimeType, SessionTypeOK, ActorsOK, CallsOK, TablesOK

\* What a handler or an actor remembers always fits the step it is at.
THEOREM RuntimeTypes == SessionSpec => []RuntimeType
<1>1. SessionInit => RuntimeType BY RuntimeInit
<1>2. RuntimeType /\ [SessionNext]_vars => RuntimeType' BY RuntimeStep
<1> QED BY <1>1, <1>2, PTL DEF SessionSpec

\* The registries, the actors, their channels and the handlers stay well formed.
THEOREM SessionTypesHold == SessionSpec => []SessionTypeOK
<1>1. RuntimeType => SessionTypeOK BY DEF RuntimeType
<1> QED BY <1>1, RuntimeTypes, PTL

\* The detailed specification implements the abstract one: whatever handlers and
\* actors do, the store sees its own transactions and nothing else.
THEOREM StoreIsImplemented == SessionSpec => ImplementsStore
<1>1. SessionInit => StoreInit BY DEF SessionInit
<1>2. RuntimeType /\ [SessionNext]_vars => [StoreNext]_storeVars BY StoreStep
<1> QED BY <1>1, <1>2, RuntimeTypes, PTL DEF SessionSpec, StoreSpec, ImplementsStore

-----------------------------------------------------------------------------
(* Registries.  RoutedToCurrent is inductive beside the types.              *)

LEMMA RoutedStep == RuntimeType /\ RoutedToCurrent /\ [SessionNext]_vars => RoutedToCurrent'
<1> SUFFICES ASSUME RuntimeType, RoutedToCurrent, [SessionNext]_vars PROVE RoutedToCurrent'
  OBVIOUS
<1> DEFINE Leaving == {"boot", "failed", "closing", "closed"}
<1>0. ActorsOK BY DEF RuntimeType, SessionTypeOK, ActorsOK
<1>1. ASSUME NEW g \in Gens PROVE actors[g] \in ActorType BY <1>0 DEF ActorsOK
<1>2. handle \in Gens \cup {NoActor} BY DEF RuntimeType, SessionTypeOK
\* Most steps leave the registries alone and move actors towards their end.
<1>3. ASSUME UNCHANGED <<handle, current>>,
             \A g \in Gens : /\ actors[g].pc = "new" => actors'[g].pc = "new"
                             /\ actors[g].pc \in Leaving => actors'[g].pc \in Leaving
      PROVE  RoutedToCurrent'
  BY <1>2, <1>3 DEF RoutedToCurrent, At
<1>4. CASE UNCHANGED <<actors, handle, current>> BY <1>3, <1>4
<1>5. CASE Environment
  <2>1. CASE Crash BY <2>1 DEF Crash, RoutedToCurrent
  <2>2. CASE TakeHandle BY <2>2 DEF TakeHandle, RoutedToCurrent
  <2>3. ASSUME NEW g \in Gens, StopWaiting(g) PROVE RoutedToCurrent'
    BY <1>0, <1>3, <2>3 DEF StopWaiting, At, Goto, Become, ActorsOK, ActorType
  <2>4. ASSUME NEW g \in Gens, FailActor(g) PROVE RoutedToCurrent'
    BY <1>0, <1>3, <2>4 DEF FailActor, Become, ActorsOK, ActorType
  <2>5. ASSUME NEW g \in Gens, FailToStart(g) PROVE RoutedToCurrent'
    <3>1. actors[g].pc \in {"start", "restart"} BY <2>5 DEF FailToStart, At
    <3>2. actors' = [actors EXCEPT ![g] = NothingDrained(g)] BY <2>5 DEF FailToStart, Become
    <3> QED BY <1>0, <1>3, <2>5, <3>1, <3>2 DEF FailToStart, ActorsOK
  <2> QED
    BY <1>4, <1>5, <2>1, <2>2, <2>3, <2>4, <2>5 DEF Environment, StartPrompt, QueuePrompt,
       ResendPrompt, StartDraft, SteerMove, EditQueued, RemoveQueued, Cancel, AskPermission,
       Initialize, memVars
<1>6. ASSUME NEW c \in calls,
             \/ RegisterAndLookUp(c) \/ LookUp(c) \/ Send(c) \/ SpawnActor(c) \/ SendShutdown(c)
             \/ SteerCancel(c) \/ SteerIdle(c) \/ SteerClaim(c) \/ SteerStart(c)
      PROVE  RoutedToCurrent'
  <2>1. CASE Send(c)
    <3>1. c.to \in Gens BY <2>1 DEF Send, RuntimeType, SessionTypeOK, CallType
    <3> QED BY <1>0, <1>3, <2>1, <3>1 DEF Send, ActorsOK, ActorType
  <2>2. CASE SendShutdown(c)
    <3>1. c.to \in Gens
      BY <2>2 DEF SendShutdown, RuntimeType, SessionTypeOK, CallType, CallShape
    <3> QED BY <1>0, <1>3, <2>2, <3>1 DEF SendShutdown, ActorsOK, ActorType
  <2>3. CASE SpawnActor(c)
    <3>1. PICK g \in Gens :
             actors' = [actors EXCEPT ![g] = [IdleActor EXCEPT !.pc = "new", !.chan = <<c.cmd>>,
                                                               !.active = StartsRun(c.cmd)]]
      BY <2>3 DEF SpawnActor
    <3>2. actors'[g].pc = "new" BY <1>0, <3>1 DEF ActorsOK, IdleActor
    <3> QED BY <3>2 DEF RoutedToCurrent, At
  <2> QED
    BY <1>4, <1>6, <2>1, <2>2, <2>3
       DEF RegisterAndLookUp, LookUp, SteerCancel, SteerIdle, SteerClaim, SteerStart
<1>7. ASSUME NEW g \in Gens, ActorStep(g) \/ TurnEnds(g) PROVE RoutedToCurrent'
  <2>1. ASSUME NEW b, Become(g, b), UNCHANGED <<handle, current>>, actors[g].pc # "new",
               actors[g].pc \notin Leaving \/ b.pc \in Leaving
        PROVE  RoutedToCurrent'
    BY <1>0, <1>3, <2>1 DEF Become, ActorsOK
  <2>2. CASE InsertHandle(g)
    <3>1. handle' = g /\ actors'[g].pc = "boot"
      BY <1>0, <1>1, <2>2 DEF InsertHandle, ActorsOK, ActorType
    <3> QED BY <3>1 DEF RoutedToCurrent
  <2>3. CASE Boot(g)
    <3>1. CASE current = g
      <4>1. /\ UNCHANGED <<handle, current>>
            /\ \A f \in Gens \ {g} : actors'[f] = actors[f]
            /\ actors[g].pc = "boot"
        BY <1>0, <2>3 DEF Boot, Goto, Become, At, ActorsOK
      <4> QED BY <1>2, <3>1, <4>1 DEF RoutedToCurrent, At
    <3>2. CASE current # g
      <4>1. [actors[g] EXCEPT !.pc = "failed"].pc = "failed" BY <1>1 DEF ActorType
      <4> QED BY <2>1, <2>3, <3>2, <4>1 DEF Boot, Goto, At
    <3> QED BY <3>1, <3>2
  <2>4. CASE Unregister(g)
    <3>1. /\ \A f \in Gens \ {g} : actors'[f] = actors[f]
          /\ actors[g].pc = "closed" /\ handle' # g
          /\ handle' # NoActor => handle' = handle
          /\ current' = current \/ current = g
      BY <1>0, <2>4, Numbers DEF Unregister, Goto, Become, At, ActorsOK
    <3> QED BY <1>2, <3>1 DEF RoutedToCurrent, At
  <2>5. CASE Close(g)
    <3>1. [IdleActor EXCEPT !.pc = "closed"].pc = "closed" BY DEF IdleActor
    <3> QED BY <2>1, <2>5, <3>1 DEF Close, At
  <2>6. CASE FailActiveRun(g) \/ FailCommand(g) \/ FailDone(g)
    <3>1. actors[g].pc = "failed" BY <2>6 DEF FailActiveRun, FailCommand, FailDone, At
    <3>2. CASE FailActiveRun(g)
      <4>1. [actors[g] EXCEPT !.cmd = NoCommand, !.active = FALSE].pc = "failed"
        BY <1>1, <3>1 DEF ActorType
      <4> QED BY <2>1, <3>1, <3>2, <4>1 DEF FailActiveRun
    <3>3. CASE FailCommand(g)
      <4>1. [actors[g] EXCEPT !.pc = "failed", !.chan = Tail(@)].pc = "failed"
        BY <1>1 DEF ActorType
      <4> QED BY <2>1, <3>1, <3>3, <4>1 DEF FailCommand, Receive
    <3>4. CASE FailDone(g)
      <4>1. [actors[g] EXCEPT !.pc = "closing"].pc = "closing" BY <1>1 DEF ActorType
      <4> QED BY <2>1, <3>1, <3>4, <4>1 DEF FailDone, Goto
    <3> QED BY <2>6, <3>2, <3>3, <3>4
  <2>7. CASE \/ TakeDrain(g) \/ LookAtChannel(g) \/ ClaimItem(g) \/ ClaimNothing(g)
             \/ StartDrained(g) \/ ReceivePrompt(g) \/ ReceiveControl(g) \/ CancelTurn(g)
             \/ TurnControl(g) \/ RejectPrompt(g) \/ FinishTurn(g) \/ TurnEnds(g)
    <3>1. actors[g].pc \in {"top", "claim", "start", "recv", "turn", "finish", "boundary", "restart"}
      BY <2>7 DEF TakeDrain, LookAtChannel, ClaimItem, ClaimNothing, StartDrained, ReceivePrompt,
         ReceiveControl, CancelTurn, TurnControl, RejectPrompt, FinishTurn, TurnEnds, EndTurn, At
    <3>2. UNCHANGED <<handle, current>>
      BY <2>7 DEF TakeDrain, LookAtChannel, ClaimItem, ClaimNothing, StartDrained, ReceivePrompt,
         ReceiveControl, CancelTurn, TurnControl, RejectPrompt, FinishTurn, TurnEnds, EndTurn
    <3>3. \E b : Become(g, b)
      BY <2>7 DEF TakeDrain, LookAtChannel, ClaimItem, ClaimNothing, StartDrained, ReceivePrompt,
         ReceiveControl, CancelTurn, TurnControl, RejectPrompt, FinishTurn, TurnEnds, EndTurn,
         Goto, Receive, BeginTurn
    <3> QED BY <2>1, <3>1, <3>2, <3>3
  <2> QED BY <1>7, <2>2, <2>3, <2>4, <2>5, <2>6, <2>7 DEF ActorStep
<1>8. CASE UNCHANGED vars BY <1>4, <1>8 DEF vars, memVars
<1> QED
  BY <1>4, <1>5, <1>6, <1>7, <1>8 DEF SessionNext, CallStep, AnswerPermission

\* Whatever generations follow each other, and whenever an old one cleans up
\* after itself, the sessions map never keeps routing to a superseded actor.
THEOREM RoutingAgrees == SessionSpec => []RoutedToCurrent
<1>1. SessionInit => RoutedToCurrent BY DEF SessionInit, RoutedToCurrent
<1>2. RuntimeType /\ RoutedToCurrent /\ [SessionNext]_vars => RoutedToCurrent' BY RoutedStep
<1> QED BY <1>1, <1>2, RuntimeTypes, PTL DEF SessionSpec

-----------------------------------------------------------------------------
(* One place per run.  The provider is given a prompt once and a run has at *)
(* most one holder because the command of a run exists in one copy: with a  *)
(* handler, in a channel or in an actor's hands, and not again once it has  *)
(* been worked on.                                                          *)

MailRuns(s) == {s[n].run : n \in DOMAIN s}
RunsOf(a) == (MailRuns(a.chan) \cup {a.cmd.run}) \ {NoRun}
WaitsIn(a) == (MailRuns(a.chan) \cup {a.drain.run}) \ {NoRun}

\* No two commands of a channel are for the same run, and none for the run in hand.
NoRepeat(s) == \A m, n \in DOMAIN s : s[m].run = s[n].run => m = n \/ s[m].run = NoRun
Distinct(a) == NoRepeat(a.chan) /\ (a.cmd.run \in MailRuns(a.chan) => a.cmd.run = NoRun)

OnePlace ==
    /\ \A g \in Gens : Distinct(actors[g])
    /\ \A g, h \in Gens : g # h => RunsOf(actors[g]) \cap RunsOf(actors[h]) = {}
    /\ \A c, d \in calls : c.run = d.run => c = d \/ c.run = NoRun
    /\ \A c \in calls, g \in Gens : c.run \notin RunsOf(actors[g])

\* Only runs of the store are anywhere, and what waits was not prompted yet.
NothingOf(r) == /\ \A g \in Gens : r \notin RunsOf(actors[g])
                /\ \A c \in calls : c.run # r
                /\ prompted[r] = 0
Waiting(r) == \/ \E g \in Gens : r \in WaitsIn(actors[g])
              \/ \E c \in calls : c.run = r
HandsInv ==
    /\ OnePlace
    /\ \A r \in RunIds : Inserted(r) \/ NothingOf(r)
    /\ \A r \in RunIds : Waiting(r) => prompted[r] = 0
    /\ PromptedAtMostOnce

LEMMA EmptyMail == MailRuns(<<>>) = {} /\ NoRepeat(<<>>)
BY DEF MailRuns, NoRepeat

LEMMA OneMail == ASSUME NEW c PROVE MailRuns(<<c>>) = {c.run} /\ NoRepeat(<<c>>)
BY DEF MailRuns, NoRepeat

LEMMA TailMail ==
    ASSUME NEW s \in Seq(Commands), s # <<>>
    PROVE  /\ MailRuns(s) = {s[1].run} \cup MailRuns(Tail(s))
           /\ NoRepeat(s) => /\ NoRepeat(Tail(s))
                             /\ s[1].run \in MailRuns(Tail(s)) => s[1].run = NoRun
<1>1. /\ Len(s) \in Nat /\ Len(s) > 0 /\ DOMAIN s = 1..Len(s)
      /\ DOMAIN Tail(s) = 1..(Len(s) - 1)
      /\ \A n \in 1..(Len(s) - 1) : Tail(s)[n] = s[n + 1]
  OBVIOUS
<1>2. MailRuns(s) = {s[1].run} \cup MailRuns(Tail(s))
  <2>1. ASSUME NEW n \in DOMAIN s, n # 1 PROVE s[n].run \in MailRuns(Tail(s))
    <3>1. n - 1 \in DOMAIN Tail(s) /\ Tail(s)[n - 1] = s[n] BY <1>1, <2>1
    <3> QED BY <3>1 DEF MailRuns
  <2>2. ASSUME NEW n \in DOMAIN Tail(s) PROVE Tail(s)[n].run \in MailRuns(s)
    <3>1. n + 1 \in DOMAIN s /\ Tail(s)[n] = s[n + 1] BY <1>1
    <3> QED BY <3>1 DEF MailRuns
  <2>3. 1 \in DOMAIN s BY <1>1
  <2> QED BY <2>1, <2>2, <2>3 DEF MailRuns
<1>3. ASSUME NoRepeat(s) PROVE NoRepeat(Tail(s))
  <2> SUFFICES ASSUME NEW m \in DOMAIN Tail(s), NEW n \in DOMAIN Tail(s),
                      Tail(s)[m].run = Tail(s)[n].run
               PROVE  m = n \/ Tail(s)[m].run = NoRun
    BY DEF NoRepeat
  <2>1. /\ m + 1 \in DOMAIN s /\ n + 1 \in DOMAIN s /\ m \in Nat /\ n \in Nat
        /\ Tail(s)[m] = s[m + 1] /\ Tail(s)[n] = s[n + 1]
    BY <1>1
  <2>2. m + 1 = n + 1 \/ s[m + 1].run = NoRun BY <1>3, <2>1 DEF NoRepeat
  <2> QED BY <2>1, <2>2
<1>4. ASSUME NoRepeat(s), s[1].run \in MailRuns(Tail(s)) PROVE s[1].run = NoRun
  <2>1. PICK n \in DOMAIN Tail(s) : s[1].run = Tail(s)[n].run BY <1>4 DEF MailRuns
  <2>2. n + 1 \in DOMAIN s /\ 1 \in DOMAIN s /\ n + 1 # 1 /\ Tail(s)[n] = s[n + 1] BY <1>1
  <2> QED BY <1>4, <2>1, <2>2 DEF NoRepeat
<1> QED BY <1>2, <1>3, <1>4

LEMMA AppendMail ==
    ASSUME NEW s \in Seq(Commands), NEW c \in Commands
    PROVE  /\ MailRuns(Append(s, c)) = MailRuns(s) \cup {c.run}
           /\ NoRepeat(s) /\ (c.run \in MailRuns(s) => c.run = NoRun) => NoRepeat(Append(s, c))
<1> DEFINE t == Append(s, c)
<1>1. /\ Len(s) \in Nat /\ DOMAIN s = 1..Len(s) /\ DOMAIN t = 1..(Len(s) + 1)
      /\ \A n \in 1..Len(s) : t[n] = s[n]
      /\ t[Len(s) + 1] = c
  OBVIOUS
<1> HIDE DEF t
<1>2. DOMAIN t = DOMAIN s \cup {Len(s) + 1} /\ Len(s) + 1 \notin DOMAIN s BY <1>1
<1>3. MailRuns(t) = MailRuns(s) \cup {c.run} BY <1>1, <1>2 DEF MailRuns
<1>4. ASSUME NoRepeat(s), c.run \in MailRuns(s) => c.run = NoRun PROVE NoRepeat(t)
  <2>1. \A n \in DOMAIN s : s[n].run = c.run => c.run = NoRun BY <1>4 DEF MailRuns
  <2> QED BY <1>1, <1>2, <1>4, <2>1 DEF NoRepeat
<1> QED BY <1>3, <1>4 DEF t

\* What an actor step that takes up no run makes of the actor's hands.
KeepsHands(a, b) ==
    /\ b.chan = a.chan \/ b.chan = <<>> \/ (a.chan # <<>> /\ b.chan = Tail(a.chan))
    /\ b.cmd = a.cmd \/ b.cmd = NoCommand
    /\ b.drain = a.drain \/ b.drain = NoCommand

Narrowed(a, b) == /\ RunsOf(b) \subseteq RunsOf(a)
                  /\ WaitsIn(b) \subseteq WaitsIn(a)
                  /\ Distinct(a) => Distinct(b)

LEMMA KeepingIsNarrowing ==
    ASSUME NEW a, NEW b, a.chan \in Seq(Commands), KeepsHands(a, b)
    PROVE  Narrowed(a, b)
<1>1. NoCommand.run = NoRun BY CommandFacts
<1>2. MailRuns(b.chan) \subseteq MailRuns(a.chan) /\ (NoRepeat(a.chan) => NoRepeat(b.chan))
  BY EmptyMail, TailMail DEF KeepsHands
<1> QED BY <1>1, <1>2 DEF KeepsHands, Narrowed, RunsOf, WaitsIn, Distinct

LEMMA WaitsAreHeld ==
    ASSUME NEW a, ActorShape(a) PROVE WaitsIn(a) \subseteq RunsOf(a)
<1>1. NoCommand.run = NoRun BY CommandFacts
<1> QED BY <1>1 DEF ActorShape, WaitsIn, RunsOf

LEMMA InsertedStays ==
    ASSUME StoreTypeOK, [StoreNext]_storeVars, NEW r \in RunIds, Inserted(r)
    PROVE  Inserted(r)'
<1>1. ASSUME NEW q \in RunIds, NEW c, NEW v, NEW i, InsertRun(q, c, v, i) PROVE Inserted(r)'
  BY <1>1 DEF InsertRun, FreshRun, NewRun, Inserted, StoreTypeOK
<1>2. ASSUME NEW q \in RunIds, NEW s \in ActiveStatus, SetRunStatus(q, s) PROVE Inserted(r)'
  BY <1>2 DEF SetRunStatus, Inserted, StoreTypeOK, ActiveStatus, Run
<1>3. ASSUME NEW q \in RunIds, NEW s \in Outcomes, FinishRun(q, s) PROVE Inserted(r)'
  BY <1>3, OutcomeAssumption DEF FinishRun, Inserted, StoreTypeOK, Run
<1>4. CASE Restart
  BY <1>4, RestartRows DEF Inserted
<1>5. CASE UNCHANGED runs BY <1>5 DEF Inserted
<1> QED
  BY <1>1, <1>2, <1>3, <1>4, <1>5 DEF StoreNext, storeVars, AdmitAndStart, StartOrRefuse,
     StartClaimed, AdmitAndQueue, ClaimNext, EditItem, RemoveItem, MoveToHead, LoseClaim

\* The ways in which a step may move the command of a run: not at all,
LEMMA QuietHands ==
    ASSUME HandsInv, \A g \in Gens : Narrowed(actors[g], actors'[g]),
           \A d \in calls' : d \in calls \/ d.run = NoRun,
           prompted' = prompted, \A r \in RunIds : Inserted(r) => Inserted(r)'
    PROVE  HandsInv'
<1>1. OnePlace' BY Numbers DEF HandsInv, OnePlace, Narrowed, RunsOf
<1>2. ASSUME NEW r \in RunIds PROVE (Inserted(r) \/ NothingOf(r))'
  BY Numbers DEF HandsInv, NothingOf, Narrowed
<1>3. ASSUME NEW r \in RunIds, Waiting(r)' PROVE prompted'[r] = 0
  <2>1. Waiting(r) BY <1>3, Numbers DEF Waiting, Narrowed
  <2> QED BY <2>1 DEF HandsInv
<1>4. PromptedAtMostOnce' BY DEF HandsInv, PromptedAtMostOnce
<1> QED BY <1>1, <1>2, <1>3, <1>4 DEF HandsInv

\* with its handler to the next step,
LEMMA RenewedCall ==
    ASSUME HandsInv, NEW c \in calls, NEW n, n.run = c.run, calls' = (calls \ {c}) \cup {n},
           UNCHANGED <<actors, prompted, runs>>
    PROVE  HandsInv'
<1>1. OnePlace' BY DEF HandsInv, OnePlace
<1>2. ASSUME NEW r \in RunIds PROVE (Inserted(r) \/ NothingOf(r))'
  BY DEF HandsInv, NothingOf, Inserted
<1>3. ASSUME NEW r \in RunIds, Waiting(r)' PROVE prompted'[r] = 0
  <2>1. Waiting(r) BY <1>3 DEF Waiting
  <2> QED BY <2>1 DEF HandsInv
<1>4. PromptedAtMostOnce' BY DEF HandsInv, PromptedAtMostOnce
<1> QED BY <1>1, <1>2, <1>3, <1>4 DEF HandsInv

\* from a handler to the channel of an actor,
LEMMA HandedOver ==
    ASSUME HandsInv, NEW c \in calls, NEW g \in Gens,
           calls' = calls \ {c}, \A h \in Gens \ {g} : actors'[h] = actors[h],
           RunsOf(actors'[g]) \subseteq RunsOf(actors[g]) \cup {c.run},
           WaitsIn(actors'[g]) \subseteq WaitsIn(actors[g]) \cup {c.run},
           Distinct(actors'[g]), UNCHANGED <<prompted, runs>>
    PROVE  HandsInv'
<1> USE Numbers
<1>1. OnePlace'
  <2>1. \A h \in Gens : NoRun \notin RunsOf(actors'[h]) BY DEF RunsOf
  <2>2. ASSUME NEW h \in Gens, h # g PROVE RunsOf(actors'[g]) \cap RunsOf(actors'[h]) = {}
    <3>1. actors'[h] = actors[h] BY <2>2
    <3>2. RunsOf(actors[g]) \cap RunsOf(actors[h]) = {} BY <2>2 DEF HandsInv, OnePlace
    <3>3. c.run \notin RunsOf(actors[h]) BY DEF HandsInv, OnePlace
    <3> QED BY <3>1, <3>2, <3>3
  <2>3. \A h, k \in Gens : h # k => RunsOf(actors'[h]) \cap RunsOf(actors'[k]) = {}
    BY <2>2 DEF HandsInv, OnePlace
  <2>4. \A d \in calls', h \in Gens : d.run \notin RunsOf(actors'[h])
    BY <2>1 DEF HandsInv, OnePlace
  <2>5. \A h \in Gens : Distinct(actors'[h]) BY DEF HandsInv, OnePlace
  <2>6. \A d, e \in calls' : d.run = e.run => d = e \/ d.run = NoRun BY DEF HandsInv, OnePlace
  <2> QED BY <2>3, <2>4, <2>5, <2>6 DEF OnePlace
<1>2. ASSUME NEW r \in RunIds PROVE (Inserted(r) \/ NothingOf(r))'
  <2>1. CASE Inserted(r) BY <2>1 DEF Inserted
  <2>2. CASE NothingOf(r) BY <2>2 DEF NothingOf
  <2> QED BY <2>1, <2>2 DEF HandsInv
<1>3. ASSUME NEW r \in RunIds, Waiting(r)' PROVE prompted'[r] = 0
  <2>1. Waiting(r) BY <1>3 DEF Waiting
  <2> QED BY <2>1 DEF HandsInv
<1>4. PromptedAtMostOnce' BY DEF HandsInv, PromptedAtMostOnce
<1> QED BY <1>1, <1>2, <1>3, <1>4 DEF HandsInv

\* from the store to a handler,
LEMMA NewRunCalled ==
    ASSUME HandsInv, NEW r \in RunIds, ~Inserted(r), Inserted(r)',
           \A q \in RunIds : Inserted(q) => Inserted(q)',
           NEW n, n.run = r, calls' \subseteq calls \cup {n}, UNCHANGED <<actors, prompted>>
    PROVE  HandsInv'
<1>0. NothingOf(r) BY DEF HandsInv
<1>1. OnePlace' BY <1>0 DEF HandsInv, OnePlace, NothingOf
<1>2. ASSUME NEW q \in RunIds PROVE (Inserted(q) \/ NothingOf(q))'
  BY DEF HandsInv, NothingOf
<1>3. ASSUME NEW q \in RunIds, Waiting(q)' PROVE prompted'[q] = 0
  <2>1. Waiting(q) \/ q = r BY <1>3 DEF Waiting
  <2> QED BY <1>0, <2>1 DEF HandsInv, NothingOf
<1>4. PromptedAtMostOnce' BY DEF HandsInv, PromptedAtMostOnce
<1> QED BY <1>1, <1>2, <1>3, <1>4 DEF HandsInv

\* from the store into an actor's hands, where it waits or is worked on,
LEMMA NewRunTaken ==
    ASSUME RuntimeType, HandsInv,
           NEW r \in RunIds, ~Inserted(r), Inserted(r)',
           \A q \in RunIds : Inserted(q) => Inserted(q)',
           NEW g \in Gens, \A h \in Gens \ {g} : actors'[h] = actors[h], calls' = calls,
           RunsOf(actors'[g]) \subseteq RunsOf(actors[g]) \cup {r}, Distinct(actors'[g]),
           \/ WaitsIn(actors'[g]) \subseteq WaitsIn(actors[g]) \cup {r} /\ prompted' = prompted
           \/ /\ WaitsIn(actors'[g]) \subseteq WaitsIn(actors[g])
              /\ prompted' = [prompted EXCEPT ![r] = @ + 1]
    PROVE  HandsInv'
<1>0. NothingOf(r) BY DEF HandsInv
<1>1. OnePlace'
  <2>1. ASSUME NEW h \in Gens, h # g PROVE RunsOf(actors'[g]) \cap RunsOf(actors'[h]) = {}
    BY <1>0, <2>1 DEF HandsInv, OnePlace, NothingOf
  <2>2. \A h, k \in Gens : h # k => RunsOf(actors'[h]) \cap RunsOf(actors'[k]) = {}
    BY <2>1 DEF HandsInv, OnePlace
  <2>3. \A d \in calls', h \in Gens : d.run \notin RunsOf(actors'[h])
    BY <1>0 DEF HandsInv, OnePlace, NothingOf
  <2> QED BY <2>2, <2>3 DEF HandsInv, OnePlace
<1>2. ASSUME NEW q \in RunIds PROVE (Inserted(q) \/ NothingOf(q))'
  <2>1. CASE q = r \/ Inserted(q) BY <2>1
  <2>2. CASE q # r /\ NothingOf(q)
    <3>1. \A h \in Gens : q \notin RunsOf(actors'[h]) BY <2>2 DEF NothingOf
    <3>2. prompted'[q] = 0 BY <2>2 DEF NothingOf, RuntimeType, SessionTypeOK
    <3> QED BY <2>2, <3>1, <3>2 DEF NothingOf
  <2> QED BY <2>1, <2>2 DEF HandsInv
<1>3. ASSUME NEW q \in RunIds, Waiting(q)' PROVE prompted'[q] = 0
  <2>1. CASE prompted' = prompted
    <3>1. Waiting(q) \/ q = r BY <1>3 DEF Waiting
    <3> QED BY <1>0, <2>1, <3>1 DEF HandsInv, NothingOf
  <2>2. CASE /\ WaitsIn(actors'[g]) \subseteq WaitsIn(actors[g])
             /\ prompted' = [prompted EXCEPT ![r] = @ + 1]
    <3>1. Waiting(q) BY <1>3, <2>2 DEF Waiting
    <3>2. prompted[q] = 0 BY <3>1 DEF HandsInv
    <3>3. \A h \in Gens : WaitsIn(actors[h]) \subseteq RunsOf(actors[h])
      BY WaitsAreHeld DEF RuntimeType
    <3>4. q # r BY <1>0, <3>1, <3>3 DEF NothingOf, Waiting
    <3> QED BY <2>2, <3>2, <3>4
  <2> QED BY <2>1, <2>2
<1>4. PromptedAtMostOnce'
  BY <1>0 DEF HandsInv, PromptedAtMostOnce, NothingOf, RuntimeType, SessionTypeOK
<1> QED BY <1>1, <1>2, <1>3, <1>4 DEF HandsInv

\* and from where it waited with an actor to the provider.
LEMMA TurnBegun ==
    ASSUME RuntimeType, HandsInv, NEW g \in Gens, NEW r \in RunIds, r \in WaitsIn(actors[g]),
           \A h \in Gens \ {g} : actors'[h] = actors[h], calls' = calls, UNCHANGED runs,
           RunsOf(actors'[g]) \subseteq RunsOf(actors[g]), Distinct(actors'[g]),
           WaitsIn(actors'[g]) \subseteq WaitsIn(actors[g]) \ {r},
           prompted' = [prompted EXCEPT ![r] = @ + 1]
    PROVE  HandsInv'
<1>0. \A h \in Gens : WaitsIn(actors[h]) \subseteq RunsOf(actors[h])
  BY WaitsAreHeld DEF RuntimeType
<1>1. OnePlace' BY DEF HandsInv, OnePlace
<1>2. prompted[r] = 0 /\ prompted \in [RunIds -> Nat]
  BY DEF HandsInv, Waiting, RuntimeType, SessionTypeOK
<1>3. ASSUME NEW q \in RunIds PROVE (Inserted(q) \/ NothingOf(q))'
  <2>1. CASE Inserted(q) BY <2>1 DEF Inserted
  <2>2. CASE NothingOf(q)
    <3>1. q # r BY <1>0, <2>2 DEF NothingOf
    <3> QED BY <1>2, <2>2, <3>1 DEF NothingOf
  <2> QED BY <2>1, <2>2 DEF HandsInv
<1>4. ASSUME NEW q \in RunIds, Waiting(q)' PROVE prompted'[q] = 0
  <2>1. Waiting(q) BY <1>4 DEF Waiting
  <2>2. q # r
    <3>1. \A h \in Gens \ {g} : r \notin RunsOf(actors[h]) BY <1>0 DEF HandsInv, OnePlace
    <3>2. \A c \in calls : c.run # r BY <1>0 DEF HandsInv, OnePlace
    <3> QED BY <1>0, <1>4, <3>1, <3>2 DEF Waiting
  <2> QED BY <1>2, <2>1, <2>2 DEF HandsInv
<1>5. PromptedAtMostOnce' BY <1>2 DEF HandsInv, PromptedAtMostOnce
<1> QED BY <1>1, <1>3, <1>4, <1>5 DEF HandsInv

LEMMA OneKeepsHands ==
    ASSUME ActorsOK, NEW g \in Gens, NEW b, Become(g, b), KeepsHands(actors[g], b)
    PROVE  \A h \in Gens : Narrowed(actors[h], actors'[h])
<1>1. ASSUME NEW h \in Gens PROVE KeepsHands(actors[h], actors'[h])
  BY DEF ActorsOK, Become, KeepsHands
<1> QED BY <1>1, KeepingIsNarrowing, ActorFields

LEMMA QuietActorStep ==
    ASSUME ActorsOK, NEW g \in Gens,
           \/ InsertHandle(g) \/ Boot(g) \/ LookAtChannel(g) \/ ClaimItem(g) \/ ClaimNothing(g)
           \/ FailToStart(g) \/ ReceiveControl(g) \/ StopWaiting(g) \/ CancelTurn(g)
           \/ TurnControl(g) \/ RejectPrompt(g) \/ FinishTurn(g) \/ TurnEnds(g) \/ FailActor(g)
           \/ FailActiveRun(g) \/ FailCommand(g) \/ FailDone(g) \/ Close(g) \/ Unregister(g)
    PROVE  /\ \A h \in Gens : Narrowed(actors[h], actors'[h])
           /\ calls' = calls /\ prompted' = prompted
<1> DEFINE a == actors[g]
<1>0. a \in ActorType BY DEF ActorsOK
<1>1. calls' = calls /\ prompted' = prompted
  BY DEF InsertHandle, Boot, LookAtChannel, ClaimItem, ClaimNothing, FailToStart, ReceiveControl,
     StopWaiting, CancelTurn, TurnControl, RejectPrompt, FinishTurn, TurnEnds, EndTurn, FailActor,
     FailActiveRun, FailCommand, FailDone, Close, Unregister
<1>2. ASSUME NEW pc, Goto(g, pc) PROVE \A h \in Gens : Narrowed(actors[h], actors'[h])
  <2>1. KeepsHands(a, [a EXCEPT !.pc = pc]) BY <1>0 DEF KeepsHands, ActorType
  <2> QED BY <1>2, <2>1, OneKeepsHands DEF Goto
<1>3. ASSUME NEW pc, Receive(g, pc), HasMail(g)
      PROVE  \A h \in Gens : Narrowed(actors[h], actors'[h])
  <2>1. KeepsHands(a, [a EXCEPT !.pc = pc, !.chan = Tail(@)])
    BY <1>0, <1>3 DEF KeepsHands, ActorType, HasMail
  <2> QED BY <1>3, <2>1, OneKeepsHands DEF Receive
<1>4. ASSUME NEW s, Become(g, [a EXCEPT !.pc = "finish", !.outcome = s])
      PROVE  \A h \in Gens : Narrowed(actors[h], actors'[h])
  <2>1. KeepsHands(a, [a EXCEPT !.pc = "finish", !.outcome = s])
    BY <1>0 DEF KeepsHands, ActorType
  <2> QED BY <1>4, <2>1, OneKeepsHands
<1>5. CASE InsertHandle(g) BY <1>2, <1>5 DEF InsertHandle, Goto, Become
<1>6. CASE \/ Boot(g) \/ LookAtChannel(g) \/ StopWaiting(g) \/ FinishTurn(g) \/ FailDone(g)
           \/ Unregister(g)
  BY <1>2, <1>6 DEF Boot, LookAtChannel, StopWaiting, FinishTurn, FailDone, Unregister
<1>7. CASE ReceiveControl(g) \/ RejectPrompt(g) \/ FailCommand(g)
  BY <1>3, <1>7 DEF ReceiveControl, RejectPrompt, FailCommand
<1>8. CASE CancelTurn(g) \/ TurnEnds(g) BY <1>4, <1>8 DEF CancelTurn, TurnEnds, EndTurn
<1>9. CASE TurnControl(g)
  <2>1. CASE NextMail(g).kind = "shutdown"
    <3>1. KeepsHands(a, [a EXCEPT !.pc = "finish", !.outcome = "cancelled",
                                  !.chan = Tail(@), !.stop = TRUE])
      BY <1>0, <1>9 DEF KeepsHands, ActorType, TurnControl, HasMail
    <3> QED BY <1>9, <2>1, <3>1, OneKeepsHands DEF TurnControl
  <2>2. CASE NextMail(g).kind # "shutdown" BY <1>3, <1>9, <2>2 DEF TurnControl
  <2> QED BY <2>1, <2>2
<1>10. CASE ClaimItem(g)
  <2>1. PICK i \in ItemIds : Become(g, [a EXCEPT !.item = i,
                                           !.pc = IF @ = "claim" THEN "start" ELSE "restart"])
    BY <1>10 DEF ClaimItem
  <2>2. KeepsHands(a, [a EXCEPT !.item = i, !.pc = IF @ = "claim" THEN "start" ELSE "restart"])
    BY <1>0 DEF KeepsHands, ActorType
  <2> QED BY <1>1, <2>1, <2>2, OneKeepsHands
<1>11. CASE ClaimNothing(g) \/ FailToStart(g)
  <2>1. KeepsHands(a, NothingDrained(g)) BY <1>0 DEF KeepsHands, ActorType, NothingDrained
  <2> QED BY <1>11, <2>1, OneKeepsHands DEF ClaimNothing, FailToStart
<1>12. CASE FailActor(g)
  <2>1. KeepsHands(a, [a EXCEPT !.pc = "failed", !.active = FALSE])
    BY <1>0 DEF KeepsHands, ActorType
  <2> QED BY <1>12, <2>1, OneKeepsHands DEF FailActor
<1>13. CASE FailActiveRun(g)
  <2>1. KeepsHands(a, [a EXCEPT !.cmd = NoCommand, !.active = FALSE])
    BY <1>0 DEF KeepsHands, ActorType
  <2> QED BY <1>13, <2>1, OneKeepsHands DEF FailActiveRun
<1>14. CASE Close(g)
  <2>1. KeepsHands(a, [IdleActor EXCEPT !.pc = "closed"]) BY DEF KeepsHands, IdleActor
  <2> QED BY <1>14, <2>1, OneKeepsHands DEF Close
<1> QED
  BY <1>1, <1>5, <1>6, <1>7, <1>8, <1>9, <1>10, <1>11, <1>12, <1>13, <1>14

\* An actor takes up a run.
LEMMA TurnHands ==
    ASSUME NEW g \in Gens, actors[g] \in ActorType, NEW cmd, NEW chan
    PROVE  LET b == Turn(g, cmd, chan)
           IN  /\ RunsOf(b) = (MailRuns(chan) \cup {cmd.run}) \ {NoRun}
               /\ WaitsIn(b) = MailRuns(chan) \ {NoRun}
               /\ Distinct(b) <=> NoRepeat(chan) /\ (cmd.run \in MailRuns(chan) => cmd.run = NoRun)
<1> DEFINE b == Turn(g, cmd, chan)
<1>1. b.chan = chan /\ b.cmd = cmd /\ b.drain = NoCommand BY DEF Turn, ActorType
<1>2. NoCommand.run = NoRun BY CommandFacts
<1> HIDE DEF b
<1> QED BY <1>1, <1>2 DEF RunsOf, WaitsIn, Distinct, b

LEMMA HandsStep ==
    ASSUME RuntimeType, HandsInv, "resend" \notin Events, [SessionNext]_vars
    PROVE  HandsInv'
<1>0. ActorsOK /\ StoreTypeOK /\ CallsOK
  BY DEF RuntimeType, SessionTypeOK, ActorsOK, CallsOK
<1>1. ASSUME NEW r \in RunIds, Inserted(r) PROVE Inserted(r)'
  BY <1>0, <1>1, StoreStep, InsertedStays
<1>2. ASSUME NEW g \in Gens
      PROVE  /\ actors[g] \in ActorType /\ ActorShape(actors[g])
             /\ actors[g].chan \in Seq(Commands) /\ Distinct(actors[g])
             /\ WaitsIn(actors[g]) \subseteq RunsOf(actors[g])
             /\ Narrowed(actors[g], actors[g])
  BY <1>0, ActorFields, WaitsAreHeld DEF HandsInv, OnePlace, Narrowed
<1>3. ASSUME UNCHANGED <<actors, prompted>>, \A d \in calls' : d \in calls \/ d.run = NoRun
      PROVE  HandsInv'
  BY <1>1, <1>2, <1>3, QuietHands
<1>4. ASSUME NEW r \in RunIds, NEW c, NEW v, NEW i, InsertRun(r, c, v, i)
      PROVE  ~Inserted(r) /\ Inserted(r)'
  BY <1>0, <1>4 DEF InsertRun, FreshRun, NewRun, Inserted, StoreTypeOK
<1>5. \A r : Call("admitted", r, NoItem).run = r BY DEF Call
<1>6. CASE Environment
  <2>1. ASSUME NEW c, StartPrompt(c) \/ StartDraft(c) PROVE HandsInv'
    <3>1. PICK r \in RunIds : /\ AdmitAndStart(r, c) \/ StartOrRefuse(r, c)
                              /\ calls' \subseteq calls \cup {Call("admitted", r, NoItem)}
                              /\ UNCHANGED <<actors, prompted>>
      BY <2>1 DEF StartPrompt, StartDraft, CommittedTo
    <3>2. ~Inserted(r) /\ Inserted(r)' BY <1>4, <3>1 DEF AdmitAndStart, StartOrRefuse
    <3> QED BY <1>1, <1>5, <3>1, <3>2, NewRunCalled
  <2>2. ASSUME NEW g \in Gens, StopWaiting(g) \/ FailActor(g) \/ FailToStart(g) PROVE HandsInv'
    BY <1>0, <1>1, <2>2, QuietActorStep, QuietHands
  <2>3. CASE Crash
    <3>1. ASSUME NEW g \in Gens PROVE Narrowed(actors[g], actors'[g])
      <4>1. actors'[g].chan = <<>> /\ actors'[g].cmd = NoCommand /\ actors'[g].drain = NoCommand
        BY <2>3 DEF Crash, IdleActor
      <4> QED BY <1>2, <4>1, KeepingIsNarrowing DEF KeepsHands
    <3> QED BY <1>1, <2>3, <3>1, QuietHands DEF Crash
  <2>4. ASSUME NEW i \in ItemIds, SteerMove(i) PROVE HandsInv'
    BY <1>3, <2>4 DEF SteerMove, Call
  <2>5. CASE Initialize BY <1>3, <2>5 DEF Initialize, Call
  <2>6. CASE TakeHandle
    <3>1. [Call("shutdown", NoRun, NoItem) EXCEPT !.to = handle, !.cmd = Shutdown].run = NoRun
      BY DEF Call
    <3> QED BY <1>3, <2>6, <3>1 DEF TakeHandle
  <2>7. CASE UNCHANGED <<actors, calls, prompted>> BY <1>3, <2>7
  <2> QED
    BY <1>6, <2>1, <2>2, <2>3, <2>4, <2>5, <2>6, <2>7 DEF Environment, QueuePrompt, ResendPrompt,
       EditQueued, RemoveQueued, Cancel, AskPermission, memVars
<1>7. ASSUME NEW c \in calls,
             \/ RegisterAndLookUp(c) \/ LookUp(c) \/ Send(c) \/ SpawnActor(c) \/ SendShutdown(c)
             \/ SteerCancel(c) \/ SteerIdle(c) \/ SteerClaim(c) \/ SteerStart(c)
      PROVE  HandsInv'
  <2>0. c \in CallType /\ CallShape(c) BY <1>0 DEF CallsOK
  <2>1. CASE RegisterAndLookUp(c)
    <3> DEFINE n == [c EXCEPT !.step = "deliver", !.to = handle,
                              !.cmd = Prompt(c.run, NextToken(c.run))]
    <3>1. n.run = c.run BY <2>0 DEF CallType
    <3>2. calls' = (calls \ {c}) \cup {n} /\ UNCHANGED <<actors, prompted, runs>>
      BY <2>1 DEF RegisterAndLookUp, storeVars
    <3> HIDE DEF n
    <3> QED BY <3>1, <3>2, RenewedCall
  <2>2. CASE LookUp(c) \/ SteerIdle(c)
    <3>1. c.run = NoRun BY <2>0, <2>2 DEF LookUp, SteerIdle, CallShape
    <3>2. /\ [c EXCEPT !.step = "deliver", !.to = handle, !.cmd = Control].run = NoRun
          /\ [c EXCEPT !.step = "claim"].run = NoRun
      BY <2>0, <3>1 DEF CallType
    <3> QED BY <1>3, <2>2, <3>2 DEF LookUp, SteerIdle
  <2>3. CASE Send(c) \/ SendShutdown(c)
    <3> DEFINE g == c.to
    <3>1. /\ c.cmd \in Commands /\ c.cmd.run = c.run /\ g \in Gens
      <4>1. c.cmd \in Commands \cup {NoCommand} /\ g \in Gens \cup {NoActor} BY <2>0 DEF CallType
      <4>2. CASE Send(c) BY <2>0, <4>1, <4>2 DEF Send, CallShape
      <4>3. CASE SendShutdown(c)
        BY <2>0, <4>1, <4>3, CommandFacts DEF SendShutdown, CallShape
      <4> QED BY <2>3, <4>2, <4>3
    <3>2. CASE actors' = actors
      BY <1>3, <2>3, <3>2 DEF Send, SendShutdown
    <3>3. CASE actors' # actors
      <4>1. /\ actors'[g].chan = Append(actors[g].chan, c.cmd)
            /\ actors'[g].cmd = actors[g].cmd /\ actors'[g].drain = actors[g].drain
            /\ \A h \in Gens \ {g} : actors'[h] = actors[h]
        <5>1. actors \in [Gens -> ActorType] /\ actors[g] \in ActorType
          BY <1>0, <3>1 DEF ActorsOK
        <5>2. CASE Send(c) BY <3>1, <5>1, <5>2 DEF Send, ActorType
        <5>3. CASE SendShutdown(c) BY <3>1, <3>3, <5>1, <5>3 DEF SendShutdown, ActorType
        <5> QED BY <2>3, <5>2, <5>3
      <4>2. c.run \notin RunsOf(actors[g]) BY <3>1 DEF HandsInv, OnePlace
      <4>3. c.run = NoRun \/ (c.run \notin MailRuns(actors[g].chan) /\ c.run # actors[g].cmd.run)
        BY <4>2 DEF RunsOf
      <4>4. /\ MailRuns(actors'[g].chan) = MailRuns(actors[g].chan) \cup {c.run}
            /\ NoRepeat(actors'[g].chan)
        BY <1>2, <3>1, <4>1, <4>3, AppendMail DEF Distinct
      <4>5. Distinct(actors'[g]) BY <1>2, <3>1, <4>1, <4>3, <4>4 DEF Distinct
      <4>6. /\ RunsOf(actors'[g]) \subseteq RunsOf(actors[g]) \cup {c.run}
            /\ WaitsIn(actors'[g]) \subseteq WaitsIn(actors[g]) \cup {c.run}
        BY <4>1, <4>4 DEF RunsOf, WaitsIn
      <4>7. calls' = calls \ {c} /\ UNCHANGED <<prompted, runs>>
        BY <2>3 DEF Send, SendShutdown, storeVars
      <4> HIDE DEF g
      <4> QED BY <3>1, <4>1, <4>5, <4>6, <4>7, HandedOver
    <3> QED BY <3>2, <3>3
  <2>4. CASE SpawnActor(c)
    <3>1. PICK g \in Gens :
             /\ Fresh(g)
             /\ actors' = [actors EXCEPT ![g] = [IdleActor EXCEPT !.pc = "new", !.chan = <<c.cmd>>,
                                                                  !.active = StartsRun(c.cmd)]]
      BY <2>4 DEF SpawnActor
    <3>2. c.cmd.run = c.run BY <2>0, <2>4 DEF SpawnActor, CallShape
    <3>3. /\ actors'[g].chan = <<c.cmd>> /\ actors'[g].cmd = NoCommand
          /\ actors'[g].drain = NoCommand
          /\ \A h \in Gens \ {g} : actors'[h] = actors[h]
      BY <1>0, <3>1 DEF ActorsOK, IdleActor
    <3>4. NoCommand.run = NoRun BY CommandFacts
    <3>5. MailRuns(actors'[g].chan) = {c.run} /\ NoRepeat(actors'[g].chan)
      BY <3>2, <3>3, OneMail
    <3>6. Distinct(actors'[g]) BY <3>3, <3>4, <3>5 DEF Distinct
    <3>7. RunsOf(actors'[g]) \subseteq {c.run} /\ WaitsIn(actors'[g]) \subseteq {c.run}
      BY <3>3, <3>4, <3>5 DEF RunsOf, WaitsIn
    <3>8. calls' = calls \ {c} /\ UNCHANGED <<prompted, runs>>
      BY <2>4 DEF SpawnActor, storeVars
    <3> QED BY <3>3, <3>6, <3>7, <3>8, HandedOver
  <2>5. CASE SteerCancel(c) \/ SteerClaim(c)
    <3>1. UNCHANGED <<actors, prompted>> BY <2>5 DEF SteerCancel, SteerClaim
    <3>2. \/ calls' \subseteq calls
          \/ \E i \in ItemIds : calls' = (calls \ {c}) \cup {Call("start", NoRun, i)}
      BY <2>5 DEF SteerCancel, SteerClaim
    <3> QED BY <1>3, <3>1, <3>2 DEF Call
  <2>6. CASE SteerStart(c)
    <3>1. UNCHANGED <<actors, prompted>> BY <2>6 DEF SteerStart
    <3>2. CASE calls' = calls \ {c} BY <1>3, <3>1, <3>2
    <3>3. CASE calls' # calls \ {c}
      <4>1. PICK k \in claims, r \in RunIds :
                   /\ StartClaimed(r, k)
                   /\ calls' = (calls \ {c}) \cup {Call("admitted", r, NoItem)}
        BY <2>6, <3>3 DEF SteerStart
      <4>2. ~Inserted(r) /\ Inserted(r)' BY <1>4, <4>1 DEF StartClaimed
      <4>3. calls' \subseteq calls \cup {Call("admitted", r, NoItem)} BY <4>1
      <4> QED BY <1>1, <1>5, <3>1, <4>2, <4>3, NewRunCalled
    <3> QED BY <3>2, <3>3
  <2> QED BY <1>7, <2>1, <2>2, <2>3, <2>4, <2>5, <2>6
<1>8. ASSUME NEW g \in Gens, ActorStep(g) \/ TurnEnds(g) PROVE HandsInv'
  <2> DEFINE a == actors[g]
  <2>1. CASE TakeDrain(g) \/ ReceivePrompt(g)
    <3>1. PICK cmd \in Prompts, chan \in Seq(Commands) :
             /\ BeginTurn(g, cmd, chan)
             /\ MailRuns(chan) \subseteq MailRuns(a.chan) /\ NoRepeat(chan)
             /\ cmd.run \notin MailRuns(chan) /\ cmd.run \in WaitsIn(a)
      <4>1. CASE TakeDrain(g)
        <5>1. a.drain \in Prompts /\ a.cmd = a.drain
          BY <1>2, <4>1 DEF TakeDrain, ActorType, ActorShape
        <5>2. a.drain.run # NoRun BY <5>1, CommandFacts, Numbers
        <5> QED BY <1>2, <4>1, <5>1, <5>2 DEF TakeDrain, Distinct, WaitsIn
      <4>2. CASE ReceivePrompt(g)
        <5>1. NextMail(g) \in Prompts /\ Tail(a.chan) \in Seq(Commands) /\ a.chan # <<>>
          BY <1>0, <4>2, ActorFields DEF ReceivePrompt, HasMail
        <5>2. NextMail(g).run # NoRun BY <5>1, CommandFacts, Numbers
        <5>3. /\ MailRuns(a.chan) = {NextMail(g).run} \cup MailRuns(Tail(a.chan))
              /\ NoRepeat(Tail(a.chan)) /\ NextMail(g).run \notin MailRuns(Tail(a.chan))
          BY <1>2, <5>1, <5>2, TailMail DEF Distinct, NextMail
        <5> QED BY <4>2, <5>1, <5>2, <5>3 DEF ReceivePrompt, WaitsIn
      <4> QED BY <2>1, <4>1, <4>2
    <3> DEFINE r == cmd.run
    <3>2. r \in RunIds /\ r # NoRun BY <3>1, CommandFacts, Numbers
    <3>3. actors' = [actors EXCEPT ![g] = Turn(g, cmd, chan)] BY <3>1 DEF BeginTurn, Become
    <3>4. actors'[g] = Turn(g, cmd, chan) /\ \A h \in Gens \ {g} : actors'[h] = actors[h]
      BY <1>0, <3>3 DEF ActorsOK
    <3>5. /\ RunsOf(actors'[g]) = (MailRuns(chan) \cup {r}) \ {NoRun}
          /\ WaitsIn(actors'[g]) = MailRuns(chan) \ {NoRun} /\ Distinct(actors'[g])
      BY <1>2, <3>1, <3>4, TurnHands
    <3>6. RunsOf(actors'[g]) \subseteq RunsOf(a) /\ WaitsIn(actors'[g]) \subseteq WaitsIn(a) \ {r}
      BY <1>2, <3>1, <3>5 DEF RunsOf, WaitsIn
    <3>7. calls' = calls /\ UNCHANGED runs /\ prompted' = [prompted EXCEPT ![r] = @ + 1]
      BY <2>1, <3>1 DEF TakeDrain, ReceivePrompt, BeginTurn, storeVars
    <3>8. r \in WaitsIn(a) BY <3>1
    <3> HIDE DEF r
    <3> QED BY <3>2, <3>4, <3>5, <3>6, <3>7, <3>8, TurnBegun
  <2>2. CASE StartDrained(g)
    <3>1. PICK k \in claims, r \in RunIds :
             /\ StartClaimed(r, k)
             /\ \/ At(g, "start") /\ BeginTurn(g, Prompt(r, NextToken(r)), a.chan)
                \/ /\ At(g, "restart")
                   /\ Become(g, [a EXCEPT !.pc = AfterBoundary(g), !.item = NoItem,
                                          !.cmd = Prompt(r, NextToken(r)),
                                          !.drain = Prompt(r, NextToken(r))])
                   /\ UNCHANGED prompted
      BY <2>2 DEF StartDrained
    <3> DEFINE cmd == Prompt(r, NextToken(r))
    <3>2. cmd.run = r BY DEF Prompt
    <3> HIDE DEF cmd
    <3>3. ~Inserted(r) /\ Inserted(r)' BY <1>4, <3>1 DEF StartClaimed
    <3>4. NothingOf(r) /\ r # NoRun BY <3>3, Numbers DEF HandsInv
    <3>5. r \notin MailRuns(a.chan) BY <3>4 DEF NothingOf, RunsOf
    <3>6. calls' = calls BY <2>2 DEF StartDrained
    <3>7. NoRepeat(a.chan) BY <1>2 DEF Distinct
    <3>8. CASE BeginTurn(g, cmd, a.chan)
      <4>1. actors' = [actors EXCEPT ![g] = Turn(g, cmd, a.chan)] BY <3>8 DEF BeginTurn, Become
      <4>2. actors'[g] = Turn(g, cmd, a.chan) /\ \A h \in Gens \ {g} : actors'[h] = actors[h]
        BY <1>0, <4>1 DEF ActorsOK
      <4>3. /\ RunsOf(actors'[g]) = (MailRuns(a.chan) \cup {r}) \ {NoRun}
            /\ WaitsIn(actors'[g]) = MailRuns(a.chan) \ {NoRun} /\ Distinct(actors'[g])
        BY <1>2, <3>2, <3>5, <3>7, <4>2, TurnHands
      <4>4. /\ RunsOf(actors'[g]) \subseteq RunsOf(a) \cup {r}
            /\ WaitsIn(actors'[g]) \subseteq WaitsIn(a)
        BY <4>3 DEF RunsOf, WaitsIn
      <4>5. prompted' = [prompted EXCEPT ![r] = @ + 1] BY <3>2, <3>8 DEF BeginTurn
      <4> QED BY <1>1, <3>3, <3>6, <4>2, <4>3, <4>4, <4>5, NewRunTaken
    <3>9. CASE /\ Become(g, [a EXCEPT !.pc = AfterBoundary(g), !.item = NoItem,
                                      !.cmd = cmd, !.drain = cmd])
               /\ UNCHANGED prompted
      <4>1. /\ actors'[g].chan = a.chan /\ actors'[g].cmd = cmd /\ actors'[g].drain = cmd
            /\ \A h \in Gens \ {g} : actors'[h] = actors[h]
        BY <1>0, <1>2, <3>9 DEF Become, ActorsOK, ActorType
      <4>2. /\ RunsOf(actors'[g]) \subseteq RunsOf(a) \cup {r}
            /\ WaitsIn(actors'[g]) \subseteq WaitsIn(a) \cup {r}
            /\ Distinct(actors'[g])
        BY <3>2, <3>5, <3>7, <4>1 DEF RunsOf, WaitsIn, Distinct
      <4> QED BY <1>1, <3>3, <3>6, <3>9, <4>1, <4>2, NewRunTaken
    <3> QED BY <3>1, <3>8, <3>9 DEF cmd
  <2>3. CASE ~(TakeDrain(g) \/ ReceivePrompt(g) \/ StartDrained(g))
    BY <1>0, <1>1, <1>8, <2>3, QuietActorStep, QuietHands DEF ActorStep
  <2> QED BY <2>1, <2>2, <2>3
<1>9. ASSUME NEW r \in RunIds, AnswerPermission(r) PROVE HandsInv'
  BY <1>3, <1>9 DEF AnswerPermission
<1>10. CASE UNCHANGED vars BY <1>3, <1>10 DEF vars, memVars
<1> QED
  BY <1>6, <1>7, <1>8, <1>9, <1>10 DEF SessionNext, CallStep

\* A retried send of a known client id dispatches its run once more; without
\* that, every command is in one place.
THEOREM HandsHold == ASSUME "resend" \notin Events PROVE SessionSpec => []HandsInv
<1>1. SessionInit => HandsInv
  <2> SUFFICES ASSUME SessionInit PROVE HandsInv
    OBVIOUS
  <2>1. NoCommand.run = NoRun BY CommandFacts
  <2>2. ASSUME NEW g \in Gens
        PROVE  RunsOf(actors[g]) = {} /\ WaitsIn(actors[g]) = {} /\ Distinct(actors[g])
    <3>1. actors[g].chan = <<>> /\ actors[g].cmd = NoCommand /\ actors[g].drain = NoCommand
      BY DEF SessionInit, IdleActor
    <3> QED BY <2>1, <3>1, EmptyMail DEF RunsOf, WaitsIn, Distinct
  <2>3. calls = {} /\ \A r \in RunIds : prompted[r] = 0 BY DEF SessionInit
  <2> QED BY <2>2, <2>3 DEF HandsInv, OnePlace, NothingOf, PromptedAtMostOnce
<1>2. RuntimeType /\ HandsInv /\ [SessionNext]_vars => HandsInv' BY HandsStep
<1> QED BY <1>1, <1>2, RuntimeTypes, PTL DEF SessionSpec

\* Whatever is evicted, disconnected, failed or restarted in between, the
\* provider is given the prompt of a run at most once.
THEOREM NoPromptTwice == ASSUME "resend" \notin Events PROVE SessionSpec => []PromptedAtMostOnce
<1>1. HandsInv => PromptedAtMostOnce BY DEF HandsInv
<1> QED BY <1>1, HandsHold, PTL

\* A run, active or not, is never with two handlers or actors.
LEMMA OneHolder == ASSUME HandsInv, NEW r \in RunIds PROVE Holders(r) <= 1
<1> DEFINE C == HeldByCall(r)
           A == {g \in Gens : HeldByActor(g, r)}
<1>1. r # NoRun BY Numbers
<1>2. ASSUME NEW g \in A PROVE r \in RunsOf(actors[g])
  BY <1>1 DEF HeldByActor, RunsOf, MailRuns, Working
<1>3. \A c, d \in C : c = d BY <1>1 DEF HeldByCall, HandsInv, OnePlace
<1>4. \A g, h \in A : g = h BY <1>2 DEF HandsInv, OnePlace
<1>5. C = {} \/ A = {} BY <1>2 DEF HeldByCall, HandsInv, OnePlace
<1>6. C = {} \/ \E c \in C : C = {c} BY <1>3
<1>7. A = {} \/ \E g \in A : A = {g} BY <1>4
<1>8. Cardinality({}) = 0 /\ \A x : Cardinality({x}) = 1 BY FS_EmptySet, FS_Singleton
<1>9. Cardinality(C) + Cardinality(A) <= 1
  <2> HIDE DEF C, A
  <2>1. Cardinality(C) = 0 \/ Cardinality(C) = 1 BY <1>6, <1>8
  <2>2. Cardinality(A) = 0 \/ Cardinality(A) = 1 BY <1>7, <1>8
  <2>3. Cardinality(C) = 0 \/ Cardinality(A) = 0 BY <1>5, <1>8
  <2> QED BY <2>1, <2>2, <2>3
<1> QED BY <1>9 DEF Holders

\* Nor is it with two of those who could prompt it, queue it again or end it.
THEOREM NobodySharesARun == ASSUME "resend" \notin Events PROVE SessionSpec => []NeverTwoHolders
<1>1. HandsInv => NeverTwoHolders BY OneHolder DEF NeverTwoHolders
<1> QED BY <1>1, HandsHold, PTL

\* While an actor works on a run, nobody else ends it.
LEMMA EndedByItsActor ==
    ASSUME RuntimeType, HandsInv, [SessionNext]_vars,
           NEW g \in Gens, At(g, "turn"), IsActive(Working(g).run),
           runs'[Working(g).run].status \notin ActiveStatus
    PROVE  actors'[g].pc # "turn"
<1> DEFINE r == Working(g).run
<1>0. ActorsOK /\ StoreTypeOK BY DEF RuntimeType, SessionTypeOK, ActorsOK
<1>1. r \in RunIds /\ r # NoRun /\ r \in RunsOf(actors[g])
  BY <1>0, ActorFields, CommandFacts, Numbers DEF At, ActorShape, Working, RunsOf
<1>2. ~UNCHANGED runs BY DEF IsActive
\* Only the ends of runs and a restart take an active run away from it.
<1>3. ASSUME NEW q \in RunIds, NEW c, NEW v, NEW i, InsertRun(q, c, v, i) PROVE FALSE
  BY <1>0, <1>1, <1>3 DEF InsertRun, FreshRun, Inserted, IsActive, ActiveStatus, StoreTypeOK
<1>4. ASSUME NEW q \in RunIds, NEW s \in ActiveStatus, MarkIfActive(q, s) PROVE FALSE
  BY <1>0, <1>1, <1>2, <1>4 DEF MarkIfActive, SetRunStatus, IsActive, StoreTypeOK, Run, storeVars
<1>5. ASSUME NEW q, NEW s, FinishOnce(q, s) PROVE q = r
  BY <1>0, <1>1, <1>2, <1>5 DEF FinishOnce, FinishRun, IsActive, StoreTypeOK, storeVars
<1>6. ASSUME NEW h \in Gens, NEW s, HasMail(h), NextMail(h).kind = "prompt",
             FinishOnce(NextMail(h).run, s)
      PROVE  FALSE
  <2>1. actors[h].chan \in Seq(Commands) /\ actors[h].chan # <<>>
    BY <1>0, <1>6, ActorFields DEF HasMail
  <2>2. NextMail(h).run \in MailRuns(actors[h].chan) BY <2>1 DEF MailRuns, NextMail
  <2>3. r \in MailRuns(actors[h].chan) BY <1>5, <1>6, <2>2
  <2>4. h = g BY <1>1, <2>3 DEF HandsInv, OnePlace, RunsOf
  <2> QED BY <1>1, <2>3, <2>4 DEF HandsInv, OnePlace, Distinct, Working
<1>7. ASSUME NEW h \in Gens, NEW s, FinishOnce(Working(h).run, s) PROVE h = g
  <2>1. Working(h).run = r BY <1>5, <1>7
  <2>2. r \in RunsOf(actors[h]) BY <1>1, <2>1 DEF RunsOf, Working
  <2> QED BY <1>1, <2>2 DEF HandsInv, OnePlace
<1> HIDE DEF r
<1>8. CASE Environment
  <2>1. CASE Crash BY <2>1 DEF Crash, IdleActor
  <2>2. ASSUME NEW h \in Gens, FailToStart(h) PROVE FALSE
    BY <1>2, <1>3, <2>2 DEF FailToStart, StartFails, LoseClaim, StartClaimed
  <2>3. ASSUME NEW h \in Gens, AskPermission(h) PROVE FALSE
    <3>1. Working(h).run \in RunIds
      BY <1>0, <2>3, ActorFields, CommandFacts DEF AskPermission, At, Working, ActorShape
    <3> QED BY <1>4, <2>3, <3>1 DEF AskPermission, ActiveStatus
  <2>4. ASSUME NEW c, StartPrompt(c) \/ StartDraft(c) PROVE FALSE
    BY <1>3, <2>4 DEF StartPrompt, StartDraft, AdmitAndStart, StartOrRefuse
  <2> QED
    BY <1>2, <1>8, <2>1, <2>2, <2>3, <2>4 DEF Environment, QueuePrompt, AdmitAndQueue,
       ResendPrompt, SteerMove, MoveToHead, EditQueued, EditItem, RemoveQueued, RemoveItem, Cancel,
       StopWaiting, FailActor, Initialize, TakeHandle, memVars, storeVars
<1>9. CASE CallStep
  <2>1. PICK c \in calls :
           \/ RegisterAndLookUp(c) \/ LookUp(c) \/ Send(c) \/ SpawnActor(c) \/ SendShutdown(c)
           \/ SteerCancel(c) \/ SteerIdle(c) \/ SteerClaim(c) \/ SteerStart(c)
    BY <1>9 DEF CallStep
  <2>2. CASE SteerStart(c)
    BY <1>2, <1>3, <2>2 DEF SteerStart, StartFails, LoseClaim, StartClaimed
  <2>3. CASE SteerClaim(c) BY <1>2, <2>3 DEF SteerClaim, ClaimNext, storeVars
  <2> QED
    BY <1>2, <2>1, <2>2, <2>3 DEF RegisterAndLookUp, LookUp, Send, SpawnActor, SendShutdown,
       SteerCancel, SteerIdle, storeVars
<1>10. ASSUME NEW h \in Gens, ActorStep(h) \/ TurnEnds(h) PROVE actors'[g].pc # "turn"
  <2>1. CASE RejectPrompt(h) BY <1>6, <2>1 DEF RejectPrompt
  <2>2. CASE FailCommand(h) BY <1>2, <1>6, <2>2 DEF FailCommand, storeVars
  <2>3. CASE FinishTurn(h) \/ FailActiveRun(h)
    <3>1. h = g BY <1>7, <2>3 DEF FinishTurn, FailActiveRun
    <3> QED BY <2>3, <3>1 DEF FinishTurn, FailActiveRun, At
  <2>4. CASE StartDrained(h) BY <1>3, <2>4 DEF StartDrained, StartClaimed
  <2>5. CASE ClaimItem(h) BY <1>2, <2>5 DEF ClaimItem, ClaimNext
  <2> QED
    BY <1>2, <1>10, <2>1, <2>2, <2>3, <2>4, <2>5 DEF ActorStep, TurnEnds, InsertHandle, Boot,
       TakeDrain, LookAtChannel, ClaimNothing, ReceivePrompt, ReceiveControl, CancelTurn,
       TurnControl, FailDone, Close, Unregister, EndTurn, storeVars
<1>11. ASSUME NEW q \in RunIds, AnswerPermission(q) PROVE FALSE
  BY <1>4, <1>11 DEF AnswerPermission, ActiveStatus
<1> QED
  BY <1>2, <1>8, <1>9, <1>10, <1>11 DEF SessionNext, vars, storeVars

\* A prompt rejected in mid-turn, a failing older actor, a second handler or a
\* late answer ends no run but its own.
THEOREM TurnsEndThemselves ==
    ASSUME "resend" \notin Events PROVE SessionSpec => OnlyItsActorEndsATurn
<1> DEFINE Ended == \A g \in Gens :
              (/\ At(g, "turn") /\ IsActive(Working(g).run)
               /\ runs'[Working(g).run].status \notin ActiveStatus)
                  => actors'[g].pc # "turn"
<1>1. RuntimeType /\ HandsInv /\ [SessionNext]_vars => [Ended]_vars BY EndedByItsActor
<1>2. OnlyItsActorEndsATurn <=> [][Ended]_vars BY DEF OnlyItsActorEndsATurn
<1> HIDE DEF Ended
<1> QED BY <1>1, <1>2, RuntimeTypes, HandsHold, PTL DEF SessionSpec

-----------------------------------------------------------------------------
(* Service.  As long as no actor is disconnected, evicted, idle for too long, *)
(* failing or restarted, a Session has one actor from its first prompt on:   *)
(* no run is without a holder, and no queued prompt without somebody on the  *)
(* way to it.                                                                *)

Undisturbed == Events \subseteq {"steer", "edit", "remove", "cancel", "permission"}

LoneActor ==
    /\ \A g \in Gens :
          /\ actors[g].pc \notin {"failed", "closing", "closed", "gone"} /\ ~actors[g].stop
          /\ actors[g].chan \in Seq(Prompts)
          /\ actors[g].pc # "none" => current = g
          /\ actors[g].pc = "new" => actors[g].chan # <<>>
          /\ actors[g].pc \in {"none", "new"} <=> handle # g
    /\ \A c \in calls :
          /\ c.step \notin {"ready", "shutdown"}
          /\ c.step = "deliver" => c.to = handle /\ c.cmd \in Prompts

\* Until the first actor is registered there is at most one run, and it waits.
FirstRun ==
    handle = NoActor =>
        /\ claims = {} /\ \A c \in calls : c.step \notin {"claim", "start"}
        /\ \A r, q \in RunIds : Inserted(r) /\ Inserted(q) => r = q /\ IsActive(r)
        /\ calls # {} \/ (\E i \in ItemIds : IsPending(i)) => HasActiveRun

Held(r) == \/ \E c \in calls : c.run = r
           \/ \E g \in Gens : r \in RunsOf(actors[g])
Served ==
    /\ \A r \in RunIds : IsActive(r) => Held(r)
    /\ \A g \in Gens : actors[g].pc \in {"boundary", "restart"} => ~IsActive(Working(g).run)

ServiceInv == LoneActor /\ FirstRun /\ Served /\ QueueIsWatched

\* The steps that are left in an undisturbed Session.
ServiceCall(c) ==
    \/ RegisterAndLookUp(c) \/ Send(c) \/ SpawnActor(c)
    \/ SteerCancel(c) \/ SteerIdle(c) \/ SteerClaim(c) \/ SteerStart(c)
ServiceActor(g) ==
    \/ InsertHandle(g) \/ Boot(g) \/ TakeDrain(g) \/ LookAtChannel(g) \/ ClaimItem(g)
    \/ ClaimNothing(g) \/ StartDrained(g) \/ ReceivePrompt(g) \/ CancelTurn(g) \/ RejectPrompt(g)
    \/ FinishTurn(g) \/ TurnEnds(g)
ServiceStep ==
    \/ \E c \in Clients : StartPrompt(c) \/ StartDraft(c) \/ QueuePrompt(c)
    \/ \E i \in ItemIds : SteerMove(i) \/ EditQueued(i) \/ RemoveQueued(i)
    \/ \E r \in RunIds : Cancel(r) \/ AnswerPermission(r)
    \/ \E g \in Gens : AskPermission(g)
    \/ \E c \in calls : ServiceCall(c)
    \/ \E g \in Gens : ServiceActor(g)

LEMMA LoneMail ==
    ASSUME NEW g \in Gens, actors[g].chan \in Seq(Prompts), HasMail(g)
    PROVE  NextMail(g) \in Prompts /\ NextMail(g).kind = "prompt" /\ Tail(actors[g].chan) \in Seq(Prompts)
<1>1. NextMail(g) \in Prompts /\ Tail(actors[g].chan) \in Seq(Prompts) BY DEF HasMail, NextMail
<1> QED BY <1>1, CommandFacts

LEMMA ServiceSteps ==
    ASSUME RuntimeType, LoneActor, Undisturbed, [SessionNext]_vars
    PROVE  ServiceStep \/ UNCHANGED vars
<1>1. /\ "resend" \notin Events /\ "idle" \notin Events /\ "ready" \notin Events
      /\ "disconnect" \notin Events /\ "evict" \notin Events /\ "fail" \notin Events
      /\ "crash" \notin Events /\ "storage" \notin Events
  BY DEF Undisturbed
<1>2. ASSUME NEW g \in Gens PROVE ~StopWaiting(g) /\ ~FailActor(g) /\ ~FailToStart(g)
  <2>1. ~StopWaiting(g) BY <1>1 DEF StopWaiting, Orphaned, LoneActor, At
  <2> QED BY <1>1, <2>1 DEF FailActor, FailToStart, StartFails
<1>3. ASSUME NEW c \in calls PROVE ~LookUp(c) /\ ~SendShutdown(c)
  BY DEF LookUp, SendShutdown, LoneActor
<1>4. ASSUME NEW g \in Gens
      PROVE  /\ ~ReceiveControl(g) /\ ~TurnControl(g) /\ ~FailActiveRun(g) /\ ~FailCommand(g)
             /\ ~FailDone(g) /\ ~Close(g) /\ ~Unregister(g)
  BY LoneMail DEF ReceiveControl, TurnControl, FailActiveRun, FailCommand, FailDone, Close,
     Unregister, At, LoneActor
<1>5. ASSUME Environment PROVE ServiceStep
  BY <1>1, <1>2, <1>5 DEF Environment, ServiceStep, ResendPrompt, Initialize, TakeHandle, Crash, Clients
<1>6. ASSUME CallStep PROVE ServiceStep
  BY <1>3, <1>6 DEF CallStep, ServiceStep, ServiceCall
<1>7. ASSUME NEW g \in Gens, ActorStep(g) \/ TurnEnds(g) PROVE ServiceStep
  BY <1>4, <1>7 DEF ActorStep, ServiceStep, ServiceActor
<1> QED BY <1>5, <1>6, <1>7 DEF SessionNext, ServiceStep

\* Which actor there is.
LEMMA LoneFacts ==
    ASSUME RuntimeType, LoneActor, NEW g \in Gens
    PROVE  /\ actors[g].pc \notin {"none", "new"} => handle = g /\ current = g
           /\ actors[g].pc # "none" => \A h \in Gens \ {g} : actors[h].pc = "none"
           /\ handle = g => actors[g].pc \in {"boot", "top", "claim", "start", "recv", "turn",
                                             "finish", "boundary", "restart"}
BY DEF LoneActor, RuntimeType, SessionTypeOK, ActorType

\* A dispatch makes an actor only if there is none.
LEMMA FirstSpawn ==
    ASSUME RuntimeType, HandsInv, LoneActor, FirstRun, NEW c \in calls, SpawnActor(c)
    PROVE  /\ handle = NoActor /\ \A g \in Gens : actors[g].pc = "none"
           /\ c.cmd \in Prompts /\ c.cmd.run = c.run
<1>1. c.step = "deliver" /\ c.to = handle /\ c.cmd \in Prompts /\ c.cmd.run = c.run
  BY DEF SpawnActor, LoneActor, RuntimeType, CallShape
<1>2. handle = NoActor
  <2>1. handle \in Gens => ReceiverAlive(handle) BY LoneFacts DEF ReceiverAlive
  <2> QED BY <1>1, <2>1 DEF SpawnActor, RuntimeType, SessionTypeOK
<1>3. ASSUME NEW g \in Gens, actors[g].pc # "none" PROVE FALSE
  <2>1. actors[g].pc = "new" /\ actors[g].chan # <<>> /\ actors[g].chan \in Seq(Prompts)
    BY <1>2, <1>3, LoneFacts, Numbers DEF LoneActor
  <2> DEFINE q == NextMail(g).run
  <2>2. q \in RunIds /\ q \in MailRuns(actors[g].chan)
    <3>1. NextMail(g) \in Prompts BY <2>1, LoneMail DEF HasMail
    <3>2. 1 \in DOMAIN actors[g].chan BY <2>1
    <3> QED BY <3>1, <3>2, CommandFacts DEF MailRuns, NextMail
  <2>3. q \in RunsOf(actors[g]) BY <2>2, Numbers DEF RunsOf
  <2>4. c.run \in RunIds BY <1>1, CommandFacts
  <2>5. Inserted(q) /\ Inserted(c.run) BY <2>2, <2>3, <2>4 DEF HandsInv, NothingOf
  <2>6. q = c.run BY <1>2, <2>2, <2>4, <2>5 DEF FirstRun
  <2> QED BY <2>3, <2>6 DEF HandsInv, OnePlace
<1> QED BY <1>1, <1>2, <1>3

\* An actor at work goes on to the next place of its loop.
LEMMA LoneGoesOn ==
    ASSUME ActorsOK, LoneActor, NEW g \in Gens, NEW b, Become(g, b),
           actors[g].pc \notin {"none", "new"},
           b.pc \in {"top", "claim", "start", "recv", "turn", "finish", "boundary", "restart"},
           ~b.stop, b.chan \in Seq(Prompts), UNCHANGED <<handle, current, calls>>
    PROVE  LoneActor'
<1>1. actors'[g] = b /\ \A h \in Gens \ {g} : actors'[h] = actors[h] BY DEF ActorsOK, Become
<1> QED BY <1>1 DEF LoneActor

LEMMA LoneStep ==
    ASSUME RuntimeType, HandsInv, LoneActor, FirstRun, ServiceStep
    PROVE  LoneActor'
<1>0. ActorsOK BY DEF RuntimeType, SessionTypeOK, ActorsOK
<1>1. ASSUME UNCHANGED <<actors, handle, current>>,
             \A c \in calls' \ calls : /\ c.step \notin {"ready", "shutdown"}
                                       /\ c.step = "deliver" => c.to = handle /\ c.cmd \in Prompts
      PROVE  LoneActor'
  BY <1>1 DEF LoneActor
<1>2. \A r, i : /\ Call("admitted", r, i).step = "admitted" /\ Call("steer", r, i).step = "steer"
                /\ Call("start", r, i).step = "start"
  BY DEF Call
<1>3. ASSUME NEW c \in Clients, StartPrompt(c) \/ StartDraft(c) \/ QueuePrompt(c) PROVE LoneActor'
  <2>1. \/ UNCHANGED memVars
        \/ /\ UNCHANGED <<actors, handle, current>>
           /\ \E r \in RunIds : calls' \subseteq calls \cup {Call("admitted", r, NoItem)}
    BY <1>3 DEF StartPrompt, StartDraft, QueuePrompt, CommittedTo
  <2> QED BY <1>1, <1>2, <2>1 DEF memVars
<1>4. ASSUME NEW i \in ItemIds, SteerMove(i) \/ EditQueued(i) \/ RemoveQueued(i) PROVE LoneActor'
  BY <1>1, <1>2, <1>4 DEF SteerMove, EditQueued, RemoveQueued, memVars
<1>5. ASSUME NEW r \in RunIds, Cancel(r) \/ AnswerPermission(r) PROVE LoneActor'
  BY <1>1, <1>5 DEF Cancel, AnswerPermission
<1>6. ASSUME NEW g \in Gens, AskPermission(g) PROVE LoneActor'
  BY <1>1, <1>6 DEF AskPermission
<1>7. ASSUME NEW c \in calls, ServiceCall(c) PROVE LoneActor'
  <2>0. c \in CallType /\ CallShape(c) BY DEF RuntimeType, SessionTypeOK
  <2>1. CASE RegisterAndLookUp(c)
    <3> DEFINE cmd == Prompt(c.run, NextToken(c.run))
               n == [c EXCEPT !.step = "deliver", !.to = handle, !.cmd = cmd]
    <3>1. c.run \in RunIds BY <2>0, <2>1 DEF RegisterAndLookUp, CallType, CallShape
    <3>2. cmd \in Prompts
      BY <3>1, CommandFacts DEF NextToken, RuntimeType, SessionTypeOK
    <3> HIDE DEF cmd
    <3>3. n.step = "deliver" /\ n.to = handle /\ n.cmd = cmd BY <2>0 DEF CallType
    <3>4. calls' = (calls \ {c}) \cup {n} /\ UNCHANGED <<actors, handle, current>>
      BY <2>1 DEF RegisterAndLookUp, cmd
    <3> HIDE DEF n
    <3> QED BY <1>1, <3>2, <3>3, <3>4
  <2>2. CASE Send(c)
    <3> DEFINE g == c.to
    <3>1. g \in Gens /\ g = handle /\ c.cmd \in Prompts
      BY <2>0, <2>2 DEF Send, CallType, LoneActor
    <3>2. actors \in [Gens -> ActorType] BY <1>0 DEF ActorsOK
    <3>3. /\ actors'[g].pc = actors[g].pc /\ actors'[g].stop = actors[g].stop
          /\ actors'[g].chan = Append(actors[g].chan, c.cmd)
          /\ \A h \in Gens \ {g} : actors'[h] = actors[h]
      BY <2>2, <3>1, <3>2 DEF Send, ActorType
    <3>4. actors'[g].chan \in Seq(Prompts) /\ actors'[g].chan # <<>>
      <4>1. actors[g].chan \in Seq(Prompts) BY <3>1 DEF LoneActor
      <4> QED BY <3>1, <3>3, <4>1
    <3>5. UNCHANGED <<handle, current>> /\ calls' \subseteq calls BY <2>2 DEF Send
    <3> HIDE DEF g
    <3> QED BY <3>1, <3>3, <3>4, <3>5 DEF LoneActor
  <2>3. CASE SpawnActor(c)
    <3>1. PICK g \in Gens :
             /\ actors' = [actors EXCEPT ![g] = [IdleActor EXCEPT !.pc = "new", !.chan = <<c.cmd>>,
                                                                  !.active = StartsRun(c.cmd)]]
             /\ current' = g
      BY <2>3 DEF SpawnActor
    <3>2. /\ handle = NoActor /\ \A h \in Gens : actors[h].pc = "none"
          /\ c.cmd \in Prompts
      BY <2>3, FirstSpawn
    <3>3. /\ actors'[g].pc = "new" /\ ~actors'[g].stop /\ actors'[g].chan = <<c.cmd>>
          /\ \A h \in Gens \ {g} : actors'[h] = actors[h]
      BY <1>0, <3>1 DEF ActorsOK, IdleActor
    <3>4. <<c.cmd>> \in Seq(Prompts) /\ <<c.cmd>> # <<>> BY <3>2
    <3>5. handle' = handle /\ calls' \subseteq calls BY <2>3 DEF SpawnActor
    <3> QED BY <3>1, <3>2, <3>3, <3>4, <3>5, Numbers DEF LoneActor
  <2>4. CASE SteerIdle(c)
    <3>1. [c EXCEPT !.step = "claim"].step = "claim" BY <2>0 DEF CallType
    <3> QED BY <1>1, <2>4, <3>1 DEF SteerIdle
  <2>5. CASE SteerCancel(c) BY <1>1, <2>5 DEF SteerCancel
  <2>6. CASE SteerClaim(c) \/ SteerStart(c)
    <3>1. UNCHANGED <<actors, handle, current>> BY <2>6 DEF SteerClaim, SteerStart
    <3>2. \/ calls' \subseteq calls
          \/ \E i \in ItemIds : calls' = (calls \ {c}) \cup {Call("start", NoRun, i)}
          \/ \E r \in RunIds : calls' = (calls \ {c}) \cup {Call("admitted", r, NoItem)}
      BY <2>6 DEF SteerClaim, SteerStart
    <3> QED BY <1>1, <1>2, <3>1, <3>2
  <2> QED BY <1>7, <2>1, <2>2, <2>3, <2>4, <2>5, <2>6 DEF ServiceCall
<1>8. ASSUME NEW g \in Gens, ServiceActor(g) PROVE LoneActor'
  <2> DEFINE a == actors[g]
  <2>1. /\ a \in ActorType /\ ActorShape(a) /\ ~a.stop /\ a.chan \in Seq(Prompts)
        /\ HasMail(g) => NextMail(g) \in Prompts /\ Tail(a.chan) \in Seq(Prompts)
    BY <1>0, ActorFields, LoneMail DEF LoneActor
  <2>2. CASE InsertHandle(g)
    <3>1. /\ actors'[g] = [a EXCEPT !.pc = "boot"] /\ handle' = g
          /\ \A h \in Gens \ {g} : actors'[h] = actors[h]
          /\ UNCHANGED <<current, calls>>
      BY <1>0, <2>2 DEF InsertHandle, ActorsOK
    <3>2. a.pc = "new" /\ \A h \in Gens \ {g} : actors[h].pc = "none"
      BY <2>2, LoneFacts DEF InsertHandle
    <3>3. handle = NoActor
      <4>1. handle \notin Gens BY <3>2 DEF LoneActor
      <4> QED BY <4>1 DEF RuntimeType, SessionTypeOK
    <3>4. ASSUME NEW c \in calls, c.step = "deliver" PROVE FALSE
      <4>1. c.run \in RunIds /\ c.run # NoRun
        BY <3>4, CommandFacts, Numbers DEF LoneActor, RuntimeType, CallShape
      <4>2. HasMail(g) /\ NextMail(g) \in Prompts BY <2>1, <3>2 DEF HasMail, LoneActor
      <4> DEFINE q == NextMail(g).run
      <4>3. q \in RunIds /\ q \in MailRuns(a.chan)
        <5>1. 1 \in DOMAIN a.chan BY <2>1, <4>2 DEF HasMail
        <5> QED BY <4>2, <5>1, CommandFacts DEF MailRuns, NextMail
      <4>4. q \in RunsOf(a) BY <4>3, Numbers DEF RunsOf
      <4>5. Inserted(q) /\ Inserted(c.run) BY <4>1, <4>3, <4>4 DEF HandsInv, NothingOf
      <4>6. q = c.run BY <3>3, <4>1, <4>3, <4>5 DEF FirstRun
      <4> QED BY <4>4, <4>6 DEF HandsInv, OnePlace
    <3>5. /\ actors'[g].pc = "boot" /\ actors'[g].stop = a.stop /\ actors'[g].chan = a.chan
      BY <2>1, <3>1 DEF ActorType
    <3> QED BY <2>1, <3>1, <3>2, <3>4, <3>5 DEF LoneActor
  <2>3. ASSUME NEW b, Become(g, b), a.pc \notin {"none", "new"},
               b.pc \in {"top", "claim", "start", "recv", "turn", "finish", "boundary", "restart"},
               ~b.stop, b.chan \in Seq(Prompts), UNCHANGED <<handle, current, calls>>
        PROVE  LoneActor'
    BY <1>0, <2>3, LoneGoesOn
  <2>4. a.pc \notin {"none", "new"} => handle = g /\ current = g BY LoneFacts
  <2>5. ASSUME NEW cmd, NEW chan \in Seq(Prompts)
        PROVE  /\ Turn(g, cmd, chan).pc = "turn" /\ ~Turn(g, cmd, chan).stop
               /\ Turn(g, cmd, chan).chan = chan
    BY <2>1 DEF Turn, ActorType
  <2>6. CASE Boot(g) \/ LookAtChannel(g) \/ FinishTurn(g)
    <3>1. PICK pc \in {"top", "recv", "claim", "boundary"} : Goto(g, pc)
      BY <2>4, <2>6 DEF Boot, LookAtChannel, FinishTurn, At
    <3>2. a.pc \notin {"none", "new"} /\ UNCHANGED <<handle, current, calls>>
      BY <2>6 DEF Boot, LookAtChannel, FinishTurn, At
    <3> DEFINE n == [a EXCEPT !.pc = pc]
    <3>3. n.pc = pc /\ n.stop = a.stop /\ n.chan = a.chan BY <2>1 DEF ActorType
    <3>4. Become(g, n) BY <3>1 DEF Goto
    <3> HIDE DEF n
    <3> QED BY <2>1, <2>3, <3>2, <3>3, <3>4
  <2>7. CASE TakeDrain(g) \/ ReceivePrompt(g)
    <3>1. a.pc \notin {"none", "new"} /\ UNCHANGED <<handle, current, calls>>
      BY <2>7 DEF TakeDrain, ReceivePrompt, At
    <3>2. CASE TakeDrain(g)
      <4> DEFINE n == Turn(g, a.drain, a.chan)
      <4>1. Become(g, n) BY <3>2 DEF TakeDrain, BeginTurn
      <4>2. n.pc = "turn" /\ ~n.stop /\ n.chan = a.chan BY <2>1, <2>5
      <4> HIDE DEF n
      <4> QED BY <2>1, <2>3, <3>1, <4>1, <4>2
    <3>3. CASE ReceivePrompt(g)
      <4> DEFINE chan == Tail(a.chan)
                 n == Turn(g, NextMail(g), chan)
      <4>1. Become(g, n) /\ HasMail(g) BY <3>3 DEF ReceivePrompt, BeginTurn
      <4>2. chan \in Seq(Prompts) BY <2>1, <4>1
      <4> HIDE DEF chan
      <4>3. n.pc = "turn" /\ ~n.stop /\ n.chan = chan BY <2>5, <4>2
      <4> HIDE DEF n
      <4> QED BY <2>3, <3>1, <4>1, <4>2, <4>3
    <3> QED BY <2>7, <3>2, <3>3
  <2>8. CASE ClaimItem(g)
    <3>1. PICK i \in ItemIds : Become(g, [a EXCEPT !.item = i,
                                             !.pc = IF @ = "claim" THEN "start" ELSE "restart"])
      BY <2>8 DEF ClaimItem
    <3> DEFINE pc == IF a.pc = "claim" THEN "start" ELSE "restart"
               n == [a EXCEPT !.item = i, !.pc = pc]
    <3>2. Become(g, n) BY <3>1
    <3>3. pc \in {"start", "restart"} OBVIOUS
    <3>4. a.pc \notin {"none", "new"} /\ UNCHANGED <<handle, current, calls>>
      BY <2>8 DEF ClaimItem, At
    <3> HIDE DEF pc
    <3>5. n.pc = pc /\ n.stop = a.stop /\ n.chan = a.chan BY <2>1 DEF ActorType
    <3> HIDE DEF n
    <3> QED BY <2>1, <2>3, <3>2, <3>3, <3>4, <3>5
  <2>9. CASE ClaimNothing(g)
    <3>1. /\ NothingDrained(g).pc \in {"recv", "top"} /\ NothingDrained(g).stop = a.stop
          /\ NothingDrained(g).chan = a.chan
      BY <2>1 DEF NothingDrained, AfterBoundary, ActorType
    <3> QED BY <2>1, <2>3, <2>9, <3>1 DEF ClaimNothing, At
  <2>10. CASE StartDrained(g)
    <3>1. UNCHANGED <<handle, current, calls>> BY <2>10 DEF StartDrained
    <3>2. a.pc \notin {"none", "new"} BY <2>10 DEF StartDrained, At
    <3>3. PICK cmd : \/ Become(g, Turn(g, cmd, a.chan))
                     \/ Become(g, [a EXCEPT !.pc = AfterBoundary(g), !.item = NoItem,
                                            !.cmd = cmd, !.drain = cmd])
      BY <2>10 DEF StartDrained, BeginTurn
    <3> DEFINE n == [a EXCEPT !.pc = AfterBoundary(g), !.item = NoItem, !.cmd = cmd, !.drain = cmd]
    <3>4. n.pc = "top" /\ ~n.stop /\ n.chan = a.chan BY <2>1 DEF AfterBoundary, ActorType
    <3> HIDE DEF n
    <3> QED BY <2>1, <2>3, <2>5, <3>1, <3>2, <3>3, <3>4 DEF n
  <2>11. CASE CancelTurn(g) \/ TurnEnds(g)
    <3>1. PICK s : Become(g, [a EXCEPT !.pc = "finish", !.outcome = s])
      BY <2>11 DEF CancelTurn, TurnEnds, EndTurn
    <3>2. a.pc \notin {"none", "new"} /\ UNCHANGED <<handle, current, calls>>
      BY <2>11 DEF CancelTurn, TurnEnds, EndTurn, At
    <3> DEFINE n == [a EXCEPT !.pc = "finish", !.outcome = s]
    <3>3. n.pc = "finish" /\ n.stop = a.stop /\ n.chan = a.chan BY <2>1 DEF ActorType
    <3>4. Become(g, n) BY <3>1
    <3> HIDE DEF n
    <3> QED BY <2>1, <2>3, <3>2, <3>3, <3>4
  <2>12. CASE RejectPrompt(g)
    <3> DEFINE chan == Tail(a.chan)
               n == [a EXCEPT !.pc = "turn", !.chan = chan]
    <3>1. Become(g, n) /\ chan \in Seq(Prompts)
      BY <2>1, <2>12 DEF RejectPrompt, Receive
    <3>2. a.pc \notin {"none", "new"} /\ UNCHANGED <<handle, current, calls>>
      BY <2>12 DEF RejectPrompt, At
    <3> HIDE DEF chan
    <3>3. n.pc = "turn" /\ n.stop = a.stop /\ n.chan = chan BY <2>1 DEF ActorType
    <3> HIDE DEF n
    <3> QED BY <2>1, <2>3, <3>1, <3>2, <3>3
  <2> HIDE DEF a
  <2> QED BY <1>8, <2>2, <2>6, <2>7, <2>8, <2>9, <2>10, <2>11, <2>12 DEF ServiceActor
<1> QED BY <1>3, <1>4, <1>5, <1>6, <1>7, <1>8 DEF ServiceStep

\* A run that ended stays ended, and a run that becomes active is a new one.
LEMMA EndedStays ==
    ASSUME StoreTypeOK, [StoreNext]_storeVars, NEW r \in RunIds, Inserted(r), ~IsActive(r)
    PROVE  ~IsActive(r)'
<1>1. ASSUME NEW q \in RunIds, NEW c, NEW v, NEW i, InsertRun(q, c, v, i) PROVE ~IsActive(r)'
  BY <1>1 DEF InsertRun, FreshRun, Inserted, IsActive, StoreTypeOK
<1>2. ASSUME NEW q \in RunIds, NEW s, SetRunStatus(q, s) \/ FinishRun(q, s) PROVE ~IsActive(r)'
  BY <1>2 DEF SetRunStatus, FinishRun, MayChangeStatus, IsActive, StoreTypeOK
<1>3. CASE Restart BY <1>3, RestartRows DEF IsActive
<1>4. CASE UNCHANGED runs BY <1>4 DEF IsActive
<1> QED
  BY <1>1, <1>2, <1>3, <1>4 DEF StoreNext, storeVars, AdmitAndStart, StartOrRefuse,
     StartClaimed, AdmitAndQueue, ClaimNext, EditItem, RemoveItem, MoveToHead, LoseClaim

LEMMA InsertedRun ==
    ASSUME StoreTypeOK, NEW r \in RunIds, NEW c, NEW v, NEW i, InsertRun(r, c, v, i)
    PROVE  /\ ~Inserted(r) /\ Inserted(r)' /\ IsActive(r)'
           /\ \A q \in RunIds \ {r} : runs'[q] = runs[q]
BY DEF InsertRun, FreshRun, NewRun, Inserted, IsActive, ActiveStatus, StoreTypeOK

LEMMA MarkedRun ==
    ASSUME StoreTypeOK, NEW r \in RunIds, NEW s \in ActiveStatus, MarkIfActive(r, s)
    PROVE  /\ \A q \in RunIds : (Inserted(q)' <=> Inserted(q)) /\ (IsActive(q)' <=> IsActive(q))
           /\ UNCHANGED <<queue, claims>>
<1>1. CASE IsActive(r)
  <2>1. runs' = [runs EXCEPT ![r].status = s] /\ UNCHANGED <<queue, claims>>
    BY <1>1 DEF MarkIfActive, SetRunStatus
  <2>2. runs'[r].status = s /\ \A q \in RunIds \ {r} : runs'[q] = runs[q]
    BY <2>1 DEF StoreTypeOK, Run
  <2>3. s # "none" /\ runs[r].status # "none" BY <1>1 DEF IsActive, ActiveStatus
  <2> QED BY <1>1, <2>1, <2>2, <2>3 DEF Inserted, IsActive
<1>2. CASE ~IsActive(r) BY <1>2 DEF MarkIfActive, storeVars, Inserted, IsActive
<1> QED BY <1>1, <1>2

LEMMA FirstStep ==
    ASSUME RuntimeType, HandsInv, LoneActor, FirstRun, Undisturbed, ServiceStep
    PROVE  FirstRun'
<1> SUFFICES ASSUME handle' = NoActor PROVE FirstRun'
  BY DEF FirstRun
<1>0. StoreTypeOK BY DEF RuntimeType, SessionTypeOK
<1>1. handle = NoActor
  BY Numbers DEF ServiceStep, StartPrompt, StartDraft, QueuePrompt, SteerMove, EditQueued,
     RemoveQueued, Cancel, AnswerPermission, AskPermission, ServiceCall, RegisterAndLookUp, Send,
     SpawnActor, SteerCancel, SteerIdle, SteerClaim, SteerStart, ServiceActor, InsertHandle, Boot,
     TakeDrain, LookAtChannel, ClaimItem, ClaimNothing, StartDrained, ReceivePrompt, CancelTurn,
     RejectPrompt, FinishTurn, TurnEnds, EndTurn, memVars
<1>2. ASSUME NEW g \in Gens PROVE ~ServiceActor(g) /\ ~AskPermission(g)
  <2>1. actors[g].pc \in {"none", "new"} BY <1>1, Numbers DEF LoneActor
  <2>2. ~InsertHandle(g) BY Numbers DEF InsertHandle
  <2> QED
    BY <2>1, <2>2 DEF ServiceActor, Boot, TakeDrain, LookAtChannel, ClaimItem, ClaimNothing,
       StartDrained, ReceivePrompt, CancelTurn, RejectPrompt, FinishTurn, TurnEnds, EndTurn,
       AskPermission, At
\* The runs stay as they are, and nothing is queued or called while there is none.
<1>3. ASSUME \A q \in RunIds : (Inserted(q)' <=> Inserted(q)) /\ (IsActive(q)' <=> IsActive(q)),
             claims' = claims,
             \A c \in calls' \ calls : c.step \notin {"claim", "start"},
             calls' # {} \/ (\E i \in ItemIds : IsPending(i)') => HasActiveRun
      PROVE  FirstRun'
  BY <1>1, <1>3 DEF FirstRun, HasActiveRun
<1>4. ASSUME UNCHANGED runs
      PROVE  \A q \in RunIds : (Inserted(q)' <=> Inserted(q)) /\ (IsActive(q)' <=> IsActive(q))
  BY <1>4 DEF Inserted, IsActive
<1>5. \A r, i : /\ Call("admitted", r, i).step = "admitted" /\ Call("steer", r, i).step = "steer"
  BY DEF Call
<1>6. calls # {} \/ (\E i \in ItemIds : IsPending(i)) => HasActiveRun BY <1>1 DEF FirstRun
<1>7. ASSUME NEW c \in Clients, StartPrompt(c) \/ StartDraft(c) PROVE FirstRun'
  <2>1. PICK r \in RunIds : /\ AdmitAndStart(r, c) \/ StartOrRefuse(r, c)
                            /\ calls' = calls \cup {Call("admitted", r, NoItem)}
    BY <1>7 DEF StartPrompt, StartDraft, CommittedTo, Undisturbed
  <2>2. ~HasActiveRun /\ InsertRun(r, c, 0, NoItem) /\ claims' = claims
    BY <2>1 DEF AdmitAndStart, StartOrRefuse
  <2>3. \A q \in RunIds : ~Inserted(q) BY <1>1, <2>2 DEF FirstRun, HasActiveRun
  <2>4. Inserted(r)' /\ IsActive(r)' /\ \A q \in RunIds \ {r} : ~Inserted(q)'
    BY <1>0, <2>2, <2>3, InsertedRun DEF Inserted
  <2>5. claims = {} /\ calls = {} BY <1>1, <1>6, <2>2 DEF FirstRun
  <2>6. HasActiveRun' BY <2>4 DEF HasActiveRun
  <2> QED BY <1>5, <2>1, <2>2, <2>4, <2>5, <2>6 DEF FirstRun
<1>8. ASSUME NEW c \in Clients, QueuePrompt(c) PROVE FirstRun'
  <2>1. HasActiveRun /\ UNCHANGED <<runs, claims, calls>>
    BY <1>8 DEF QueuePrompt, AdmitAndQueue, memVars
  <2> QED BY <1>3, <1>4, <2>1
<1>9. ASSUME NEW i \in ItemIds, SteerMove(i) \/ EditQueued(i) \/ RemoveQueued(i) PROVE FirstRun'
  <2>1. HasActiveRun /\ UNCHANGED <<runs, claims>>
    BY <1>6, <1>9 DEF SteerMove, EditQueued, RemoveQueued, MoveToHead, EditItem, RemoveItem, Editable
  <2>2. calls' \subseteq calls \cup {Call("steer", NoRun, NoItem)}
    BY <1>9 DEF SteerMove, EditQueued, RemoveQueued, memVars
  <2> QED BY <1>3, <1>4, <1>5, <2>1, <2>2
<1>10. ASSUME NEW r \in RunIds, Cancel(r) PROVE FirstRun'
  BY <1>3, <1>4, <1>6, <1>10 DEF Cancel, storeVars, IsPending
<1>11. ASSUME NEW r \in RunIds, AnswerPermission(r) PROVE FirstRun'
  BY <1>0, <1>3, <1>6, <1>11, MarkedRun DEF AnswerPermission, ActiveStatus, IsPending
<1>12. ASSUME NEW c \in calls, ServiceCall(c) PROVE FirstRun'
  <2>1. HasActiveRun /\ c.step \notin {"claim", "start"} BY <1>1, <1>6 DEF FirstRun
  <2>2. ~Send(c) BY <1>1 DEF Send, LoneActor
  <2>3. CASE RegisterAndLookUp(c)
    <3>1. [c EXCEPT !.step = "deliver", !.to = handle,
                    !.cmd = Prompt(c.run, NextToken(c.run))].step = "deliver"
      BY DEF RuntimeType, SessionTypeOK, CallType
    <3> QED BY <1>3, <1>4, <2>1, <2>3, <3>1 DEF RegisterAndLookUp, storeVars
  <2>4. CASE SpawnActor(c) \/ SteerCancel(c)
    BY <1>3, <1>4, <2>1, <2>4 DEF SpawnActor, SteerCancel, storeVars
  <2> QED BY <1>12, <2>1, <2>2, <2>3, <2>4 DEF ServiceCall, SteerIdle, SteerClaim, SteerStart
<1> QED BY <1>2, <1>7, <1>8, <1>9, <1>10, <1>11, <1>12 DEF ServiceStep

\* What a step has to respect for every active run to stay served.
LEMMA ServedOn ==
    ASSUME RuntimeType, HandsInv, Served, [StoreNext]_storeVars,
           \A r \in RunIds : IsActive(r)' => IsActive(r) \/ Held(r)',
           \A c \in calls : c.run \in RunIds => Held(c.run)',
           \A g \in Gens : \A r \in RunsOf(actors[g]) : Held(r)' \/ ~IsActive(r)',
           \A g \in Gens : actors'[g].pc \in {"boundary", "restart"} =>
               \/ /\ actors[g].pc \in {"boundary", "restart"}
                  /\ actors'[g].cmd = actors[g].cmd
               \/ ~IsActive(Working(g).run)'
    PROVE  Served'
<1>0. ActorsOK /\ StoreTypeOK BY DEF RuntimeType, SessionTypeOK, ActorsOK
<1>1. ASSUME NEW r \in RunIds, IsActive(r)' PROVE Held(r)'
  <2>1. CASE IsActive(r)
    <3>1. Held(r) BY <2>1 DEF Served
    <3> QED BY <1>1, <3>1 DEF Held
  <2> QED BY <1>1, <2>1
<1>2. ASSUME NEW g \in Gens, actors'[g].pc \in {"boundary", "restart"}
      PROVE  ~IsActive(Working(g).run)'
  <2> SUFFICES ASSUME actors[g].pc \in {"boundary", "restart"}, actors'[g].cmd = actors[g].cmd
               PROVE  ~IsActive(Working(g).run)'
    BY <1>2
  <2>1. PICK q \in RunIds : q = actors[g].cmd.run
    BY <1>0, ActorFields, CommandFacts DEF ActorShape, Working
  <2>2. q \in RunsOf(actors[g]) BY <2>1, Numbers DEF RunsOf
  <2>3. Inserted(q) BY <2>2 DEF HandsInv, NothingOf
  <2>4. ~IsActive(q) BY <2>1 DEF Served, Working
  <2>5. ~IsActive(q)' BY <1>0, <2>3, <2>4, EndedStays
  <2>6. Working(g)' = actors[g].cmd BY DEF Working
  <2> QED BY <2>1, <2>5, <2>6 DEF IsActive
<1> QED BY <1>1, <1>2 DEF Served

LEMMA FinishedRun ==
    ASSUME StoreTypeOK, NEW r \in RunIds, NEW s \in Outcomes, FinishOnce(r, s)
    PROVE  ~IsActive(r)' /\ \A q \in RunIds : IsActive(q)' => IsActive(q)
<1>1. CASE IsActive(r)
  <2>1. runs'[r].status = s /\ \A q \in RunIds \ {r} : runs'[q] = runs[q]
    BY <1>1 DEF FinishOnce, FinishRun, StoreTypeOK, Run
  <2>2. s \notin ActiveStatus BY OutcomeAssumption DEF ActiveStatus, TerminalStatus
  <2> QED BY <1>1, <2>1, <2>2 DEF IsActive
<1>2. CASE ~IsActive(r) BY <1>2 DEF FinishOnce, storeVars, IsActive
<1> QED BY <1>1, <1>2

LEMMA ServedStep ==
    ASSUME RuntimeType, HandsInv, LoneActor, FirstRun, Served, Undisturbed,
           [SessionNext]_vars, ServiceStep
    PROVE  Served'
<1>0. ActorsOK /\ StoreTypeOK /\ CallsOK /\ [StoreNext]_storeVars
  BY StoreStep DEF RuntimeType, SessionTypeOK, ActorsOK, CallsOK
<1>1. NoCommand.run = NoRun /\ \A r \in RunIds : r # NoRun BY CommandFacts, Numbers
\* Actors and calls keep what they have, and new runs come with a call.
<1>2. ASSUME UNCHANGED actors, \A c \in calls : c.run \in RunIds => \E d \in calls' : d.run = c.run,
             \A r \in RunIds : IsActive(r)' => IsActive(r) \/ \E d \in calls' : d.run = r
      PROVE  Served'
  <2>1. \A r \in RunIds : IsActive(r)' => IsActive(r) \/ Held(r)' BY <1>2 DEF Held
  <2>2. \A c \in calls : c.run \in RunIds => Held(c.run)' BY <1>2 DEF Held
  <2>3. \A g \in Gens : \A r \in RunsOf(actors[g]) : Held(r)' \/ ~IsActive(r)'
    BY <1>2 DEF Held
  <2> QED BY <1>0, <1>2, <2>1, <2>2, <2>3, ServedOn
<1>3. ASSUME UNCHANGED runs PROVE \A r \in RunIds : IsActive(r)' => IsActive(r)
  BY <1>3 DEF IsActive
<1>4. \A r, i : /\ Call("admitted", r, i).run = r /\ Call("admitted", r, i).step = "admitted"
  BY DEF Call
<1>5. ASSUME NEW c \in Clients, StartPrompt(c) \/ StartDraft(c) PROVE Served'
  <2>1. PICK r \in RunIds : /\ AdmitAndStart(r, c) \/ StartOrRefuse(r, c)
                            /\ calls' = calls \cup {Call("admitted", r, NoItem)}
                            /\ UNCHANGED actors
    BY <1>5 DEF StartPrompt, StartDraft, CommittedTo, Undisturbed
  <2>2. InsertRun(r, c, 0, NoItem) BY <2>1 DEF AdmitAndStart, StartOrRefuse
  <2>3. \A q \in RunIds \ {r} : runs'[q] = runs[q] BY <1>0, <2>2, InsertedRun
  <2>4. \A q \in RunIds : IsActive(q)' => IsActive(q) \/ \E d \in calls' : d.run = q
    BY <1>4, <2>1, <2>3 DEF IsActive
  <2> QED BY <1>2, <2>1, <2>4
<1>6. ASSUME NEW c \in Clients, QueuePrompt(c) PROVE Served'
  BY <1>2, <1>3, <1>6 DEF QueuePrompt, AdmitAndQueue, memVars
<1>7. ASSUME NEW i \in ItemIds, SteerMove(i) \/ EditQueued(i) \/ RemoveQueued(i) PROVE Served'
  BY <1>2, <1>3, <1>7 DEF SteerMove, EditQueued, RemoveQueued, MoveToHead, EditItem, RemoveItem,
     memVars
<1>8. ASSUME NEW r \in RunIds, Cancel(r) PROVE Served'
  BY <1>2, <1>3, <1>8 DEF Cancel, storeVars
<1>9. ASSUME NEW r \in RunIds, AnswerPermission(r) PROVE Served'
  <2>1. \A q \in RunIds : IsActive(q)' <=> IsActive(q)
    BY <1>0, <1>9, MarkedRun DEF AnswerPermission, ActiveStatus
  <2> QED BY <1>2, <1>9, <2>1 DEF AnswerPermission
<1>10. ASSUME NEW g \in Gens, AskPermission(g) PROVE Served'
  <2>1. Working(g).run \in RunIds
    BY <1>0, <1>10, ActorFields, CommandFacts DEF AskPermission, At, Working, ActorShape
  <2>2. \A q \in RunIds : IsActive(q)' <=> IsActive(q)
    BY <1>0, <1>10, <2>1, MarkedRun DEF AskPermission, ActiveStatus
  <2> QED BY <1>2, <1>10, <2>2 DEF AskPermission
<1>11. ASSUME NEW c \in calls, ServiceCall(c) PROVE Served'
  <2>0. c \in CallType /\ CallShape(c) BY <1>0 DEF CallsOK
  <2>1. CASE RegisterAndLookUp(c)
    <3> DEFINE n == [c EXCEPT !.step = "deliver", !.to = handle,
                              !.cmd = Prompt(c.run, NextToken(c.run))]
    <3>1. n.run = c.run BY <2>0 DEF CallType
    <3>2. calls' = (calls \ {c}) \cup {n} /\ UNCHANGED <<actors, runs>>
      BY <2>1 DEF RegisterAndLookUp, storeVars
    <3> HIDE DEF n
    <3> QED BY <1>2, <1>3, <3>1, <3>2
  <2>2. ASSUME NEW g \in Gens, calls' = calls \ {c}, UNCHANGED runs,
               \A h \in Gens \ {g} : actors'[h] = actors[h],
               c.run # NoRun => c.run \in RunsOf(actors'[g]),
               RunsOf(actors[g]) \subseteq RunsOf(actors'[g]),
               actors'[g].pc \in {"boundary", "restart"} =>
                 /\ actors[g].pc \in {"boundary", "restart"} /\ actors'[g].cmd = actors[g].cmd
        PROVE  Served'
    <3>1. \A r \in RunIds : IsActive(r)' => IsActive(r) BY <1>3, <2>2
    <3>2. \A d \in calls : d.run \in RunIds => Held(d.run)' BY <1>1, <2>2 DEF Held
    <3>3. \A h \in Gens : \A r \in RunsOf(actors[h]) : Held(r)' BY <2>2 DEF Held
    <3> QED BY <1>0, <2>2, <3>1, <3>2, <3>3, ServedOn
  <2>3. CASE Send(c)
    <3> DEFINE g == c.to
    <3>1. /\ g \in Gens /\ c.cmd \in Commands /\ c.cmd.run = c.run
      BY <2>0, <2>3, CommandFacts DEF Send, CallType, CallShape
    <3>2. actors[g] \in ActorType /\ actors[g].chan \in Seq(Commands) BY <1>0, <3>1, ActorFields
    <3>3. /\ actors'[g].chan = Append(actors[g].chan, c.cmd)
          /\ actors'[g].cmd = actors[g].cmd /\ actors'[g].pc = actors[g].pc
          /\ \A h \in Gens \ {g} : actors'[h] = actors[h]
      BY <1>0, <2>3, <3>1, <3>2 DEF Send, ActorType, ActorsOK
    <3>4. MailRuns(actors'[g].chan) = MailRuns(actors[g].chan) \cup {c.run}
      BY <3>1, <3>2, <3>3, AppendMail
    <3>5. calls' = calls \ {c} /\ UNCHANGED runs BY <2>3 DEF Send, storeVars
    <3> HIDE DEF g
    <3> QED BY <2>2, <3>1, <3>3, <3>4, <3>5 DEF RunsOf
  <2>4. CASE SpawnActor(c)
    <3>1. PICK g \in Gens :
             /\ actors' = [actors EXCEPT ![g] = [IdleActor EXCEPT !.pc = "new", !.chan = <<c.cmd>>,
                                                                  !.active = StartsRun(c.cmd)]]
      BY <2>4 DEF SpawnActor
    <3>2. /\ \A h \in Gens : actors[h].pc = "none" /\ c.cmd.run = c.run
      BY <2>4, FirstSpawn
    <3>3. /\ actors'[g].pc = "new" /\ actors'[g].chan = <<c.cmd>>
          /\ \A h \in Gens \ {g} : actors'[h] = actors[h]
      BY <1>0, <3>1 DEF ActorsOK, IdleActor
    <3>4. MailRuns(actors'[g].chan) = {c.run} BY <3>2, <3>3, OneMail
    <3>5. RunsOf(actors[g]) = {}
      BY <1>0, <1>1, <3>2, ActorFields, EmptyMail DEF ActorShape, RunsOf
    <3>6. calls' = calls \ {c} /\ UNCHANGED runs BY <2>4 DEF SpawnActor, storeVars
    <3> QED BY <2>2, <3>3, <3>4, <3>5, <3>6 DEF RunsOf
  <2>5. CASE SteerCancel(c) \/ SteerIdle(c) \/ SteerClaim(c)
    <3>1. c.run = NoRun BY <2>0, <2>5 DEF SteerCancel, SteerIdle, SteerClaim, CallShape
    <3>2. calls \ {c} \subseteq calls' /\ UNCHANGED <<actors, runs>>
      BY <2>5 DEF SteerCancel, SteerIdle, SteerClaim, ClaimNext, storeVars
    <3> QED BY <1>1, <1>2, <1>3, <3>1, <3>2
  <2>6. CASE SteerStart(c)
    <3>1. PICK k \in claims, r \in RunIds :
                 /\ StartClaimed(r, k)
                 /\ calls' = (calls \ {c}) \cup {Call("admitted", r, NoItem)}
      BY <2>6 DEF SteerStart, StartFails, Undisturbed
    <3>2. c.run = NoRun /\ UNCHANGED actors BY <2>0, <2>6 DEF SteerStart, CallShape
    <3>3. \A q \in RunIds \ {r} : runs'[q] = runs[q]
      BY <1>0, <3>1, InsertedRun DEF StartClaimed
    <3>4. \A q \in RunIds : IsActive(q)' => IsActive(q) \/ \E d \in calls' : d.run = q
      BY <1>4, <3>1, <3>3 DEF IsActive
    <3> QED BY <1>1, <1>2, <3>1, <3>2, <3>4
  <2> QED BY <1>11, <2>1, <2>3, <2>4, <2>5, <2>6 DEF ServiceCall
<1>12. ASSUME NEW g \in Gens, NEW b, Become(g, b), calls' = calls,
              \A r \in RunIds : IsActive(r)' => IsActive(r) \/ r \in RunsOf(b),
              \A r \in RunsOf(actors[g]) : r \in RunsOf(b) \/ ~IsActive(r)',
              b.pc \in {"boundary", "restart"} =>
                 \/ actors[g].pc \in {"boundary", "restart"} /\ b.cmd = actors[g].cmd
                 \/ ~IsActive(b.cmd.run)'
       PROVE  Served'
  <2>1. actors'[g] = b /\ \A h \in Gens \ {g} : actors'[h] = actors[h]
    BY <1>0, <1>12 DEF Become, ActorsOK
  <2>2. \A r \in RunsOf(b) : Held(r)' BY <2>1 DEF Held
  <2>3. \A r \in RunIds : IsActive(r)' => IsActive(r) \/ Held(r)' BY <1>12, <2>2
  <2>4. \A c \in calls : c.run \in RunIds => Held(c.run)' BY <1>12 DEF Held
  <2>5. \A h \in Gens : \A r \in RunsOf(actors[h]) : Held(r)' \/ ~IsActive(r)'
    <3>1. ASSUME NEW h \in Gens, h # g, NEW r \in RunsOf(actors[h]) PROVE Held(r)'
      BY <2>1, <3>1 DEF Held
    <3>2. \A r \in RunsOf(actors[g]) : Held(r)' \/ ~IsActive(r)' BY <1>12, <2>2
    <3> QED BY <3>1, <3>2
  <2>6. actors'[g].pc \in {"boundary", "restart"} =>
          \/ actors[g].pc \in {"boundary", "restart"} /\ actors'[g].cmd = actors[g].cmd
          \/ ~IsActive(Working(g).run)'
    BY <1>12, <2>1 DEF Working
  <2>7. \A h \in Gens : actors'[h].pc \in {"boundary", "restart"} =>
          \/ actors[h].pc \in {"boundary", "restart"} /\ actors'[h].cmd = actors[h].cmd
          \/ ~IsActive(Working(h).run)'
    BY <2>1, <2>6
  <2> QED BY <1>0, <2>3, <2>4, <2>5, <2>7, ServedOn
<1>13. ASSUME NEW g \in Gens, ServiceActor(g) PROVE Served'
  <2> DEFINE a == actors[g]
  <2>1. /\ a \in ActorType /\ ActorShape(a) /\ a.chan \in Seq(Commands)
        /\ HasMail(g) => NextMail(g) \in Prompts
    BY <1>0, <1>13, ActorFields, LoneMail DEF LoneActor
  <2>2. ASSUME NEW b, Become(g, b), calls' = calls, UNCHANGED runs, RunsOf(a) \subseteq RunsOf(b),
               b.pc \in {"boundary", "restart"} =>
                 a.pc \in {"boundary", "restart"} /\ b.cmd = a.cmd
        PROVE  Served'
    BY <1>3, <1>12, <2>2
  <2>3. ASSUME NEW b, Become(g, b), calls' = calls, UNCHANGED runs, b.chan = a.chan, b.cmd = a.cmd,
               b.pc \in {"boundary", "restart"} => a.pc \in {"boundary", "restart"}
        PROVE  Served'
    BY <2>2, <2>3 DEF RunsOf
  <2>4. CASE InsertHandle(g) \/ Boot(g) \/ LookAtChannel(g)
    <3>1. PICK pc : Goto(g, pc) /\ pc \notin {"boundary", "restart"}
      BY <2>4 DEF InsertHandle, Boot, LookAtChannel, Goto, Become
    <3> DEFINE n == [a EXCEPT !.pc = pc]
    <3>2. n.pc = pc /\ n.chan = a.chan /\ n.cmd = a.cmd BY <2>1 DEF ActorType
    <3>3. Become(g, n) /\ calls' = calls /\ UNCHANGED runs
      BY <2>4, <3>1 DEF InsertHandle, Boot, LookAtChannel, Goto, storeVars
    <3> HIDE DEF n
    <3> QED BY <2>3, <3>1, <3>2, <3>3
  <2>5. CASE ClaimItem(g)
    <3>1. PICK i \in ItemIds : Become(g, [a EXCEPT !.item = i,
                                             !.pc = IF @ = "claim" THEN "start" ELSE "restart"])
      BY <2>5 DEF ClaimItem
    <3> DEFINE n == [a EXCEPT !.item = i, !.pc = IF @ = "claim" THEN "start" ELSE "restart"]
    <3>2. /\ n.pc = (IF a.pc = "claim" THEN "start" ELSE "restart")
          /\ n.chan = a.chan /\ n.cmd = a.cmd
      BY <2>1 DEF ActorType
    <3>3. Become(g, n) /\ calls' = calls /\ UNCHANGED runs
      BY <2>5, <3>1 DEF ClaimItem, ClaimNext
    <3>4. a.pc = "claim" \/ a.pc = "boundary" BY <2>5 DEF ClaimItem, At
    <3> HIDE DEF n
    <3> QED BY <2>3, <3>2, <3>3, <3>4
  <2>6. CASE CancelTurn(g) \/ TurnEnds(g)
    <3>1. PICK s : Become(g, [a EXCEPT !.pc = "finish", !.outcome = s])
      BY <2>6 DEF CancelTurn, TurnEnds, EndTurn
    <3> DEFINE n == [a EXCEPT !.pc = "finish", !.outcome = s]
    <3>2. n.pc = "finish" /\ n.chan = a.chan /\ n.cmd = a.cmd BY <2>1 DEF ActorType
    <3>3. Become(g, n) /\ calls' = calls /\ UNCHANGED runs
      BY <2>6, <3>1 DEF CancelTurn, TurnEnds, EndTurn, storeVars
    <3> HIDE DEF n
    <3> QED BY <2>3, <3>2, <3>3
  <2>7. CASE ClaimNothing(g)
    <3> DEFINE n == NothingDrained(g)
    <3>1. Become(g, n) /\ calls' = calls /\ UNCHANGED runs
      BY <2>7 DEF ClaimNothing, storeVars
    <3>2. n.pc \notin {"boundary", "restart"} /\ n.chan = a.chan
      BY <2>1 DEF NothingDrained, AfterBoundary, ActorType
    <3>3. \A r \in RunsOf(a) : r \in RunsOf(n) \/ ~IsActive(r)'
      <4>1. CASE a.pc = "claim"
        <5>1. n.cmd = a.cmd BY <2>1, <4>1 DEF NothingDrained, ActorType
        <5> HIDE DEF n
        <5> QED BY <3>2, <5>1 DEF RunsOf
      <4>2. CASE a.pc = "boundary"
        <5>1. ~IsActive(a.cmd.run) BY <4>2 DEF Served, Working
        <5>2. \A r : r = a.cmd.run => ~IsActive(r)' BY <3>1, <5>1 DEF IsActive
        <5> HIDE DEF n
        <5> QED BY <3>2, <5>2 DEF RunsOf
      <4> QED BY <2>7, <4>1, <4>2 DEF ClaimNothing, At
    <3> HIDE DEF n
    <3> QED BY <1>3, <1>12, <3>1, <3>2, <3>3
  <2>8. CASE TakeDrain(g) \/ ReceivePrompt(g)
    <3>1. PICK cmd, chan : /\ Become(g, Turn(g, cmd, chan))
                           /\ RunsOf(a) \subseteq (MailRuns(chan) \cup {cmd.run}) \ {NoRun}
      <4>1. CASE TakeDrain(g)
        <5>1. a.cmd = a.drain BY <2>1, <4>1 DEF TakeDrain, ActorShape
        <5> QED BY <4>1, <5>1 DEF TakeDrain, BeginTurn, RunsOf
      <4>2. CASE ReceivePrompt(g)
        <5>1. a.chan # <<>> /\ a.cmd = NoCommand
          BY <2>1, <4>2 DEF ReceivePrompt, At, HasMail, ActorShape
        <5>2. MailRuns(a.chan) = {NextMail(g).run} \cup MailRuns(Tail(a.chan))
          BY <2>1, <5>1, TailMail DEF NextMail
        <5> QED BY <1>1, <4>2, <5>1, <5>2 DEF ReceivePrompt, BeginTurn, RunsOf
      <4> QED BY <2>8, <4>1, <4>2
    <3> DEFINE n == Turn(g, cmd, chan)
    <3>2. RunsOf(n) = (MailRuns(chan) \cup {cmd.run}) \ {NoRun} BY <2>1, TurnHands
    <3>3. n.pc = "turn" BY <2>1 DEF Turn, ActorType
    <3>4. Become(g, n) /\ calls' = calls /\ UNCHANGED runs
      BY <2>8, <3>1 DEF TakeDrain, ReceivePrompt, storeVars
    <3> HIDE DEF n
    <3> QED BY <2>2, <3>1, <3>2, <3>3, <3>4
  <2>9. CASE RejectPrompt(g)
    <3> DEFINE chan == Tail(a.chan)
               n == [a EXCEPT !.pc = "turn", !.chan = chan]
    <3>1. Become(g, n) /\ calls' = calls /\ FinishOnce(NextMail(g).run, "failed") /\ HasMail(g)
      BY <2>9 DEF RejectPrompt, Receive
    <3>2. PICK q \in RunIds : q = NextMail(g).run BY <2>1, <3>1, CommandFacts
    <3>3. ~IsActive(q)' /\ \A r \in RunIds : IsActive(r)' => IsActive(r)
      BY <1>0, <3>1, <3>2, FinishedRun, EndingAssumption
    <3>4. MailRuns(a.chan) = {q} \cup MailRuns(chan)
      BY <2>1, <3>1, <3>2, TailMail DEF HasMail, NextMail
    <3> HIDE DEF chan
    <3>5. n.pc = "turn" /\ n.chan = chan /\ n.cmd = a.cmd BY <2>1 DEF ActorType
    <3> HIDE DEF n
    <3>6. \A r \in RunsOf(a) : r \in RunsOf(n) \/ r = q BY <3>4, <3>5 DEF RunsOf
    <3> QED BY <1>12, <3>1, <3>3, <3>5, <3>6
  <2>10. CASE FinishTurn(g)
    <3> DEFINE n == [a EXCEPT !.pc = "boundary"]
    <3>1. PICK q, s : /\ q = a.cmd.run /\ s = a.outcome
                      /\ Become(g, n) /\ calls' = calls /\ FinishOnce(q, s)
      BY <2>10 DEF FinishTurn, Goto, Working
    <3>2. q \in RunIds /\ s \in Outcomes
      BY <1>0, <2>1, <2>10, <3>1, ActorFields, CommandFacts DEF FinishTurn, At, ActorShape, Working
    <3>3. ~IsActive(q)' /\ \A r \in RunIds : IsActive(r)' => IsActive(r)
      BY <1>0, <3>1, <3>2, FinishedRun
    <3>4. n.chan = a.chan /\ n.cmd = a.cmd BY <2>1 DEF ActorType
    <3> HIDE DEF n
    <3>5. RunsOf(n) = RunsOf(a) BY <3>4 DEF RunsOf
    <3> QED BY <1>12, <3>1, <3>3, <3>4, <3>5
  <2>11. CASE StartDrained(g)
    <3>1. PICK k \in claims, r \in RunIds :
             /\ StartClaimed(r, k)
             /\ \/ At(g, "start") /\ BeginTurn(g, Prompt(r, NextToken(r)), a.chan)
                \/ /\ At(g, "restart")
                   /\ Become(g, [a EXCEPT !.pc = AfterBoundary(g), !.item = NoItem,
                                          !.cmd = Prompt(r, NextToken(r)),
                                          !.drain = Prompt(r, NextToken(r))])
      BY <2>11 DEF StartDrained
    <3> DEFINE cmd == Prompt(r, NextToken(r))
    <3>2. cmd.run = r /\ r # NoRun BY <1>1 DEF Prompt
    <3> HIDE DEF cmd
    <3>3. ~Inserted(r) /\ \A q \in RunIds \ {r} : runs'[q] = runs[q]
      BY <1>0, <3>1, InsertedRun DEF StartClaimed
    <3>4. \A q \in RunIds \ {r} : IsActive(q)' <=> IsActive(q) BY <3>3 DEF IsActive
    <3>5. calls' = calls BY <2>11 DEF StartDrained
    <3>6. CASE At(g, "start") /\ BeginTurn(g, cmd, a.chan)
      <4> DEFINE n == Turn(g, cmd, a.chan)
      <4>1. Become(g, n) /\ a.cmd = NoCommand BY <2>1, <3>6 DEF BeginTurn, At, ActorShape
      <4>2. RunsOf(n) = (MailRuns(a.chan) \cup {r}) \ {NoRun} BY <2>1, <3>2, TurnHands
      <4>3. n.pc = "turn" BY <2>1 DEF Turn, ActorType
      <4> HIDE DEF n
      <4>4. RunsOf(a) \subseteq RunsOf(n) /\ r \in RunsOf(n) BY <1>1, <3>2, <4>1, <4>2 DEF RunsOf
      <4> QED BY <1>12, <3>4, <3>5, <4>1, <4>3, <4>4
    <3>7. CASE /\ At(g, "restart")
               /\ Become(g, [a EXCEPT !.pc = AfterBoundary(g), !.item = NoItem,
                                      !.cmd = cmd, !.drain = cmd])
      <4> DEFINE n == [a EXCEPT !.pc = AfterBoundary(g), !.item = NoItem, !.cmd = cmd, !.drain = cmd]
      <4>1. n.pc \notin {"boundary", "restart"} /\ n.chan = a.chan /\ n.cmd = cmd
        BY <2>1 DEF AfterBoundary, ActorType
      <4>2. PICK q \in RunIds : q = a.cmd.run
        BY <1>0, <2>1, <3>7, ActorFields, CommandFacts DEF At, ActorShape, Working
      <4>3. q \in RunsOf(a) BY <1>1, <4>2 DEF RunsOf
      <4>4. ~IsActive(q)'
        <5>1. ~IsActive(q) /\ Inserted(q)
          BY <3>7, <4>2, <4>3 DEF Served, Working, At, HandsInv, NothingOf
        <5> QED BY <3>3, <3>4, <5>1
      <4> HIDE DEF n
      <4>5. r \in RunsOf(n) BY <3>2, <4>1 DEF RunsOf
      <4>6. \A p \in RunsOf(a) : p \in RunsOf(n) \/ p = q BY <4>1, <4>2 DEF RunsOf
      <4> QED BY <1>12, <3>4, <3>5, <3>7, <4>1, <4>4, <4>5, <4>6 DEF n
    <3> QED BY <3>1, <3>6, <3>7 DEF cmd
  <2> HIDE DEF a
  <2> QED
    BY <1>13, <2>4, <2>5, <2>6, <2>7, <2>8, <2>9, <2>10, <2>11 DEF ServiceActor
<1> QED
  BY <1>5, <1>6, <1>7, <1>8, <1>9, <1>10, <1>11, <1>13 DEF ServiceStep

LEMMA QueueStep ==
    ASSUME RuntimeType, HandsInv, LoneActor, FirstRun, QueueIsWatched, Undisturbed, ServiceStep,
           RuntimeType', LoneActor', FirstRun'
    PROVE  QueueIsWatched'
<1> SUFFICES ASSUME (\E i \in ItemIds : IsPending(i))', ~HasActiveRun', calls' = {},
                    ~(\E g \in Gens : OnTheWay(g))'
             PROVE  FALSE
  BY DEF QueueIsWatched
<1>0. ActorsOK /\ StoreTypeOK /\ CallsOK BY DEF RuntimeType, SessionTypeOK, ActorsOK, CallsOK
\* The one actor would have to wait for a command.
<1>1. PICK h \in Gens : handle' = h
  <2>1. handle' # NoActor BY DEF FirstRun
  <2> QED BY <2>1 DEF RuntimeType, SessionTypeOK
<1>2. actors'[h].pc = "recv" /\ actors'[h].chan = <<>>
  <2>1. actors'[h].pc \notin {"none", "new"} BY <1>1 DEF LoneActor
  <2>2. actors'[h] \in ActorType /\ actors'[h].pc \notin {"failed", "closing", "closed", "gone"}
    BY DEF RuntimeType, SessionTypeOK, LoneActor
  <2>3. ~OnTheWay(h)' OBVIOUS
  <2> QED BY <2>1, <2>2, <2>3 DEF OnTheWay, ActorType, At, HasMail
<1>3. ASSUME UNCHANGED actors, calls = {}, HasActiveRun => HasActiveRun',
             (\E i \in ItemIds : IsPending(i))' => \E i \in ItemIds : IsPending(i)
      PROVE  FALSE
  <2>1. actors[h].pc = "recv" /\ ~HasMail(h) BY <1>2, <1>3 DEF HasMail
  <2>2. \A g \in Gens : ~OnTheWay(g) BY <2>1, LoneFacts DEF OnTheWay, At
  <2> QED BY <1>3, <2>2 DEF QueueIsWatched
<1>4. ASSUME UNCHANGED runs PROVE HasActiveRun => HasActiveRun'
  BY <1>4 DEF HasActiveRun, IsActive
<1>5. ASSUME UNCHANGED queue
      PROVE  (\E i \in ItemIds : IsPending(i))' => \E i \in ItemIds : IsPending(i)
  BY <1>5 DEF IsPending
<1>6. ASSUME NEW c \in Clients, StartPrompt(c) \/ StartDraft(c) \/ QueuePrompt(c) PROVE FALSE
  BY <1>4, <1>6 DEF StartPrompt, StartDraft, QueuePrompt, AdmitAndQueue, CommittedTo, Undisturbed
<1>7. ASSUME NEW i \in ItemIds, SteerMove(i) \/ EditQueued(i) \/ RemoveQueued(i) PROVE FALSE
  <2>1. EditItem(i) \/ RemoveItem(i) BY <1>7 DEF SteerMove, EditQueued, RemoveQueued
  <2>2. \A j \in ItemIds : IsPending(j)' => IsPending(j)
    BY <1>0, <2>1 DEF EditItem, RemoveItem, IsPending, StoreTypeOK, Row
  <2>3. UNCHANGED <<actors, calls, runs>>
    BY <1>7, <2>1 DEF SteerMove, EditQueued, RemoveQueued, EditItem, RemoveItem, memVars
  <2> QED BY <1>3, <1>4, <2>2, <2>3
<1>8. ASSUME NEW r \in RunIds, Cancel(r) PROVE FALSE
  BY <1>3, <1>4, <1>5, <1>8 DEF Cancel, storeVars
<1>9. ASSUME NEW r \in RunIds, NEW s \in ActiveStatus, MarkIfActive(r, s), UNCHANGED <<actors, calls>>
      PROVE  FALSE
  <2>1. \A q \in RunIds : IsActive(q)' <=> IsActive(q) BY <1>0, <1>9, MarkedRun
  <2>2. UNCHANGED queue BY <1>0, <1>9, MarkedRun
  <2> QED BY <1>3, <1>5, <1>9, <2>1, <2>2 DEF HasActiveRun
<1>10. ASSUME NEW r \in RunIds, AnswerPermission(r) PROVE FALSE
  BY <1>9, <1>10 DEF AnswerPermission, ActiveStatus
<1>11. ASSUME NEW g \in Gens, AskPermission(g) PROVE FALSE
  <2>1. Working(g).run \in RunIds
    BY <1>0, <1>11, ActorFields, CommandFacts DEF AskPermission, At, Working, ActorShape
  <2> QED BY <1>9, <1>11, <2>1 DEF AskPermission, ActiveStatus
<1>12. ASSUME NEW c \in calls, ServiceCall(c) PROVE FALSE
  <2>1. ~RegisterAndLookUp(c) BY DEF RegisterAndLookUp
  <2>2. CASE Send(c)
    <3>1. handle = h /\ c.to = h BY <1>1, <2>2 DEF Send, LoneActor
    <3>2. actors[h] \in ActorType /\ actors[h].chan \in Seq(Commands) BY <1>0, ActorFields
    <3>3. actors'[h].chan = Append(actors[h].chan, c.cmd)
      BY <1>0, <2>2, <3>1, <3>2 DEF Send, ActorType, ActorsOK
    <3>4. c.cmd \in Commands
      BY <1>0, <2>2, CommandFacts DEF Send, CallsOK, CallType, CallShape
    <3> QED BY <1>2, <3>2, <3>3, <3>4
  <2>3. CASE SpawnActor(c)
    <3>1. handle = NoActor /\ handle' = handle BY <2>3, FirstSpawn DEF SpawnActor
    <3> QED BY <1>1, <3>1, Numbers
  <2>4. CASE SteerCancel(c)
    BY <1>4, <2>4 DEF SteerCancel, FirstActive, HasActiveRun, storeVars
  <2>5. ~SteerIdle(c) BY DEF SteerIdle
  <2>6. CASE SteerClaim(c) BY <1>5, <2>6 DEF SteerClaim, storeVars
  <2>7. ~SteerStart(c) BY DEF SteerStart, StartFails, Undisturbed
  <2> QED BY <1>12, <2>1, <2>2, <2>3, <2>4, <2>5, <2>6, <2>7 DEF ServiceCall
<1>13. ASSUME NEW g \in Gens, ServiceActor(g) PROVE FALSE
  <2> DEFINE a == actors[g]
  <2>1. a \in ActorType /\ ActorShape(a) BY <1>0, ActorFields
  <2>2. ASSUME NEW b, Become(g, b) PROVE actors'[g] = b
    BY <1>0, <2>2 DEF Become, ActorsOK
  <2>3. CASE InsertHandle(g)
    <3>1. g = h BY <1>1, <2>3 DEF InsertHandle
    <3>2. actors'[g] = [a EXCEPT !.pc = "boot"] BY <1>0, <2>3 DEF InsertHandle, ActorsOK
    <3> QED BY <1>2, <2>1, <3>1, <3>2 DEF ActorType
  <2>4. CASE ~InsertHandle(g)
    <3>1. a.pc \notin {"none", "new"} /\ handle' = handle
      BY <1>13, <2>4 DEF ServiceActor, Boot, TakeDrain, LookAtChannel, ClaimItem, ClaimNothing,
         StartDrained, ReceivePrompt, CancelTurn, RejectPrompt, FinishTurn, TurnEnds, EndTurn, At
    <3>2. g = h BY <1>1, <3>1, LoneFacts
    <3>3. actors'[g].pc = "recv" /\ actors'[g].chan = <<>> BY <1>2, <3>2
    <3>4. ASSUME NEW pc, Goto(g, pc) PROVE pc = "recv" /\ a.chan = <<>>
      <4> DEFINE n == [a EXCEPT !.pc = pc]
      <4>1. n.pc = pc /\ n.chan = a.chan BY <2>1 DEF ActorType
      <4>2. actors'[g] = n BY <2>2, <3>4 DEF Goto
      <4> HIDE DEF n
      <4> QED BY <3>3, <4>1, <4>2
    <3>5. ~(Boot(g) \/ LookAtChannel(g) \/ FinishTurn(g))
      BY <3>4 DEF Boot, LookAtChannel, FinishTurn, HasMail
    <3>6. ASSUME NEW cmd, NEW chan, Become(g, Turn(g, cmd, chan)) PROVE FALSE
      <4>1. Turn(g, cmd, chan).pc = "turn" BY <2>1 DEF Turn, ActorType
      <4> QED BY <2>2, <3>3, <3>6, <4>1
    <3>7. ~(TakeDrain(g) \/ ReceivePrompt(g)) BY <3>6 DEF TakeDrain, ReceivePrompt, BeginTurn
    <3>8. CASE ClaimItem(g)
      <4>1. PICK i : Become(g, [a EXCEPT !.item = i,
                                         !.pc = IF @ = "claim" THEN "start" ELSE "restart"])
        BY <3>8 DEF ClaimItem
      <4> DEFINE n == [a EXCEPT !.item = i, !.pc = IF @ = "claim" THEN "start" ELSE "restart"]
      <4>2. n.pc \in {"start", "restart"} BY <2>1 DEF ActorType
      <4>3. actors'[g] = n BY <2>2, <4>1
      <4> HIDE DEF n
      <4> QED BY <3>3, <4>2, <4>3
    <3>9. ~ClaimNothing(g) BY <1>5 DEF ClaimNothing, storeVars
    <3>10. CASE StartDrained(g)
      <4>1. PICK cmd : \/ Become(g, Turn(g, cmd, a.chan))
                       \/ Become(g, [a EXCEPT !.pc = AfterBoundary(g), !.item = NoItem,
                                              !.cmd = cmd, !.drain = cmd])
        BY <3>10 DEF StartDrained, BeginTurn
      <4> DEFINE n == [a EXCEPT !.pc = AfterBoundary(g), !.item = NoItem, !.cmd = cmd, !.drain = cmd]
      <4>2. n.pc \in {"closing", "top"} BY <2>1 DEF AfterBoundary, ActorType
      <4>3. actors'[g] = n BY <2>2, <3>6, <4>1
      <4> HIDE DEF n
      <4> QED BY <3>3, <4>2, <4>3
    <3>11. CASE CancelTurn(g) \/ TurnEnds(g)
      <4>1. PICK s : Become(g, [a EXCEPT !.pc = "finish", !.outcome = s])
        BY <3>11 DEF CancelTurn, TurnEnds, EndTurn
      <4> DEFINE n == [a EXCEPT !.pc = "finish", !.outcome = s]
      <4>2. n.pc = "finish" BY <2>1 DEF ActorType
      <4>3. actors'[g] = n BY <2>2, <4>1
      <4> HIDE DEF n
      <4> QED BY <3>3, <4>2, <4>3
    <3>12. CASE RejectPrompt(g)
      <4> DEFINE chan == Tail(a.chan)
                 n == [a EXCEPT !.pc = "turn", !.chan = chan]
      <4>1. Become(g, n) BY <3>12 DEF RejectPrompt, Receive
      <4> HIDE DEF chan
      <4>2. n.pc = "turn" BY <2>1 DEF ActorType
      <4>3. actors'[g] = n BY <2>2, <4>1
      <4> HIDE DEF n
      <4> QED BY <3>3, <4>2, <4>3
    <3> HIDE DEF a
    <3> QED
      BY <1>13, <2>4, <3>5, <3>7, <3>8, <3>9, <3>10, <3>11, <3>12 DEF ServiceActor
  <2> QED BY <2>3, <2>4
<1> QED
  BY <1>6, <1>7, <1>8, <1>10, <1>11, <1>12, <1>13 DEF ServiceStep

LEMMA ServiceInit == SessionInit => ServiceInv
<1> SUFFICES ASSUME SessionInit PROVE ServiceInv
  OBVIOUS
<1>1. /\ actors = [g \in Gens |-> IdleActor] /\ handle = NoActor /\ calls = {} /\ claims = {}
      /\ \A r \in RunIds : runs[r].status = "none"
      /\ \A i \in ItemIds : queue[i].status = "none"
  BY DEF SessionInit, StoreInit, NewRun
<1>2. /\ IdleActor.pc = "none" /\ ~IdleActor.stop /\ IdleActor.chan = <<>>
  BY DEF IdleActor
<1>3. LoneActor
  <2>1. <<>> \in Seq(Prompts) OBVIOUS
  <2> QED BY <1>1, <1>2, <2>1, Numbers DEF LoneActor
<1>4. FirstRun BY <1>1 DEF FirstRun, Inserted, IsPending
<1>5. Served BY <1>1, <1>2 DEF Served, IsActive, ActiveStatus
<1>6. QueueIsWatched BY <1>1 DEF QueueIsWatched, IsPending
<1> QED BY <1>3, <1>4, <1>5, <1>6 DEF ServiceInv

LEMMA ServiceKept ==
    ASSUME RuntimeType, RuntimeType', HandsInv, ServiceInv, Undisturbed, [SessionNext]_vars
    PROVE  ServiceInv'
<1>1. CASE ServiceStep
  <2>1. LoneActor' /\ FirstRun' BY <1>1, LoneStep, FirstStep DEF ServiceInv
  <2>2. Served' BY <1>1, ServedStep DEF ServiceInv
  <2>3. QueueIsWatched' BY <1>1, <2>1, QueueStep DEF ServiceInv
  <2> QED BY <2>1, <2>2, <2>3 DEF ServiceInv
<1>2. CASE UNCHANGED vars
  <2>1. UNCHANGED <<runs, queue, claims, actors, handle, current, calls>>
    BY <1>2 DEF vars, memVars, storeVars
  <2>2. LoneActor' BY <2>1 DEF ServiceInv, LoneActor
  <2>3. FirstRun' BY <2>1 DEF ServiceInv, FirstRun, Inserted, IsActive, IsPending, HasActiveRun
  <2>4. Served' BY <2>1 DEF ServiceInv, Served, IsActive, Held, Working
  <2>5. QueueIsWatched'
    BY <2>1 DEF ServiceInv, QueueIsWatched, IsActive, IsPending, HasActiveRun, OnTheWay, At, HasMail
  <2> QED BY <2>2, <2>3, <2>4, <2>5 DEF ServiceInv
<1> QED BY <1>1, <1>2, ServiceSteps DEF ServiceInv

\* An undisturbed Session is served by the one actor that its first prompt made.
THEOREM ServiceHolds == ASSUME Undisturbed PROVE SessionSpec => []ServiceInv
<1>1. "resend" \notin Events BY DEF Undisturbed
<1>2. RuntimeType /\ RuntimeType' /\ HandsInv /\ ServiceInv /\ [SessionNext]_vars => ServiceInv'
  BY ServiceKept
<1>3. SessionSpec => []HandsInv BY <1>1, HandsHold
<1> QED BY <1>2, <1>3, ServiceInit, RuntimeTypes, PTL DEF SessionSpec

LEMMA SomeHolder ==
    ASSUME RuntimeType, HandsInv, LoneActor, NEW r \in RunIds, Held(r)
    PROVE  Holders(r) = 1
<1> DEFINE C == HeldByCall(r)
           A == {g \in Gens : HeldByActor(g, r)}
<1>0. ActorsOK /\ r # NoRun BY Numbers DEF RuntimeType, SessionTypeOK, ActorsOK
<1>1. ASSUME NEW g \in Gens PROVE r \in RunsOf(actors[g]) <=> HeldByActor(g, r)
  <2>1. r \in RunsOf(actors[g]) <=> \/ Working(g).run = r
                                    \/ \E n \in DOMAIN actors[g].chan : actors[g].chan[n].run = r
    BY <1>0 DEF RunsOf, MailRuns, Working
  <2>2. r \in RunsOf(actors[g]) => actors[g].pc # "none"
    <3>1. actors[g].pc = "none" => RunsOf(actors[g]) = {}
      BY <1>0, ActorFields, EmptyMail, CommandFacts DEF ActorShape, RunsOf
    <3> QED BY <3>1
  <2> QED BY <2>1, <2>2 DEF HeldByActor, LoneActor
<1>2. C # {} \/ A # {} BY <1>1 DEF Held, HeldByCall
<1>3. \A c, d \in C : c = d BY <1>0 DEF HeldByCall, HandsInv, OnePlace
<1>4. \A g, h \in A : g = h BY <1>1 DEF HandsInv, OnePlace
<1>5. C = {} \/ A = {} BY <1>1 DEF HeldByCall, HandsInv, OnePlace
<1>6. C = {} \/ \E c \in C : C = {c} BY <1>3
<1>7. A = {} \/ \E g \in A : A = {g} BY <1>4
<1>8. Cardinality({}) = 0 /\ \A x : Cardinality({x}) = 1 BY FS_EmptySet, FS_Singleton
<1>9. Cardinality(C) + Cardinality(A) = 1
  <2> HIDE DEF C, A
  <2>1. CASE C = {}
    <3>1. Cardinality(A) = 1 BY <1>2, <1>7, <1>8, <2>1
    <3> QED BY <1>8, <2>1, <3>1
  <2>2. CASE A = {}
    <3>1. Cardinality(C) = 1 BY <1>2, <1>6, <1>8, <2>2
    <3> QED BY <1>8, <2>2, <3>1
  <2> QED BY <1>5, <2>1, <2>2
<1> QED BY <1>9 DEF Holders

\* An active run, which keeps every later prompt in the queue, is always with
\* exactly one handler or actor.
THEOREM EveryRunIsServed == ASSUME Undisturbed PROVE SessionSpec => []RunHasOneHolder
<1>1. "resend" \notin Events BY DEF Undisturbed
<1>2. RuntimeType /\ HandsInv /\ ServiceInv => RunHasOneHolder
  BY SomeHolder DEF RunHasOneHolder, ServiceInv, Served
<1> QED
  BY <1>1, <1>2, RuntimeTypes, HandsHold, ServiceHolds, PTL

\* A queued prompt always has somebody on the way to it.
THEOREM NoLostWakeUp == ASSUME Undisturbed PROVE SessionSpec => []QueueIsWatched
<1>1. ServiceInv => QueueIsWatched BY DEF ServiceInv
<1> QED BY <1>1, ServiceHolds, PTL

-----------------------------------------------------------------------------
(* What the transactions promise each for themselves, a Session with its    *)
(* handlers, actors and restarts keeps.                                     *)

\* A send is made a run or a row once, an acknowledged prompt is never lost, a
\* claimed prompt is drained once and in order, and a run ends once.
THEOREM SessionKeepsPrompts ==
    SessionSpec => /\ [](PromptKept /\ SameSendSameItem /\ OneDrainPerItem /\ CompletedOnce)
                   /\ DrainInOrder /\ TerminalIsFinal
<1>1. SessionSpec => StoreSpec BY StoreIsImplemented DEF ImplementsStore
<1>2. SessionSpec => DrainInOrder BY <1>1, DrainIsFifo
<1>3. SessionSpec => TerminalIsFinal BY <1>1, OutcomesAreFinal
<1> QED
  BY <1>1, <1>2, <1>3, AcknowledgedPromptsAreKept, AdmissionIsIdempotent, ItemsDrainOnce,
     OneTerminalEvent, PTL

=============================================================================
