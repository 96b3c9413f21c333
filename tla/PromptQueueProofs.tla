-------------------------- MODULE PromptQueueProofs --------------------------
(***************************************************************************)
(* Proofs about PromptQueue for every set of client message ids and every  *)
(* bound: type correctness, and the safety properties of the queue, from   *)
(* one inductive invariant.                                                *)
(***************************************************************************)
EXTENDS PromptQueue, TLAPS

-----------------------------------------------------------------------------
(* The inductive invariant. *)

\* Rows are inserted in rowid order.
RowsArePrefix ==
    \A i, j \in ItemIds :
        i < j /\ queue[j].status # "none" => queue[i].status # "none"

\* A claim is of a claimed row and holds its current content.
ClaimsAreClaimed ==
    \A k \in claims :
        queue[k.item].status = "claimed" /\ queue[k.item].version = k.version

\* Positions follow insertion order except where a row was moved.
PositionsInOrder ==
    \A i, j \in ItemIds :
        i < j /\ IsRow(i) /\ IsRow(j) /\ j \notin steered
            => queue[i].position < queue[j].position

\* A row in the queue was sent by a path that queues, and its client id is
\* neither on another such row nor on a run that did not come from it.
RowOwnsItsClient ==
    \A i \in ItemIds :
        IsRow(i) =>
            /\ queue[i].client \in PlainIds \cup {NoClient}
            /\ \A j \in ItemIds :
                  IsRow(j) /\ queue[j].client = queue[i].client
                      => i = j \/ queue[i].client = NoClient
            /\ \A r \in RunIds :
                  Inserted(r) /\ runs[r].client = queue[i].client
                      => runs[r].item = i \/ queue[i].client = NoClient

\* A claimed row explains itself: it is held, has a run, or was lost.
ClaimedIsExplained ==
    \A i \in ItemIds :
        queue[i].status = "claimed" =>
            \/ \E k \in claims : k.item = i
            \/ i \in dropped
            \/ \E r \in RunIds : Inserted(r) /\ runs[r].item = i
                                   /\ runs[r].client = queue[i].client

\* Every acknowledged client id is on a run or on a row that was inserted.
AcceptedIsRecorded ==
    \A c \in accepted :
        /\ c # NoClient
        /\ \/ \E r \in RunIds : Inserted(r) /\ runs[r].client = c
           \/ \E i \in ItemIds : queue[i].status # "none" /\ queue[i].client = c

StoreInv ==
    /\ StoreTypeOK
    /\ CompletedOnce
    /\ RowsArePrefix
    /\ ClaimsAreClaimed
    /\ PositionsInOrder
    /\ ActiveRunMatchesItem
    /\ OneDrainPerItem
    /\ RowOwnsItsClient
    /\ SameSendSameItem
    /\ ClaimedIsExplained
    /\ AcceptedIsRecorded

-----------------------------------------------------------------------------
(* Type correctness. *)

LEMMA TypeInit == StoreInit => StoreTypeOK
BY BoundAssumption DEF StoreInit, StoreTypeOK, Run, Row, NewRun, Clients, NoItem,
   ActiveStatus, TerminalStatus

LEMMA TypeStep == StoreTypeOK /\ [StoreNext]_storeVars => StoreTypeOK'
<1> SUFFICES ASSUME StoreTypeOK, [StoreNext]_storeVars PROVE StoreTypeOK'
  OBVIOUS
<1> USE DEF StoreTypeOK
<1>1. ASSUME NEW r \in RunIds, NEW c \in Clients, AdmitAndStart(r, c) \/ StartOrRefuse(r, c)
      PROVE  StoreTypeOK'
  BY <1>1 DEF AdmitAndStart, StartOrRefuse, InsertRun, NewRun, Accept, Run, NoItem,
     ActiveStatus, TerminalStatus
<1>2. ASSUME NEW r \in RunIds, NEW k \in claims, StartClaimed(r, k)
      PROVE  StoreTypeOK'
  <2>1. k.item \in ItemIds /\ k.version \in Nat /\ queue[k.item].client \in Clients
    BY DEF Row
  <2> QED
    BY <1>2, <2>1 DEF StartClaimed, InsertRun, NewRun, Run, NoItem, ActiveStatus
<1>3. ASSUME NEW r \in RunIds, NEW s \in ActiveStatus, SetRunStatus(r, s)
      PROVE  StoreTypeOK'
  BY <1>3 DEF SetRunStatus, Run
<1>4. ASSUME NEW r \in RunIds, NEW s \in Outcomes, FinishRun(r, s)
      PROVE  StoreTypeOK'
  <2>1. s \in TerminalStatus
    BY OutcomeAssumption DEF TerminalStatus
  <2> QED
    BY <1>4, <2>1 DEF FinishRun, Run
<1>5. ASSUME NEW i \in ItemIds, NEW c \in Clients, AdmitAndQueue(i, c)
      PROVE  StoreTypeOK'
  <2>1. PICK m \in RowPositions \cup {0} :
           queue' = [queue EXCEPT ![i] = [status |-> "pending", client |-> c,
                                          version |-> 0, position |-> m + 1]]
    BY <1>5 DEF AdmitAndQueue, InsertItem
  <2>2. m \in Int
    BY DEF RowPositions, Row
  <2> QED
    BY <1>5, <2>1, <2>2 DEF AdmitAndQueue, Accept, Row
<1>6. ASSUME NEW i \in ItemIds, ClaimNext(i)
      PROVE  StoreTypeOK'
  BY <1>6 DEF ClaimNext, Row
<1>7. ASSUME NEW i \in ItemIds, EditItem(i) \/ RemoveItem(i)
      PROVE  StoreTypeOK'
  BY <1>7 DEF EditItem, RemoveItem, Row
<1>8. ASSUME NEW i \in ItemIds, MoveToHead(i)
      PROVE  StoreTypeOK'
  <2>1. PICK m \in PendingPositions \cup {0} :
           queue' = [queue EXCEPT ![i].position = m - 1]
    BY <1>8 DEF MoveToHead
  <2>2. m \in Int
    BY DEF PendingPositions, Row
  <2> QED
    BY <1>8, <2>1, <2>2 DEF MoveToHead, Row
<1>9. ASSUME NEW k \in claims, LoseClaim(k)
      PROVE  StoreTypeOK'
  BY <1>9 DEF LoseClaim
<1>10. CASE Restart
  <2>1. runs' \in [RunIds -> Run]
    <3>1. ASSUME NEW r \in RunIds
          PROVE  [runs[r] EXCEPT !.status = "interrupted", !.completions = @ + 1] \in Run
      <4>1. runs[r] \in Run
        OBVIOUS
      <4>2. runs[r].completions + 1 \in Nat
        BY <4>1 DEF Run
      <4> QED
        BY <4>1, <4>2 DEF Run, TerminalStatus
    <3> QED
      BY <1>10, <3>1 DEF Restart
  <2>2. queue' \in [ItemIds -> Row]
    BY <1>10 DEF Restart, ResetClaims, Row
  <2> QED
    BY <1>10, <2>1, <2>2 DEF Restart
<1>11. CASE UNCHANGED storeVars
  BY <1>11 DEF storeVars
<1> QED
  BY <1>1, <1>2, <1>3, <1>4, <1>5, <1>6, <1>7, <1>8, <1>9, <1>10, <1>11
     DEF StoreNext, Clients

\* The tables stay well formed under every interleaving of the store's methods.
THEOREM StoreTypeCorrect == StoreSpec => []StoreTypeOK
BY TypeInit, TypeStep, PTL DEF StoreSpec

-----------------------------------------------------------------------------
(* The invariant is inductive. *)

LEMMA InvInit == StoreInit => StoreInv
<1> SUFFICES ASSUME StoreInit PROVE StoreInv
  OBVIOUS
<1>1. StoreTypeOK
  BY TypeInit
<1>2. \A r \in RunIds : runs[r].status = "none" /\ runs[r].completions = 0
  BY DEF StoreInit, NewRun
<1>3. \A i \in ItemIds : queue[i].status = "none"
  BY DEF StoreInit
<1> QED
  BY <1>1, <1>2, <1>3
     DEF StoreInv, StoreInit, CompletedOnce, RowsArePrefix, ClaimsAreClaimed, PositionsInOrder,
         ActiveRunMatchesItem, OneDrainPerItem, RowOwnsItsClient, SameSendSameItem,
         ClaimedIsExplained, AcceptedIsRecorded, IsTerminal, TerminalStatus, IsActive,
         ActiveStatus, IsRow, Inserted

\* What a restart does to one row of each table.
LEMMA RestartRows ==
    ASSUME StoreTypeOK, Restart
    PROVE  /\ \A r \in RunIds :
                 /\ runs'[r].client = runs[r].client
                 /\ runs'[r].item = runs[r].item
                 /\ IsActive(r) => /\ runs'[r].status = "interrupted"
                                   /\ runs'[r].completions = runs[r].completions + 1
                 /\ ~IsActive(r) => runs'[r] = runs[r]
           /\ \A i \in ItemIds :
                 /\ queue'[i].client = queue[i].client
                 /\ queue'[i].position = queue[i].position
                 /\ queue'[i].status = IF queue[i].status = "claimed" THEN "pending"
                                       ELSE queue[i].status
           /\ claims' = {} /\ accepted' = accepted /\ steered' = steered
<1>1. ASSUME NEW r \in RunIds
      PROVE  /\ runs'[r].client = runs[r].client
             /\ runs'[r].item = runs[r].item
             /\ IsActive(r) => /\ runs'[r].status = "interrupted"
                               /\ runs'[r].completions = runs[r].completions + 1
             /\ ~IsActive(r) => runs'[r] = runs[r]
  <2>1. runs[r] \in Run
    BY DEF StoreTypeOK
  <2>2. runs'[r] = IF IsActive(r) THEN [runs[r] EXCEPT !.status = "interrupted",
                                                      !.completions = @ + 1]
                   ELSE runs[r]
    BY DEF Restart
  <2> QED
    BY <2>1, <2>2 DEF Run
<1>2. ASSUME NEW i \in ItemIds
      PROVE  /\ queue'[i].client = queue[i].client
             /\ queue'[i].position = queue[i].position
             /\ queue'[i].status = IF queue[i].status = "claimed" THEN "pending"
                                   ELSE queue[i].status
  BY DEF Restart, ResetClaims, StoreTypeOK, Row
<1> QED
  BY <1>1, <1>2 DEF Restart

LEMMA InvStep == StoreInv /\ [StoreNext]_storeVars => StoreInv'
<1> SUFFICES ASSUME StoreInv, [StoreNext]_storeVars PROVE StoreInv'
  OBVIOUS
<1>0. StoreTypeOK'
  BY TypeStep DEF StoreInv
<1> USE <1>0 DEF StoreInv, StoreTypeOK, Run, Row
<1>1. ASSUME NEW r \in RunIds, NEW c \in PlainIds \cup {NoClient}, AdmitAndStart(r, c)
      PROVE  StoreInv'
  <2>1. CompletedOnce'
    BY <1>1 DEF AdmitAndStart, IsNewSend, HasActiveRun, KnownRun, KnownItem, Accept,
       InsertRun, FreshRun, NewRun, IsActive, ActiveStatus, Inserted, CompletedOnce,
       IsTerminal, TerminalStatus
  <2>2. RowsArePrefix' /\ ClaimsAreClaimed' /\ PositionsInOrder'
    BY <1>1 DEF AdmitAndStart, IsNewSend, HasActiveRun, KnownRun, KnownItem, Accept,
       InsertRun, FreshRun, NewRun, IsActive, ActiveStatus, Inserted, RowsArePrefix,
       ItemIds, ClaimsAreClaimed, OneDrainPerItem, PositionsInOrder, IsRow
  <2>3. ActiveRunMatchesItem'
    BY <1>1 DEF AdmitAndStart, IsNewSend, HasActiveRun, KnownRun, KnownItem, Accept,
       InsertRun, FreshRun, NewRun, IsActive, ActiveStatus, Inserted,
       ActiveRunMatchesItem, ClaimsAreClaimed, NoItem
  <2>4. OneDrainPerItem'
    BY <1>1 DEF AdmitAndStart, IsNewSend, HasActiveRun, KnownRun, KnownItem, Accept,
       InsertRun, FreshRun, NewRun, IsActive, ActiveStatus, Inserted, OneDrainPerItem,
       ActiveRunMatchesItem, ClaimsAreClaimed, NoItem, ItemIds
  <2>5. RowOwnsItsClient'
    BY <1>1 DEF AdmitAndStart, IsNewSend, HasActiveRun, KnownRun, KnownItem, Accept,
       InsertRun, FreshRun, NewRun, IsActive, ActiveStatus, Inserted, RowOwnsItsClient,
       IsRow, NoItem, ItemIds
  <2>6. SameSendSameItem'
    BY <1>1 DEF AdmitAndStart, IsNewSend, HasActiveRun, KnownRun, KnownItem, Accept,
       InsertRun, FreshRun, NewRun, IsActive, ActiveStatus, Inserted, SameSendSameItem,
       RowOwnsItsClient, IsRow, ClaimsAreClaimed, NoItem, ItemIds
  <2>7. ClaimedIsExplained'
    BY <1>1 DEF AdmitAndStart, IsNewSend, HasActiveRun, KnownRun, KnownItem, Accept,
       InsertRun, FreshRun, NewRun, IsActive, ActiveStatus, Inserted,
       ClaimedIsExplained, ClaimsAreClaimed
  <2>8. AcceptedIsRecorded'
    BY <1>1 DEF AdmitAndStart, IsNewSend, HasActiveRun, KnownRun, KnownItem, Accept,
       InsertRun, FreshRun, NewRun, IsActive, ActiveStatus, Inserted, AcceptedIsRecorded
  <2> QED
    BY <2>1, <2>2, <2>3, <2>4, <2>5, <2>6, <2>7, <2>8
<1>2. ASSUME NEW r \in RunIds, NEW c \in DraftIds \cup {NoClient}, StartOrRefuse(r, c)
      PROVE  StoreInv'
  <2>1. CompletedOnce'
    BY <1>2 DEF StartOrRefuse, HasActiveRun, KnownRun, Accept, InsertRun, FreshRun,
       NewRun, IsActive, ActiveStatus, Inserted, CompletedOnce, IsTerminal,
       TerminalStatus
  <2>2. RowsArePrefix' /\ ClaimsAreClaimed' /\ PositionsInOrder'
    BY <1>2 DEF StartOrRefuse, HasActiveRun, KnownRun, Accept, InsertRun, FreshRun,
       NewRun, IsActive, ActiveStatus, Inserted, RowsArePrefix, ItemIds,
       ClaimsAreClaimed, OneDrainPerItem, PositionsInOrder, IsRow
  <2>3. ActiveRunMatchesItem'
    BY <1>2 DEF StartOrRefuse, HasActiveRun, KnownRun, Accept, InsertRun, FreshRun,
       NewRun, IsActive, ActiveStatus, Inserted, ActiveRunMatchesItem, ClaimsAreClaimed,
       NoItem
  <2>4. OneDrainPerItem'
    BY <1>2 DEF StartOrRefuse, HasActiveRun, KnownRun, Accept, InsertRun, FreshRun,
       NewRun, IsActive, ActiveStatus, Inserted, OneDrainPerItem, ActiveRunMatchesItem,
       ClaimsAreClaimed, NoItem, ItemIds
  <2>5. RowOwnsItsClient'
    BY <1>2, IdAssumption DEF StartOrRefuse, HasActiveRun, KnownRun, Accept, InsertRun,
       FreshRun, NewRun, IsActive, ActiveStatus, Inserted, RowOwnsItsClient, IsRow,
       NoItem, ItemIds
  <2>6. SameSendSameItem'
    BY <1>2, IdAssumption DEF StartOrRefuse, HasActiveRun, KnownRun, Accept, InsertRun,
       FreshRun, NewRun, IsActive, ActiveStatus, Inserted, SameSendSameItem,
       RowOwnsItsClient, IsRow, ClaimsAreClaimed, NoItem, ItemIds
  <2>7. ClaimedIsExplained'
    BY <1>2 DEF StartOrRefuse, HasActiveRun, KnownRun, Accept, InsertRun, FreshRun,
       NewRun, IsActive, ActiveStatus, Inserted, ClaimedIsExplained, ClaimsAreClaimed
  <2>8. AcceptedIsRecorded'
    BY <1>2 DEF StartOrRefuse, HasActiveRun, KnownRun, Accept, InsertRun, FreshRun,
       NewRun, IsActive, ActiveStatus, Inserted, AcceptedIsRecorded
  <2> QED
    BY <2>1, <2>2, <2>3, <2>4, <2>5, <2>6, <2>7, <2>8
<1>3. ASSUME NEW r \in RunIds, NEW k \in claims, StartClaimed(r, k)
      PROVE  StoreInv'
  <2>1. CompletedOnce'
    BY <1>3 DEF StartClaimed, InsertRun, FreshRun, NewRun, Inserted, CompletedOnce,
       IsTerminal, TerminalStatus
  <2>2. RowsArePrefix' /\ ClaimsAreClaimed' /\ PositionsInOrder'
    BY <1>3 DEF StartClaimed, InsertRun, FreshRun, NewRun, Inserted, RowsArePrefix,
       ItemIds, ClaimsAreClaimed, OneDrainPerItem, PositionsInOrder, IsRow
  <2>3. ActiveRunMatchesItem'
    BY <1>3 DEF StartClaimed, InsertRun, FreshRun, NewRun, Inserted,
       ActiveRunMatchesItem, ClaimsAreClaimed, IsActive, ActiveStatus, NoItem
  <2>4. OneDrainPerItem'
    BY <1>3 DEF StartClaimed, InsertRun, FreshRun, NewRun, Inserted, OneDrainPerItem,
       ActiveRunMatchesItem, ClaimsAreClaimed, IsActive, ActiveStatus, NoItem, ItemIds
  <2>5. RowOwnsItsClient'
    <3>1. k.item \in ItemIds /\ IsRow(k.item)
      BY DEF ClaimsAreClaimed, IsRow
    <3>2. \A j \in ItemIds :
             IsRow(j) /\ queue[j].client = queue[k.item].client
                => j = k.item \/ queue[j].client = NoClient
      BY <3>1 DEF RowOwnsItsClient
    <3>3. ~Inserted(r) /\ queue' = queue
          /\ runs' = [runs EXCEPT ![r] = NewRun(queue[k.item].client, k.version, k.item)]
      BY <1>3 DEF StartClaimed, InsertRun, FreshRun
    <3> QED
      BY <3>1, <3>2, <3>3 DEF NewRun, RowOwnsItsClient, IsRow, Inserted
  <2>6. SameSendSameItem'
    BY <1>3 DEF StartClaimed, InsertRun, FreshRun, NewRun, Inserted, SameSendSameItem,
       RowOwnsItsClient, IsRow, ClaimsAreClaimed, NoItem, ItemIds
  <2>7. ClaimedIsExplained'
    <3>1. /\ Inserted(r)' /\ ~Inserted(r)
          /\ runs'[r].item = k.item /\ runs'[r].client = queue[k.item].client
          /\ \A q \in RunIds \ {r} : runs'[q] = runs[q]
          /\ queue' = queue /\ dropped' = dropped /\ claims' = claims \ {k}
      BY <1>3 DEF StartClaimed, InsertRun, FreshRun, NewRun, Inserted
    <3>2. ASSUME NEW i \in ItemIds, queue[i].status = "claimed", i # k.item
          PROVE  \/ \E h \in claims' : h.item = i
                 \/ i \in dropped
                 \/ \E q \in RunIds : Inserted(q)' /\ runs'[q].item = i
                                        /\ runs'[q].client = queue[i].client
      BY <3>1, <3>2 DEF ClaimedIsExplained, Inserted
    <3> QED
      BY <3>1, <3>2 DEF ClaimedIsExplained, Inserted
  <2>8. AcceptedIsRecorded'
    BY <1>3 DEF StartClaimed, InsertRun, FreshRun, NewRun, Inserted, AcceptedIsRecorded
  <2> QED
    BY <2>1, <2>2, <2>3, <2>4, <2>5, <2>6, <2>7, <2>8
<1>4. ASSUME NEW r \in RunIds, NEW s \in ActiveStatus, SetRunStatus(r, s)
      PROVE  StoreInv'
  <2>1. CompletedOnce'
    BY <1>4 DEF SetRunStatus, MayChangeStatus, IsActive, ActiveStatus, CompletedOnce,
       IsTerminal, TerminalStatus
  <2>2. RowsArePrefix' /\ ClaimsAreClaimed' /\ PositionsInOrder'
    BY <1>4 DEF SetRunStatus, MayChangeStatus, IsActive, ActiveStatus, RowsArePrefix,
       ItemIds, ClaimsAreClaimed, OneDrainPerItem, PositionsInOrder, IsRow
  <2>3. ActiveRunMatchesItem'
    BY <1>4 DEF SetRunStatus, MayChangeStatus, IsActive, ActiveStatus,
       ActiveRunMatchesItem, ClaimsAreClaimed, NoItem
  <2>4. OneDrainPerItem'
    BY <1>4 DEF SetRunStatus, MayChangeStatus, IsActive, ActiveStatus, OneDrainPerItem,
       ActiveRunMatchesItem, ClaimsAreClaimed, NoItem, ItemIds
  <2>5. RowOwnsItsClient' /\ SameSendSameItem'
    BY <1>4 DEF SetRunStatus, MayChangeStatus, IsActive, ActiveStatus, RowOwnsItsClient,
       IsRow, Inserted, NoItem, ItemIds, SameSendSameItem, ClaimsAreClaimed
  <2>6. ClaimedIsExplained' /\ AcceptedIsRecorded'
    BY <1>4 DEF SetRunStatus, MayChangeStatus, IsActive, ActiveStatus,
       ClaimedIsExplained, Inserted, ClaimsAreClaimed, AcceptedIsRecorded
  <2> QED
    BY <2>1, <2>2, <2>3, <2>4, <2>5, <2>6
<1>5. ASSUME NEW r \in RunIds, NEW s \in Outcomes, FinishRun(r, s)
      PROVE  StoreInv'
  <2>1. CompletedOnce'
    BY <1>5, OutcomeAssumption DEF FinishRun, MayChangeStatus, IsActive, ActiveStatus,
       TerminalStatus, CompletedOnce, IsTerminal
  <2>2. RowsArePrefix' /\ ClaimsAreClaimed' /\ PositionsInOrder'
    BY <1>5 DEF FinishRun, MayChangeStatus, IsActive, ActiveStatus, TerminalStatus,
       RowsArePrefix, ItemIds, ClaimsAreClaimed, OneDrainPerItem, PositionsInOrder,
       IsRow
  <2>3. ActiveRunMatchesItem'
    BY <1>5 DEF FinishRun, MayChangeStatus, IsActive, ActiveStatus, TerminalStatus,
       ActiveRunMatchesItem, ClaimsAreClaimed, NoItem
  <2>4. OneDrainPerItem'
    BY <1>5 DEF FinishRun, MayChangeStatus, IsActive, ActiveStatus, TerminalStatus,
       OneDrainPerItem, ActiveRunMatchesItem, ClaimsAreClaimed, NoItem, ItemIds
  <2>5. /\ RowOwnsItsClient'
       /\ SameSendSameItem'
       /\ ClaimedIsExplained'
       /\ AcceptedIsRecorded'
    BY <1>5 DEF FinishRun, MayChangeStatus, IsActive, ActiveStatus, TerminalStatus,
       RowOwnsItsClient, IsRow, Inserted, NoItem, ItemIds, SameSendSameItem,
       ClaimsAreClaimed, ClaimedIsExplained, AcceptedIsRecorded
  <2> QED
    BY <2>1, <2>2, <2>3, <2>4, <2>5
<1>6. ASSUME NEW i \in ItemIds, NEW c \in PlainIds \cup {NoClient}, AdmitAndQueue(i, c)
      PROVE  StoreInv'
  <2>1. CompletedOnce' /\ SameSendSameItem'
    BY <1>6 DEF AdmitAndQueue, InsertItem, FreshItem, IsNewSend, KnownRun, KnownItem,
       Accept, CompletedOnce, IsTerminal, TerminalStatus, SameSendSameItem,
       RowOwnsItsClient, IsRow, ClaimsAreClaimed, Inserted, NoItem, ItemIds
  <2>2. RowsArePrefix'
    BY <1>6 DEF AdmitAndQueue, InsertItem, FreshItem, IsNewSend, KnownRun, KnownItem,
       Accept, RowsArePrefix, ItemIds
  <2>3. ClaimsAreClaimed'
    BY <1>6 DEF AdmitAndQueue, InsertItem, FreshItem, IsNewSend, KnownRun, KnownItem,
       Accept, ClaimsAreClaimed, OneDrainPerItem
  <2>4. PositionsInOrder'
    <3>1. PICK m \in RowPositions \cup {0} :
             /\ IsMaxPosition(m)
             /\ queue' = [queue EXCEPT ![i] = [status |-> "pending", client |-> c,
                                               version |-> 0, position |-> m + 1]]
      BY <1>6 DEF AdmitAndQueue, InsertItem
    <3>2. m \in Int
      BY DEF RowPositions
    <3>3. ASSUME NEW j \in ItemIds, IsRow(j)
          PROVE  queue[j].position <= m
      <4>1. queue[j].position \in RowPositions
        BY <3>3 DEF RowPositions
      <4> QED
        BY <3>1, <4>1 DEF IsMaxPosition
    <3>4. \A j \in ItemIds : i < j => queue[j].status = "none"
      BY <1>6 DEF AdmitAndQueue, InsertItem, FreshItem, RowsArePrefix
    <3>5. steered' = steered
      BY <1>6 DEF AdmitAndQueue
    <3>6. /\ queue'[i].position = m + 1
          /\ \A j \in ItemIds \ {i} : queue'[j] = queue[j]
      BY <3>1
    <3>7. \A j \in ItemIds : queue[j].position \in Int
      OBVIOUS
    <3> QED
      BY <3>2, <3>3, <3>4, <3>5, <3>6, <3>7 DEF PositionsInOrder, IsRow, ItemIds
  <2>5. ActiveRunMatchesItem'
    BY <1>6 DEF AdmitAndQueue, InsertItem, FreshItem, IsNewSend, KnownRun, KnownItem,
       Accept, ActiveRunMatchesItem, ClaimsAreClaimed, IsActive, ActiveStatus, NoItem
  <2>6. OneDrainPerItem'
    BY <1>6 DEF AdmitAndQueue, InsertItem, FreshItem, IsNewSend, KnownRun, KnownItem,
       Accept, OneDrainPerItem, ActiveRunMatchesItem, ClaimsAreClaimed, IsActive,
       ActiveStatus, NoItem, ItemIds
  <2>7. RowOwnsItsClient'
    <3>1. /\ queue'[i].status = "pending" /\ queue'[i].client = c
          /\ \A j \in ItemIds \ {i} : queue'[j] = queue[j]
          /\ runs' = runs
      BY <1>6 DEF AdmitAndQueue, InsertItem
    <3>2. c # NoClient =>
             /\ \A r \in RunIds : Inserted(r) => runs[r].client # c
             /\ \A j \in ItemIds : IsRow(j) => queue[j].client # c
      BY <1>6 DEF AdmitAndQueue, IsNewSend, KnownRun, KnownItem
    <3> QED
      BY <3>1, <3>2 DEF RowOwnsItsClient, IsRow, Inserted
  <2>8. ClaimedIsExplained'
    BY <1>6 DEF AdmitAndQueue, InsertItem, FreshItem, IsNewSend, KnownRun, KnownItem,
       Accept, ClaimedIsExplained, Inserted, ClaimsAreClaimed
  <2>9. AcceptedIsRecorded'
    BY <1>6 DEF AdmitAndQueue, InsertItem, FreshItem, IsNewSend, KnownRun, KnownItem,
       Accept, AcceptedIsRecorded, Inserted
  <2> QED
    BY <2>1, <2>2, <2>3, <2>4, <2>5, <2>6, <2>7, <2>8, <2>9
<1>7. ASSUME NEW i \in ItemIds, ClaimNext(i)
      PROVE  StoreInv'
  <2>1. CompletedOnce' /\ SameSendSameItem'
    <3>1. runs' = runs BY <1>7 DEF ClaimNext
    <3> QED
      BY <3>1 DEF CompletedOnce, IsTerminal, SameSendSameItem, Inserted
  <2>2. /\ RowsArePrefix'
       /\ PositionsInOrder'
       /\ RowOwnsItsClient'
       /\ AcceptedIsRecorded'
    <3>1. /\ runs' = runs /\ accepted' = accepted /\ steered' = steered
          /\ \A j \in ItemIds : /\ queue'[j].status = "none" <=> queue[j].status = "none"
                                /\ IsRow(j)' <=> IsRow(j)
                                /\ queue'[j].client = queue[j].client
                                /\ queue'[j].position = queue[j].position
      BY <1>7 DEF ClaimNext, IsHead, IsPending, IsRow
    <3>2. RowsArePrefix' BY <3>1 DEF RowsArePrefix
    <3>3. PositionsInOrder' BY <3>1 DEF PositionsInOrder
    <3>4. RowOwnsItsClient' BY <3>1 DEF RowOwnsItsClient, Inserted
    <3>5. AcceptedIsRecorded' BY <3>1 DEF AcceptedIsRecorded, Inserted
    <3> QED
      BY <3>2, <3>3, <3>4, <3>5
  <2>3. ClaimsAreClaimed'
    BY <1>7 DEF ClaimNext, IsHead, IsPending, ClaimsAreClaimed, OneDrainPerItem
  <2>4. ActiveRunMatchesItem'
    BY <1>7 DEF ClaimNext, IsHead, IsPending, ActiveRunMatchesItem, ClaimsAreClaimed,
       IsActive, ActiveStatus, NoItem
  <2>5. OneDrainPerItem'
    BY <1>7 DEF ClaimNext, IsHead, IsPending, OneDrainPerItem, ActiveRunMatchesItem,
       ClaimsAreClaimed, IsActive, ActiveStatus, NoItem, ItemIds
  <2>6. ClaimedIsExplained'
    <3>1. [item |-> i, version |-> queue[i].version] \in claims' /\ claims \subseteq claims'
      BY <1>7 DEF ClaimNext
    <3>2. /\ \A j \in ItemIds \ {i} : queue'[j] = queue[j]
          /\ runs' = runs /\ dropped' = dropped
      BY <1>7 DEF ClaimNext
    <3> QED
      BY <3>1, <3>2 DEF ClaimedIsExplained, Inserted
  <2> QED
    BY <2>1, <2>2, <2>3, <2>4, <2>5, <2>6
<1>8. ASSUME NEW i \in ItemIds, EditItem(i)
      PROVE  StoreInv'
  <2>1. CompletedOnce' /\ SameSendSameItem'
    <3>1. runs' = runs BY <1>8 DEF EditItem
    <3> QED
      BY <3>1 DEF CompletedOnce, IsTerminal, SameSendSameItem, Inserted
  <2>2. /\ RowsArePrefix'
       /\ PositionsInOrder'
       /\ RowOwnsItsClient'
       /\ ClaimedIsExplained'
       /\ AcceptedIsRecorded'
    <3>1. /\ runs' = runs /\ accepted' = accepted /\ steered' = steered
          /\ claims' = claims /\ dropped' = dropped
          /\ \A j \in ItemIds : /\ queue'[j].status = queue[j].status
                                /\ queue'[j].client = queue[j].client
                                /\ queue'[j].position = queue[j].position
      BY <1>8 DEF EditItem
    <3>2. RowsArePrefix' BY <3>1 DEF RowsArePrefix
    <3>3. PositionsInOrder' BY <3>1 DEF PositionsInOrder, IsRow
    <3>4. RowOwnsItsClient' BY <3>1 DEF RowOwnsItsClient, IsRow, Inserted
    <3>5. ClaimedIsExplained' BY <3>1 DEF ClaimedIsExplained, Inserted
    <3>6. AcceptedIsRecorded' BY <3>1 DEF AcceptedIsRecorded, Inserted
    <3> QED
      BY <3>2, <3>3, <3>4, <3>5, <3>6
  <2>3. ClaimsAreClaimed'
    BY <1>8 DEF EditItem, Editable, IsPending, ClaimsAreClaimed, OneDrainPerItem
  <2>4. ActiveRunMatchesItem'
    BY <1>8 DEF EditItem, Editable, IsPending, ActiveRunMatchesItem, ClaimsAreClaimed,
       IsActive, ActiveStatus, NoItem
  <2>5. OneDrainPerItem'
    BY <1>8 DEF EditItem, Editable, IsPending, OneDrainPerItem, ActiveRunMatchesItem,
       ClaimsAreClaimed, IsActive, ActiveStatus, NoItem, ItemIds
  <2> QED
    BY <2>1, <2>2, <2>3, <2>4, <2>5
<1>9. ASSUME NEW i \in ItemIds, RemoveItem(i)
      PROVE  StoreInv'
  <2>1. CompletedOnce' /\ SameSendSameItem'
    <3>1. runs' = runs BY <1>9 DEF RemoveItem
    <3> QED
      BY <3>1 DEF CompletedOnce, IsTerminal, SameSendSameItem, Inserted
  <2>2. RowsArePrefix'
    BY <1>9 DEF RemoveItem, Editable, IsPending, RowsArePrefix, ItemIds
  <2>3. ClaimsAreClaimed'
    BY <1>9 DEF RemoveItem, Editable, IsPending, ClaimsAreClaimed, OneDrainPerItem
  <2>4. PositionsInOrder'
    BY <1>9 DEF RemoveItem, Editable, IsPending, PositionsInOrder, IsRow, RowsArePrefix,
       ItemIds
  <2>5. ActiveRunMatchesItem'
    BY <1>9 DEF RemoveItem, Editable, IsPending, ActiveRunMatchesItem, ClaimsAreClaimed,
       IsActive, ActiveStatus, NoItem
  <2>6. OneDrainPerItem'
    BY <1>9 DEF RemoveItem, Editable, IsPending, OneDrainPerItem, ActiveRunMatchesItem,
       ClaimsAreClaimed, IsActive, ActiveStatus, NoItem, ItemIds
  <2>7. RowOwnsItsClient'
    BY <1>9 DEF RemoveItem, Editable, IsPending, RowOwnsItsClient, IsRow, Inserted,
       NoItem, ItemIds
  <2>8. ClaimedIsExplained'
    BY <1>9 DEF RemoveItem, Editable, IsPending, ClaimedIsExplained, Inserted,
       ClaimsAreClaimed
  <2>9. AcceptedIsRecorded'
    BY <1>9 DEF RemoveItem, Editable, IsPending, AcceptedIsRecorded, Inserted
  <2> QED
    BY <2>1, <2>2, <2>3, <2>4, <2>5, <2>6, <2>7, <2>8, <2>9
<1>10. ASSUME NEW i \in ItemIds, MoveToHead(i)
      PROVE  StoreInv'
  <2>1. CompletedOnce' /\ SameSendSameItem'
    <3>1. runs' = runs BY <1>10 DEF MoveToHead
    <3> QED
      BY <3>1 DEF CompletedOnce, IsTerminal, SameSendSameItem, Inserted
  <2>2. /\ RowsArePrefix'
       /\ RowOwnsItsClient'
       /\ ClaimedIsExplained'
       /\ AcceptedIsRecorded'
    <3>1. /\ runs' = runs /\ accepted' = accepted /\ claims' = claims /\ dropped' = dropped
          /\ \A j \in ItemIds : /\ queue'[j].status = queue[j].status
                                /\ queue'[j].client = queue[j].client
      BY <1>10 DEF MoveToHead
    <3>2. RowsArePrefix' BY <3>1 DEF RowsArePrefix
    <3>3. RowOwnsItsClient' BY <3>1 DEF RowOwnsItsClient, IsRow, Inserted
    <3>4. ClaimedIsExplained' BY <3>1 DEF ClaimedIsExplained, Inserted
    <3>5. AcceptedIsRecorded' BY <3>1 DEF AcceptedIsRecorded, Inserted
    <3> QED
      BY <3>2, <3>3, <3>4, <3>5
  <2>3. ClaimsAreClaimed' /\ ActiveRunMatchesItem' /\ OneDrainPerItem'
    BY <1>10 DEF MoveToHead, Editable, IsPending, ClaimsAreClaimed, OneDrainPerItem,
       ActiveRunMatchesItem, IsActive, ActiveStatus, NoItem, ItemIds
  <2>4. PositionsInOrder'
    <3>1. PICK m \in PendingPositions \cup {0} :
             IsMinPosition(m) /\ queue' = [queue EXCEPT ![i].position = m - 1]
      BY <1>10 DEF MoveToHead
    <3>2. m \in Int /\ m <= queue[i].position
      <4>1. queue[i].position \in PendingPositions
        BY <1>10 DEF MoveToHead, Editable, PendingPositions
      <4>2. m \in Int
        BY DEF PendingPositions
      <4>3. m <= queue[i].position
        BY <3>1, <4>1 DEF IsMinPosition
      <4> QED
        BY <4>2, <4>3
    <3>3. steered' = steered \cup {i} /\ IsRow(i)
      BY <1>10 DEF MoveToHead, Editable, IsPending, IsRow
    <3> QED
      BY <3>1, <3>2, <3>3 DEF PositionsInOrder, IsRow, ItemIds
  <2> QED
    BY <2>1, <2>2, <2>3, <2>4
<1>11. ASSUME NEW k \in claims, LoseClaim(k)
      PROVE  StoreInv'
  <2>1. /\ CompletedOnce'
       /\ RowsArePrefix'
       /\ ClaimsAreClaimed'
       /\ PositionsInOrder'
       /\ ActiveRunMatchesItem'
       /\ OneDrainPerItem'
       /\ RowOwnsItsClient'
       /\ SameSendSameItem'
       /\ AcceptedIsRecorded'
    BY <1>11 DEF LoseClaim, CompletedOnce, IsTerminal, TerminalStatus, RowsArePrefix,
       ItemIds, ClaimsAreClaimed, OneDrainPerItem, PositionsInOrder, IsRow,
       ActiveRunMatchesItem, IsActive, ActiveStatus, NoItem, RowOwnsItsClient, Inserted,
       SameSendSameItem, AcceptedIsRecorded
  <2>2. ClaimedIsExplained'
    BY <1>11 DEF LoseClaim, ClaimedIsExplained, Inserted, ClaimsAreClaimed
  <2> QED
    BY <2>1, <2>2
<1>12. CASE Restart
  <2>0. StoreTypeOK
    OBVIOUS
  <2>1. CompletedOnce'
    BY <1>12, <2>0, RestartRows DEF CompletedOnce, IsTerminal, TerminalStatus, IsActive,
       ActiveStatus
  <2>2. RowsArePrefix'
    BY <1>12, <2>0, RestartRows DEF RowsArePrefix, ItemIds, IsActive, ActiveStatus
  <2>3. ClaimsAreClaimed'
    BY <1>12, <2>0, RestartRows DEF ClaimsAreClaimed, OneDrainPerItem, IsActive,
       ActiveStatus
  <2>4. PositionsInOrder'
    BY <1>12, <2>0, RestartRows DEF PositionsInOrder, IsRow, RowsArePrefix, ItemIds,
       IsActive, ActiveStatus
  <2>5. ActiveRunMatchesItem'
    BY <1>12, <2>0, RestartRows DEF ActiveRunMatchesItem, ClaimsAreClaimed, IsActive,
       ActiveStatus, NoItem
  <2>6. OneDrainPerItem'
    BY <1>12, <2>0, RestartRows DEF OneDrainPerItem, ActiveRunMatchesItem,
       ClaimsAreClaimed, IsActive, ActiveStatus, NoItem, ItemIds
  <2>7. RowOwnsItsClient'
    <3>1. /\ \A r \in RunIds : Inserted(r)' <=> Inserted(r)
          /\ \A i \in ItemIds : IsRow(i)' <=> IsRow(i)
      BY <1>12, <2>0, RestartRows DEF Inserted, IsRow, IsActive, ActiveStatus
    <3> QED
      BY <1>12, <2>0, <3>1, RestartRows DEF RowOwnsItsClient
  <2>8. SameSendSameItem'
    <3>1. \A r \in RunIds : /\ Inserted(r)' <=> Inserted(r)
                             /\ runs'[r].client = runs[r].client
                             /\ runs'[r].item = runs[r].item
      BY <1>12, <2>0, RestartRows DEF Inserted, IsActive, ActiveStatus
    <3> QED
      BY <3>1 DEF SameSendSameItem
  <2>9. ClaimedIsExplained'
    BY <1>12, <2>0, RestartRows DEF ClaimedIsExplained, Inserted, ClaimsAreClaimed,
       IsActive, ActiveStatus
  <2>10. AcceptedIsRecorded'
    BY <1>12, <2>0, RestartRows DEF AcceptedIsRecorded, Inserted, IsActive, ActiveStatus
  <2> QED
    BY <2>1, <2>2, <2>3, <2>4, <2>5, <2>6, <2>7, <2>8, <2>9, <2>10
<1>13. CASE UNCHANGED storeVars
  <2>1. /\ CompletedOnce'
       /\ RowsArePrefix'
       /\ ClaimsAreClaimed'
       /\ PositionsInOrder'
       /\ ActiveRunMatchesItem'
       /\ OneDrainPerItem'
       /\ RowOwnsItsClient'
       /\ SameSendSameItem'
       /\ ClaimedIsExplained'
       /\ AcceptedIsRecorded'
    BY <1>13 DEF storeVars, CompletedOnce, IsTerminal, TerminalStatus, RowsArePrefix,
       ItemIds, ClaimsAreClaimed, OneDrainPerItem, PositionsInOrder, IsRow,
       ActiveRunMatchesItem, IsActive, ActiveStatus, NoItem, RowOwnsItsClient, Inserted,
       SameSendSameItem, ClaimedIsExplained, AcceptedIsRecorded
  <2> QED
    BY <2>1
<1> QED
  BY <1>1, <1>2, <1>3, <1>4, <1>5, <1>6, <1>7, <1>8, <1>9, <1>10, <1>11, <1>12, <1>13 DEF StoreNext

THEOREM StoreInvariant == StoreSpec => []StoreInv
BY InvInit, InvStep, PTL DEF StoreSpec

-----------------------------------------------------------------------------
(* What the invariant gives. *)

\* ADR 0210: however many enders race for a run (the turn, a cancel, a failing
\* actor, a restart), it records exactly one terminal event.
THEOREM OneTerminalEvent == StoreSpec => []CompletedOnce
<1>1. StoreInv => CompletedOnce
  BY DEF StoreInv
<1> QED
  BY <1>1, StoreInvariant, PTL

\* A live run shows the content of the claimed row it came from: the edit,
\* remove and move methods never touch a row that is already running.
THEOREM LiveRunsAreClaimed == StoreSpec => []ActiveRunMatchesItem
<1>1. StoreInv => ActiveRunMatchesItem
  BY DEF StoreInv
<1> QED
  BY <1>1, StoreInvariant, PTL

\* The three claimers of claim_next_queued_prompt never run one item twice at
\* the same time.
THEOREM ItemsDrainOnce == StoreSpec => []OneDrainPerItem
<1>1. StoreInv => OneDrainPerItem
  BY DEF StoreInv
<1> QED
  BY <1>1, StoreInvariant, PTL

\* start_prompt_or_enqueue never makes a second run of a client message id.
THEOREM AdmissionIsIdempotent == StoreSpec => []SameSendSameItem
<1>1. StoreInv => SameSendSameItem
  BY DEF StoreInv
<1> QED
  BY <1>1, StoreInvariant, PTL

\* An acknowledged prompt is never lost, across claims that fail and restarts.
THEOREM AcknowledgedPromptsAreKept == StoreSpec => []PromptKept
<1>1. StoreInv => PromptKept
  <2> SUFFICES ASSUME StoreInv, NEW c \in accepted, KnownRun(c) = {}
               PROVE  \E i \in ItemIds :
                        /\ queue[i].client = c
                        /\ \/ queue[i].status \in {"pending", "deleted"}
                           \/ queue[i].status = "claimed" /\ \E k \in claims : k.item = i
                           \/ queue[i].status = "claimed" /\ i \in dropped
    BY DEF PromptKept
  <2>1. \A r \in RunIds : Inserted(r) => runs[r].client # c
    BY DEF KnownRun, StoreInv, AcceptedIsRecorded
  <2>2. PICK i \in ItemIds : queue[i].status # "none" /\ queue[i].client = c
    BY <2>1 DEF StoreInv, AcceptedIsRecorded
  <2>3. queue[i].status \in {"pending", "claimed", "deleted"}
    BY <2>2 DEF StoreInv, StoreTypeOK, Row
  <2> QED
    BY <2>1, <2>2, <2>3 DEF StoreInv, ClaimedIsExplained
<1> QED
  BY <1>1, StoreInvariant, PTL

\* A run that ended keeps its row as it is.
THEOREM OutcomesAreFinal == StoreSpec => TerminalIsFinal
<1>1. StoreInv /\ [StoreNext]_storeVars
        => [\A r \in RunIds : IsTerminal(r) => runs'[r] = runs[r]]_storeVars
  <2> SUFFICES ASSUME StoreInv, [StoreNext]_storeVars, NEW q \in RunIds, IsTerminal(q)
               PROVE  runs'[q] = runs[q]
    OBVIOUS
  <2>1. Inserted(q) /\ ~IsActive(q)
    BY DEF IsTerminal, Inserted, IsActive, TerminalStatus, ActiveStatus
  <2>2. ASSUME NEW r \in RunIds, NEW c \in Clients, NEW v, NEW i, InsertRun(r, c, v, i)
        PROVE  runs'[q] = runs[q]
    BY <2>1, <2>2 DEF InsertRun, FreshRun, StoreInv, StoreTypeOK
  <2>3. ASSUME NEW r \in RunIds, NEW s,
               SetRunStatus(r, s) \/ FinishRun(r, s)
        PROVE  runs'[q] = runs[q]
    BY <2>1, <2>3 DEF SetRunStatus, FinishRun, MayChangeStatus, StoreInv, StoreTypeOK
  <2>4. ASSUME Restart
        PROVE  runs'[q] = runs[q]
    BY <2>1, <2>4 DEF Restart
  <2>5. ASSUME runs' = runs
        PROVE  runs'[q] = runs[q]
    BY <2>5
  <2>6. \A k \in claims : queue[k.item].client \in Clients
    BY DEF StoreInv, StoreTypeOK, Row
  <2> QED
    BY <2>2, <2>3, <2>4, <2>5, <2>6
       DEF StoreNext, storeVars, AdmitAndStart, StartOrRefuse, StartClaimed, AdmitAndQueue,
           ClaimNext, EditItem, RemoveItem, MoveToHead, LoseClaim, Clients
<1> QED
  BY <1>1, StoreInvariant, PTL DEF StoreSpec, TerminalIsFinal

\* The drain is FIFO but for the items a user moved to the head.
THEOREM DrainIsFifo == StoreSpec => DrainInOrder
<1>1. StoreInv /\ [StoreNext]_storeVars
        => [\A i, j \in ItemIds :
               i < j /\ IsPending(i) /\ IsPending(j) /\ queue'[j].status = "claimed"
                 => j \in steered]_storeVars
  <2> SUFFICES ASSUME StoreInv, [StoreNext]_storeVars, NEW i \in ItemIds, NEW j \in ItemIds,
                      i < j, IsPending(i), IsPending(j), queue'[j].status = "claimed"
               PROVE  j \in steered
    OBVIOUS
  <2> USE DEF StoreInv, StoreTypeOK, Row, IsPending
  <2>1. ASSUME NEW h \in ItemIds, ClaimNext(h)
        PROVE  j \in steered
    <3>1. h = j
      BY <2>1 DEF ClaimNext
    <3>2. Precedes(j, i)
      BY <2>1, <3>1 DEF ClaimNext, IsHead, ItemIds
    <3> QED
      BY <3>2 DEF Precedes, PositionsInOrder, IsRow, ItemIds
  <2>2. ASSUME NEW h \in ItemIds, NEW c \in Clients, AdmitAndQueue(h, c)
        PROVE  FALSE
    BY <2>2 DEF AdmitAndQueue, InsertItem, FreshItem
  <2>3. ASSUME NEW h \in ItemIds, EditItem(h) \/ RemoveItem(h) \/ MoveToHead(h)
        PROVE  FALSE
    BY <2>3 DEF EditItem, RemoveItem, MoveToHead
  <2>4. ASSUME Restart
        PROVE  FALSE
    BY <2>4 DEF Restart, ResetClaims
  <2>5. ASSUME queue' = queue
        PROVE  FALSE
    BY <2>5
  <2> QED
    BY <2>1, <2>2, <2>3, <2>4, <2>5
       DEF StoreNext, storeVars, AdmitAndStart, StartOrRefuse, StartClaimed, SetRunStatus,
           FinishRun, LoseClaim, Clients
<1> QED
  BY <1>1, StoreInvariant, PTL DEF StoreSpec, DrainInOrder

=============================================================================
