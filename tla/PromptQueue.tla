---------------------------- MODULE PromptQueue ----------------------------
(***************************************************************************)
(* The durable half of one Session: the agent_runs rows and the            *)
(* conversation_prompt_queue rows of one conversation, as the transactions *)
(* of AgentStore change them (server/src/agent_store/prompt_queue.rs,      *)
(* runs.rs and the boot recovery of mod.rs).                               *)
(*                                                                         *)
(* The store keeps one SQLite connection behind a mutex and every method   *)
(* is one immediate transaction, so each action below is one method, taken *)
(* by any caller at any time.  What a caller holds in memory between two   *)
(* methods is modelled where it matters: claims are the queue items that   *)
(* claim_next_queued_prompt has returned and start_run_from_queue_item has *)
(* not yet consumed.  SessionRuntime adds the callers.                     *)
(*                                                                         *)
(* A prompt's content is abstracted to its version: 0 as it was sent, one  *)
(* more per edit.                                                          *)
(***************************************************************************)
EXTENDS Integers, FiniteSets

CONSTANTS
    PlainIds,   \* client message ids of plain prompts (admitted or queued)
    DraftIds,   \* client message ids sent by the paths that refuse a busy Session
    NoClient,   \* a prompt sent without a client message id
    Outcomes,   \* the statuses finish_run is given: completed, failed, cancelled
    MaxRuns,    \* bound: run rows
    MaxItems,   \* bound: queue rows ever inserted
    MaxMoves,   \* bound: how far send-now moves may lower a position
    MaxEdits    \* bound: edits of one row's content

\* A client message id belongs to one send, and a send uses one path.
ASSUME IdAssumption == /\ NoClient \notin PlainIds \cup DraftIds
                       /\ PlainIds \cap DraftIds = {}
ASSUME BoundAssumption == MaxRuns \in Nat /\ MaxItems \in Nat
                           /\ MaxMoves \in Nat /\ MaxEdits \in Nat

ASSUME OutcomeAssumption == Outcomes \subseteq {"completed", "failed", "cancelled"}

VARIABLES
    runs,       \* agent_runs rows, in rowid order; status "none": not inserted
    queue,      \* conversation_prompt_queue rows, in rowid order
    claims,     \* claimed items on their way to start_run_from_queue_item
    accepted,   \* history: client ids the store has acknowledged
    steered,    \* history: items moved to the head of the queue
    dropped     \* history: items whose claim was lost when its start failed

storeVars == <<runs, queue, claims, accepted, steered, dropped>>

RunIds == 1..MaxRuns
ItemIds == 1..MaxItems
NoItem == 0

ActiveStatus == {"running", "waiting_permission"}
TerminalStatus == {"completed", "failed", "cancelled", "timed_out", "interrupted"}
Clients == PlainIds \cup DraftIds \cup {NoClient}

Run == [status : {"none"} \cup ActiveStatus \cup TerminalStatus,
        client : Clients, version : Nat, item : ItemIds \cup {NoItem},
        completions : Nat]
Row == [status : {"none", "pending", "claimed", "deleted"},
        client : Clients, version : Nat, position : Int]

-----------------------------------------------------------------------------
(* Reading the tables. *)

Inserted(r) == runs[r].status # "none"
IsActive(r) == runs[r].status \in ActiveStatus
IsTerminal(r) == runs[r].status \in TerminalStatus
HasActiveRun == \E r \in RunIds : IsActive(r)

IsPending(i) == queue[i].status = "pending"
IsRow(i) == queue[i].status \in {"pending", "claimed"}

\* Variant: the look-up by client id misses the claimed rows.
KnownPendingItem(c) == {i \in ItemIds : IsPending(i) /\ c # NoClient /\ queue[i].client = c}

\* existing_run_by_client_message_id and queue_item_by_client_message_id: the
\* latter sees claimed rows as well as pending ones.
KnownRun(c) == {r \in RunIds : Inserted(r) /\ c # NoClient /\ runs[r].client = c}
KnownItem(c) == {i \in ItemIds : IsRow(i) /\ c # NoClient /\ queue[i].client = c}
IsNewSend(c) == KnownRun(c) = {} /\ KnownItem(c) = {}

\* The next rowid of each table.
FreshRun(r) == ~Inserted(r) /\ \A q \in RunIds : q < r => Inserted(q)
FreshItem(i) == queue[i].status = "none" /\ \A j \in ItemIds : j < i => queue[j].status # "none"

\* ORDER BY position, rowid among the pending rows.
Precedes(i, j) == \/ queue[i].position < queue[j].position
                  \/ queue[i].position = queue[j].position /\ i < j
\* Variant: the claim forgets the order.
IsAnyPending(i) == IsPending(i)

IsHead(i) == IsPending(i) /\ \A j \in ItemIds \ {i} : IsPending(j) => Precedes(i, j)

\* COALESCE(MAX(position), 0) over every row, and COALESCE(MIN(position), 0)
\* over the pending ones.
RowPositions == {queue[i].position : i \in {j \in ItemIds : IsRow(j)}}
PendingPositions == {queue[i].position : i \in {j \in ItemIds : IsPending(j)}}
IsMaxPosition(m) == IF RowPositions = {} THEN m = 0
                    ELSE m \in RowPositions /\ \A p \in RowPositions : p <= m
IsMinPosition(m) == IF PendingPositions = {} THEN m = 0
                    ELSE m \in PendingPositions /\ \A p \in PendingPositions : m <= p

-----------------------------------------------------------------------------
(* Writing one row. *)

NewRun(c, v, i) == [status |-> "running", client |-> c, version |-> v, item |-> i,
                    completions |-> 0]

InsertRun(r, c, v, i) == /\ FreshRun(r)
                         /\ runs' = [runs EXCEPT ![r] = NewRun(c, v, i)]

InsertItem(i, c) ==
    /\ FreshItem(i)
    /\ \E m \in RowPositions \cup {0} :
          /\ IsMaxPosition(m)
          /\ queue' = [queue EXCEPT ![i] = [status |-> "pending", client |-> c,
                                            version |-> 0, position |-> m + 1]]

Accept(c) == accepted' = accepted \cup ({c} \ {NoClient})

\* Variant: edit, remove and move also take claimed rows.
EditableRow(i) == IsRow(i)

\* require_pending_item: edit, remove and move refuse a claimed or missing row.
Editable(i) == IsPending(i)

\* Variant: the update forgets its status condition.
MayChangeAnyStatus(r) == Inserted(r)

\* UPDATE agent_runs ... WHERE status IN ('running', 'waiting_permission').
MayChangeStatus(r) == IsActive(r)

-----------------------------------------------------------------------------
(* One action per transaction. *)

StoreInit ==
    /\ runs = [r \in RunIds |-> [NewRun(NoClient, 0, NoItem)
                                  EXCEPT !.status = "none"]]
    /\ queue = [i \in ItemIds |-> [status |-> "none", client |-> NoClient,
                                    version |-> 0, position |-> 0]]
    /\ claims = {}
    /\ accepted = {}
    /\ steered = {}
    /\ dropped = {}

\* start_prompt_or_enqueue, conversation idle: the prompt becomes a run.
AdmitAndStart(r, c) ==
    /\ IsNewSend(c)
    /\ ~HasActiveRun
    /\ InsertRun(r, c, 0, NoItem)
    /\ Accept(c)
    /\ UNCHANGED <<queue, claims, steered, dropped>>

\* start_prompt_or_enqueue, a run is active: the prompt joins the queue.
AdmitAndQueue(i, c) ==
    /\ IsNewSend(c)
    /\ HasActiveRun
    /\ InsertItem(i, c)
    /\ Accept(c)
    /\ UNCHANGED <<runs, claims, steered, dropped>>

\* start_run_with_visibility (image, internal and composer prompts): looks for
\* an earlier run of the client id only, and answers ActiveRun when busy.
StartOrRefuse(r, c) ==
    /\ KnownRun(c) = {}
    /\ ~HasActiveRun
    /\ InsertRun(r, c, 0, NoItem)
    /\ Accept(c)
    /\ UNCHANGED <<queue, claims, steered, dropped>>

\* Variant: the claim reads the item without marking its row.
ClaimUnmarked(i) ==
    /\ IsHead(i)
    /\ claims' = claims \cup {[item |-> i, version |-> queue[i].version]}
    /\ UNCHANGED <<runs, queue, accepted, steered, dropped>>

\* claim_next_queued_prompt: pending -> claimed; the caller keeps the item as
\* it was read.
ClaimNext(i) ==
    /\ IsHead(i)
    /\ queue' = [queue EXCEPT ![i].status = "claimed"]
    /\ claims' = claims \cup {[item |-> i, version |-> queue[i].version]}
    /\ UNCHANGED <<runs, accepted, steered, dropped>>

\* start_run_from_queue_item: the run takes the claimed item's content and
\* client id.  The method looks neither for an active run nor for an earlier
\* run of the client id.
StartClaimed(r, k) ==
    /\ k \in claims
    /\ InsertRun(r, queue[k.item].client, k.version, k.item)
    /\ claims' = claims \ {k}
    /\ UNCHANGED <<queue, accepted, steered, dropped>>

\* start_run_from_queue_item fails (a storage error): the caller forgets the
\* item and its row stays claimed.
LoseClaim(k) ==
    /\ k \in claims
    /\ claims' = claims \ {k}
    /\ dropped' = dropped \cup {k.item}
    /\ UNCHANGED <<runs, queue, accepted, steered>>

\* edit_queued_prompt
EditItem(i) ==
    /\ Editable(i)
    /\ queue[i].version < MaxEdits
    /\ queue' = [queue EXCEPT ![i].version = @ + 1]
    /\ UNCHANGED <<runs, claims, accepted, steered, dropped>>

\* remove_queued_prompt
RemoveItem(i) ==
    /\ Editable(i)
    /\ queue' = [queue EXCEPT ![i].status = "deleted"]
    /\ UNCHANGED <<runs, claims, accepted, steered, dropped>>

\* move_queued_prompt_to_head
MoveToHead(i) ==
    /\ Editable(i)
    /\ \E m \in PendingPositions \cup {0} :
          /\ IsMinPosition(m)
          /\ m - 1 >= -MaxMoves
          /\ queue' = [queue EXCEPT ![i].position = m - 1]
    /\ steered' = steered \cup {i}
    /\ UNCHANGED <<runs, claims, accepted, dropped>>

\* set_run_status: the permission handlers move a run between the two active
\* states; a terminal run is left alone.
SetRunStatus(r, s) ==
    /\ MayChangeStatus(r)
    /\ s \in ActiveStatus
    /\ runs' = [runs EXCEPT ![r].status = s]
    /\ UNCHANGED <<queue, claims, accepted, steered, dropped>>

\* finish_run: the first terminal transition wins and writes the one
\* run_completed event.
FinishRun(r, s) ==
    /\ MayChangeStatus(r)
    /\ runs' = [runs EXCEPT ![r].status = s, ![r].completions = @ + 1]
    /\ UNCHANGED <<queue, claims, accepted, steered, dropped>>

\* Variant: the reset is left out.
ResetNothing == queue

\* reset_orphaned_queue_claims: every claimed row, whatever became of its run.
ResetClaims == [i \in ItemIds |-> IF queue[i].status = "claimed"
                                  THEN [queue[i] EXCEPT !.status = "pending"]
                                  ELSE queue[i]]

\* The process dies and AgentStore::open runs interrupt_inflight_runs.
Restart ==
    /\ runs' = [r \in RunIds |->
                   IF IsActive(r) THEN [runs[r] EXCEPT !.status = "interrupted",
                                                      !.completions = @ + 1]
                   ELSE runs[r]]
    /\ queue' = ResetClaims
    /\ claims' = {}
    /\ dropped' = {}
    /\ UNCHANGED <<accepted, steered>>

StoreNext ==
    \/ \E r \in RunIds :
          \/ \E c \in PlainIds \cup {NoClient} : AdmitAndStart(r, c)
          \/ \E c \in DraftIds \cup {NoClient} : StartOrRefuse(r, c)
          \/ \E k \in claims : StartClaimed(r, k)
          \/ \E s \in ActiveStatus : SetRunStatus(r, s)
          \/ \E s \in Outcomes : FinishRun(r, s)
    \/ \E i \in ItemIds :
          \/ \E c \in PlainIds \cup {NoClient} : AdmitAndQueue(i, c)
          \/ ClaimNext(i) \/ EditItem(i) \/ RemoveItem(i) \/ MoveToHead(i)
    \/ \E k \in claims : LoseClaim(k)
    \/ Restart

StoreSpec == StoreInit /\ [][StoreNext]_storeVars

-----------------------------------------------------------------------------
(* Properties. *)

\* Every row is well formed and every claim is of an inserted row.
StoreTypeOK ==
    /\ runs \in [RunIds -> Run]
    /\ queue \in [ItemIds -> Row]
    /\ claims \subseteq [item : ItemIds, version : Nat]
    /\ accepted \subseteq Clients
    /\ steered \subseteq ItemIds
    /\ dropped \subseteq ItemIds

\* A run that ended keeps its outcome: no late permission answer, second
\* cancel, failing actor or restart moves it again (set_run_status, finish_run
\* and interrupt_inflight_runs only touch running and waiting_permission rows).
TerminalIsFinal ==
    [][\A r \in RunIds : IsTerminal(r) => runs'[r] = runs[r]]_storeVars

\* ADR 0210: one terminal event per run, however many enders race for it.
CompletedOnce ==
    \A r \in RunIds : runs[r].completions = IF IsTerminal(r) THEN 1 ELSE 0

\* What is running is what the queue shows: the row an active run came from is
\* still there, claimed, with the content the run was given (edit and remove refuse it).
ActiveRunMatchesItem ==
    \A r \in RunIds :
        IsActive(r) /\ runs[r].item # NoItem =>
            /\ queue[runs[r].item].status = "claimed"
            /\ queue[runs[r].item].version = runs[r].version

\* The turn boundary, session boot and send-now all claim: still one queue
\* item never feeds two live runs, nor a live run and a claim under way.
OneDrainPerItem ==
    /\ \A r, q \in RunIds :
          IsActive(r) /\ IsActive(q) /\ runs[r].item = runs[q].item
              => r = q \/ runs[r].item = NoItem
    /\ \A k \in claims : \A r \in RunIds : IsActive(r) => runs[r].item # k.item
    /\ \A j, k \in claims : j.item = k.item => j = k

\* FIFO drain: across removals, claims that restarts give back and any number
\* of send-now moves, an item overtakes an older pending one only if it was
\* itself moved to the head.
DrainInOrder ==
    [][\A i, j \in ItemIds :
          i < j /\ IsPending(i) /\ IsPending(j) /\ queue'[j].status = "claimed"
              => j \in steered]_storeVars

\* Either starts or is queued, never neither: an acknowledged prompt has a run,
\* or a row that is pending, withdrawn by the user, or claimed by a caller that
\* still holds it (or lost it to a storage error since the last restart).
PromptKept ==
    \A c \in accepted :
        \/ KnownRun(c) # {}
        \/ \E i \in ItemIds :
              /\ queue[i].client = c
              /\ \/ queue[i].status \in {"pending", "deleted"}
                 \/ queue[i].status = "claimed" /\ \E k \in claims : k.item = i
                 \/ queue[i].status = "claimed" /\ i \in dropped

\* Either starts or is queued, never both: admission never makes a second run
\* of a client message id; only one and the same queue item, given back by a
\* restart, can be run again.
SameSendSameItem ==
    \A r, q \in RunIds :
        Inserted(r) /\ Inserted(q) /\ r # q /\ runs[r].client = runs[q].client
            => runs[r].client = NoClient
               \/ (runs[r].item = runs[q].item /\ runs[r].item # NoItem)

\* The claim of reset_orphaned_queue_claims (prompt_queue.rs:517-519): what
\* drains again is an item whose run died with the previous process.
OnlyInterruptedRunsAgain ==
    [][\A r, q \in RunIds :
          (/\ ~Inserted(r) /\ runs'[r].status # "none"
           /\ Inserted(q) /\ runs[q].item # NoItem
           /\ runs[q].item = runs'[r].item)
              => runs[q].status = "interrupted"]_storeVars

=============================================================================
