------------------------ MODULE ExperimentRunsProofs ------------------------
(***************************************************************************)
(* Proofs about ExperimentRuns, for every set of launch keys and members,  *)
(* every choice of limits and any number of stops of the Runtime.  The     *)
(* inductive invariant adds to the checked ones how a claim, a process, a  *)
(* monitor and a row go together.                                          *)
(***************************************************************************)
EXTENDS ExperimentRuns, FiniteSetTheorems, TLAPS

\* What never started has no process, no receipt and, until it is claimed, no
\* identity; what was given back never started; only an identity is watched.
RowsMatch(k) ==
    /\ spawned[k] = 0 => process[k] = "none" /\ receipt[k] = "none"
    /\ rows[k].state \in {"absent", "reserved"} =>
         spawned[k] = 0 /\ ~rows[k].identity /\ ~rows[k].refunded
    /\ ~rows[k].identity => ~rows[k].timeout /\ monitor[k].at = "off"
    /\ rows[k].refunded => /\ spawned[k] = 0 /\ launcher[k] = "idle"
                           /\ rows[k].state \in {"failed_to_start", "removed"}

\* A handler that has the claim has a row nobody else moves on.
ClaimHeld(k) ==
    launcher[k] # "idle" =>
       /\ rows[k].state \in {"launching", "cancelling", "removed"}
       /\ ~rows[k].identity
       /\ launcher[k] = "spawn" => spawned[k] = 0

\* What the monitor found gone stays gone.
SettledGone(k) == monitor[k].at = "settle" => ~GroupAlive(k)

KeyInv(k) == RowsMatch(k) /\ ClaimHeld(k) /\ SettledGone(k) /\ spawned[k] <= 1
LaunchInv == \A k \in Keys : KeyInv(k)

\* No launch goes on before recovery is through.
RecoversAlone ==
    ~up \/ recovering # {} => \A k \in Keys : launcher[k] = "idle" /\ callers[k] = 0

\* Only the Team's experiments are waited for.
TeamWaits == \A k \in Keys, m \in Members : waits[<<k, m>>] # "none" => owner[k] = "team"

\* From the moment the envelope is closed the list of what is to be cancelled is
\* complete.
SweepCloses ==
    sweep.at # "idle" =>
       /\ envelope.state = "closed"
       /\ sweep.at = "listed" => \A k \in Keys : Active(k) /\ ~rows[k].cancel => k \in sweep.left

RunInv == /\ RunTypeOK /\ LaunchInv /\ RecoversAlone /\ SlotHeldWhileRunning
          /\ TeamWaits /\ OpenWaitIsOwed /\ SweepCloses /\ BudgetIsExact

-----------------------------------------------------------------------------
(* What a store command does to the row it is about. *)

\* The rest of a step leaves the rows of the other attempts alone.
OthersKept(k) == \A j \in Keys : j # k => rows'[j] = rows[j]

\* Waits are only resolved.
WaitsKept == \A w \in Keys \X Members :
                 waits'[w] = waits[w] \/ (waits[w] = "open" /\ waits'[w] = "resolved")
NobodyWaits(k) == \A m \in Members : waits'[<<k, m>>] # "open"

Observed(k, st) ==
    /\ OthersKept(k) /\ WaitsKept
    /\ Active(k) => rows'[k].state = st /\ NobodyWaits(k)
    /\ ~Active(k) => rows'[k].state = rows[k].state
    /\ rows'[k].identity = rows[k].identity /\ rows'[k].cancel = rows[k].cancel
    /\ rows'[k].timeout = rows[k].timeout /\ rows'[k].refunded = rows[k].refunded
    /\ envelope' = envelope

\* A new row for k keeps the table well formed.
LEMMA RowChange ==
    ASSUME StoreTypes, NEW k \in Keys, NEW r \in Row, rows' = [rows EXCEPT ![k] = r]
    PROVE  (rows \in [Keys -> Row])'
BY DEF StoreTypes

\* So does the telling of an end.
LEMMA EndsTypes ==
    ASSUME StoreTypes, NEW k \in Keys, NEW st, Ends(k, st) PROVE (ended \in Seq(Keys))'
<1>1. CASE st = "unknown" BY <1>1 DEF StoreTypes, Ends
<1>2. CASE st # "unknown"
  <2>1. ended' = Append(ended, k) BY <1>2 DEF Ends
  <2>2. ended \in Seq(Keys) BY DEF StoreTypes
  <2>. QED BY <2>1, <2>2
<1>. QED BY <1>1, <1>2

(* A delivery keeps the store well typed: it marks finished attempts and adds their letters. *)
LEMMA DeliverTypes ==
    ASSUME StoreTypes, NEW k \in Keys, DeliverFinished(k)
    PROVE  (mail \in [Keys -> {"none", "unread", "read"}])'
BY DEF StoreTypes, DeliverFinished

\* Resolving the waits of k leaves none open on it.
LEMMA ResolveEffect ==
    ASSUME StoreTypes, NEW k \in Keys, ResolveOpenWaits(k)
    PROVE  /\ (waits \in [Keys \X Members ->
                             {"none", "open", "resolved", "expired", "reassigned"}])'
           /\ WaitsKept /\ NobodyWaits(k)
<1>1. DOMAIN waits = Keys \X Members BY DEF StoreTypes
<1>2. waits' = [w \in Keys \X Members |->
                  IF w[1] = k /\ waits[w] = "open" THEN "resolved" ELSE waits[w]]
  BY <1>1 DEF ResolveOpenWaits
<1>3. \A w \in Keys \X Members : waits[w] \in {"none", "open", "resolved", "expired", "reassigned"}
  BY DEF StoreTypes
<1>4. \A m \in Members : <<k, m>> \in Keys \X Members /\ <<k, m>>[1] = k OBVIOUS
<1>. QED BY <1>2, <1>3, <1>4 DEF WaitsKept, NobodyWaits

\* observe: an attempt that holds a slot gets its outcome, whoever waits for it is
\* answered, and one that has ended is left alone.
LEMMA ObserveEffect ==
    ASSUME StoreTypes, NEW k \in Keys, NEW st \in Final \cup {"unknown"}, NEW ok \in BOOLEAN,
           Observe(k, st, ok)
    PROVE  StoreTypes' /\ Observed(k, st)
<1>1. CASE ~Active(k) BY <1>1 DEF Observe, Observed, OthersKept, WaitsKept, storeVars,
     StoreTypes
<1>2. CASE Active(k)
  <2>. DEFINE r == [rows[k] EXCEPT !.state = st, !.ok = ok, !.analysis = "pending"]
  <2>1. rows[k] \in Row /\ k \in DOMAIN rows BY DEF StoreTypes
  <2>2. r \in Row BY <2>1 DEF Row, Final, Holding
  <2>3. rows' = [rows EXCEPT ![k] = r] BY <1>2 DEF Observe
  <2>4. (rows \in [Keys -> Row])' BY <2>2, <2>3, RowChange
  <2>5. rows'[k] = r /\ OthersKept(k) BY <2>1, <2>3 DEF OthersKept, StoreTypes
  <2>6. /\ rows'[k].state = st /\ rows'[k].identity = rows[k].identity
        /\ rows'[k].cancel = rows[k].cancel /\ rows'[k].timeout = rows[k].timeout
        /\ rows'[k].refunded = rows[k].refunded
    BY <2>1, <2>5 DEF Row
  <2>7. /\ Ends(k, st) /\ DeliverFinished(k) /\ ResolveOpenWaits(k)
        /\ envelope' = envelope
    BY <1>2 DEF Observe
  <2>8. StoreTypes' BY <2>4, <2>7, EndsTypes, DeliverTypes, ResolveEffect DEF StoreTypes
  <2>. QED BY <1>2, <2>5, <2>6, <2>7, <2>8, ResolveEffect DEF Observed
<1>. QED BY <1>1, <1>2

\* finish_from_files: without a receipt and a recorded reason nothing is known.
LEMMA FinishEffect ==
    ASSUME StoreTypes, NEW k \in Keys, NEW cancelled \in BOOLEAN, FinishFromFiles(k, cancelled)
    PROVE  /\ StoreTypes'
           /\ \E st \in Final \cup {"unknown"} :
                 /\ Observed(k, st)
                 /\ receipt[k] = "none" /\ ~cancelled /\ ~rows[k].timeout => st = "unknown"
<1>. DEFINE st == Outcome(k, cancelled)
<1>1. st \in Final \cup {"unknown"} BY DEF Outcome, Final
<1>2. receipt[k] = "none" /\ ~cancelled /\ ~rows[k].timeout => st = "unknown" BY DEF Outcome
<1>3. Observe(k, st, receipt[k] = "zero") BY DEF FinishFromFiles
<1>4. StoreTypes' /\ Observed(k, st) BY <1>1, <1>3, ObserveEffect
<1>. QED BY <1>1, <1>2, <1>4

Identified(k) ==
    /\ OthersKept(k)
    /\ rows'[k].state \in {"running", "cancelling"} /\ rows'[k].identity
    /\ rows'[k].cancel = rows[k].cancel /\ rows'[k].refunded = rows[k].refunded

\* mark_running
LEMMA IdentityEffect ==
    ASSUME StoreTypes, NEW k \in Keys, RecordIdentity(k)
    PROVE  (rows \in [Keys -> Row])' /\ Identified(k)
<1>. DEFINE r == [rows[k] EXCEPT !.identity = TRUE,
                     !.state = IF rows[k].cancel THEN "cancelling" ELSE "running"]
<1>1. rows[k] \in Row /\ k \in DOMAIN rows BY DEF StoreTypes
<1>2. r \in Row BY <1>1 DEF Row, Holding
<1>3. rows' = [rows EXCEPT ![k] = r] BY DEF RecordIdentity
<1>4. (rows \in [Keys -> Row])' BY <1>2, <1>3, RowChange
<1>5. rows'[k] = r /\ OthersKept(k) BY <1>1, <1>3 DEF OthersKept, StoreTypes
<1>. QED BY <1>1, <1>4, <1>5 DEF Identified, Row

CancelledNow(k) ==
    /\ OthersKept(k) /\ WaitsKept
    /\ rows'[k].cancel /\ rows'[k].identity = rows[k].identity
    /\ rows'[k].timeout = rows[k].timeout /\ rows'[k].refunded = rows[k].refunded
    /\ \/ rows[k].state = "reserved" /\ rows'[k].state = "cancelled" /\ NobodyWaits(k)
       \/ rows[k].state \in {"launching", "running"} /\ rows'[k].state = "cancelling"
       \/ rows[k].state \in {"cancelling", "unknown"} /\ rows'[k].state = rows[k].state

Signalled(k) ==
    /\ \A j \in Keys : j # k => monitor'[j] = monitor[j] /\ process'[j] = process[j]
    /\ monitor'[k] = monitor[k] \/ (rows[k].identity /\ monitor'[k].at = "watch")
    /\ process'[k] = process[k] \/ (LeaderAlive(k) /\ rows[k].identity)

\* request_cancel
LEMMA RequestEffect ==
    ASSUME StoreTypes, NEW k \in Keys, Active(k), RequestCancel(k)
    PROVE  /\ (rows \in [Keys -> Row])' /\ (ended \in Seq(Keys))'
           /\ (mail \in [Keys -> {"none", "unread", "read"}])'
           /\ (waits \in [Keys \X Members ->
                             {"none", "open", "resolved", "expired", "reassigned"}])'
           /\ CancelledNow(k)
<1>1. rows[k] \in Row /\ k \in DOMAIN rows BY DEF StoreTypes
<1>2. CASE rows[k].state = "reserved"
  <2>. DEFINE r == [rows[k] EXCEPT !.cancel = TRUE, !.state = "cancelled", !.analysis = "pending"]
  <2>1. r \in Row BY <1>1 DEF Row, Final
  <2>2. rows' = [rows EXCEPT ![k] = r] BY <1>2 DEF RequestCancel
  <2>3. (rows \in [Keys -> Row])' BY <2>1, <2>2, RowChange
  <2>4. rows'[k] = r /\ OthersKept(k) BY <1>1, <2>2 DEF OthersKept, StoreTypes
  <2>5. Ends(k, "cancelled") /\ DeliverFinished(k) /\ ResolveOpenWaits(k)
    BY <1>2 DEF RequestCancel
  <2>6. /\ rows'[k].cancel /\ rows'[k].identity = rows[k].identity
        /\ rows'[k].timeout = rows[k].timeout /\ rows'[k].refunded = rows[k].refunded
        /\ rows'[k].state = "cancelled"
    BY <1>1, <2>4 DEF Row
  <2>. QED BY <1>2, <2>3, <2>4, <2>5, <2>6, EndsTypes, DeliverTypes, ResolveEffect DEF
       CancelledNow
<1>3. CASE rows[k].state # "reserved"
  <2>. DEFINE r == [rows[k] EXCEPT !.cancel = TRUE,
                       !.state = IF rows[k].state \in {"launching", "running"}
                                 THEN "cancelling" ELSE rows[k].state]
  <2>1. r \in Row BY <1>1 DEF Row, Holding
  <2>2. rows' = [rows EXCEPT ![k] = r] BY <1>3 DEF RequestCancel
  <2>3. (rows \in [Keys -> Row])' BY <2>1, <2>2, RowChange
  <2>4. rows'[k] = r /\ OthersKept(k) BY <1>1, <2>2 DEF OthersKept, StoreTypes
  <2>5. UNCHANGED <<ended, waits, mail>> BY <1>3 DEF RequestCancel
  <2>6. /\ rows'[k].cancel /\ rows'[k].identity = rows[k].identity
        /\ rows'[k].timeout = rows[k].timeout /\ rows'[k].refunded = rows[k].refunded
    BY <1>1, <2>4 DEF Row
  <2>7. \/ rows[k].state \in {"launching", "running"} /\ rows'[k].state = "cancelling"
        \/ rows[k].state \in {"cancelling", "unknown"} /\ rows'[k].state = rows[k].state
    BY <1>1, <1>3, <2>4 DEF Row, Active, Holding
  <2>. QED BY <2>3, <2>4, <2>5, <2>6, <2>7 DEF CancelledNow, WaitsKept, StoreTypes
<1>. QED BY <1>2, <1>3

\* after_cancel: what has a recorded identity is watched and may die.
LEMMA SignalEffect ==
    ASSUME RunTypeOK, NEW k \in Keys, SignalCancelled(k)
    PROVE  /\ Signalled(k)
           /\ (process \in [Keys -> {"none", "gone"} \cup Alive])'
           /\ (monitor \in [Keys -> [at : {"off", "watch", "look", "settle"},
                                    cancel : BOOLEAN, termed : BOOLEAN]])'
           /\ process'[k] # process[k] => process'[k] \in {"leaderless", "gone"}
<1>1. /\ process \in [Keys -> {"none", "gone"} \cup Alive]
      /\ monitor \in [Keys -> [at : {"off", "watch", "look", "settle"},
                               cancel : BOOLEAN, termed : BOOLEAN]]
  BY DEF RunTypeOK, ProcessTypes, RunnerTypes
<1>2. CASE UNCHANGED <<monitor, process>> BY <1>1, <1>2 DEF Signalled
<1>3. CASE rows[k].identity /\ Watch(k) /\ (process' = process \/ (LeaderAlive(k) /\ Terminated(k)))
  <2>1. /\ (process \in [Keys -> {"none", "gone"} \cup Alive])'
        /\ \A j \in Keys : j # k => process'[j] = process[j]
        /\ process'[k] = process[k] \/ (LeaderAlive(k) /\ process'[k] \in {"leaderless", "gone"})
    BY <1>1, <1>3 DEF Terminated, Alive
  <2>2. /\ (monitor \in [Keys -> [at : {"off", "watch", "look", "settle"},
                                  cancel : BOOLEAN, termed : BOOLEAN]])'
        /\ \A j \in Keys : j # k => monitor'[j] = monitor[j]
        /\ monitor'[k] = monitor[k] \/ monitor'[k].at = "watch"
    BY <1>1, <1>3 DEF Watch
  <2>. QED BY <1>3, <2>1, <2>2 DEF Signalled
<1>. QED BY <1>2, <1>3 DEF SignalCancelled

\* cancel: the request and what follows it.
LEMMA CancelEffect ==
    ASSUME RunTypeOK, NEW k \in Keys, CancelOne(k)
    PROVE  /\ CancelledNow(k) /\ Signalled(k)
           /\ UNCHANGED <<envelope, receipt, spawned, callers, launcher>>
BY RequestEffect, SignalEffect DEF CancelOne, RunTypeOK

\* monitor: what it read, and what the files say.
LEMMA MonitorEffect ==
    ASSUME RunTypeOK, NEW k \in Keys, MonitorFindsReceipt(k) \/ MonitorSettles(k)
    PROVE  /\ \E st \in Final \cup {"unknown"} : Observed(k, st)
           /\ monitor' = [monitor EXCEPT ![k] = Off]
           /\ UNCHANGED <<receipt, spawned, callers, launcher, sweep>>
<1>1. monitor[k].cancel \in BOOLEAN BY DEF RunTypeOK, RunnerTypes
<1>. QED BY <1>1, FinishEffect DEF MonitorFindsReceipt, MonitorSettles, RunTypeOK, processVars

\* recover_unidentified: the receipt, the process the pid file names, or nothing.
LEMMA RecoverEffect ==
    ASSUME RunTypeOK, NEW k \in Keys, RecoverUnidentified(k)
    PROVE  /\ \/ /\ receipt[k] # "none" /\ UNCHANGED monitor
                 /\ \E st \in Final \cup {"unknown"} : Observed(k, st)
              \/ Identified(k) /\ Watch(k) /\ UNCHANGED <<envelope, waits>>
              \/ Observed(k, "unknown") /\ UNCHANGED monitor
           /\ UNCHANGED <<process, receipt, spawned, callers, launcher, sweep>>
<1>1. UNCHANGED <<process, receipt, spawned, callers, launcher, sweep>>
  BY DEF RecoverUnidentified, processVars
<1>2. CASE receipt[k] # "none"
  <2>1. rows[k].cancel \in BOOLEAN BY DEF RunTypeOK, StoreTypes, Row
  <2>. QED BY <1>1, <1>2, <2>1, FinishEffect DEF RecoverUnidentified, RunTypeOK
<1>3. CASE receipt[k] = "none" /\ process[k] = "named"
  BY <1>1, <1>3, IdentityEffect DEF RecoverUnidentified, RunTypeOK
<1>4. CASE receipt[k] = "none" /\ process[k] # "named"
  BY <1>1, <1>4, ObserveEffect DEF RecoverUnidentified, RunTypeOK
<1>. QED BY <1>2, <1>3, <1>4

Settled(k) ==
    /\ OthersKept(k) /\ WaitsKept /\ NobodyWaits(k)
    /\ rows'[k].state \in {"failed_to_start", "exited"}
    /\ rows'[k].identity = rows[k].identity /\ rows'[k].cancel = rows[k].cancel
    /\ rows'[k].timeout = rows[k].timeout

\* reconcile: the attempt ends, and is given back when it never started.
LEMMA ReconcileEffect ==
    ASSUME RunTypeOK, NEW k \in Keys, NEW truth \in {"not_started", "finished"},
           Reconcile(k, truth)
    PROVE  /\ Settled(k) /\ rows[k].state = "unknown"
           /\ \/ /\ rows'[k].refunded /\ rows'[k].state = "failed_to_start"
                 /\ spawned[k] = 0
                 /\ envelope' = [envelope EXCEPT !.launches = IF @ > 0 THEN @ - 1 ELSE 0]
              \/ /\ rows'[k].refunded = rows[k].refunded /\ spawned[k] > 0 /\ ~GroupAlive(k)
                 /\ UNCHANGED envelope
<1>1. rows[k] \in Row /\ k \in DOMAIN rows /\ rows \in [Keys -> Row]
  BY DEF RunTypeOK, StoreTypes
<1>2. ResolveOpenWaits(k) BY DEF Reconcile
<1>3. WaitsKept /\ NobodyWaits(k) BY <1>2, ResolveEffect DEF RunTypeOK
<1>4. CASE truth = "not_started"
  <2>1. rows' = [rows EXCEPT ![k].state = "failed_to_start", ![k].analysis = "none",
                             ![k].refunded = TRUE]
    BY <1>4 DEF Reconcile
  <2>2. OthersKept(k) BY <1>1, <2>1 DEF OthersKept
  <2>. QED BY <1>1, <1>3, <1>4, <2>1, <2>2 DEF Reconcile, Settled, Row
<1>5. CASE truth = "finished"
  <2>1. PICK ok \in BOOLEAN :
               rows' = [rows EXCEPT ![k].state = "exited", ![k].ok = ok,
                                    ![k].analysis = "pending"]
    BY <1>5 DEF Reconcile
  <2>2. OthersKept(k) BY <1>1, <2>1 DEF OthersKept
  <2>. QED BY <1>1, <1>3, <1>5, <2>1, <2>2 DEF Reconcile, Settled, Row
<1>. QED BY <1>4, <1>5

\* abandon_reserved
LEMMA AbandonEffect ==
    ASSUME RunTypeOK, NEW k \in Keys, AbandonReserved(k)
    PROVE  /\ Settled(k) /\ rows[k].state = "reserved"
           /\ rows'[k].refunded /\ rows'[k].state = "failed_to_start"
           /\ envelope' = [envelope EXCEPT !.launches = IF @ > 0 THEN @ - 1 ELSE 0]
           /\ UNCHANGED <<process, receipt, spawned, callers, launcher, monitor, sweep>>
<1>1. rows[k] \in Row /\ k \in DOMAIN rows /\ rows \in [Keys -> Row]
  BY DEF RunTypeOK, StoreTypes
<1>2. ResolveOpenWaits(k) BY DEF AbandonReserved
<1>3. WaitsKept /\ NobodyWaits(k) BY <1>2, ResolveEffect DEF RunTypeOK
<1>4. OthersKept(k) BY <1>1 DEF AbandonReserved, OthersKept
<1>. QED BY <1>1, <1>3, <1>4 DEF AbandonReserved, Settled, Row, processVars, runnerVars

\* The claim of a reserved row.
LEMMA ClaimEffect ==
    ASSUME RunTypeOK, NEW k \in Keys, MarkLaunching(k)
    PROVE  /\ OthersKept(k) /\ UNCHANGED <<envelope, waits, process, receipt, spawned, monitor,
                                           sweep>>
           /\ \A j \in Keys : j # k => launcher'[j] = launcher[j]
           /\ rows'[k].identity = rows[k].identity /\ rows'[k].cancel = rows[k].cancel
           /\ rows'[k].timeout = rows[k].timeout /\ rows'[k].refunded = rows[k].refunded
           /\ \/ /\ rows[k].state = "reserved" /\ rows'[k].state = "launching"
                 /\ launcher'[k] = "spawn"
              \/ /\ rows'[k].state = rows[k].state /\ launcher'[k] = launcher[k]
<1>1. rows[k] \in Row /\ k \in DOMAIN rows /\ rows \in [Keys -> Row] /\ k \in DOMAIN launcher
  BY DEF RunTypeOK, StoreTypes, RunnerTypes
<1>2. CASE rows[k].state = "reserved"
  BY <1>1, <1>2 DEF MarkLaunching, OthersKept, Row, RunTypeOK, RunnerTypes, processVars
<1>3. CASE rows[k].state # "reserved"
  BY <1>1, <1>3 DEF MarkLaunching, OthersKept, processVars
<1>. QED BY <1>2, <1>3

\* The end of a launch.
LEMMA MarkRunningEffect ==
    ASSUME RunTypeOK, NEW k \in Keys, MarkRunning(k)
    PROVE  /\ launcher' = [launcher EXCEPT ![k] = "idle"] /\ launcher[k] = "identify"
           /\ UNCHANGED <<envelope, waits, receipt, spawned, callers, sweep>>
           /\ \/ /\ rows[k].state \in {"launching", "reserved", "cancelling"}
                 /\ Identified(k) /\ Watch(k) /\ UNCHANGED process
              \/ Kill(k) /\ UNCHANGED <<rows, monitor>>
BY IdentityEffect DEF MarkRunning, RunTypeOK

-----------------------------------------------------------------------------
(* Types. *)

\* The tables stay well formed.
LEMMA StoreTypesStep == ASSUME RunTypeOK, [RunNext]_runVars PROVE StoreTypes'
<1>1. ASSUME NEW k \in Keys, Launching(k) PROVE StoreTypes'
  <2>1. ASSUME Reserve(k) PROVE StoreTypes'
    <3>. DEFINE r == [rows[k] EXCEPT !.state = "reserved"]
    <3>1. rows[k] \in Row BY DEF RunTypeOK, StoreTypes
    <3>2. r \in Row BY <3>1 DEF Row, Holding, Final
    <3>3. rows' = [rows EXCEPT ![k] = r] BY <2>1 DEF Reserve
    <3>4. (rows \in [Keys -> Row])' BY <3>2, <3>3, RowChange DEF RunTypeOK
    <3>. QED BY <2>1, <3>4 DEF Reserve, RunTypeOK, StoreTypes
  <2>2. ASSUME MarkLaunching(k) PROVE StoreTypes'
    <3>1. CASE rows[k].state = "reserved"
      <4>. DEFINE r == [rows[k] EXCEPT !.state = "launching"]
      <4>1. rows[k] \in Row BY DEF RunTypeOK, StoreTypes
      <4>2. r \in Row BY <4>1 DEF Row, Holding
      <4>3. rows' = [rows EXCEPT ![k] = r] BY <2>2, <3>1 DEF MarkLaunching
      <4>. QED BY <2>2, <4>2, <4>3, RowChange DEF MarkLaunching, RunTypeOK, StoreTypes
    <3>2. CASE rows[k].state # "reserved"
      BY <2>2, <3>2 DEF MarkLaunching, RunTypeOK, StoreTypes
    <3>. QED BY <3>1, <3>2
  <2>3. ASSUME SpawnFails(k) PROVE StoreTypes'
    BY <2>3, ObserveEffect DEF SpawnFails, RunTypeOK, Final
  <2>4. ASSUME MarkRunning(k) PROVE StoreTypes'
    BY <2>4, IdentityEffect DEF MarkRunning, RunTypeOK, StoreTypes
  <2>5. ASSUME EndedUnidentified(k) PROVE StoreTypes'
    BY <2>5, FinishEffect DEF EndedUnidentified, RunTypeOK
  <2>6. ASSUME ReserveAgain(k) \/ Spawn(k)
        PROVE  UNCHANGED <<rows, envelope, ended, waits, mail>>
    BY <2>6 DEF ReserveAgain, Spawn, outsideRunner, storeVars, processVars, sharedVars,
         analysisVars, lifeVars
  <2>7. ASSUME UNCHANGED <<rows, envelope, ended, waits, mail>> PROVE StoreTypes'
    BY <2>7 DEF RunTypeOK, StoreTypes, Row, Holding, Final
  <2>. QED BY <1>1, <2>1, <2>2, <2>3, <2>4, <2>5, <2>6, <2>7 DEF Launching
<1>2. ASSUME NEW k \in Keys, Running(k) PROVE StoreTypes'
  <2>1. UNCHANGED <<rows, envelope, ended, waits, mail>>
    BY <1>2 DEF Running, WritesPidFile, ProcessEnds, RuntimeLimitPasses, ProgramEnds,
         outsideProcess, storeVars, runnerVars, sharedVars, analysisVars, lifeVars
  <2>. QED BY <2>1 DEF RunTypeOK, StoreTypes, Row, Holding, Final
<1>3. ASSUME NEW k \in Keys, Monitoring(k) PROVE StoreTypes'
  <2>1. ASSUME MonitorFindsReceipt(k) PROVE StoreTypes'
    <3>1. monitor[k].cancel \in BOOLEAN BY DEF RunTypeOK, RunnerTypes
    <3>. QED BY <2>1, <3>1, FinishEffect DEF MonitorFindsReceipt, RunTypeOK
  <2>2. ASSUME MonitorSettles(k) PROVE StoreTypes'
    <3>1. monitor[k].cancel \in BOOLEAN BY DEF RunTypeOK, RunnerTypes
    <3>. QED BY <2>2, <3>1, FinishEffect DEF MonitorSettles, RunTypeOK
  <2>3. ASSUME MonitorTerminates(k) PROVE StoreTypes'
    <3>. DEFINE r == [rows[k] EXCEPT !.timeout =
                        rows[k].timeout \/ (~monitor[k].cancel /\ rows[k].state \in
                                               {"launching", "running", "cancelling"})]
    <3>1. rows[k] \in Row BY DEF RunTypeOK, StoreTypes
    <3>2. r \in Row BY <3>1 DEF Row
    <3>3. rows' = [rows EXCEPT ![k] = r] BY <2>3 DEF MonitorTerminates
    <3>. QED BY <2>3, <3>2, <3>3, RowChange DEF MonitorTerminates, RunTypeOK, StoreTypes
  <2>4. ASSUME \/ MonitorReads(k) \/ MonitorFindsGone(k) \/ MonitorKills(k)
              \/ MonitorWaits(k)
        PROVE  UNCHANGED <<rows, envelope, ended, waits, mail>>
    BY <2>4 DEF MonitorReads, MonitorFindsGone, MonitorKills, MonitorWaits, Off, Kill,
         outsideRunner, storeVars, processVars, sharedVars, analysisVars, lifeVars
  <2>5. ASSUME UNCHANGED <<rows, envelope, ended, waits, mail>> PROVE StoreTypes'
    BY <2>5 DEF RunTypeOK, StoreTypes, Row, Holding, Final
  <2>. QED BY <1>3, <2>1, <2>2, <2>3, <2>4, <2>5 DEF Monitoring
<1>4. ASSUME NEW k \in Keys, Recovering(k) PROVE StoreTypes'
  <2>1. ASSUME AbandonReserved(k) PROVE StoreTypes'
    <3>. DEFINE r == [rows[k] EXCEPT !.state = "failed_to_start", !.analysis = "pending",
                        !.refunded = TRUE]
    <3>1. rows[k] \in Row BY DEF RunTypeOK, StoreTypes
    <3>2. r \in Row BY <3>1 DEF Row, Final
    <3>3. rows' = [rows EXCEPT ![k] = r] BY <2>1 DEF AbandonReserved
    <3>4. (rows \in [Keys -> Row])' BY <3>2, <3>3, RowChange DEF RunTypeOK
    <3>5. envelope' \in [state : {"active", "paused", "closed"}, limits : Limits, launches : Nat]
      BY <2>1 DEF AbandonReserved, RunTypeOK, StoreTypes
    <3>6. Ends(k, "failed_to_start") /\ DeliverFinished(k) /\ ResolveOpenWaits(k)
      BY <2>1 DEF AbandonReserved
    <3>. QED BY <3>4, <3>5, <3>6, EndsTypes, DeliverTypes, ResolveEffect DEF RunTypeOK,
         StoreTypes
  <2>2. ASSUME RecoverUnidentified(k) PROVE StoreTypes'
    <3>1. CASE receipt[k] # "none"
      <4>1. rows[k].cancel \in BOOLEAN BY DEF RunTypeOK, StoreTypes, Row
      <4>. QED BY <2>2, <3>1, <4>1, FinishEffect DEF RecoverUnidentified, RunTypeOK
    <3>2. CASE receipt[k] = "none" /\ process[k] = "named"
      BY <2>2, <3>2, IdentityEffect DEF RecoverUnidentified, RunTypeOK, StoreTypes
    <3>3. CASE receipt[k] = "none" /\ process[k] # "named"
      BY <2>2, <3>3, ObserveEffect DEF RecoverUnidentified, RunTypeOK
    <3>. QED BY <3>1, <3>2, <3>3
  <2>3. ASSUME Adopt(k)
        PROVE  UNCHANGED <<rows, envelope, ended, waits, mail>>
    BY <2>3 DEF Adopt, Recovered, Watch, storeVars, analysisVars, processVars
  <2>4. ASSUME UNCHANGED <<rows, envelope, ended, waits, mail>> PROVE StoreTypes'
    BY <2>4 DEF RunTypeOK, StoreTypes, Row, Holding, Final
  <2>. QED BY <1>4, <2>1, <2>2, <2>3, <2>4 DEF Recovering
<1>5. ASSUME NEW k \in Keys, Answering(k) PROVE StoreTypes'
  <2>1. ASSUME Cancel(k) PROVE StoreTypes'
    BY <2>1, RequestEffect DEF Cancel, CancelOne, RunTypeOK, StoreTypes
  <2>2. ASSUME CancelListed(k) PROVE StoreTypes'
    <3>1. CASE CancelOne(k) BY <3>1, RequestEffect DEF CancelOne, RunTypeOK, StoreTypes
    <3>2. CASE UNCHANGED outsideRunner BY <3>2 DEF outsideRunner, storeVars, RunTypeOK,
         StoreTypes
    <3>. QED BY <2>2, <3>1, <3>2 DEF CancelListed
  <2>3. ASSUME Decide(k) PROVE StoreTypes'
    <3>. DEFINE r == [rows[k] EXCEPT !.analysis = "analyzed"]
    <3>1. rows[k] \in Row BY DEF RunTypeOK, StoreTypes
    <3>2. r \in Row BY <3>1 DEF Row, Holding, Final
    <3>3. rows' = [rows EXCEPT ![k] = r] BY <2>3 DEF Decide
    <3>4. (rows \in [Keys -> Row])' BY <3>2, <3>3, RowChange DEF RunTypeOK
    <3>. QED BY <2>3, <3>4 DEF Decide, RunTypeOK, StoreTypes
  <2>4. ASSUME NEW truth \in {"not_started", "finished"}, Reconcile(k, truth) PROVE StoreTypes'
    <3>1. rows[k] \in Row BY DEF RunTypeOK, StoreTypes
    <3>2. Ends(k, "exited") /\ ResolveOpenWaits(k) /\ UNCHANGED mail BY <2>4 DEF Reconcile
    <3>3. envelope' \in [state : {"active", "paused", "closed"}, limits : Limits, launches : Nat]
      <4>1. CASE truth = "not_started" BY <2>4, <4>1 DEF Reconcile, RunTypeOK, StoreTypes
      <4>2. CASE truth = "finished" BY <2>4, <4>2 DEF Reconcile, RunTypeOK, StoreTypes
      <4>. QED BY <4>1, <4>2
    <3>4. CASE truth = "not_started"
      <4>. DEFINE r == [rows[k] EXCEPT !.state = "failed_to_start", !.analysis = "none",
                          !.refunded = TRUE]
      <4>1. r \in Row BY <3>1 DEF Row, Final
      <4>2. rows' = [rows EXCEPT ![k] = r] BY <2>4, <3>4 DEF Reconcile
      <4>3. (rows \in [Keys -> Row])' BY <4>1, <4>2, RowChange DEF RunTypeOK
      <4>. QED BY <3>2, <3>3, <4>3, EndsTypes, ResolveEffect DEF RunTypeOK, StoreTypes
    <3>5. CASE truth = "finished"
      <4>1. PICK ok \in BOOLEAN :
                   rows' = [rows EXCEPT ![k].state = "exited", ![k].ok = ok,
                                        ![k].analysis = "pending"]
        BY <2>4, <3>5 DEF Reconcile
      <4>. DEFINE r == [rows[k] EXCEPT !.state = "exited", !.ok = ok, !.analysis = "pending"]
      <4>2. r \in Row BY <3>1 DEF Row, Final
      <4>3. rows' = [rows EXCEPT ![k] = r] BY <4>1
      <4>4. (rows \in [Keys -> Row])' BY <4>2, <4>3, RowChange DEF RunTypeOK
      <4>. QED BY <3>2, <3>3, <4>4, EndsTypes, ResolveEffect DEF RunTypeOK, StoreTypes
    <3>. QED BY <3>4, <3>5
  <2>5. ASSUME NEW m \in Members, RegisterWait(k, m) PROVE StoreTypes'
    BY <2>5 DEF RegisterWait, StoreTypes, RunTypeOK, Row, Holding, Final, outsideStore,
         processVars, runnerVars, sharedVars, analysisVars, lifeVars
  <2>6. ASSUME NEW m \in Members, ExpireWait(k, m) PROVE StoreTypes'
    BY <2>6 DEF ExpireWait, StoreTypes, RunTypeOK, Row, Holding, Final, outsideStore,
         processVars, runnerVars, sharedVars, analysisVars, lifeVars
  <2>. QED BY <1>5, <2>1, <2>2, <2>3, <2>4, <2>5, <2>6 DEF Answering
<1>6. ASSUME NEW k \in Keys, Telling(k) PROVE StoreTypes'
  <2>1. ASSUME Acknowledge(k) PROVE StoreTypes'
    BY <2>1 DEF Acknowledge, StoreTypes, RunTypeOK, Row, Holding, Final, outsideStore,
         processVars, runnerVars, sharedVars, analysisVars, lifeVars
  <2>2. ASSUME Remind(k) PROVE StoreTypes'
    BY <2>2 DEF Remind, StoreTypes, RunTypeOK, Row, Holding, Final, processVars, runnerVars,
         lifeVars
  <2>3. ASSUME RouteFinished(k) PROVE StoreTypes'
    BY <2>3 DEF RouteFinished, StoreTypes, RunTypeOK, Row, Holding, Final, processVars,
         runnerVars, lifeVars
  <2>4. ASSUME RemindersExhausted(k)
        PROVE  UNCHANGED <<rows, envelope, ended, waits, mail>>
    BY <2>4 DEF RemindersExhausted, outsideAnalysis, storeVars, processVars, runnerVars,
         lifeVars
  <2>5. ASSUME UNCHANGED <<rows, envelope, ended, waits, mail>> PROVE StoreTypes'
    BY <2>5 DEF RunTypeOK, StoreTypes, Row, Holding, Final
  <2>. QED BY <1>6, <2>1, <2>2, <2>3, <2>4, <2>5 DEF Telling
<1>7. ASSUME Round PROVE StoreTypes'
  <2>1. ASSUME NEW l \in Limits, SetLimits(l) PROVE StoreTypes'
    BY <2>1 DEF SetLimits, StoreTypes, RunTypeOK, Row, Holding, Final, outsideStore,
         processVars, runnerVars, sharedVars, analysisVars, lifeVars
  <2>2. ASSUME NEW s \in {"active", "paused", "closed"}, SetEnvelopeState(s) PROVE StoreTypes'
    BY <2>2 DEF SetEnvelopeState, StoreTypes, RunTypeOK, Row, Holding, Final, outsideStore,
         processVars, runnerVars, sharedVars, analysisVars, lifeVars
  <2>3. ASSUME NEW m \in Members, ReassignWaits(m) PROVE StoreTypes'
    BY <2>3 DEF ReassignWaits, StoreTypes, RunTypeOK, Row, Holding, Final, outsideStore,
         processVars, runnerVars, sharedVars, analysisVars, lifeVars
  <2>4. ASSUME CloseForCancel PROVE StoreTypes'
    BY <2>4 DEF CloseForCancel, StoreTypes, RunTypeOK, Row, Holding, Final, processVars,
         sharedVars, analysisVars, lifeVars
  <2>5. ASSUME DeleteTeam PROVE StoreTypes'
    <3>1. \A k \in Keys : rows[k] \in Row /\ [rows[k] EXCEPT !.state = "removed"] \in Row
      <4>1. \A k \in Keys : rows[k] \in Row BY DEF RunTypeOK, StoreTypes
      <4>2. \A row \in Row : [row EXCEPT !.state = "removed"] \in Row BY DEF Row
      <4> QED BY <4>1, <4>2
    <3>2. (rows \in [Keys -> Row])' BY <2>5, <3>1 DEF DeleteTeam, RunTypeOK, StoreTypes
    <3>3. (waits \in [Keys \X Members -> {"none", "open", "resolved", "expired", "reassigned"}])'
      BY <2>5 DEF DeleteTeam, RunTypeOK, StoreTypes
    <3>. QED BY <2>5, <3>2, <3>3 DEF DeleteTeam, RunTypeOK, StoreTypes
  <2>6. ASSUME \/ ListForCancel \/ MarkDisbanding \/ CancelTeam
              \/ FlagTeam \/ ReadOwed \/ ReadSettled
              \/ StartAnalysis \/ ResolveAnalysis
        PROVE  UNCHANGED <<rows, envelope, ended, waits, mail>>
    BY <2>6 DEF ListForCancel, MarkDisbanding, CancelTeam, FlagTeam, ReadOwed, ReadSettled,
         StartAnalysis, ResolveAnalysis, KillAll, outsideRunner, storeVars, processVars,
         sharedVars, analysisVars, lifeVars, runnerVars, outsideAnalysis
  <2>7. ASSUME UNCHANGED <<rows, envelope, ended, waits, mail>> PROVE StoreTypes'
    BY <2>7 DEF RunTypeOK, StoreTypes, Row, Holding, Final
  <2>. QED BY <1>7, <2>1, <2>2, <2>3, <2>4, <2>5, <2>6, <2>7 DEF Round
<1>8. ASSUME NEW reboots \in BOOLEAN, Crash(reboots) PROVE StoreTypes'
  <2>1. UNCHANGED <<rows, envelope, ended, waits, mail>>
    BY <1>8 DEF Crash, KillAll, Off, storeVars
  <2>. QED BY <2>1 DEF RunTypeOK, StoreTypes, Row, Holding, Final
<1>9. ASSUME Restart PROVE StoreTypes'
  <2>1. UNCHANGED <<rows, envelope, ended, waits, mail>>
    BY <1>9 DEF Restart, storeVars, analysisVars, processVars, runnerVars
  <2>. QED BY <2>1 DEF RunTypeOK, StoreTypes, Row, Holding, Final
<1>10. ASSUME UNCHANGED runVars PROVE StoreTypes'
  <2>1. UNCHANGED <<rows, envelope, ended, waits, mail>>
    BY <1>10 DEF runVars, storeVars, analysisVars, processVars, runnerVars, lifeVars
  <2>. QED BY <2>1 DEF RunTypeOK, StoreTypes, Row, Holding, Final
<1>. QED BY <1>1, <1>2, <1>3, <1>4, <1>5, <1>6, <1>7, <1>8, <1>9, <1>10 DEF RunNext

\* So does what is owed,
LEMMA AnalysisTypesStep == ASSUME RunTypeOK, [RunNext]_runVars PROVE AnalysisTypes'
<1>1. ASSUME NEW k \in Keys, Launching(k) PROVE AnalysisTypes'
  <2>1. UNCHANGED <<reminders, flagged, flagging, task, routing>>
    BY <1>1 DEF Launching, Reserve, ReserveAgain, MarkLaunching, Spawn, SpawnFails, MarkRunning,
         EndedUnidentified, Observe, Ends, DeliverFinished, ResolveOpenWaits, RecordIdentity,
         Watch, Kill, FinishFromFiles, processVars, sharedVars, analysisVars, lifeVars,
         outsideRunner, storeVars
  <2>. QED BY <2>1 DEF RunTypeOK, AnalysisTypes
<1>2. ASSUME NEW k \in Keys, Running(k) PROVE AnalysisTypes'
  <2>1. UNCHANGED <<reminders, flagged, flagging, task, routing>>
    BY <1>2 DEF Running, WritesPidFile, ProcessEnds, RuntimeLimitPasses, ProgramEnds,
         outsideProcess, storeVars, runnerVars, sharedVars, analysisVars, lifeVars
  <2>. QED BY <2>1 DEF RunTypeOK, AnalysisTypes
<1>3. ASSUME NEW k \in Keys, Monitoring(k) PROVE AnalysisTypes'
  <2>1. UNCHANGED <<reminders, flagged, flagging, task, routing>>
    BY <1>3 DEF Monitoring, MonitorReads, MonitorFindsReceipt, MonitorFindsGone, MonitorSettles,
         MonitorTerminates, MonitorKills, MonitorWaits, Off, Kill, FinishFromFiles, Observe,
         Ends, DeliverFinished, ResolveOpenWaits, Terminated, outsideRunner, storeVars,
         processVars, sharedVars, analysisVars, lifeVars
  <2>. QED BY <2>1 DEF RunTypeOK, AnalysisTypes
<1>4. ASSUME NEW k \in Keys, Recovering(k) PROVE AnalysisTypes'
  <2>1. UNCHANGED <<reminders, flagged, flagging, task, routing>>
    BY <1>4 DEF Recovering, AbandonReserved, RecoverUnidentified, Adopt, Recovered, Ends,
         DeliverFinished, ResolveOpenWaits, FinishFromFiles, Observe, RecordIdentity, Watch,
         analysisVars, processVars, runnerVars, storeVars
  <2>. QED BY <2>1 DEF RunTypeOK, AnalysisTypes
<1>5. ASSUME NEW k \in Keys, Answering(k) PROVE AnalysisTypes'
  <2>1. UNCHANGED <<reminders, flagged, flagging, task, routing>>
    BY <1>5 DEF Answering, Cancel, CancelListed, Decide, Reconcile, RegisterWait, ExpireWait,
         CancelOne, RequestCancel, SignalCancelled, Watch, Terminated, Ends, DeliverFinished,
         ResolveOpenWaits, sharedVars, analysisVars, lifeVars, outsideRunner, storeVars,
         processVars, outsideStore, runnerVars
  <2>. QED BY <2>1 DEF RunTypeOK, AnalysisTypes
<1>6. ASSUME NEW k \in Keys, Telling(k) PROVE AnalysisTypes'
  <2>1. ASSUME Remind(k) PROVE AnalysisTypes'
    <3>1. reminders[k] + 1 \in 0..(MaxReminders + 1)
      BY <2>1, BoundAssumption DEF Remind, RunTypeOK, AnalysisTypes
    <3>. QED BY <2>1, <3>1 DEF Remind, RunTypeOK, AnalysisTypes
  <2>2. ASSUME RemindersExhausted(k) PROVE AnalysisTypes'
    <3>1. MaxReminders + 1 \in 0..(MaxReminders + 1) BY BoundAssumption
    <3>. QED BY <2>2, <3>1 DEF RemindersExhausted, RunTypeOK, AnalysisTypes, outsideAnalysis
  <2>3. ASSUME RouteFinished(k) PROVE AnalysisTypes'
    BY <2>3 DEF RouteFinished, AnalysisTypes, RunTypeOK, processVars, runnerVars, lifeVars
  <2>4. ASSUME Acknowledge(k)
        PROVE  UNCHANGED <<reminders, flagged, flagging, task, routing>>
    BY <2>4 DEF Acknowledge, outsideStore, processVars, runnerVars, sharedVars, analysisVars,
         lifeVars
  <2>5. ASSUME UNCHANGED <<reminders, flagged, flagging, task, routing>> PROVE AnalysisTypes'
    BY <2>5 DEF RunTypeOK, AnalysisTypes
  <2>. QED BY <1>6, <2>1, <2>2, <2>3, <2>4, <2>5 DEF Telling
<1>7. ASSUME Round PROVE AnalysisTypes'
  <2>1. ASSUME FlagTeam PROVE AnalysisTypes'
    BY <2>1 DEF FlagTeam, AnalysisTypes, RunTypeOK, outsideAnalysis, storeVars, processVars,
         runnerVars, lifeVars
  <2>2. ASSUME ReadOwed PROVE AnalysisTypes'
    BY <2>2 DEF ReadOwed, AnalysisTypes, RunTypeOK, outsideAnalysis, storeVars, processVars,
         runnerVars, lifeVars
  <2>3. ASSUME ReadSettled PROVE AnalysisTypes'
    BY <2>3 DEF ReadSettled, AnalysisTypes, RunTypeOK, outsideAnalysis, storeVars, processVars,
         runnerVars, lifeVars
  <2>4. ASSUME StartAnalysis PROVE AnalysisTypes'
    BY <2>4 DEF StartAnalysis, AnalysisTypes, RunTypeOK, outsideAnalysis, storeVars,
         processVars, runnerVars, lifeVars
  <2>5. ASSUME ResolveAnalysis PROVE AnalysisTypes'
    BY <2>5 DEF ResolveAnalysis, AnalysisTypes, RunTypeOK, outsideAnalysis, storeVars,
         processVars, runnerVars, lifeVars
  <2>6. ASSUME \/ (\E l \in Limits : SetLimits(l))
               \/ (\E s \in {"active", "paused", "closed"} : SetEnvelopeState(s))
               \/ (\E m \in Members : ReassignWaits(m))
              \/ CloseForCancel \/ ListForCancel \/ MarkDisbanding
              \/ CancelTeam \/ DeleteTeam
        PROVE  UNCHANGED <<reminders, flagged, flagging, task, routing>>
    BY <2>6 DEF SetLimits, SetEnvelopeState, ReassignWaits, CloseForCancel, ListForCancel,
         MarkDisbanding, CancelTeam, DeleteTeam, KillAll, outsideStore, processVars, runnerVars,
         sharedVars, analysisVars, lifeVars, outsideRunner, storeVars
  <2>7. ASSUME UNCHANGED <<reminders, flagged, flagging, task, routing>> PROVE AnalysisTypes'
    BY <2>7 DEF RunTypeOK, AnalysisTypes
  <2>. QED BY <1>7, <2>1, <2>2, <2>3, <2>4, <2>5, <2>6, <2>7 DEF Round
<1>8. ASSUME NEW reboots \in BOOLEAN, Crash(reboots) PROVE AnalysisTypes'
    BY <1>8 DEF Crash, KillAll, Off, AnalysisTypes, RunTypeOK, storeVars
<1>9. ASSUME Restart PROVE AnalysisTypes'
  <2>1. UNCHANGED <<reminders, flagged, flagging, task, routing>>
    BY <1>9 DEF Restart, storeVars, analysisVars, processVars, runnerVars
  <2>. QED BY <2>1 DEF RunTypeOK, AnalysisTypes
<1>10. ASSUME UNCHANGED runVars PROVE AnalysisTypes'
  <2>1. UNCHANGED <<reminders, flagged, flagging, task, routing>>
    BY <1>10 DEF runVars, storeVars, analysisVars, processVars, runnerVars, lifeVars
  <2>. QED BY <2>1 DEF RunTypeOK, AnalysisTypes
<1>. QED BY <1>1, <1>2, <1>3, <1>4, <1>5, <1>6, <1>7, <1>8, <1>9, <1>10 DEF RunNext

\* what is known of the processes,
LEMMA ProcessTypesStep == ASSUME RunTypeOK, [RunNext]_runVars PROVE ProcessTypes'
<1>1. ASSUME NEW k \in Keys, Launching(k) PROVE ProcessTypes'
  <2>1. ASSUME Spawn(k) PROVE ProcessTypes'
    BY <2>1 DEF Spawn, ProcessTypes, RunTypeOK, Alive, Receipts, storeVars, sharedVars,
         analysisVars, lifeVars
  <2>2. ASSUME MarkRunning(k) PROVE ProcessTypes'
    BY <2>2 DEF MarkRunning, RecordIdentity, Watch, Kill, ProcessTypes, RunTypeOK, Alive,
         Receipts, sharedVars, analysisVars, lifeVars
  <2>3. ASSUME \/ Reserve(k) \/ ReserveAgain(k) \/ MarkLaunching(k)
              \/ SpawnFails(k) \/ EndedUnidentified(k)
        PROVE  UNCHANGED <<process, receipt, spawned, late>>
    BY <2>3 DEF Reserve, ReserveAgain, MarkLaunching, SpawnFails, EndedUnidentified, Observe,
         Ends, DeliverFinished, ResolveOpenWaits, FinishFromFiles, processVars, sharedVars,
         analysisVars, lifeVars, outsideRunner, storeVars
  <2>4. ASSUME UNCHANGED <<process, receipt, spawned, late>> PROVE ProcessTypes'
    BY <2>4 DEF RunTypeOK, ProcessTypes, Alive, Receipts
  <2>. QED BY <1>1, <2>1, <2>2, <2>3, <2>4 DEF Launching
<1>2. ASSUME NEW k \in Keys, Running(k) PROVE ProcessTypes'
  <2>1. ASSUME WritesPidFile(k) PROVE ProcessTypes'
    BY <2>1 DEF WritesPidFile, ProcessTypes, RunTypeOK, Alive, Receipts, outsideProcess,
         storeVars, runnerVars, sharedVars, analysisVars, lifeVars
  <2>2. ASSUME ProcessEnds(k) PROVE ProcessTypes'
    BY <2>2 DEF ProcessEnds, ProcessTypes, RunTypeOK, Alive, Receipts, outsideProcess,
         storeVars, runnerVars, sharedVars, analysisVars, lifeVars
  <2>3. ASSUME RuntimeLimitPasses(k) PROVE ProcessTypes'
    BY <2>3 DEF RuntimeLimitPasses, ProcessTypes, RunTypeOK, Alive, Receipts, outsideProcess,
         storeVars, runnerVars, sharedVars, analysisVars, lifeVars
  <2>4. ASSUME NEW r \in Receipts, ProgramEnds(k, r) PROVE ProcessTypes'
    BY <2>4 DEF ProgramEnds, ProcessTypes, RunTypeOK, Alive, Receipts, outsideProcess,
         storeVars, runnerVars, sharedVars, analysisVars, lifeVars
  <2>. QED BY <1>2, <2>1, <2>2, <2>3, <2>4 DEF Running
<1>3. ASSUME NEW k \in Keys, Monitoring(k) PROVE ProcessTypes'
  <2>1. ASSUME MonitorFindsReceipt(k) PROVE ProcessTypes'
    BY <2>1 DEF MonitorFindsReceipt, Off, Kill, FinishFromFiles, Observe, Ends, DeliverFinished,
         ResolveOpenWaits, ProcessTypes, RunTypeOK, Alive, Receipts, sharedVars, analysisVars,
         lifeVars, storeVars
  <2>2. ASSUME MonitorTerminates(k) PROVE ProcessTypes'
    BY <2>2 DEF MonitorTerminates, Terminated, ProcessTypes, RunTypeOK, Alive, Receipts,
         sharedVars, analysisVars, lifeVars
  <2>3. ASSUME MonitorKills(k) PROVE ProcessTypes'
    BY <2>3 DEF MonitorKills, Kill, ProcessTypes, RunTypeOK, Alive, Receipts, storeVars,
         sharedVars, analysisVars, lifeVars
  <2>4. ASSUME \/ MonitorReads(k) \/ MonitorFindsGone(k) \/ MonitorSettles(k)
              \/ MonitorWaits(k)
        PROVE  UNCHANGED <<process, receipt, spawned, late>>
    BY <2>4 DEF MonitorReads, MonitorFindsGone, MonitorSettles, MonitorWaits, Off,
         FinishFromFiles, Observe, Ends, DeliverFinished, ResolveOpenWaits, outsideRunner,
         storeVars, processVars, sharedVars, analysisVars, lifeVars
  <2>5. ASSUME UNCHANGED <<process, receipt, spawned, late>> PROVE ProcessTypes'
    BY <2>5 DEF RunTypeOK, ProcessTypes, Alive, Receipts
  <2>. QED BY <1>3, <2>1, <2>2, <2>3, <2>4, <2>5 DEF Monitoring
<1>4. ASSUME NEW k \in Keys, Recovering(k) PROVE ProcessTypes'
  <2>1. UNCHANGED <<process, receipt, spawned, late>>
    BY <1>4 DEF Recovering, AbandonReserved, RecoverUnidentified, Adopt, Recovered, Ends,
         DeliverFinished, ResolveOpenWaits, FinishFromFiles, Observe, RecordIdentity, Watch,
         analysisVars, processVars, runnerVars, storeVars
  <2>. QED BY <2>1 DEF RunTypeOK, ProcessTypes, Alive, Receipts
<1>5. ASSUME NEW k \in Keys, Answering(k) PROVE ProcessTypes'
  <2>1. ASSUME Cancel(k) PROVE ProcessTypes'
    BY <2>1, SignalEffect DEF Cancel, CancelOne, RunTypeOK, ProcessTypes
  <2>2. ASSUME CancelListed(k) PROVE ProcessTypes'
    <3>1. CASE CancelOne(k) BY <3>1, SignalEffect DEF CancelOne, RunTypeOK, ProcessTypes
    <3>2. CASE UNCHANGED outsideRunner
      BY <3>2 DEF outsideRunner, processVars, RunTypeOK, ProcessTypes
    <3>. QED BY <2>2, <3>1, <3>2 DEF CancelListed
  <2>3. ASSUME \/ Decide(k)
               \/ (\E truth \in {"not_started", "finished"} : Reconcile(k, truth))
               \/ (\E m \in Members : RegisterWait(k, m))
              \/ (\E m \in Members : ExpireWait(k, m))
        PROVE  UNCHANGED <<process, receipt, spawned, late>>
    BY <2>3 DEF Decide, Reconcile, RegisterWait, ExpireWait, Ends, ResolveOpenWaits,
         outsideStore, processVars, runnerVars, sharedVars, analysisVars, lifeVars
  <2>4. ASSUME UNCHANGED <<process, receipt, spawned, late>> PROVE ProcessTypes'
    BY <2>4 DEF RunTypeOK, ProcessTypes, Alive, Receipts
  <2>. QED BY <1>5, <2>1, <2>2, <2>3, <2>4 DEF Answering
<1>6. ASSUME NEW k \in Keys, Telling(k) PROVE ProcessTypes'
  <2>1. UNCHANGED <<process, receipt, spawned, late>>
    BY <1>6 DEF Telling, Acknowledge, Remind, RemindersExhausted, RouteFinished, outsideStore,
         processVars, runnerVars, sharedVars, analysisVars, lifeVars, outsideAnalysis, storeVars
  <2>. QED BY <2>1 DEF RunTypeOK, ProcessTypes, Alive, Receipts
<1>7. ASSUME Round PROVE ProcessTypes'
  <2>1. ASSUME CancelTeam PROVE ProcessTypes'
    BY <2>1 DEF CancelTeam, KillAll, ProcessTypes, RunTypeOK, Alive, Receipts, storeVars,
         analysisVars, runnerVars, lifeVars
  <2>2. ASSUME \/ (\E l \in Limits : SetLimits(l))
               \/ (\E s \in {"active", "paused", "closed"} : SetEnvelopeState(s))
               \/ (\E m \in Members : ReassignWaits(m))
              \/ CloseForCancel \/ ListForCancel \/ MarkDisbanding
              \/ DeleteTeam \/ FlagTeam \/ ReadOwed
              \/ ReadSettled \/ StartAnalysis \/ ResolveAnalysis
        PROVE  UNCHANGED <<process, receipt, spawned, late>>
    BY <2>2 DEF SetLimits, SetEnvelopeState, ReassignWaits, CloseForCancel, ListForCancel,
         MarkDisbanding, DeleteTeam, FlagTeam, ReadOwed, ReadSettled, StartAnalysis,
         ResolveAnalysis, outsideStore, processVars, runnerVars, sharedVars, analysisVars,
         lifeVars, outsideRunner, storeVars, outsideAnalysis
  <2>3. ASSUME UNCHANGED <<process, receipt, spawned, late>> PROVE ProcessTypes'
    BY <2>3 DEF RunTypeOK, ProcessTypes, Alive, Receipts
  <2>. QED BY <1>7, <2>1, <2>2, <2>3 DEF Round
<1>8. ASSUME NEW reboots \in BOOLEAN, Crash(reboots) PROVE ProcessTypes'
    BY <1>8 DEF Crash, KillAll, Off, ProcessTypes, RunTypeOK, Alive, Receipts, storeVars
<1>9. ASSUME Restart PROVE ProcessTypes'
  <2>1. UNCHANGED <<process, receipt, spawned, late>>
    BY <1>9 DEF Restart, storeVars, analysisVars, processVars, runnerVars
  <2>. QED BY <2>1 DEF RunTypeOK, ProcessTypes, Alive, Receipts
<1>10. ASSUME UNCHANGED runVars PROVE ProcessTypes'
  <2>1. UNCHANGED <<process, receipt, spawned, late>>
    BY <1>10 DEF runVars, storeVars, analysisVars, processVars, runnerVars, lifeVars
  <2>. QED BY <2>1 DEF RunTypeOK, ProcessTypes, Alive, Receipts
<1>. QED BY <1>1, <1>2, <1>3, <1>4, <1>5, <1>6, <1>7, <1>8, <1>9, <1>10 DEF RunNext

\* the handlers and monitors,
LEMMA RunnerTypesStep == ASSUME RunTypeOK, [RunNext]_runVars PROVE RunnerTypes'
<1>1. ASSUME NEW k \in Keys, Launching(k) PROVE RunnerTypes'
  <2>1. ASSUME Reserve(k) PROVE RunnerTypes'
    BY <2>1 DEF Reserve, RunnerTypes, RunTypeOK, processVars, sharedVars, analysisVars, lifeVars
  <2>2. ASSUME ReserveAgain(k) PROVE RunnerTypes'
    BY <2>2 DEF ReserveAgain, RunnerTypes, RunTypeOK, outsideRunner, storeVars, processVars,
         sharedVars, analysisVars, lifeVars
  <2>3. ASSUME MarkLaunching(k) PROVE RunnerTypes'
    BY <2>3 DEF MarkLaunching, RunnerTypes, RunTypeOK, processVars, sharedVars, analysisVars,
         lifeVars
  <2>4. ASSUME Spawn(k) PROVE RunnerTypes'
    BY <2>4 DEF Spawn, RunnerTypes, RunTypeOK, storeVars, sharedVars, analysisVars, lifeVars
  <2>5. ASSUME SpawnFails(k) PROVE RunnerTypes'
    BY <2>5 DEF SpawnFails, Observe, Ends, DeliverFinished, ResolveOpenWaits, RunnerTypes,
         RunTypeOK, processVars, sharedVars, analysisVars, lifeVars, storeVars
  <2>6. ASSUME MarkRunning(k) PROVE RunnerTypes'
    <3>1. CASE Watch(k) BY <2>6, <3>1 DEF MarkRunning, Watch, RunTypeOK, RunnerTypes
    <3>2. CASE UNCHANGED monitor BY <2>6, <3>2 DEF MarkRunning, RunTypeOK, RunnerTypes
    <3>. QED BY <2>6, <3>1, <3>2 DEF MarkRunning
  <2>7. ASSUME EndedUnidentified(k) PROVE RunnerTypes'
    BY <2>7 DEF EndedUnidentified, FinishFromFiles, Observe, Ends, DeliverFinished,
         ResolveOpenWaits, RunnerTypes, RunTypeOK, processVars, sharedVars, analysisVars,
         lifeVars, storeVars
  <2>. QED BY <1>1, <2>1, <2>2, <2>3, <2>4, <2>5, <2>6, <2>7 DEF Launching
<1>2. ASSUME NEW k \in Keys, Running(k) PROVE RunnerTypes'
  <2>1. UNCHANGED <<callers, launcher, monitor, sweep>>
    BY <1>2 DEF Running, WritesPidFile, ProcessEnds, RuntimeLimitPasses, ProgramEnds,
         outsideProcess, storeVars, runnerVars, sharedVars, analysisVars, lifeVars
  <2>. QED BY <2>1 DEF RunTypeOK, RunnerTypes
<1>3. ASSUME NEW k \in Keys, Monitoring(k) PROVE RunnerTypes'
  <2>1. ASSUME MonitorReads(k) PROVE RunnerTypes'
    <3>1. rows[k].cancel \in BOOLEAN BY DEF RunTypeOK, StoreTypes, Row
    <3>2. (monitor \in [Keys -> [at : {"off", "watch", "look", "settle"},
                                 cancel : BOOLEAN, termed : BOOLEAN]])'
      BY <2>1, <3>1 DEF MonitorReads, Off, RunTypeOK, RunnerTypes
    <3>. QED BY <2>1, <3>2 DEF MonitorReads, RunTypeOK, RunnerTypes
  <2>2. ASSUME MonitorFindsReceipt(k) PROVE RunnerTypes'
    BY <2>2 DEF MonitorFindsReceipt, Off, Kill, FinishFromFiles, Observe, Ends, DeliverFinished,
         ResolveOpenWaits, RunnerTypes, RunTypeOK, sharedVars, analysisVars, lifeVars, storeVars
  <2>3. ASSUME MonitorFindsGone(k) PROVE RunnerTypes'
    BY <2>3 DEF MonitorFindsGone, RunnerTypes, RunTypeOK, outsideRunner, storeVars, processVars,
         sharedVars, analysisVars, lifeVars
  <2>4. ASSUME MonitorSettles(k) PROVE RunnerTypes'
    BY <2>4 DEF MonitorSettles, Off, FinishFromFiles, Observe, Ends, DeliverFinished,
         ResolveOpenWaits, RunnerTypes, RunTypeOK, processVars, sharedVars, analysisVars,
         lifeVars, storeVars
  <2>5. ASSUME MonitorTerminates(k) PROVE RunnerTypes'
    BY <2>5 DEF MonitorTerminates, Terminated, RunnerTypes, RunTypeOK, sharedVars, analysisVars,
         lifeVars
  <2>6. ASSUME MonitorKills(k) PROVE RunnerTypes'
    BY <2>6 DEF MonitorKills, Kill, RunnerTypes, RunTypeOK, storeVars, sharedVars, analysisVars,
         lifeVars
  <2>7. ASSUME MonitorWaits(k) PROVE RunnerTypes'
    BY <2>7 DEF MonitorWaits, RunnerTypes, RunTypeOK, outsideRunner, storeVars, processVars,
         sharedVars, analysisVars, lifeVars
  <2>. QED BY <1>3, <2>1, <2>2, <2>3, <2>4, <2>5, <2>6, <2>7 DEF Monitoring
<1>4. ASSUME NEW k \in Keys, Recovering(k) PROVE RunnerTypes'
  <2>1. ASSUME RecoverUnidentified(k) PROVE RunnerTypes'
    <3>1. CASE Watch(k) BY <2>1, <3>1 DEF RecoverUnidentified, Watch, RunTypeOK, RunnerTypes
    <3>2. CASE UNCHANGED monitor BY <2>1, <3>2 DEF RecoverUnidentified, RunTypeOK, RunnerTypes
    <3>. QED BY <2>1, <3>1, <3>2 DEF RecoverUnidentified
  <2>2. ASSUME Adopt(k) PROVE RunnerTypes'
    BY <2>2 DEF Adopt, Recovered, Watch, RunnerTypes, RunTypeOK, storeVars, analysisVars,
         processVars
  <2>3. ASSUME AbandonReserved(k)
        PROVE  UNCHANGED <<callers, launcher, monitor, sweep>>
    BY <2>3 DEF AbandonReserved, Recovered, Ends, DeliverFinished, ResolveOpenWaits,
         analysisVars, processVars, runnerVars
  <2>4. ASSUME UNCHANGED <<callers, launcher, monitor, sweep>> PROVE RunnerTypes'
    BY <2>4 DEF RunTypeOK, RunnerTypes
  <2>. QED BY <1>4, <2>1, <2>2, <2>3, <2>4 DEF Recovering
<1>5. ASSUME NEW k \in Keys, Answering(k) PROVE RunnerTypes'
  <2>1. ASSUME Cancel(k) PROVE RunnerTypes'
    BY <2>1, SignalEffect DEF Cancel, CancelOne, RunTypeOK, RunnerTypes
  <2>2. ASSUME CancelListed(k) PROVE RunnerTypes'
    <3>1. sweep' \in [at : {"idle", "closed", "listed"}, left : SUBSET Keys]
      BY <2>2 DEF CancelListed, RunTypeOK, RunnerTypes
    <3>2. CASE CancelOne(k) BY <3>1, <3>2, SignalEffect DEF CancelOne, RunTypeOK, RunnerTypes
    <3>3. CASE UNCHANGED <<callers, launcher, monitor, outsideRunner>>
      BY <3>1, <3>3 DEF RunTypeOK, RunnerTypes
    <3>. QED BY <2>2, <3>2, <3>3 DEF CancelListed
  <2>3. ASSUME \/ Decide(k)
               \/ (\E truth \in {"not_started", "finished"} : Reconcile(k, truth))
               \/ (\E m \in Members : RegisterWait(k, m))
              \/ (\E m \in Members : ExpireWait(k, m))
        PROVE  UNCHANGED <<callers, launcher, monitor, sweep>>
    BY <2>3 DEF Decide, Reconcile, RegisterWait, ExpireWait, Ends, ResolveOpenWaits,
         outsideStore, processVars, runnerVars, sharedVars, analysisVars, lifeVars
  <2>4. ASSUME UNCHANGED <<callers, launcher, monitor, sweep>> PROVE RunnerTypes'
    BY <2>4 DEF RunTypeOK, RunnerTypes
  <2>. QED BY <1>5, <2>1, <2>2, <2>3, <2>4 DEF Answering
<1>6. ASSUME NEW k \in Keys, Telling(k) PROVE RunnerTypes'
  <2>1. UNCHANGED <<callers, launcher, monitor, sweep>>
    BY <1>6 DEF Telling, Acknowledge, Remind, RemindersExhausted, RouteFinished, outsideStore,
         processVars, runnerVars, sharedVars, analysisVars, lifeVars, outsideAnalysis, storeVars
  <2>. QED BY <2>1 DEF RunTypeOK, RunnerTypes
<1>7. ASSUME Round PROVE RunnerTypes'
  <2>1. ASSUME CloseForCancel PROVE RunnerTypes'
    BY <2>1 DEF CloseForCancel, RunnerTypes, RunTypeOK, processVars, sharedVars, analysisVars,
         lifeVars
  <2>2. ASSUME ListForCancel PROVE RunnerTypes'
    BY <2>2 DEF ListForCancel, RunnerTypes, RunTypeOK, outsideRunner, storeVars, processVars,
         sharedVars, analysisVars, lifeVars
  <2>3. ASSUME \/ (\E l \in Limits : SetLimits(l))
               \/ (\E s \in {"active", "paused", "closed"} : SetEnvelopeState(s))
               \/ (\E m \in Members : ReassignWaits(m))
              \/ MarkDisbanding \/ CancelTeam \/ DeleteTeam
              \/ FlagTeam \/ ReadOwed \/ ReadSettled
              \/ StartAnalysis \/ ResolveAnalysis
        PROVE  UNCHANGED <<callers, launcher, monitor, sweep>>
    BY <2>3 DEF SetLimits, SetEnvelopeState, ReassignWaits, MarkDisbanding, CancelTeam,
         DeleteTeam, FlagTeam, ReadOwed, ReadSettled, StartAnalysis, ResolveAnalysis, KillAll,
         outsideStore, processVars, runnerVars, sharedVars, analysisVars, lifeVars, storeVars,
         outsideAnalysis
  <2>4. ASSUME UNCHANGED <<callers, launcher, monitor, sweep>> PROVE RunnerTypes'
    BY <2>4 DEF RunTypeOK, RunnerTypes
  <2>. QED BY <1>7, <2>1, <2>2, <2>3, <2>4 DEF Round
<1>8. ASSUME NEW reboots \in BOOLEAN, Crash(reboots) PROVE RunnerTypes'
    BY <1>8 DEF Crash, KillAll, Off, RunnerTypes, RunTypeOK, storeVars
<1>9. ASSUME Restart PROVE RunnerTypes'
  <2>1. UNCHANGED <<callers, launcher, monitor, sweep>>
    BY <1>9 DEF Restart, storeVars, analysisVars, processVars, runnerVars
  <2>. QED BY <2>1 DEF RunTypeOK, RunnerTypes
<1>10. ASSUME UNCHANGED runVars PROVE RunnerTypes'
  <2>1. UNCHANGED <<callers, launcher, monitor, sweep>>
    BY <1>10 DEF runVars, storeVars, analysisVars, processVars, runnerVars, lifeVars
  <2>. QED BY <2>1 DEF RunTypeOK, RunnerTypes
<1>. QED BY <1>1, <1>2, <1>3, <1>4, <1>5, <1>6, <1>7, <1>8, <1>9, <1>10 DEF RunNext

\* and what recovery goes through.
LEMMA LifeTypesStep == ASSUME RunTypeOK, [RunNext]_runVars PROVE LifeTypes'
<1>1. ASSUME NEW k \in Keys, Launching(k) PROVE LifeTypes'
  <2>1. UNCHANGED <<owner, team, recovering, up, crashes>>
    BY <1>1 DEF Launching, Reserve, ReserveAgain, MarkLaunching, Spawn, SpawnFails, MarkRunning,
         EndedUnidentified, Observe, Ends, DeliverFinished, ResolveOpenWaits, RecordIdentity,
         Watch, Kill, FinishFromFiles, processVars, sharedVars, analysisVars, lifeVars,
         outsideRunner, storeVars
  <2>. QED BY <2>1 DEF RunTypeOK, LifeTypes
<1>2. ASSUME NEW k \in Keys, Running(k) PROVE LifeTypes'
  <2>1. UNCHANGED <<owner, team, recovering, up, crashes>>
    BY <1>2 DEF Running, WritesPidFile, ProcessEnds, RuntimeLimitPasses, ProgramEnds,
         outsideProcess, storeVars, runnerVars, sharedVars, analysisVars, lifeVars
  <2>. QED BY <2>1 DEF RunTypeOK, LifeTypes
<1>3. ASSUME NEW k \in Keys, Monitoring(k) PROVE LifeTypes'
  <2>1. UNCHANGED <<owner, team, recovering, up, crashes>>
    BY <1>3 DEF Monitoring, MonitorReads, MonitorFindsReceipt, MonitorFindsGone, MonitorSettles,
         MonitorTerminates, MonitorKills, MonitorWaits, Off, Kill, FinishFromFiles, Observe,
         Ends, DeliverFinished, ResolveOpenWaits, Terminated, outsideRunner, storeVars,
         processVars, sharedVars, analysisVars, lifeVars
  <2>. QED BY <2>1 DEF RunTypeOK, LifeTypes
<1>4. ASSUME NEW k \in Keys, Recovering(k) PROVE LifeTypes'
  <2>1. ASSUME AbandonReserved(k) PROVE LifeTypes'
    BY <2>1 DEF AbandonReserved, Recovered, Ends, DeliverFinished, ResolveOpenWaits, LifeTypes,
         RunTypeOK, analysisVars, processVars, runnerVars
  <2>2. ASSUME RecoverUnidentified(k) PROVE LifeTypes'
    BY <2>2 DEF RecoverUnidentified, Recovered, FinishFromFiles, Observe, Ends, DeliverFinished,
         ResolveOpenWaits, RecordIdentity, Watch, LifeTypes, RunTypeOK, analysisVars,
         processVars, storeVars
  <2>3. ASSUME Adopt(k) PROVE LifeTypes'
    BY <2>3 DEF Adopt, Recovered, Watch, LifeTypes, RunTypeOK, storeVars, analysisVars,
         processVars
  <2>. QED BY <1>4, <2>1, <2>2, <2>3 DEF Recovering
<1>5. ASSUME NEW k \in Keys, Answering(k) PROVE LifeTypes'
  <2>1. UNCHANGED <<owner, team, recovering, up, crashes>>
    BY <1>5 DEF Answering, Cancel, CancelListed, Decide, Reconcile, RegisterWait, ExpireWait,
         CancelOne, RequestCancel, SignalCancelled, Watch, Terminated, Ends, DeliverFinished,
         ResolveOpenWaits, sharedVars, analysisVars, lifeVars, outsideRunner, storeVars,
         processVars, outsideStore, runnerVars
  <2>. QED BY <2>1 DEF RunTypeOK, LifeTypes
<1>6. ASSUME NEW k \in Keys, Telling(k) PROVE LifeTypes'
  <2>1. UNCHANGED <<owner, team, recovering, up, crashes>>
    BY <1>6 DEF Telling, Acknowledge, Remind, RemindersExhausted, RouteFinished, outsideStore,
         processVars, runnerVars, sharedVars, analysisVars, lifeVars, outsideAnalysis, storeVars
  <2>. QED BY <2>1 DEF RunTypeOK, LifeTypes
<1>7. ASSUME Round PROVE LifeTypes'
  <2>1. ASSUME MarkDisbanding PROVE LifeTypes'
    BY <2>1 DEF MarkDisbanding, LifeTypes, RunTypeOK, storeVars, analysisVars, processVars,
         runnerVars, lifeVars
  <2>2. ASSUME CancelTeam PROVE LifeTypes'
    BY <2>2 DEF CancelTeam, KillAll, LifeTypes, RunTypeOK, storeVars, analysisVars, runnerVars,
         lifeVars
  <2>3. ASSUME DeleteTeam PROVE LifeTypes'
    BY <2>3 DEF DeleteTeam, LifeTypes, RunTypeOK, analysisVars, processVars, runnerVars,
         lifeVars
  <2>4. ASSUME \/ (\E l \in Limits : SetLimits(l))
               \/ (\E s \in {"active", "paused", "closed"} : SetEnvelopeState(s))
               \/ (\E m \in Members : ReassignWaits(m))
              \/ CloseForCancel \/ ListForCancel \/ FlagTeam
              \/ ReadOwed \/ ReadSettled \/ StartAnalysis
              \/ ResolveAnalysis
        PROVE  UNCHANGED <<owner, team, recovering, up, crashes>>
    BY <2>4 DEF SetLimits, SetEnvelopeState, ReassignWaits, CloseForCancel, ListForCancel,
         FlagTeam, ReadOwed, ReadSettled, StartAnalysis, ResolveAnalysis, outsideStore,
         processVars, runnerVars, sharedVars, analysisVars, lifeVars, outsideRunner, storeVars,
         outsideAnalysis
  <2>5. ASSUME UNCHANGED <<owner, team, recovering, up, crashes>> PROVE LifeTypes'
    BY <2>5 DEF RunTypeOK, LifeTypes
  <2>. QED BY <1>7, <2>1, <2>2, <2>3, <2>4, <2>5 DEF Round
<1>8. ASSUME NEW reboots \in BOOLEAN, Crash(reboots) PROVE LifeTypes'
  <2>1. team' \in {team, "disbanding"} /\ recovering' = {} /\ up' = FALSE
        /\ crashes' = crashes + 1 /\ owner' = owner
    BY <1>8 DEF Crash
  <2>2. up' \in BOOLEAN BY <2>1
  <2>3. team' \in {"active", "disbanding", "cancelled", "deleted"} BY <2>1 DEF RunTypeOK,
       LifeTypes
  <2>. QED BY <2>1, <2>2, <2>3 DEF RunTypeOK, LifeTypes
<1>9. ASSUME Restart PROVE LifeTypes'
    BY <1>9 DEF Restart, LifeTypes, RunTypeOK, storeVars, analysisVars, processVars, runnerVars
<1>10. ASSUME UNCHANGED runVars PROVE LifeTypes'
  <2>1. UNCHANGED <<owner, team, recovering, up, crashes>>
    BY <1>10 DEF runVars, storeVars, analysisVars, processVars, runnerVars, lifeVars
  <2>. QED BY <2>1 DEF RunTypeOK, LifeTypes
<1>. QED BY <1>1, <1>2, <1>3, <1>4, <1>5, <1>6, <1>7, <1>8, <1>9, <1>10 DEF RunNext

-----------------------------------------------------------------------------
(* Claims, rows, processes and monitors. *)

(* The launch facts of one key follow from the rows, claims and processes of that key alone. *)
LEMMA KeyKept ==
    ASSUME NEW j \in Keys, KeyInv(j), rows'[j] = rows[j], process'[j] = process[j],
           receipt'[j] = receipt[j], spawned'[j] = spawned[j], launcher'[j] = launcher[j],
           monitor'[j] = monitor[j]
    PROVE  KeyInv(j)'
BY DEF KeyInv, RowsMatch, ClaimHeld, SettledGone, GroupAlive

(* Cancelling one attempt (experiment_runner/mod.rs: cancel) keeps the launch facts of every key. *)
LEMMA LaunchInvCancelled ==
    ASSUME RunInv, NEW k \in Keys, CancelOne(k) PROVE LaunchInv'
<1>1. /\ CancelledNow(k) /\ Signalled(k)
      /\ UNCHANGED <<envelope, receipt, spawned, callers, launcher>>
  BY CancelEffect DEF RunInv
<1>2. \A j \in Keys : KeyInv(j) BY DEF RunInv, LaunchInv
<1>3. ASSUME NEW j \in Keys, j # k PROVE KeyInv(j)'
  BY <1>1, <1>2, <1>3, KeyKept DEF CancelledNow, Signalled, OthersKept
<1>4. KeyInv(k)'
  BY <1>1, <1>2
     DEF CancelledNow, Signalled, KeyInv, RowsMatch, ClaimHeld, SettledGone, GroupAlive,
         LeaderAlive, Alive
<1>. QED BY <1>3, <1>4 DEF LaunchInv

\* A claim, its row, its process and its monitor.
LEMMA LaunchInvStep == ASSUME RunInv, [RunNext]_runVars PROVE LaunchInv'
<1>0. /\ \A j \in Keys : KeyInv(j)
      /\ rows \in [Keys -> Row] /\ process \in [Keys -> {"none", "gone"} \cup Alive]
      /\ launcher \in [Keys -> {"idle", "spawn", "identify"}] /\ DOMAIN monitor = Keys
      /\ spawned \in [Keys -> Nat] /\ \A j \in Keys : rows[j] \in Row
  BY DEF RunInv, RunTypeOK, LaunchInv, StoreTypes, ProcessTypes, RunnerTypes
<1>1. ASSUME NEW k \in Keys, Launching(k) PROVE LaunchInv'
  <2>1. ASSUME Reserve(k) PROVE LaunchInv'
    BY <1>0, <2>1 DEF Reserve, LaunchInv, KeyInv, RowsMatch, ClaimHeld, SettledGone, Active,
         Holding, Final, Alive, GroupAlive, LeaderAlive, processVars, sharedVars, analysisVars,
         lifeVars
  <2>2. ASSUME MarkLaunching(k) PROVE LaunchInv'
    <3>1. /\ OthersKept(k) /\ UNCHANGED <<envelope, waits, process, receipt, spawned, monitor,
                                            sweep>>
          /\ \A j \in Keys : j # k => launcher'[j] = launcher[j]
          /\ rows'[k].identity = rows[k].identity /\ rows'[k].cancel = rows[k].cancel
          /\ rows'[k].timeout = rows[k].timeout /\ rows'[k].refunded = rows[k].refunded
          /\ \/ /\ rows[k].state = "reserved" /\ rows'[k].state = "launching"
                /\ launcher'[k] = "spawn"
             \/ /\ rows'[k].state = rows[k].state /\ launcher'[k] = launcher[k]
      BY <2>2, ClaimEffect DEF RunInv
    <3>2. ASSUME NEW j \in Keys, j # k PROVE KeyInv(j)'
      BY <1>0, <3>1, <3>2, KeyKept DEF OthersKept
    <3>3. KeyInv(k)'
      BY <1>0, <3>1
         DEF OthersKept, KeyInv, RowsMatch, ClaimHeld, SettledGone, GroupAlive, Alive, Active,
              Holding, Final
    <3>. QED BY <3>2, <3>3 DEF LaunchInv
  <2>3. ASSUME Spawn(k) PROVE LaunchInv'
    BY <1>0, <2>3 DEF Spawn, LaunchInv, KeyInv, RowsMatch, ClaimHeld, SettledGone, Active,
         Holding, Final, Alive, GroupAlive, LeaderAlive, storeVars, sharedVars, analysisVars,
         lifeVars
  <2>4. ASSUME SpawnFails(k) PROVE LaunchInv'
    <3>1. /\ Observed(k, "failed_to_start") /\ launcher[k] = "spawn"
          /\ launcher' = [launcher EXCEPT ![k] = "idle"]
          /\ UNCHANGED <<process, receipt, spawned, monitor, sweep, owner>>
      BY <2>4, ObserveEffect DEF SpawnFails, RunInv, RunTypeOK, Final, processVars, sharedVars
    <3>2. ASSUME NEW j \in Keys, j # k PROVE KeyInv(j)'
      BY <1>0, <3>1, <3>2, KeyKept DEF Observed, OthersKept
    <3>3. KeyInv(k)'
      BY <1>0, <3>1
         DEF Observed, OthersKept, KeyInv, RowsMatch, ClaimHeld, SettledGone, GroupAlive, Alive,
              Active, Holding, Final
    <3>. QED BY <3>2, <3>3 DEF LaunchInv
  <2>5. ASSUME MarkRunning(k) PROVE LaunchInv'
    <3>1. /\ launcher' = [launcher EXCEPT ![k] = "idle"] /\ launcher[k] = "identify"
          /\ UNCHANGED <<envelope, waits, receipt, spawned, sweep>>
          /\ \/ /\ rows[k].state \in {"launching", "reserved", "cancelling"}
                /\ Identified(k) /\ Watch(k) /\ UNCHANGED process
             \/ Kill(k) /\ UNCHANGED <<rows, monitor>>
      BY <2>5, MarkRunningEffect DEF RunInv
    <3>2. ASSUME NEW j \in Keys, j # k PROVE KeyInv(j)'
      BY <1>0, <3>1, <3>2, KeyKept DEF Identified, Watch, Kill, OthersKept
    <3>3. KeyInv(k)'
      BY <1>0, <3>1
         DEF Identified, Watch, Kill, OthersKept, KeyInv, RowsMatch, ClaimHeld, SettledGone,
              GroupAlive, Alive, Active, Holding, Final
    <3>. QED BY <3>2, <3>3 DEF LaunchInv
  <2>6. ASSUME EndedUnidentified(k) PROVE LaunchInv'
    <3>1. /\ \E st \in Final \cup {"unknown"} :
                   /\ Observed(k, st)
                   /\ receipt[k] = "none" /\ ~rows[k].timeout => st = "unknown"
          /\ launcher[k] = "identify" /\ launcher' = [launcher EXCEPT ![k] = "idle"]
          /\ UNCHANGED <<process, receipt, spawned, monitor, sweep, owner>>
      BY <2>6, FinishEffect DEF EndedUnidentified, RunInv, RunTypeOK, processVars, sharedVars
    <3>2. ASSUME NEW j \in Keys, j # k PROVE KeyInv(j)'
      BY <1>0, <3>1, <3>2, KeyKept DEF Observed, OthersKept
    <3>3. KeyInv(k)'
      BY <1>0, <3>1
         DEF Observed, OthersKept, KeyInv, RowsMatch, ClaimHeld, SettledGone, GroupAlive, Alive,
              Active, Holding, Final
    <3>. QED BY <3>2, <3>3 DEF LaunchInv
  <2>7. ASSUME ReserveAgain(k)
        PROVE  UNCHANGED <<rows, process, receipt, spawned, launcher, monitor>>
    BY <2>7 DEF ReserveAgain, outsideRunner, storeVars, processVars, sharedVars, analysisVars,
         lifeVars
  <2>8. ASSUME UNCHANGED <<rows, process, receipt, spawned, launcher, monitor>> PROVE LaunchInv'
    BY <2>8 DEF RunInv, LaunchInv, KeyInv, RowsMatch, ClaimHeld, SettledGone, GroupAlive
  <2>. QED BY <1>1, <2>1, <2>2, <2>3, <2>4, <2>5, <2>6, <2>7, <2>8 DEF Launching
<1>2. ASSUME NEW k \in Keys, Running(k) PROVE LaunchInv'
  <2>1. ASSUME WritesPidFile(k) PROVE LaunchInv'
    BY <1>0, <2>1 DEF WritesPidFile, LaunchInv, KeyInv, RowsMatch, ClaimHeld, SettledGone,
         Active, Holding, Final, Alive, GroupAlive, LeaderAlive, outsideProcess, storeVars,
         runnerVars, sharedVars, analysisVars, lifeVars
  <2>2. ASSUME ProcessEnds(k) PROVE LaunchInv'
    BY <1>0, <2>2 DEF ProcessEnds, LaunchInv, KeyInv, RowsMatch, ClaimHeld, SettledGone, Active,
         Holding, Final, Alive, GroupAlive, LeaderAlive, outsideProcess, storeVars, runnerVars,
         sharedVars, analysisVars, lifeVars
  <2>3. ASSUME NEW r \in Receipts, ProgramEnds(k, r) PROVE LaunchInv'
    BY <1>0, <2>3 DEF ProgramEnds, LaunchInv, KeyInv, RowsMatch, ClaimHeld, SettledGone, Active,
         Holding, Final, Alive, GroupAlive, LeaderAlive, outsideProcess, storeVars, runnerVars,
         sharedVars, analysisVars, lifeVars
  <2>4. ASSUME RuntimeLimitPasses(k)
        PROVE  UNCHANGED <<rows, process, receipt, spawned, launcher, monitor>>
    BY <2>4 DEF RuntimeLimitPasses, outsideProcess, storeVars, runnerVars, sharedVars,
         analysisVars, lifeVars
  <2>5. ASSUME UNCHANGED <<rows, process, receipt, spawned, launcher, monitor>> PROVE LaunchInv'
    BY <2>5 DEF RunInv, LaunchInv, KeyInv, RowsMatch, ClaimHeld, SettledGone, GroupAlive
  <2>. QED BY <1>2, <2>1, <2>2, <2>3, <2>4, <2>5 DEF Running
<1>3. ASSUME NEW k \in Keys, Monitoring(k) PROVE LaunchInv'
  <2>1. ASSUME MonitorReads(k) PROVE LaunchInv'
    BY <1>0, <2>1 DEF MonitorReads, Off, LaunchInv, KeyInv, RowsMatch, ClaimHeld, SettledGone,
         Active, Holding, Final, Alive, GroupAlive, LeaderAlive, outsideRunner, storeVars,
         processVars, sharedVars, analysisVars, lifeVars
  <2>2. ASSUME MonitorFindsReceipt(k) PROVE LaunchInv'
    <3>1. /\ \E st \in Final \cup {"unknown"} : Observed(k, st)
          /\ monitor' = [monitor EXCEPT ![k] = Off] /\ Kill(k) /\ monitor[k].at = "look"
          /\ UNCHANGED <<receipt, spawned, launcher, sweep, owner>>
      BY <2>2, MonitorEffect DEF MonitorFindsReceipt, RunInv, sharedVars
    <3>2. ASSUME NEW j \in Keys, j # k PROVE KeyInv(j)'
      BY <1>0, <3>1, <3>2, KeyKept DEF Observed, Off, Kill, OthersKept
    <3>3. KeyInv(k)'
      BY <1>0, <3>1
         DEF Observed, Off, Kill, OthersKept, KeyInv, RowsMatch, ClaimHeld, SettledGone,
              GroupAlive, Alive, Active, Holding, Final
    <3>. QED BY <3>2, <3>3 DEF LaunchInv
  <2>3. ASSUME MonitorFindsGone(k) PROVE LaunchInv'
    BY <1>0, <2>3 DEF MonitorFindsGone, LaunchInv, KeyInv, RowsMatch, ClaimHeld, SettledGone,
         Active, Holding, Final, Alive, GroupAlive, LeaderAlive, outsideRunner, storeVars,
         processVars, sharedVars, analysisVars, lifeVars
  <2>4. ASSUME MonitorSettles(k) PROVE LaunchInv'
    <3>1. /\ \E st \in Final \cup {"unknown"} : Observed(k, st)
          /\ monitor' = [monitor EXCEPT ![k] = Off] /\ monitor[k].at = "settle"
          /\ UNCHANGED <<process, receipt, spawned, launcher, sweep, owner>>
      BY <2>4, MonitorEffect DEF MonitorSettles, RunInv, processVars, sharedVars
    <3>2. ASSUME NEW j \in Keys, j # k PROVE KeyInv(j)'
      BY <1>0, <3>1, <3>2, KeyKept DEF Observed, Off, OthersKept
    <3>3. KeyInv(k)'
      BY <1>0, <3>1
         DEF Observed, Off, OthersKept, KeyInv, RowsMatch, ClaimHeld, SettledGone, GroupAlive,
              Alive, Active, Holding, Final
    <3>. QED BY <3>2, <3>3 DEF LaunchInv
  <2>5. ASSUME MonitorTerminates(k) PROVE LaunchInv'
    BY <1>0, <2>5 DEF MonitorTerminates, Terminated, LaunchInv, KeyInv, RowsMatch, ClaimHeld,
         SettledGone, Active, Holding, Final, Alive, GroupAlive, LeaderAlive, sharedVars,
         analysisVars, lifeVars
  <2>6. ASSUME MonitorKills(k) PROVE LaunchInv'
    BY <1>0, <2>6 DEF MonitorKills, Kill, LaunchInv, KeyInv, RowsMatch, ClaimHeld, SettledGone,
         Active, Holding, Final, Alive, GroupAlive, LeaderAlive, storeVars, sharedVars,
         analysisVars, lifeVars
  <2>7. ASSUME MonitorWaits(k) PROVE LaunchInv'
    BY <1>0, <2>7 DEF MonitorWaits, LaunchInv, KeyInv, RowsMatch, ClaimHeld, SettledGone,
         Active, Holding, Final, Alive, GroupAlive, LeaderAlive, outsideRunner, storeVars,
         processVars, sharedVars, analysisVars, lifeVars
  <2>. QED BY <1>3, <2>1, <2>2, <2>3, <2>4, <2>5, <2>6, <2>7 DEF Monitoring
<1>4. ASSUME NEW k \in Keys, Recovering(k) PROVE LaunchInv'
  <2>1. ASSUME AbandonReserved(k) PROVE LaunchInv'
    BY <1>0, <2>1 DEF AbandonReserved, Recovered, Ends, DeliverFinished, ResolveOpenWaits,
         LaunchInv, KeyInv, RowsMatch, ClaimHeld, SettledGone, Active, Holding, Final, Alive,
         GroupAlive, LeaderAlive, analysisVars, processVars, runnerVars
  <2>2. ASSUME RecoverUnidentified(k) PROVE LaunchInv'
    <3>1. /\ \/ /\ receipt[k] # "none" /\ UNCHANGED monitor
                /\ \E st \in Final \cup {"unknown"} : Observed(k, st)
             \/ Identified(k) /\ Watch(k) /\ UNCHANGED <<envelope, waits>>
             \/ Observed(k, "unknown") /\ UNCHANGED monitor
          /\ UNCHANGED <<process, receipt, spawned, launcher, sweep, owner>>
          /\ rows[k].state \in {"launching", "cancelling"} /\ ~rows[k].identity
          /\ launcher[k] = "idle"
      BY <2>2, RecoverEffect DEF RecoverUnidentified, RunInv, RecoversAlone
    <3>2. ASSUME NEW j \in Keys, j # k PROVE KeyInv(j)'
      BY <1>0, <3>1, <3>2, KeyKept DEF Observed, Identified, Watch, OthersKept
    <3>3. KeyInv(k)'
      BY <1>0, <3>1
         DEF Observed, Identified, Watch, OthersKept, KeyInv, RowsMatch, ClaimHeld, SettledGone,
              GroupAlive, Alive, Active, Holding, Final
    <3>. QED BY <3>2, <3>3 DEF LaunchInv
  <2>3. ASSUME Adopt(k) PROVE LaunchInv'
    BY <1>0, <2>3 DEF Adopt, Recovered, Watch, LaunchInv, KeyInv, RowsMatch, ClaimHeld,
         SettledGone, Active, Holding, Final, Alive, GroupAlive, LeaderAlive, storeVars,
         analysisVars, processVars
  <2>. QED BY <1>4, <2>1, <2>2, <2>3 DEF Recovering
<1>5. ASSUME NEW k \in Keys, Answering(k) PROVE LaunchInv'
  <2>1. ASSUME Cancel(k) PROVE LaunchInv'
    BY <2>1, LaunchInvCancelled DEF Cancel, RunInv
  <2>2. ASSUME CancelListed(k) PROVE LaunchInv'
    <3>1. CASE CancelOne(k) BY <3>1, LaunchInvCancelled
    <3>2. CASE UNCHANGED <<callers, launcher, monitor, outsideRunner>>
      BY <3>2 DEF outsideRunner, processVars, storeVars, RunInv, LaunchInv, KeyInv, RowsMatch,
           ClaimHeld, SettledGone, GroupAlive, Alive
    <3>. QED BY <2>2, <3>1, <3>2 DEF CancelListed
  <2>3. ASSUME Decide(k) PROVE LaunchInv'
    BY <1>0, <2>3 DEF Decide, LaunchInv, KeyInv, RowsMatch, ClaimHeld, SettledGone, Active,
         Holding, Final, Alive, GroupAlive, LeaderAlive, outsideStore, processVars, runnerVars,
         sharedVars, analysisVars, lifeVars
  <2>4. ASSUME NEW truth \in {"not_started", "finished"}, Reconcile(k, truth) PROVE LaunchInv'
    <3>1. /\ Settled(k) /\ rows[k].state = "unknown"
          /\ \/ /\ rows'[k].refunded /\ rows'[k].state = "failed_to_start" /\ spawned[k] = 0
                /\ envelope' = [envelope EXCEPT !.launches = IF @ > 0 THEN @ - 1 ELSE 0]
             \/ /\ rows'[k].refunded = rows[k].refunded /\ spawned[k] > 0 /\ ~GroupAlive(k)
                /\ UNCHANGED envelope
          /\ UNCHANGED <<process, receipt, spawned, launcher, monitor, sweep, owner>>
      BY <2>4, ReconcileEffect
         DEF Reconcile, RunInv, outsideStore, sharedVars, processVars, runnerVars
    <3>2. ASSUME NEW j \in Keys, j # k PROVE KeyInv(j)'
      BY <1>0, <3>1, <3>2, KeyKept DEF Settled, OthersKept
    <3>3. KeyInv(k)'
      BY <1>0, <3>1
         DEF Settled, OthersKept, KeyInv, RowsMatch, ClaimHeld, SettledGone, GroupAlive, Alive,
              Active, Holding, Final
    <3>. QED BY <3>2, <3>3 DEF LaunchInv
  <2>5. ASSUME \/ (\E m \in Members : RegisterWait(k, m))
               \/ (\E m \in Members : ExpireWait(k, m))
        PROVE  UNCHANGED <<rows, process, receipt, spawned, launcher, monitor>>
    BY <2>5 DEF RegisterWait, ExpireWait, outsideStore, processVars, runnerVars, sharedVars,
         analysisVars, lifeVars
  <2>6. ASSUME UNCHANGED <<rows, process, receipt, spawned, launcher, monitor>> PROVE LaunchInv'
    BY <2>6 DEF RunInv, LaunchInv, KeyInv, RowsMatch, ClaimHeld, SettledGone, GroupAlive
  <2>. QED BY <1>5, <2>1, <2>2, <2>3, <2>4, <2>5, <2>6 DEF Answering
<1>6. ASSUME NEW k \in Keys, Telling(k) PROVE LaunchInv'
  <2>1. UNCHANGED <<rows, process, receipt, spawned, launcher, monitor>>
    BY <1>6 DEF Telling, Acknowledge, Remind, RemindersExhausted, RouteFinished, outsideStore,
         processVars, runnerVars, sharedVars, analysisVars, lifeVars, outsideAnalysis, storeVars
  <2>. QED BY <2>1 DEF RunInv, LaunchInv, KeyInv, RowsMatch, ClaimHeld, SettledGone, GroupAlive
<1>7. ASSUME Round PROVE LaunchInv'
  <2>1. ASSUME CancelTeam PROVE LaunchInv'
    BY <1>0, <2>1 DEF CancelTeam, KillAll, LaunchInv, KeyInv, RowsMatch, ClaimHeld, SettledGone,
         Active, Holding, Final, Alive, GroupAlive, LeaderAlive, storeVars, analysisVars,
         runnerVars, lifeVars
  <2>2. ASSUME DeleteTeam PROVE LaunchInv'
    BY <1>0, <2>2 DEF DeleteTeam, LaunchInv, KeyInv, RowsMatch, ClaimHeld, SettledGone, Active,
         Holding, Final, Alive, GroupAlive, LeaderAlive, analysisVars, processVars, runnerVars,
         lifeVars
  <2>3. ASSUME \/ (\E l \in Limits : SetLimits(l))
               \/ (\E s \in {"active", "paused", "closed"} : SetEnvelopeState(s))
               \/ (\E m \in Members : ReassignWaits(m))
              \/ CloseForCancel \/ ListForCancel \/ MarkDisbanding
              \/ FlagTeam \/ ReadOwed \/ ReadSettled
              \/ StartAnalysis \/ ResolveAnalysis
        PROVE  UNCHANGED <<rows, process, receipt, spawned, launcher, monitor>>
    BY <2>3 DEF SetLimits, SetEnvelopeState, ReassignWaits, CloseForCancel, ListForCancel,
         MarkDisbanding, FlagTeam, ReadOwed, ReadSettled, StartAnalysis, ResolveAnalysis,
         outsideStore, processVars, runnerVars, sharedVars, analysisVars, lifeVars,
         outsideRunner, storeVars, outsideAnalysis
  <2>4. ASSUME UNCHANGED <<rows, process, receipt, spawned, launcher, monitor>> PROVE LaunchInv'
    BY <2>4 DEF RunInv, LaunchInv, KeyInv, RowsMatch, ClaimHeld, SettledGone, GroupAlive
  <2>. QED BY <1>7, <2>1, <2>2, <2>3, <2>4 DEF Round
<1>8. ASSUME NEW reboots \in BOOLEAN, Crash(reboots) PROVE LaunchInv'
  <2>1. /\ \A j \in Keys : launcher'[j] = "idle" /\ monitor'[j].at = "off"
        /\ \A j \in Keys : process'[j] = process[j] \/ process'[j] = "gone"
        /\ \A j \in Keys : process[j] = "none" => process'[j] = "none"
        /\ UNCHANGED <<rows, receipt, spawned>>
    BY <1>0, <1>8 DEF Crash, KillAll, Off, Alive, storeVars
  <2>2. ASSUME NEW j \in Keys PROVE KeyInv(j)'
    BY <1>0, <2>1 DEF KeyInv, RowsMatch, ClaimHeld, SettledGone, GroupAlive, Alive
  <2>. QED BY <2>2 DEF LaunchInv
<1>9. ASSUME Restart PROVE LaunchInv'
  <2>1. UNCHANGED <<rows, process, receipt, spawned, launcher, monitor>>
    BY <1>9 DEF Restart, storeVars, analysisVars, processVars, runnerVars
  <2>. QED BY <2>1 DEF RunInv, LaunchInv, KeyInv, RowsMatch, ClaimHeld, SettledGone, GroupAlive
<1>10. ASSUME UNCHANGED runVars PROVE LaunchInv'
  <2>1. UNCHANGED <<rows, process, receipt, spawned, launcher, monitor>>
    BY <1>10 DEF runVars, storeVars, analysisVars, processVars, runnerVars, lifeVars
  <2>. QED BY <2>1 DEF RunInv, LaunchInv, KeyInv, RowsMatch, ClaimHeld, SettledGone, GroupAlive
<1>. QED BY <1>1, <1>2, <1>3, <1>4, <1>5, <1>6, <1>7, <1>8, <1>9, <1>10 DEF RunNext

\* Launches and recovery.
LEMMA RecoversAloneStep == ASSUME RunInv, [RunNext]_runVars PROVE RecoversAlone'
<1>1. ASSUME NEW k \in Keys, Launching(k) PROVE RecoversAlone'
  <2>1. ASSUME Reserve(k) PROVE RecoversAlone'
    BY <2>1 DEF Reserve, RunInv, RunTypeOK, RunnerTypes, LifeTypes, RecoversAlone, Serving,
         processVars, sharedVars, analysisVars, lifeVars
  <2>2. ASSUME ReserveAgain(k) PROVE RecoversAlone'
    BY <2>2 DEF ReserveAgain, RunInv, RunTypeOK, RunnerTypes, LifeTypes, RecoversAlone, Serving,
         outsideRunner, storeVars, processVars, sharedVars, analysisVars, lifeVars
  <2>3. ASSUME MarkLaunching(k) PROVE RecoversAlone'
    BY <2>3 DEF MarkLaunching, RunInv, RunTypeOK, RunnerTypes, LifeTypes, RecoversAlone,
         Serving, processVars, sharedVars, analysisVars, lifeVars
  <2>4. ASSUME Spawn(k) PROVE RecoversAlone'
    BY <2>4 DEF Spawn, RunInv, RunTypeOK, RunnerTypes, LifeTypes, RecoversAlone, Serving,
         storeVars, sharedVars, analysisVars, lifeVars
  <2>5. ASSUME SpawnFails(k) PROVE RecoversAlone'
    BY <2>5 DEF SpawnFails, Observe, Ends, DeliverFinished, ResolveOpenWaits, RunInv, RunTypeOK,
         RunnerTypes, LifeTypes, RecoversAlone, Serving, processVars, sharedVars, analysisVars,
         lifeVars, storeVars
  <2>6. ASSUME MarkRunning(k) PROVE RecoversAlone'
    BY <2>6 DEF MarkRunning, RecordIdentity, Watch, Kill, RunInv, RunTypeOK, RunnerTypes,
         LifeTypes, RecoversAlone, Serving, sharedVars, analysisVars, lifeVars
  <2>7. ASSUME EndedUnidentified(k) PROVE RecoversAlone'
    BY <2>7 DEF EndedUnidentified, FinishFromFiles, Observe, Ends, DeliverFinished,
         ResolveOpenWaits, RunInv, RunTypeOK, RunnerTypes, LifeTypes, RecoversAlone, Serving,
         processVars, sharedVars, analysisVars, lifeVars, storeVars
  <2>. QED BY <1>1, <2>1, <2>2, <2>3, <2>4, <2>5, <2>6, <2>7 DEF Launching
<1>2. ASSUME NEW k \in Keys, Running(k) PROVE RecoversAlone'
  <2>1. UNCHANGED <<up, recovering, launcher, callers>>
    BY <1>2 DEF Running, WritesPidFile, ProcessEnds, RuntimeLimitPasses, ProgramEnds,
         outsideProcess, storeVars, runnerVars, sharedVars, analysisVars, lifeVars
  <2>. QED BY <2>1 DEF RunInv, RecoversAlone
<1>3. ASSUME NEW k \in Keys, Monitoring(k) PROVE RecoversAlone'
  <2>1. UNCHANGED <<up, recovering, launcher, callers>>
    BY <1>3 DEF Monitoring, MonitorReads, MonitorFindsReceipt, MonitorFindsGone, MonitorSettles,
         MonitorTerminates, MonitorKills, MonitorWaits, Off, Kill, FinishFromFiles, Observe,
         Ends, DeliverFinished, ResolveOpenWaits, Terminated, outsideRunner, storeVars,
         processVars, sharedVars, analysisVars, lifeVars
  <2>. QED BY <2>1 DEF RunInv, RecoversAlone
<1>4. ASSUME NEW k \in Keys, Recovering(k) PROVE RecoversAlone'
  <2>1. ASSUME AbandonReserved(k) PROVE RecoversAlone'
    BY <2>1 DEF AbandonReserved, Recovered, Ends, DeliverFinished, ResolveOpenWaits, RunInv,
         RunTypeOK, RunnerTypes, LifeTypes, RecoversAlone, Serving, analysisVars, processVars,
         runnerVars
  <2>2. ASSUME RecoverUnidentified(k) PROVE RecoversAlone'
    BY <2>2 DEF RecoverUnidentified, Recovered, FinishFromFiles, Observe, Ends, DeliverFinished,
         ResolveOpenWaits, RecordIdentity, Watch, RunInv, RunTypeOK, RunnerTypes, LifeTypes,
         RecoversAlone, Serving, analysisVars, processVars, storeVars
  <2>3. ASSUME Adopt(k) PROVE RecoversAlone'
    BY <2>3 DEF Adopt, Recovered, Watch, RunInv, RunTypeOK, RunnerTypes, LifeTypes,
         RecoversAlone, Serving, storeVars, analysisVars, processVars
  <2>. QED BY <1>4, <2>1, <2>2, <2>3 DEF Recovering
<1>5. ASSUME NEW k \in Keys, Answering(k) PROVE RecoversAlone'
  <2>1. UNCHANGED <<up, recovering, launcher, callers>>
    BY <1>5 DEF Answering, Cancel, CancelListed, Decide, Reconcile, RegisterWait, ExpireWait,
         CancelOne, RequestCancel, SignalCancelled, Watch, Terminated, Ends, DeliverFinished,
         ResolveOpenWaits, sharedVars, analysisVars, lifeVars, outsideRunner, storeVars,
         processVars, outsideStore, runnerVars
  <2>. QED BY <2>1 DEF RunInv, RecoversAlone
<1>6. ASSUME NEW k \in Keys, Telling(k) PROVE RecoversAlone'
  <2>1. UNCHANGED <<up, recovering, launcher, callers>>
    BY <1>6 DEF Telling, Acknowledge, Remind, RemindersExhausted, RouteFinished, outsideStore,
         processVars, runnerVars, sharedVars, analysisVars, lifeVars, outsideAnalysis, storeVars
  <2>. QED BY <2>1 DEF RunInv, RecoversAlone
<1>7. ASSUME Round PROVE RecoversAlone'
  <2>1. UNCHANGED <<up, recovering, launcher, callers>>
    BY <1>7 DEF Round, SetLimits, SetEnvelopeState, ReassignWaits, CloseForCancel,
         ListForCancel, MarkDisbanding, CancelTeam, DeleteTeam, FlagTeam, ReadOwed, ReadSettled,
         StartAnalysis, ResolveAnalysis, KillAll, outsideStore, processVars, runnerVars,
         sharedVars, analysisVars, lifeVars, outsideRunner, storeVars, outsideAnalysis
  <2>. QED BY <2>1 DEF RunInv, RecoversAlone
<1>8. ASSUME NEW reboots \in BOOLEAN, Crash(reboots) PROVE RecoversAlone'
    BY <1>8 DEF Crash, KillAll, Off, RunInv, RunTypeOK, RunnerTypes, LifeTypes, RecoversAlone,
         Serving, storeVars
<1>9. ASSUME Restart PROVE RecoversAlone'
    BY <1>9 DEF Restart, RunInv, RunTypeOK, RunnerTypes, LifeTypes, RecoversAlone, Serving,
         storeVars, analysisVars, processVars, runnerVars
<1>10. ASSUME UNCHANGED runVars PROVE RecoversAlone'
  <2>1. UNCHANGED <<up, recovering, launcher, callers>>
    BY <1>10 DEF runVars, storeVars, analysisVars, processVars, runnerVars, lifeVars
  <2>. QED BY <2>1 DEF RunInv, RecoversAlone
<1>. QED BY <1>1, <1>2, <1>3, <1>4, <1>5, <1>6, <1>7, <1>8, <1>9, <1>10 DEF RunNext

(* Cancelling one attempt settles it only where no process of it is left. *)
LEMMA SlotCancelled ==
    ASSUME RunInv, NEW k \in Keys, CancelOne(k) PROVE SlotHeldWhileRunning'
<1>1. /\ CancelledNow(k) /\ Signalled(k)
      /\ UNCHANGED <<envelope, receipt, spawned, callers, launcher>>
  BY CancelEffect DEF RunInv
<1>2. KeyInv(k) /\ SlotHeldWhileRunning BY DEF RunInv, LaunchInv
<1>. SUFFICES ASSUME NEW j \in Keys, rows'[j].state \in Final
              PROVE  ~GroupAlive(j)' \/ (receipt'[j] # "none" /\ ~rows'[j].identity)
  BY DEF SlotHeldWhileRunning
<1>3. CASE j # k
  BY <1>1, <1>2, <1>3 DEF CancelledNow, Signalled, OthersKept, SlotHeldWhileRunning, GroupAlive
<1>4. CASE j = k
  BY <1>1, <1>2, <1>4
     DEF CancelledNow, Signalled, KeyInv, RowsMatch, GroupAlive, LeaderAlive, Alive, Final
<1>. QED BY <1>3, <1>4

\* Slots and processes.
LEMMA SlotHeldWhileRunningStep == ASSUME RunInv, [RunNext]_runVars PROVE SlotHeldWhileRunning'
<1>0. /\ \A j \in Keys : KeyInv(j)
      /\ \A j \in Keys : rows[j].state \in Final =>
            ~GroupAlive(j) \/ (receipt[j] # "none" /\ ~rows[j].identity)
      /\ rows \in [Keys -> Row] /\ process \in [Keys -> {"none", "gone"} \cup Alive]
      /\ receipt \in [Keys -> {"none"} \cup Receipts]
  BY DEF RunInv, RunTypeOK, LaunchInv, StoreTypes, ProcessTypes, SlotHeldWhileRunning
<1>1. ASSUME NEW k \in Keys, Launching(k) PROVE SlotHeldWhileRunning'
  <2>1. ASSUME Reserve(k) PROVE SlotHeldWhileRunning'
    BY <1>0, <2>1 DEF Reserve, SlotHeldWhileRunning, KeyInv, RowsMatch, ClaimHeld, SettledGone,
         Active, Holding, Final, Alive, GroupAlive, LeaderAlive, processVars, sharedVars,
         analysisVars, lifeVars
  <2>2. ASSUME MarkLaunching(k) PROVE SlotHeldWhileRunning'
    <3>1. /\ OthersKept(k) /\ UNCHANGED <<envelope, waits, process, receipt, spawned, monitor,
                                            sweep>>
          /\ \A j \in Keys : j # k => launcher'[j] = launcher[j]
          /\ rows'[k].identity = rows[k].identity /\ rows'[k].cancel = rows[k].cancel
          /\ rows'[k].timeout = rows[k].timeout /\ rows'[k].refunded = rows[k].refunded
          /\ \/ /\ rows[k].state = "reserved" /\ rows'[k].state = "launching"
                /\ launcher'[k] = "spawn"
             \/ /\ rows'[k].state = rows[k].state /\ launcher'[k] = launcher[k]
      BY <2>2, ClaimEffect DEF RunInv
    <3>. SUFFICES ASSUME NEW j \in Keys, rows'[j].state \in Final
        PROVE  ~GroupAlive(j)' \/ (receipt'[j] # "none" /\ ~rows'[j].identity)
      BY DEF SlotHeldWhileRunning
    <3>2. CASE j # k BY <1>0, <3>1, <3>2 DEF OthersKept, GroupAlive, Alive
    <3>3. CASE j = k
      BY <1>0, <3>1, <3>3 DEF OthersKept, KeyInv, RowsMatch, ClaimHeld, SettledGone, GroupAlive,
           LeaderAlive,
         Alive, Active, Holding, Final
    <3>. QED BY <3>2, <3>3
  <2>3. ASSUME Spawn(k) PROVE SlotHeldWhileRunning'
    <3>1. /\ launcher[k] = "spawn" /\ process' = [process EXCEPT ![k] = "started"]
          /\ UNCHANGED <<rows, receipt>>
      BY <2>3 DEF Spawn, storeVars
    <3>. SUFFICES ASSUME NEW j \in Keys, rows'[j].state \in Final
        PROVE  ~GroupAlive(j)' \/ (receipt'[j] # "none" /\ ~rows'[j].identity)
      BY DEF SlotHeldWhileRunning
    <3>2. CASE j # k BY <1>0, <3>1, <3>2 DEF GroupAlive
    <3>3. CASE j = k
      BY <1>0, <3>1, <3>3 DEF KeyInv, ClaimHeld, Final
    <3>. QED BY <3>2, <3>3
  <2>4. ASSUME SpawnFails(k) PROVE SlotHeldWhileRunning'
    <3>1. /\ Observed(k, "failed_to_start") /\ launcher[k] = "spawn"
          /\ launcher' = [launcher EXCEPT ![k] = "idle"]
          /\ UNCHANGED <<process, receipt, spawned, monitor, sweep, owner>>
      BY <2>4, ObserveEffect DEF SpawnFails, RunInv, RunTypeOK, Final, processVars, sharedVars
    <3>. SUFFICES ASSUME NEW j \in Keys, rows'[j].state \in Final
        PROVE  ~GroupAlive(j)' \/ (receipt'[j] # "none" /\ ~rows'[j].identity)
      BY DEF SlotHeldWhileRunning
    <3>2. CASE j # k BY <1>0, <3>1, <3>2 DEF Observed, OthersKept, GroupAlive, Alive
    <3>3. CASE j = k
      BY <1>0, <3>1, <3>3 DEF Observed, OthersKept, KeyInv, RowsMatch, ClaimHeld, SettledGone,
           GroupAlive, LeaderAlive,
         Alive, Active, Holding, Final
    <3>. QED BY <3>2, <3>3
  <2>5. ASSUME MarkRunning(k) PROVE SlotHeldWhileRunning'
    <3>1. /\ launcher' = [launcher EXCEPT ![k] = "idle"] /\ launcher[k] = "identify"
          /\ UNCHANGED <<envelope, waits, receipt, spawned, sweep>>
          /\ \/ /\ rows[k].state \in {"launching", "reserved", "cancelling"}
                /\ Identified(k) /\ Watch(k) /\ UNCHANGED process
             \/ Kill(k) /\ UNCHANGED <<rows, monitor>>
      BY <2>5, MarkRunningEffect DEF RunInv
    <3>. SUFFICES ASSUME NEW j \in Keys, rows'[j].state \in Final
        PROVE  ~GroupAlive(j)' \/ (receipt'[j] # "none" /\ ~rows'[j].identity)
      BY DEF SlotHeldWhileRunning
    <3>2. CASE j # k BY <1>0, <3>1, <3>2 DEF Identified, OthersKept, Kill, GroupAlive, Alive
    <3>3. CASE j = k
      BY <1>0, <3>1, <3>3 DEF Identified, OthersKept, Kill, KeyInv, RowsMatch, ClaimHeld,
           SettledGone, GroupAlive, LeaderAlive,
         Alive, Active, Holding, Final
    <3>. QED BY <3>2, <3>3
  <2>6. ASSUME EndedUnidentified(k) PROVE SlotHeldWhileRunning'
    <3>1. /\ \E st \in Final \cup {"unknown"} :
                   /\ Observed(k, st)
                   /\ receipt[k] = "none" /\ ~rows[k].timeout => st = "unknown"
          /\ launcher[k] = "identify" /\ launcher' = [launcher EXCEPT ![k] = "idle"]
          /\ UNCHANGED <<process, receipt, spawned, monitor, sweep, owner>>
      BY <2>6, FinishEffect DEF EndedUnidentified, RunInv, RunTypeOK, processVars, sharedVars
    <3>. SUFFICES ASSUME NEW j \in Keys, rows'[j].state \in Final
        PROVE  ~GroupAlive(j)' \/ (receipt'[j] # "none" /\ ~rows'[j].identity)
      BY DEF SlotHeldWhileRunning
    <3>2. CASE j # k BY <1>0, <3>1, <3>2 DEF Observed, OthersKept, GroupAlive, Alive
    <3>3. CASE j = k
      BY <1>0, <3>1, <3>3 DEF Observed, OthersKept, KeyInv, RowsMatch, ClaimHeld, SettledGone,
           GroupAlive, LeaderAlive,
         Alive, Active, Holding, Final
    <3>. QED BY <3>2, <3>3
  <2>7. ASSUME ReserveAgain(k)
        PROVE  UNCHANGED <<rows, process, receipt>>
    BY <2>7 DEF ReserveAgain, outsideRunner, storeVars, processVars, sharedVars, analysisVars,
         lifeVars
  <2>8. ASSUME UNCHANGED <<rows, process, receipt>> PROVE SlotHeldWhileRunning'
    BY <2>8 DEF RunInv, SlotHeldWhileRunning, GroupAlive
  <2>. QED BY <1>1, <2>1, <2>2, <2>3, <2>4, <2>5, <2>6, <2>7, <2>8 DEF Launching
<1>2. ASSUME NEW k \in Keys, Running(k) PROVE SlotHeldWhileRunning'
  <2>1. ASSUME WritesPidFile(k) PROVE SlotHeldWhileRunning'
    BY <1>0, <2>1 DEF WritesPidFile, SlotHeldWhileRunning, KeyInv, RowsMatch, ClaimHeld,
         SettledGone, Active, Holding, Final, Alive, GroupAlive, LeaderAlive, outsideProcess,
         storeVars, runnerVars, sharedVars, analysisVars, lifeVars
  <2>2. ASSUME ProcessEnds(k) PROVE SlotHeldWhileRunning'
    BY <1>0, <2>2 DEF ProcessEnds, SlotHeldWhileRunning, KeyInv, RowsMatch, ClaimHeld,
         SettledGone, Active, Holding, Final, Alive, GroupAlive, LeaderAlive, outsideProcess,
         storeVars, runnerVars, sharedVars, analysisVars, lifeVars
  <2>3. ASSUME NEW r \in Receipts, ProgramEnds(k, r) PROVE SlotHeldWhileRunning'
    <3>1. /\ process[k] = "named" /\ UNCHANGED rows
          /\ \A i \in Keys : i # k => process'[i] = process[i] /\ receipt'[i] = receipt[i]
          /\ receipt'[k] # "none"
      BY <1>0, <2>3 DEF ProgramEnds, Receipts, outsideProcess, storeVars
    <3>. SUFFICES ASSUME NEW j \in Keys, rows'[j].state \in Final
        PROVE  ~GroupAlive(j)' \/ (receipt'[j] # "none" /\ ~rows'[j].identity)
      BY DEF SlotHeldWhileRunning
    <3>2. CASE j # k BY <1>0, <3>1, <3>2 DEF GroupAlive
    <3>3. CASE j = k
      BY <1>0, <3>1, <3>3 DEF GroupAlive, Alive
    <3>. QED BY <3>2, <3>3
  <2>4. ASSUME RuntimeLimitPasses(k)
        PROVE  UNCHANGED <<rows, process, receipt>>
    BY <2>4 DEF RuntimeLimitPasses, outsideProcess, storeVars, runnerVars, sharedVars,
         analysisVars, lifeVars
  <2>5. ASSUME UNCHANGED <<rows, process, receipt>> PROVE SlotHeldWhileRunning'
    BY <2>5 DEF RunInv, SlotHeldWhileRunning, GroupAlive
  <2>. QED BY <1>2, <2>1, <2>2, <2>3, <2>4, <2>5 DEF Running
<1>3. ASSUME NEW k \in Keys, Monitoring(k) PROVE SlotHeldWhileRunning'
  <2>1. ASSUME MonitorFindsReceipt(k) PROVE SlotHeldWhileRunning'
    <3>1. /\ \E st \in Final \cup {"unknown"} : Observed(k, st)
          /\ monitor' = [monitor EXCEPT ![k] = Off] /\ Kill(k) /\ monitor[k].at = "look"
          /\ UNCHANGED <<receipt, spawned, launcher, sweep, owner>>
      BY <2>1, MonitorEffect DEF MonitorFindsReceipt, RunInv, sharedVars
    <3>. SUFFICES ASSUME NEW j \in Keys, rows'[j].state \in Final
        PROVE  ~GroupAlive(j)' \/ (receipt'[j] # "none" /\ ~rows'[j].identity)
      BY DEF SlotHeldWhileRunning
    <3>2. CASE j # k BY <1>0, <3>1, <3>2 DEF Observed, OthersKept, Kill, GroupAlive, Alive
    <3>3. CASE j = k
      BY <1>0, <3>1, <3>3 DEF Observed, OthersKept, Kill, KeyInv, RowsMatch, ClaimHeld,
           SettledGone, GroupAlive, LeaderAlive,
         Alive, Active, Holding, Final
    <3>. QED BY <3>2, <3>3
  <2>2. ASSUME MonitorSettles(k) PROVE SlotHeldWhileRunning'
    <3>1. /\ \E st \in Final \cup {"unknown"} : Observed(k, st)
          /\ monitor' = [monitor EXCEPT ![k] = Off] /\ monitor[k].at = "settle"
          /\ UNCHANGED <<process, receipt, spawned, launcher, sweep, owner>>
      BY <2>2, MonitorEffect DEF MonitorSettles, RunInv, processVars, sharedVars
    <3>. SUFFICES ASSUME NEW j \in Keys, rows'[j].state \in Final
        PROVE  ~GroupAlive(j)' \/ (receipt'[j] # "none" /\ ~rows'[j].identity)
      BY DEF SlotHeldWhileRunning
    <3>2. CASE j # k BY <1>0, <3>1, <3>2 DEF Observed, OthersKept, GroupAlive, Alive
    <3>3. CASE j = k
      BY <1>0, <3>1, <3>3 DEF Observed, OthersKept, KeyInv, RowsMatch, ClaimHeld, SettledGone,
           GroupAlive, LeaderAlive,
         Alive, Active, Holding, Final
    <3>. QED BY <3>2, <3>3
  <2>3. ASSUME MonitorTerminates(k) PROVE SlotHeldWhileRunning'
    BY <1>0, <2>3 DEF MonitorTerminates, Terminated, SlotHeldWhileRunning, KeyInv, RowsMatch,
         ClaimHeld, SettledGone, Active, Holding, Final, Alive, GroupAlive, LeaderAlive,
         sharedVars, analysisVars, lifeVars
  <2>4. ASSUME MonitorKills(k) PROVE SlotHeldWhileRunning'
    BY <1>0, <2>4 DEF MonitorKills, Kill, SlotHeldWhileRunning, KeyInv, RowsMatch, ClaimHeld,
         SettledGone, Active, Holding, Final, Alive, GroupAlive, LeaderAlive, storeVars,
         sharedVars, analysisVars, lifeVars
  <2>5. ASSUME MonitorReads(k) \/ MonitorFindsGone(k) \/ MonitorWaits(k)
        PROVE  UNCHANGED <<rows, process, receipt>>
    BY <2>5 DEF MonitorReads, MonitorFindsGone, MonitorWaits, Off, outsideRunner, storeVars,
         processVars, sharedVars, analysisVars, lifeVars
  <2>6. ASSUME UNCHANGED <<rows, process, receipt>> PROVE SlotHeldWhileRunning'
    BY <2>6 DEF RunInv, SlotHeldWhileRunning, GroupAlive
  <2>. QED BY <1>3, <2>1, <2>2, <2>3, <2>4, <2>5, <2>6 DEF Monitoring
<1>4. ASSUME NEW k \in Keys, Recovering(k) PROVE SlotHeldWhileRunning'
  <2>1. ASSUME AbandonReserved(k) PROVE SlotHeldWhileRunning'
    <3>1. /\ Settled(k) /\ rows[k].state = "reserved" /\ rows'[k].refunded
          /\ rows'[k].state = "failed_to_start"
          /\ envelope' = [envelope EXCEPT !.launches = IF @ > 0 THEN @ - 1 ELSE 0]
          /\ UNCHANGED <<process, receipt, spawned, launcher, monitor, sweep, owner>>
      BY <2>1, AbandonEffect DEF AbandonReserved, RunInv
    <3>. SUFFICES ASSUME NEW j \in Keys, rows'[j].state \in Final
        PROVE  ~GroupAlive(j)' \/ (receipt'[j] # "none" /\ ~rows'[j].identity)
      BY DEF SlotHeldWhileRunning
    <3>2. CASE j # k BY <1>0, <3>1, <3>2 DEF Settled, OthersKept, GroupAlive, Alive
    <3>3. CASE j = k
      BY <1>0, <3>1, <3>3 DEF Settled, OthersKept, KeyInv, RowsMatch, ClaimHeld, SettledGone,
           GroupAlive, LeaderAlive,
         Alive, Active, Holding, Final
    <3>. QED BY <3>2, <3>3
  <2>2. ASSUME RecoverUnidentified(k) PROVE SlotHeldWhileRunning'
    <3>1. /\ \/ /\ receipt[k] # "none" /\ UNCHANGED monitor
                /\ \E st \in Final \cup {"unknown"} : Observed(k, st)
             \/ Identified(k) /\ Watch(k) /\ UNCHANGED <<envelope, waits>>
             \/ Observed(k, "unknown") /\ UNCHANGED monitor
          /\ UNCHANGED <<process, receipt, spawned, launcher, sweep, owner>>
          /\ rows[k].state \in {"launching", "cancelling"} /\ ~rows[k].identity
          /\ launcher[k] = "idle"
      BY <2>2, RecoverEffect DEF RecoverUnidentified, RunInv, RecoversAlone
    <3>. SUFFICES ASSUME NEW j \in Keys, rows'[j].state \in Final
        PROVE  ~GroupAlive(j)' \/ (receipt'[j] # "none" /\ ~rows'[j].identity)
      BY DEF SlotHeldWhileRunning
    <3>2. CASE j # k BY <1>0, <3>1, <3>2 DEF Observed, Identified, OthersKept, GroupAlive, Alive
    <3>3. CASE j = k
      BY <1>0, <3>1, <3>3 DEF Observed, Identified, OthersKept, KeyInv, RowsMatch, ClaimHeld,
           SettledGone, GroupAlive, LeaderAlive,
         Alive, Active, Holding, Final
    <3>. QED BY <3>2, <3>3
  <2>3. ASSUME Adopt(k)
        PROVE  UNCHANGED <<rows, process, receipt>>
    BY <2>3 DEF Adopt, Recovered, Watch, storeVars, analysisVars, processVars
  <2>4. ASSUME UNCHANGED <<rows, process, receipt>> PROVE SlotHeldWhileRunning'
    BY <2>4 DEF RunInv, SlotHeldWhileRunning, GroupAlive
  <2>. QED BY <1>4, <2>1, <2>2, <2>3, <2>4 DEF Recovering
<1>5. ASSUME NEW k \in Keys, Answering(k) PROVE SlotHeldWhileRunning'
  <2>1. ASSUME Cancel(k) PROVE SlotHeldWhileRunning'
    BY <2>1, SlotCancelled DEF Cancel
  <2>2. ASSUME CancelListed(k) PROVE SlotHeldWhileRunning'
    <3>1. CASE CancelOne(k) BY <3>1, SlotCancelled
    <3>2. CASE UNCHANGED <<callers, launcher, monitor, outsideRunner>>
      BY <2>2, <3>2 DEF outsideRunner, processVars, storeVars, RunInv, SlotHeldWhileRunning,
         GroupAlive
    <3>. QED BY <2>2, <3>1, <3>2 DEF CancelListed
  <2>3. ASSUME Decide(k) PROVE SlotHeldWhileRunning'
    BY <1>0, <2>3 DEF Decide, SlotHeldWhileRunning, KeyInv, RowsMatch, ClaimHeld, SettledGone,
         Active, Holding, Final, Alive, GroupAlive, LeaderAlive, outsideStore, processVars,
         runnerVars, sharedVars, analysisVars, lifeVars
  <2>4. ASSUME NEW truth \in {"not_started", "finished"}, Reconcile(k, truth)
      PROVE  SlotHeldWhileRunning'
    <3>1. /\ Settled(k) /\ rows[k].state = "unknown"
          /\ \/ /\ rows'[k].refunded /\ rows'[k].state = "failed_to_start" /\ spawned[k] = 0
                /\ envelope' = [envelope EXCEPT !.launches = IF @ > 0 THEN @ - 1 ELSE 0]
             \/ /\ rows'[k].refunded = rows[k].refunded /\ spawned[k] > 0 /\ ~GroupAlive(k)
                /\ UNCHANGED envelope
          /\ UNCHANGED <<process, receipt, spawned, launcher, monitor, sweep, owner>>
      BY <2>4, ReconcileEffect
         DEF Reconcile, RunInv, outsideStore, sharedVars, processVars, runnerVars
    <3>. SUFFICES ASSUME NEW j \in Keys, rows'[j].state \in Final
        PROVE  ~GroupAlive(j)' \/ (receipt'[j] # "none" /\ ~rows'[j].identity)
      BY DEF SlotHeldWhileRunning
    <3>2. CASE j # k BY <1>0, <3>1, <3>2 DEF Settled, OthersKept, GroupAlive, Alive
    <3>3. CASE j = k
      BY <1>0, <3>1, <3>3 DEF Settled, OthersKept, KeyInv, RowsMatch, ClaimHeld, SettledGone,
           GroupAlive, LeaderAlive,
         Alive, Active, Holding, Final
    <3>. QED BY <3>2, <3>3
  <2>5. ASSUME \/ (\E m \in Members : RegisterWait(k, m))
               \/ (\E m \in Members : ExpireWait(k, m))
        PROVE  UNCHANGED <<rows, process, receipt>>
    BY <2>5 DEF RegisterWait, ExpireWait, outsideStore, processVars, runnerVars, sharedVars,
         analysisVars, lifeVars
  <2>6. ASSUME UNCHANGED <<rows, process, receipt>> PROVE SlotHeldWhileRunning'
    BY <2>6 DEF RunInv, SlotHeldWhileRunning, GroupAlive
  <2>. QED BY <1>5, <2>1, <2>2, <2>3, <2>4, <2>5, <2>6 DEF Answering
<1>6. ASSUME NEW k \in Keys, Telling(k) PROVE SlotHeldWhileRunning'
  <2>1. UNCHANGED <<rows, process, receipt>>
    BY <1>6 DEF Telling, Acknowledge, Remind, RemindersExhausted, RouteFinished, outsideStore,
         processVars, runnerVars, sharedVars, analysisVars, lifeVars, outsideAnalysis, storeVars
  <2>. QED BY <2>1 DEF RunInv, SlotHeldWhileRunning, GroupAlive
<1>7. ASSUME Round PROVE SlotHeldWhileRunning'
  <2>1. ASSUME CancelTeam PROVE SlotHeldWhileRunning'
    BY <1>0, <2>1 DEF CancelTeam, KillAll, SlotHeldWhileRunning, KeyInv, RowsMatch, ClaimHeld,
         SettledGone, Active, Holding, Final, Alive, GroupAlive, LeaderAlive, storeVars,
         analysisVars, runnerVars, lifeVars
  <2>2. ASSUME DeleteTeam PROVE SlotHeldWhileRunning'
    BY <1>0, <2>2 DEF DeleteTeam, SlotHeldWhileRunning, KeyInv, RowsMatch, ClaimHeld,
         SettledGone, Active, Holding, Final, Alive, GroupAlive, LeaderAlive, analysisVars,
         processVars, runnerVars, lifeVars
  <2>3. ASSUME \/ (\E l \in Limits : SetLimits(l))
               \/ (\E s \in {"active", "paused", "closed"} : SetEnvelopeState(s))
               \/ (\E m \in Members : ReassignWaits(m))
              \/ CloseForCancel \/ ListForCancel \/ MarkDisbanding
              \/ FlagTeam \/ ReadOwed \/ ReadSettled
              \/ StartAnalysis \/ ResolveAnalysis
        PROVE  UNCHANGED <<rows, process, receipt>>
    BY <2>3 DEF SetLimits, SetEnvelopeState, ReassignWaits, CloseForCancel, ListForCancel,
         MarkDisbanding, FlagTeam, ReadOwed, ReadSettled, StartAnalysis, ResolveAnalysis,
         outsideStore, processVars, runnerVars, sharedVars, analysisVars, lifeVars,
         outsideRunner, storeVars, outsideAnalysis
  <2>4. ASSUME UNCHANGED <<rows, process, receipt>> PROVE SlotHeldWhileRunning'
    BY <2>4 DEF RunInv, SlotHeldWhileRunning, GroupAlive
  <2>. QED BY <1>7, <2>1, <2>2, <2>3, <2>4 DEF Round
<1>8. ASSUME NEW reboots \in BOOLEAN, Crash(reboots) PROVE SlotHeldWhileRunning'
  <2>1. /\ \A j \in Keys : process'[j] = process[j] \/ process'[j] = "gone"
        /\ UNCHANGED <<rows, receipt>>
    BY <1>0, <1>8 DEF Crash, KillAll, Alive, storeVars
  <2>. QED BY <1>0, <2>1 DEF SlotHeldWhileRunning, GroupAlive, Alive
<1>9. ASSUME Restart PROVE SlotHeldWhileRunning'
  <2>1. UNCHANGED <<rows, process, receipt>>
    BY <1>9 DEF Restart, storeVars, analysisVars, processVars, runnerVars
  <2>. QED BY <2>1 DEF RunInv, SlotHeldWhileRunning, GroupAlive
<1>10. ASSUME UNCHANGED runVars PROVE SlotHeldWhileRunning'
  <2>1. UNCHANGED <<rows, process, receipt>>
    BY <1>10 DEF runVars, storeVars, analysisVars, processVars, runnerVars, lifeVars
  <2>. QED BY <2>1 DEF RunInv, SlotHeldWhileRunning, GroupAlive
<1>. QED BY <1>1, <1>2, <1>3, <1>4, <1>5, <1>6, <1>7, <1>8, <1>9, <1>10 DEF RunNext

(* Cancelling one attempt resolves the waits of the row it ends. *)
LEMMA WaitsCancelled ==
    ASSUME RunInv, NEW k \in Keys, CancelOne(k) PROVE TeamWaits' /\ OpenWaitIsOwed'
<1>1. CancelledNow(k) /\ UNCHANGED owner BY CancelEffect DEF RunInv, CancelOne, sharedVars
<1>2. /\ TeamWaits /\ OpenWaitIsOwed
      /\ \A j \in Keys, m \in Members : <<j, m>> \in Keys \X Members
  BY DEF RunInv
<1>3. TeamWaits' BY <1>1, <1>2 DEF CancelledNow, WaitsKept, TeamWaits
<1>4. ASSUME NEW j \in Keys, NEW m \in Members, waits'[<<j, m>>] = "open" PROVE Active(j)'
  <2>1. waits[<<j, m>>] = "open" BY <1>1, <1>2, <1>4 DEF CancelledNow, WaitsKept
  <2>2. Active(j) BY <1>2, <2>1 DEF OpenWaitIsOwed
  <2>3. CASE j # k BY <1>1, <2>2, <2>3 DEF CancelledNow, OthersKept, Active
  <2>4. CASE j = k BY <1>1, <1>4, <2>2, <2>4 DEF CancelledNow, NobodyWaits, Active, Holding
  <2>. QED BY <2>3, <2>4
<1>. QED BY <1>3, <1>4 DEF OpenWaitIsOwed

\* Waits and owners.
LEMMA TeamWaitsStep == ASSUME RunInv, [RunNext]_runVars PROVE TeamWaits'
<1>0. /\ TeamWaits /\ OpenWaitIsOwed /\ DOMAIN waits = Keys \X Members
      /\ rows \in [Keys -> Row] /\ \A m \in Members, j \in Keys : <<j, m>> \in Keys \X Members
  BY DEF RunInv, RunTypeOK, StoreTypes
<1>1. ASSUME NEW k \in Keys, Launching(k) PROVE TeamWaits'
  <2>1. ASSUME SpawnFails(k) PROVE TeamWaits'
    <3>1. /\ Observed(k, "failed_to_start") /\ launcher[k] = "spawn"
          /\ launcher' = [launcher EXCEPT ![k] = "idle"]
          /\ UNCHANGED <<process, receipt, spawned, monitor, sweep, owner>>
      BY <2>1, ObserveEffect DEF SpawnFails, RunInv, RunTypeOK, Final, processVars, sharedVars
    <3>. QED BY <1>0, <3>1 DEF Observed, WaitsKept, TeamWaits
  <2>2. ASSUME EndedUnidentified(k) PROVE TeamWaits'
    <3>1. /\ \E st \in Final \cup {"unknown"} :
                   /\ Observed(k, st)
                   /\ receipt[k] = "none" /\ ~rows[k].timeout => st = "unknown"
          /\ launcher[k] = "identify" /\ launcher' = [launcher EXCEPT ![k] = "idle"]
          /\ UNCHANGED <<process, receipt, spawned, monitor, sweep, owner>>
      BY <2>2, FinishEffect DEF EndedUnidentified, RunInv, RunTypeOK, processVars, sharedVars
    <3>. QED BY <1>0, <3>1 DEF Observed, WaitsKept, TeamWaits
  <2>3. ASSUME \/ Reserve(k) \/ ReserveAgain(k) \/ MarkLaunching(k)
              \/ Spawn(k) \/ MarkRunning(k)
        PROVE  UNCHANGED <<owner, waits>>
    BY <2>3 DEF Reserve, ReserveAgain, MarkLaunching, Spawn, MarkRunning, RecordIdentity, Watch,
         Kill, processVars, sharedVars, analysisVars, lifeVars, outsideRunner, storeVars
  <2>4. ASSUME UNCHANGED <<owner, waits>> PROVE TeamWaits'
    BY <2>4 DEF RunInv, TeamWaits
  <2>. QED BY <1>1, <2>1, <2>2, <2>3, <2>4 DEF Launching
<1>2. ASSUME NEW k \in Keys, Running(k) PROVE TeamWaits'
  <2>1. UNCHANGED <<owner, waits>>
    BY <1>2 DEF Running, WritesPidFile, ProcessEnds, RuntimeLimitPasses, ProgramEnds,
         outsideProcess, storeVars, runnerVars, sharedVars, analysisVars, lifeVars
  <2>. QED BY <2>1 DEF RunInv, TeamWaits
<1>3. ASSUME NEW k \in Keys, Monitoring(k) PROVE TeamWaits'
  <2>1. ASSUME MonitorFindsReceipt(k) PROVE TeamWaits'
    <3>1. /\ \E st \in Final \cup {"unknown"} : Observed(k, st)
          /\ monitor' = [monitor EXCEPT ![k] = Off] /\ Kill(k) /\ monitor[k].at = "look"
          /\ UNCHANGED <<receipt, spawned, launcher, sweep, owner>>
      BY <2>1, MonitorEffect DEF MonitorFindsReceipt, RunInv, sharedVars
    <3>. QED BY <1>0, <3>1 DEF Observed, WaitsKept, TeamWaits
  <2>2. ASSUME MonitorSettles(k) PROVE TeamWaits'
    <3>1. /\ \E st \in Final \cup {"unknown"} : Observed(k, st)
          /\ monitor' = [monitor EXCEPT ![k] = Off] /\ monitor[k].at = "settle"
          /\ UNCHANGED <<process, receipt, spawned, launcher, sweep, owner>>
      BY <2>2, MonitorEffect DEF MonitorSettles, RunInv, processVars, sharedVars
    <3>. QED BY <1>0, <3>1 DEF Observed, WaitsKept, TeamWaits
  <2>3. ASSUME \/ MonitorReads(k) \/ MonitorFindsGone(k) \/ MonitorTerminates(k)
              \/ MonitorKills(k) \/ MonitorWaits(k)
        PROVE  UNCHANGED <<owner, waits>>
    BY <2>3 DEF MonitorReads, MonitorFindsGone, MonitorTerminates, MonitorKills, MonitorWaits,
         Off, Terminated, Kill, outsideRunner, storeVars, processVars, sharedVars, analysisVars,
         lifeVars
  <2>4. ASSUME UNCHANGED <<owner, waits>> PROVE TeamWaits'
    BY <2>4 DEF RunInv, TeamWaits
  <2>. QED BY <1>3, <2>1, <2>2, <2>3, <2>4 DEF Monitoring
<1>4. ASSUME NEW k \in Keys, Recovering(k) PROVE TeamWaits'
  <2>1. ASSUME AbandonReserved(k) PROVE TeamWaits'
    <3>1. /\ Settled(k) /\ rows[k].state = "reserved" /\ rows'[k].refunded
          /\ rows'[k].state = "failed_to_start"
          /\ envelope' = [envelope EXCEPT !.launches = IF @ > 0 THEN @ - 1 ELSE 0]
          /\ UNCHANGED <<process, receipt, spawned, launcher, monitor, sweep, owner>>
      BY <2>1, AbandonEffect DEF AbandonReserved, RunInv
    <3>. QED BY <1>0, <3>1 DEF Settled, WaitsKept, TeamWaits
  <2>2. ASSUME RecoverUnidentified(k) PROVE TeamWaits'
    <3>1. /\ \/ /\ receipt[k] # "none" /\ UNCHANGED monitor
                /\ \E st \in Final \cup {"unknown"} : Observed(k, st)
             \/ Identified(k) /\ Watch(k) /\ UNCHANGED <<envelope, waits>>
             \/ Observed(k, "unknown") /\ UNCHANGED monitor
          /\ UNCHANGED <<process, receipt, spawned, launcher, sweep, owner>>
          /\ rows[k].state \in {"launching", "cancelling"} /\ ~rows[k].identity
          /\ launcher[k] = "idle"
      BY <2>2, RecoverEffect DEF RecoverUnidentified, RunInv, RecoversAlone
    <3>. QED BY <1>0, <3>1 DEF Observed, Identified, WaitsKept, TeamWaits
  <2>3. ASSUME Adopt(k)
        PROVE  UNCHANGED <<owner, waits>>
    BY <2>3 DEF Adopt, Recovered, Watch, storeVars, analysisVars, processVars
  <2>4. ASSUME UNCHANGED <<owner, waits>> PROVE TeamWaits'
    BY <2>4 DEF RunInv, TeamWaits
  <2>. QED BY <1>4, <2>1, <2>2, <2>3, <2>4 DEF Recovering
<1>5. ASSUME NEW k \in Keys, Answering(k) PROVE TeamWaits'
  <2>1. ASSUME Cancel(k) PROVE TeamWaits'
    BY <2>1, WaitsCancelled DEF Cancel
  <2>2. ASSUME CancelListed(k) PROVE TeamWaits'
    <3>1. CASE CancelOne(k) BY <3>1, WaitsCancelled
    <3>2. CASE UNCHANGED <<callers, launcher, monitor, outsideRunner>>
      BY <2>2, <3>2 DEF outsideRunner, sharedVars, storeVars, RunInv, TeamWaits
    <3>. QED BY <2>2, <3>1, <3>2 DEF CancelListed
  <2>3. ASSUME NEW truth \in {"not_started", "finished"}, Reconcile(k, truth) PROVE TeamWaits'
    <3>1. /\ Settled(k) /\ rows[k].state = "unknown"
          /\ \/ /\ rows'[k].refunded /\ rows'[k].state = "failed_to_start" /\ spawned[k] = 0
                /\ envelope' = [envelope EXCEPT !.launches = IF @ > 0 THEN @ - 1 ELSE 0]
             \/ /\ rows'[k].refunded = rows[k].refunded /\ spawned[k] > 0 /\ ~GroupAlive(k)
                /\ UNCHANGED envelope
          /\ UNCHANGED <<process, receipt, spawned, launcher, monitor, sweep, owner>>
      BY <2>3, ReconcileEffect
         DEF Reconcile, RunInv, outsideStore, sharedVars, processVars, runnerVars
    <3>. QED BY <1>0, <3>1 DEF Settled, WaitsKept, TeamWaits
  <2>4. ASSUME NEW m \in Members, RegisterWait(k, m) PROVE TeamWaits'
    BY <1>0, <2>4 DEF RegisterWait, TeamWaits, outsideStore, processVars, runnerVars,
         sharedVars, analysisVars, lifeVars
  <2>5. ASSUME NEW m \in Members, ExpireWait(k, m) PROVE TeamWaits'
    BY <1>0, <2>5 DEF ExpireWait, TeamWaits, outsideStore, processVars, runnerVars, sharedVars,
         analysisVars, lifeVars
  <2>6. ASSUME Decide(k)
        PROVE  UNCHANGED <<owner, waits>>
    BY <2>6 DEF Decide, outsideStore, processVars, runnerVars, sharedVars, analysisVars,
         lifeVars
  <2>7. ASSUME UNCHANGED <<owner, waits>> PROVE TeamWaits'
    BY <2>7 DEF RunInv, TeamWaits
  <2>. QED BY <1>5, <2>1, <2>2, <2>3, <2>4, <2>5, <2>6, <2>7 DEF Answering
<1>6. ASSUME NEW k \in Keys, Telling(k) PROVE TeamWaits'
  <2>1. UNCHANGED <<owner, waits>>
    BY <1>6 DEF Telling, Acknowledge, Remind, RemindersExhausted, RouteFinished, outsideStore,
         processVars, runnerVars, sharedVars, analysisVars, lifeVars, outsideAnalysis, storeVars
  <2>. QED BY <2>1 DEF RunInv, TeamWaits
<1>7. ASSUME Round PROVE TeamWaits'
  <2>1. ASSUME NEW m \in Members, ReassignWaits(m) PROVE TeamWaits'
    BY <1>0, <2>1 DEF ReassignWaits, TeamWaits, outsideStore, processVars, runnerVars,
         sharedVars, analysisVars, lifeVars
  <2>2. ASSUME DeleteTeam PROVE TeamWaits'
    BY <1>0, <2>2 DEF DeleteTeam, TeamWaits, analysisVars, processVars, runnerVars, lifeVars
  <2>3. ASSUME \/ (\E l \in Limits : SetLimits(l))
               \/ (\E s \in {"active", "paused", "closed"} : SetEnvelopeState(s))
               \/ CloseForCancel
              \/ ListForCancel \/ MarkDisbanding \/ CancelTeam
              \/ FlagTeam \/ ReadOwed \/ ReadSettled
              \/ StartAnalysis \/ ResolveAnalysis
        PROVE  UNCHANGED <<owner, waits>>
    BY <2>3 DEF SetLimits, SetEnvelopeState, CloseForCancel, ListForCancel, MarkDisbanding,
         CancelTeam, FlagTeam, ReadOwed, ReadSettled, StartAnalysis, ResolveAnalysis, KillAll,
         outsideStore, processVars, runnerVars, sharedVars, analysisVars, lifeVars,
         outsideRunner, storeVars, outsideAnalysis
  <2>4. ASSUME UNCHANGED <<owner, waits>> PROVE TeamWaits'
    BY <2>4 DEF RunInv, TeamWaits
  <2>. QED BY <1>7, <2>1, <2>2, <2>3, <2>4 DEF Round
<1>8. ASSUME NEW reboots \in BOOLEAN, Crash(reboots) PROVE TeamWaits'
  <2>1. UNCHANGED <<owner, waits>>
    BY <1>8 DEF Crash, KillAll, Off, storeVars
  <2>. QED BY <2>1 DEF RunInv, TeamWaits
<1>9. ASSUME Restart PROVE TeamWaits'
  <2>1. UNCHANGED <<owner, waits>>
    BY <1>9 DEF Restart, storeVars, analysisVars, processVars, runnerVars
  <2>. QED BY <2>1 DEF RunInv, TeamWaits
<1>10. ASSUME UNCHANGED runVars PROVE TeamWaits'
  <2>1. UNCHANGED <<owner, waits>>
    BY <1>10 DEF runVars, storeVars, analysisVars, processVars, runnerVars, lifeVars
  <2>. QED BY <2>1 DEF RunInv, TeamWaits
<1>. QED BY <1>1, <1>2, <1>3, <1>4, <1>5, <1>6, <1>7, <1>8, <1>9, <1>10 DEF RunNext

\* Waits and rows.
LEMMA OpenWaitIsOwedStep == ASSUME RunInv, [RunNext]_runVars PROVE OpenWaitIsOwed'
<1>0. /\ TeamWaits /\ OpenWaitIsOwed /\ DOMAIN waits = Keys \X Members
      /\ rows \in [Keys -> Row] /\ \A m \in Members, j \in Keys : <<j, m>> \in Keys \X Members
  BY DEF RunInv, RunTypeOK, StoreTypes
<1>1. ASSUME NEW k \in Keys, Launching(k) PROVE OpenWaitIsOwed'
  <2>1. ASSUME Reserve(k) PROVE OpenWaitIsOwed'
    BY <1>0, <2>1 DEF Reserve, OpenWaitIsOwed, TeamWaits, Active, Holding, Final, processVars,
         sharedVars, analysisVars, lifeVars
  <2>2. ASSUME MarkLaunching(k) PROVE OpenWaitIsOwed'
    <3>1. /\ OthersKept(k) /\ UNCHANGED <<envelope, waits, process, receipt, spawned, monitor,
                                            sweep>>
          /\ \A j \in Keys : j # k => launcher'[j] = launcher[j]
          /\ rows'[k].identity = rows[k].identity /\ rows'[k].cancel = rows[k].cancel
          /\ rows'[k].timeout = rows[k].timeout /\ rows'[k].refunded = rows[k].refunded
          /\ \/ /\ rows[k].state = "reserved" /\ rows'[k].state = "launching"
                /\ launcher'[k] = "spawn"
             \/ /\ rows'[k].state = rows[k].state /\ launcher'[k] = launcher[k]
      BY <2>2, ClaimEffect DEF RunInv
    <3>. SUFFICES ASSUME NEW j \in Keys, NEW m \in Members, waits'[<<j, m>>] = "open"
                  PROVE  Active(j)'
      BY DEF OpenWaitIsOwed
    <3>2. waits[<<j, m>>] = "open" /\ Active(j)
      BY <1>0, <3>1 DEF WaitsKept, OpenWaitIsOwed
    <3>3. CASE j # k BY <3>1, <3>2, <3>3 DEF OthersKept, Active
    <3>4. CASE j = k
      BY <3>1, <3>2, <3>4 DEF NobodyWaits, Active, Holding, Final
    <3>. QED BY <3>3, <3>4
  <2>3. ASSUME SpawnFails(k) PROVE OpenWaitIsOwed'
    <3>1. /\ Observed(k, "failed_to_start") /\ launcher[k] = "spawn"
          /\ launcher' = [launcher EXCEPT ![k] = "idle"]
          /\ UNCHANGED <<process, receipt, spawned, monitor, sweep, owner>>
      BY <2>3, ObserveEffect DEF SpawnFails, RunInv, RunTypeOK, Final, processVars, sharedVars
    <3>. SUFFICES ASSUME NEW j \in Keys, NEW m \in Members, waits'[<<j, m>>] = "open"
                  PROVE  Active(j)'
      BY DEF OpenWaitIsOwed
    <3>2. waits[<<j, m>>] = "open" /\ Active(j)
      BY <1>0, <3>1 DEF Observed, WaitsKept, OpenWaitIsOwed
    <3>3. CASE j # k BY <3>1, <3>2, <3>3 DEF Observed, OthersKept, Active
    <3>4. CASE j = k
      BY <3>1, <3>2, <3>4 DEF Observed, NobodyWaits, Active, Holding, Final
    <3>. QED BY <3>3, <3>4
  <2>4. ASSUME MarkRunning(k) PROVE OpenWaitIsOwed'
    <3>1. /\ launcher' = [launcher EXCEPT ![k] = "idle"] /\ launcher[k] = "identify"
          /\ UNCHANGED <<envelope, waits, receipt, spawned, sweep>>
          /\ \/ /\ rows[k].state \in {"launching", "reserved", "cancelling"}
                /\ Identified(k) /\ Watch(k) /\ UNCHANGED process
             \/ Kill(k) /\ UNCHANGED <<rows, monitor>>
      BY <2>4, MarkRunningEffect DEF RunInv
    <3>. SUFFICES ASSUME NEW j \in Keys, NEW m \in Members, waits'[<<j, m>>] = "open"
                  PROVE  Active(j)'
      BY DEF OpenWaitIsOwed
    <3>2. waits[<<j, m>>] = "open" /\ Active(j)
      BY <1>0, <3>1 DEF Identified, WaitsKept, OpenWaitIsOwed
    <3>3. CASE j # k BY <3>1, <3>2, <3>3 DEF Identified, OthersKept, Active
    <3>4. CASE j = k
      BY <3>1, <3>2, <3>4 DEF Identified, NobodyWaits, Active, Holding, Final
    <3>. QED BY <3>3, <3>4
  <2>5. ASSUME EndedUnidentified(k) PROVE OpenWaitIsOwed'
    <3>1. /\ \E st \in Final \cup {"unknown"} :
                   /\ Observed(k, st)
                   /\ receipt[k] = "none" /\ ~rows[k].timeout => st = "unknown"
          /\ launcher[k] = "identify" /\ launcher' = [launcher EXCEPT ![k] = "idle"]
          /\ UNCHANGED <<process, receipt, spawned, monitor, sweep, owner>>
      BY <2>5, FinishEffect DEF EndedUnidentified, RunInv, RunTypeOK, processVars, sharedVars
    <3>. SUFFICES ASSUME NEW j \in Keys, NEW m \in Members, waits'[<<j, m>>] = "open"
                  PROVE  Active(j)'
      BY DEF OpenWaitIsOwed
    <3>2. waits[<<j, m>>] = "open" /\ Active(j)
      BY <1>0, <3>1 DEF Observed, WaitsKept, OpenWaitIsOwed
    <3>3. CASE j # k BY <3>1, <3>2, <3>3 DEF Observed, OthersKept, Active
    <3>4. CASE j = k
      BY <3>1, <3>2, <3>4 DEF Observed, NobodyWaits, Active, Holding, Final
    <3>. QED BY <3>3, <3>4
  <2>6. ASSUME ReserveAgain(k) \/ Spawn(k)
        PROVE  UNCHANGED <<rows, waits>>
    BY <2>6 DEF ReserveAgain, Spawn, outsideRunner, storeVars, processVars, sharedVars,
         analysisVars, lifeVars
  <2>7. ASSUME UNCHANGED <<rows, waits>> PROVE OpenWaitIsOwed'
    BY <2>7 DEF RunInv, OpenWaitIsOwed, Active
  <2>. QED BY <1>1, <2>1, <2>2, <2>3, <2>4, <2>5, <2>6, <2>7 DEF Launching
<1>2. ASSUME NEW k \in Keys, Running(k) PROVE OpenWaitIsOwed'
  <2>1. UNCHANGED <<rows, waits>>
    BY <1>2 DEF Running, WritesPidFile, ProcessEnds, RuntimeLimitPasses, ProgramEnds,
         outsideProcess, storeVars, runnerVars, sharedVars, analysisVars, lifeVars
  <2>. QED BY <2>1 DEF RunInv, OpenWaitIsOwed, Active
<1>3. ASSUME NEW k \in Keys, Monitoring(k) PROVE OpenWaitIsOwed'
  <2>1. ASSUME MonitorFindsReceipt(k) PROVE OpenWaitIsOwed'
    <3>1. /\ \E st \in Final \cup {"unknown"} : Observed(k, st)
          /\ monitor' = [monitor EXCEPT ![k] = Off] /\ Kill(k) /\ monitor[k].at = "look"
          /\ UNCHANGED <<receipt, spawned, launcher, sweep, owner>>
      BY <2>1, MonitorEffect DEF MonitorFindsReceipt, RunInv, sharedVars
    <3>. SUFFICES ASSUME NEW j \in Keys, NEW m \in Members, waits'[<<j, m>>] = "open"
                  PROVE  Active(j)'
      BY DEF OpenWaitIsOwed
    <3>2. waits[<<j, m>>] = "open" /\ Active(j)
      BY <1>0, <3>1 DEF Observed, WaitsKept, OpenWaitIsOwed
    <3>3. CASE j # k BY <3>1, <3>2, <3>3 DEF Observed, OthersKept, Active
    <3>4. CASE j = k
      BY <3>1, <3>2, <3>4 DEF Observed, NobodyWaits, Active, Holding, Final
    <3>. QED BY <3>3, <3>4
  <2>2. ASSUME MonitorSettles(k) PROVE OpenWaitIsOwed'
    <3>1. /\ \E st \in Final \cup {"unknown"} : Observed(k, st)
          /\ monitor' = [monitor EXCEPT ![k] = Off] /\ monitor[k].at = "settle"
          /\ UNCHANGED <<process, receipt, spawned, launcher, sweep, owner>>
      BY <2>2, MonitorEffect DEF MonitorSettles, RunInv, processVars, sharedVars
    <3>. SUFFICES ASSUME NEW j \in Keys, NEW m \in Members, waits'[<<j, m>>] = "open"
                  PROVE  Active(j)'
      BY DEF OpenWaitIsOwed
    <3>2. waits[<<j, m>>] = "open" /\ Active(j)
      BY <1>0, <3>1 DEF Observed, WaitsKept, OpenWaitIsOwed
    <3>3. CASE j # k BY <3>1, <3>2, <3>3 DEF Observed, OthersKept, Active
    <3>4. CASE j = k
      BY <3>1, <3>2, <3>4 DEF Observed, NobodyWaits, Active, Holding, Final
    <3>. QED BY <3>3, <3>4
  <2>3. ASSUME MonitorTerminates(k) PROVE OpenWaitIsOwed'
    BY <1>0, <2>3 DEF MonitorTerminates, Terminated, OpenWaitIsOwed, TeamWaits, Active, Holding,
         Final, sharedVars, analysisVars, lifeVars
  <2>4. ASSUME \/ MonitorReads(k) \/ MonitorFindsGone(k) \/ MonitorKills(k)
              \/ MonitorWaits(k)
        PROVE  UNCHANGED <<rows, waits>>
    BY <2>4 DEF MonitorReads, MonitorFindsGone, MonitorKills, MonitorWaits, Off, Kill,
         outsideRunner, storeVars, processVars, sharedVars, analysisVars, lifeVars
  <2>5. ASSUME UNCHANGED <<rows, waits>> PROVE OpenWaitIsOwed'
    BY <2>5 DEF RunInv, OpenWaitIsOwed, Active
  <2>. QED BY <1>3, <2>1, <2>2, <2>3, <2>4, <2>5 DEF Monitoring
<1>4. ASSUME NEW k \in Keys, Recovering(k) PROVE OpenWaitIsOwed'
  <2>1. ASSUME AbandonReserved(k) PROVE OpenWaitIsOwed'
    <3>1. /\ Settled(k) /\ rows[k].state = "reserved" /\ rows'[k].refunded
          /\ rows'[k].state = "failed_to_start"
          /\ envelope' = [envelope EXCEPT !.launches = IF @ > 0 THEN @ - 1 ELSE 0]
          /\ UNCHANGED <<process, receipt, spawned, launcher, monitor, sweep, owner>>
      BY <2>1, AbandonEffect DEF AbandonReserved, RunInv
    <3>. SUFFICES ASSUME NEW j \in Keys, NEW m \in Members, waits'[<<j, m>>] = "open"
                  PROVE  Active(j)'
      BY DEF OpenWaitIsOwed
    <3>2. waits[<<j, m>>] = "open" /\ Active(j)
      BY <1>0, <3>1 DEF Settled, WaitsKept, OpenWaitIsOwed
    <3>3. CASE j # k BY <3>1, <3>2, <3>3 DEF Settled, OthersKept, Active
    <3>4. CASE j = k
      BY <3>1, <3>2, <3>4 DEF Settled, NobodyWaits, Active, Holding, Final
    <3>. QED BY <3>3, <3>4
  <2>2. ASSUME RecoverUnidentified(k) PROVE OpenWaitIsOwed'
    <3>1. /\ \/ /\ receipt[k] # "none" /\ UNCHANGED monitor
                /\ \E st \in Final \cup {"unknown"} : Observed(k, st)
             \/ Identified(k) /\ Watch(k) /\ UNCHANGED <<envelope, waits>>
             \/ Observed(k, "unknown") /\ UNCHANGED monitor
          /\ UNCHANGED <<process, receipt, spawned, launcher, sweep, owner>>
          /\ rows[k].state \in {"launching", "cancelling"} /\ ~rows[k].identity
          /\ launcher[k] = "idle"
      BY <2>2, RecoverEffect DEF RecoverUnidentified, RunInv, RecoversAlone
    <3>. SUFFICES ASSUME NEW j \in Keys, NEW m \in Members, waits'[<<j, m>>] = "open"
                  PROVE  Active(j)'
      BY DEF OpenWaitIsOwed
    <3>2. waits[<<j, m>>] = "open" /\ Active(j)
      BY <1>0, <3>1 DEF Observed, Identified, WaitsKept, OpenWaitIsOwed
    <3>3. CASE j # k BY <3>1, <3>2, <3>3 DEF Observed, Identified, OthersKept, Active
    <3>4. CASE j = k
      BY <3>1, <3>2, <3>4 DEF Observed, Identified, NobodyWaits, Active, Holding, Final
    <3>. QED BY <3>3, <3>4
  <2>3. ASSUME Adopt(k)
        PROVE  UNCHANGED <<rows, waits>>
    BY <2>3 DEF Adopt, Recovered, Watch, storeVars, analysisVars, processVars
  <2>4. ASSUME UNCHANGED <<rows, waits>> PROVE OpenWaitIsOwed'
    BY <2>4 DEF RunInv, OpenWaitIsOwed, Active
  <2>. QED BY <1>4, <2>1, <2>2, <2>3, <2>4 DEF Recovering
<1>5. ASSUME NEW k \in Keys, Answering(k) PROVE OpenWaitIsOwed'
  <2>1. ASSUME Cancel(k) PROVE OpenWaitIsOwed'
    BY <2>1, WaitsCancelled DEF Cancel
  <2>2. ASSUME CancelListed(k) PROVE OpenWaitIsOwed'
    <3>1. CASE CancelOne(k) BY <3>1, WaitsCancelled
    <3>2. CASE UNCHANGED <<callers, launcher, monitor, outsideRunner>>
      BY <2>2, <3>2 DEF outsideRunner, storeVars, RunInv, OpenWaitIsOwed, Active
    <3>. QED BY <2>2, <3>1, <3>2 DEF CancelListed
  <2>3. ASSUME Decide(k) PROVE OpenWaitIsOwed'
    BY <1>0, <2>3 DEF Decide, OpenWaitIsOwed, TeamWaits, Active, Holding, Final, outsideStore,
         processVars, runnerVars, sharedVars, analysisVars, lifeVars
  <2>4. ASSUME NEW truth \in {"not_started", "finished"}, Reconcile(k, truth)
      PROVE  OpenWaitIsOwed'
    <3>1. /\ Settled(k) /\ rows[k].state = "unknown"
          /\ \/ /\ rows'[k].refunded /\ rows'[k].state = "failed_to_start" /\ spawned[k] = 0
                /\ envelope' = [envelope EXCEPT !.launches = IF @ > 0 THEN @ - 1 ELSE 0]
             \/ /\ rows'[k].refunded = rows[k].refunded /\ spawned[k] > 0 /\ ~GroupAlive(k)
                /\ UNCHANGED envelope
          /\ UNCHANGED <<process, receipt, spawned, launcher, monitor, sweep, owner>>
      BY <2>4, ReconcileEffect
         DEF Reconcile, RunInv, outsideStore, sharedVars, processVars, runnerVars
    <3>. SUFFICES ASSUME NEW j \in Keys, NEW m \in Members, waits'[<<j, m>>] = "open"
                  PROVE  Active(j)'
      BY DEF OpenWaitIsOwed
    <3>2. waits[<<j, m>>] = "open" /\ Active(j)
      BY <1>0, <3>1 DEF Settled, WaitsKept, OpenWaitIsOwed
    <3>3. CASE j # k BY <3>1, <3>2, <3>3 DEF Settled, OthersKept, Active
    <3>4. CASE j = k
      BY <3>1, <3>2, <3>4 DEF Settled, NobodyWaits, Active, Holding, Final
    <3>. QED BY <3>3, <3>4
  <2>5. ASSUME NEW m \in Members, RegisterWait(k, m) PROVE OpenWaitIsOwed'
    BY <1>0, <2>5 DEF RegisterWait, OpenWaitIsOwed, TeamWaits, Active, Holding, Final,
         outsideStore, processVars, runnerVars, sharedVars, analysisVars, lifeVars
  <2>6. ASSUME NEW m \in Members, ExpireWait(k, m) PROVE OpenWaitIsOwed'
    BY <1>0, <2>6 DEF ExpireWait, OpenWaitIsOwed, TeamWaits, Active, Holding, Final,
         outsideStore, processVars, runnerVars, sharedVars, analysisVars, lifeVars
  <2>. QED BY <1>5, <2>1, <2>2, <2>3, <2>4, <2>5, <2>6 DEF Answering
<1>6. ASSUME NEW k \in Keys, Telling(k) PROVE OpenWaitIsOwed'
  <2>1. UNCHANGED <<rows, waits>>
    BY <1>6 DEF Telling, Acknowledge, Remind, RemindersExhausted, RouteFinished, outsideStore,
         processVars, runnerVars, sharedVars, analysisVars, lifeVars, outsideAnalysis, storeVars
  <2>. QED BY <2>1 DEF RunInv, OpenWaitIsOwed, Active
<1>7. ASSUME Round PROVE OpenWaitIsOwed'
  <2>1. ASSUME NEW m \in Members, ReassignWaits(m) PROVE OpenWaitIsOwed'
    BY <1>0, <2>1 DEF ReassignWaits, OpenWaitIsOwed, TeamWaits, Active, Holding, Final,
         outsideStore, processVars, runnerVars, sharedVars, analysisVars, lifeVars
  <2>2. ASSUME DeleteTeam PROVE OpenWaitIsOwed'
    BY <1>0, <2>2 DEF DeleteTeam, OpenWaitIsOwed, TeamWaits, Active, Holding, Final,
         analysisVars, processVars, runnerVars, lifeVars
  <2>3. ASSUME \/ (\E l \in Limits : SetLimits(l))
               \/ (\E s \in {"active", "paused", "closed"} : SetEnvelopeState(s))
               \/ CloseForCancel
              \/ ListForCancel \/ MarkDisbanding \/ CancelTeam
              \/ FlagTeam \/ ReadOwed \/ ReadSettled
              \/ StartAnalysis \/ ResolveAnalysis
        PROVE  UNCHANGED <<rows, waits>>
    BY <2>3 DEF SetLimits, SetEnvelopeState, CloseForCancel, ListForCancel, MarkDisbanding,
         CancelTeam, FlagTeam, ReadOwed, ReadSettled, StartAnalysis, ResolveAnalysis, KillAll,
         outsideStore, processVars, runnerVars, sharedVars, analysisVars, lifeVars,
         outsideRunner, storeVars, outsideAnalysis
  <2>4. ASSUME UNCHANGED <<rows, waits>> PROVE OpenWaitIsOwed'
    BY <2>4 DEF RunInv, OpenWaitIsOwed, Active
  <2>. QED BY <1>7, <2>1, <2>2, <2>3, <2>4 DEF Round
<1>8. ASSUME NEW reboots \in BOOLEAN, Crash(reboots) PROVE OpenWaitIsOwed'
  <2>1. UNCHANGED <<rows, waits>>
    BY <1>8 DEF Crash, KillAll, Off, storeVars
  <2>. QED BY <2>1 DEF RunInv, OpenWaitIsOwed, Active
<1>9. ASSUME Restart PROVE OpenWaitIsOwed'
  <2>1. UNCHANGED <<rows, waits>>
    BY <1>9 DEF Restart, storeVars, analysisVars, processVars, runnerVars
  <2>. QED BY <2>1 DEF RunInv, OpenWaitIsOwed, Active
<1>10. ASSUME UNCHANGED runVars PROVE OpenWaitIsOwed'
  <2>1. UNCHANGED <<rows, waits>>
    BY <1>10 DEF runVars, storeVars, analysisVars, processVars, runnerVars, lifeVars
  <2>. QED BY <2>1 DEF RunInv, OpenWaitIsOwed, Active
<1>. QED BY <1>1, <1>2, <1>3, <1>4, <1>5, <1>6, <1>7, <1>8, <1>9, <1>10 DEF RunNext

(* Cancelling one attempt keeps what the cancellation of the round has reached. *)
LEMMA SweepCancelled ==
    ASSUME RunInv, NEW k \in Keys, CancelOne(k),
           sweep' = sweep \/ sweep' = [sweep EXCEPT !.left = @ \ {k}]
    PROVE  SweepCloses'
<1>1. CancelledNow(k) /\ UNCHANGED envelope BY CancelEffect DEF RunInv
<1>2. SweepCloses /\ sweep \in [at : {"idle", "closed", "listed"}, left : SUBSET Keys]
  BY DEF RunInv, RunTypeOK, RunnerTypes
<1>3. sweep'.at = sweep.at /\ \A j \in sweep.left : j # k => j \in sweep'.left BY <1>2
<1>4. ASSUME NEW j \in Keys, Active(j)', ~rows'[j].cancel
      PROVE  j # k /\ Active(j) /\ ~rows[j].cancel
  BY <1>1, <1>4 DEF CancelledNow, OthersKept, Active
<1>. QED BY <1>1, <1>2, <1>3, <1>4 DEF SweepCloses

\* The cancellation of a round.
LEMMA SweepClosesStep == ASSUME RunInv, [RunNext]_runVars PROVE SweepCloses'
<1>0. /\ SweepCloses /\ rows \in [Keys -> Row]
      /\ sweep \in [at : {"idle", "closed", "listed"}, left : SUBSET Keys]
      /\ envelope \in [state : {"active", "paused", "closed"}, limits : Limits, launches : Nat]
  BY DEF RunInv, RunTypeOK, StoreTypes, RunnerTypes
<1>1. ASSUME NEW k \in Keys, Launching(k) PROVE SweepCloses'
  <2>1. ASSUME Reserve(k) PROVE SweepCloses'
    BY <1>0, <2>1 DEF Reserve, SweepCloses, Active, Admissible, Holding, Final, processVars,
         sharedVars, analysisVars, lifeVars
  <2>2. ASSUME MarkLaunching(k) PROVE SweepCloses'
    <3>1. /\ OthersKept(k) /\ UNCHANGED <<envelope, waits, process, receipt, spawned, monitor,
                                            sweep>>
          /\ \A j \in Keys : j # k => launcher'[j] = launcher[j]
          /\ rows'[k].identity = rows[k].identity /\ rows'[k].cancel = rows[k].cancel
          /\ rows'[k].timeout = rows[k].timeout /\ rows'[k].refunded = rows[k].refunded
          /\ \/ /\ rows[k].state = "reserved" /\ rows'[k].state = "launching"
                /\ launcher'[k] = "spawn"
             \/ /\ rows'[k].state = rows[k].state /\ launcher'[k] = launcher[k]
      BY <2>2, ClaimEffect DEF RunInv
    <3>2. sweep' = sweep /\ envelope'.state = envelope.state
      BY <1>0, <3>1 DEF OthersKept
    <3>3. ASSUME NEW j \in Keys, Active(j)', ~rows'[j].cancel PROVE Active(j) /\ ~rows[j].cancel
      <4>1. CASE j # k BY <3>1, <3>3, <4>1 DEF OthersKept, Active
      <4>2. CASE j = k BY <3>1, <3>3, <4>2 DEF Active, Holding, Final
      <4>. QED BY <4>1, <4>2
    <3>. QED BY <1>0, <3>2, <3>3 DEF SweepCloses
  <2>3. ASSUME SpawnFails(k) PROVE SweepCloses'
    <3>1. /\ Observed(k, "failed_to_start") /\ launcher[k] = "spawn"
          /\ launcher' = [launcher EXCEPT ![k] = "idle"]
          /\ UNCHANGED <<process, receipt, spawned, monitor, sweep, owner>>
      BY <2>3, ObserveEffect DEF SpawnFails, RunInv, RunTypeOK, Final, processVars, sharedVars
    <3>2. sweep' = sweep /\ envelope'.state = envelope.state
      BY <1>0, <3>1 DEF Observed
    <3>3. ASSUME NEW j \in Keys, Active(j)', ~rows'[j].cancel PROVE Active(j) /\ ~rows[j].cancel
      <4>1. CASE j # k BY <3>1, <3>3, <4>1 DEF Observed, OthersKept, Active
      <4>2. CASE j = k BY <3>1, <3>3, <4>2 DEF Observed, Active, Holding, Final
      <4>. QED BY <4>1, <4>2
    <3>. QED BY <1>0, <3>2, <3>3 DEF SweepCloses
  <2>4. ASSUME MarkRunning(k) PROVE SweepCloses'
    <3>1. /\ launcher' = [launcher EXCEPT ![k] = "idle"] /\ launcher[k] = "identify"
          /\ UNCHANGED <<envelope, waits, receipt, spawned, sweep>>
          /\ \/ /\ rows[k].state \in {"launching", "reserved", "cancelling"}
                /\ Identified(k) /\ Watch(k) /\ UNCHANGED process
             \/ Kill(k) /\ UNCHANGED <<rows, monitor>>
      BY <2>4, MarkRunningEffect DEF RunInv
    <3>2. sweep' = sweep /\ envelope'.state = envelope.state
      BY <1>0, <3>1 DEF Identified
    <3>3. ASSUME NEW j \in Keys, Active(j)', ~rows'[j].cancel PROVE Active(j) /\ ~rows[j].cancel
      <4>1. CASE j # k BY <3>1, <3>3, <4>1 DEF Identified, OthersKept, Active
      <4>2. CASE j = k BY <3>1, <3>3, <4>2 DEF Identified, Active, Holding, Final
      <4>. QED BY <4>1, <4>2
    <3>. QED BY <1>0, <3>2, <3>3 DEF SweepCloses
  <2>5. ASSUME EndedUnidentified(k) PROVE SweepCloses'
    <3>1. /\ \E st \in Final \cup {"unknown"} :
                   /\ Observed(k, st)
                   /\ receipt[k] = "none" /\ ~rows[k].timeout => st = "unknown"
          /\ launcher[k] = "identify" /\ launcher' = [launcher EXCEPT ![k] = "idle"]
          /\ UNCHANGED <<process, receipt, spawned, monitor, sweep, owner>>
      BY <2>5, FinishEffect DEF EndedUnidentified, RunInv, RunTypeOK, processVars, sharedVars
    <3>2. sweep' = sweep /\ envelope'.state = envelope.state
      BY <1>0, <3>1 DEF Observed
    <3>3. ASSUME NEW j \in Keys, Active(j)', ~rows'[j].cancel PROVE Active(j) /\ ~rows[j].cancel
      <4>1. CASE j # k BY <3>1, <3>3, <4>1 DEF Observed, OthersKept, Active
      <4>2. CASE j = k BY <3>1, <3>3, <4>2 DEF Observed, Active, Holding, Final
      <4>. QED BY <4>1, <4>2
    <3>. QED BY <1>0, <3>2, <3>3 DEF SweepCloses
  <2>6. ASSUME ReserveAgain(k) \/ Spawn(k)
        PROVE  UNCHANGED <<rows, envelope, sweep>>
    BY <2>6 DEF ReserveAgain, Spawn, outsideRunner, storeVars, processVars, sharedVars,
         analysisVars, lifeVars
  <2>7. ASSUME UNCHANGED <<rows, envelope, sweep>> PROVE SweepCloses'
    BY <2>7 DEF RunInv, SweepCloses, Active
  <2>. QED BY <1>1, <2>1, <2>2, <2>3, <2>4, <2>5, <2>6, <2>7 DEF Launching
<1>2. ASSUME NEW k \in Keys, Running(k) PROVE SweepCloses'
  <2>1. UNCHANGED <<rows, envelope, sweep>>
    BY <1>2 DEF Running, WritesPidFile, ProcessEnds, RuntimeLimitPasses, ProgramEnds,
         outsideProcess, storeVars, runnerVars, sharedVars, analysisVars, lifeVars
  <2>. QED BY <2>1 DEF RunInv, SweepCloses, Active
<1>3. ASSUME NEW k \in Keys, Monitoring(k) PROVE SweepCloses'
  <2>1. ASSUME MonitorFindsReceipt(k) PROVE SweepCloses'
    <3>1. /\ \E st \in Final \cup {"unknown"} : Observed(k, st)
          /\ monitor' = [monitor EXCEPT ![k] = Off] /\ Kill(k) /\ monitor[k].at = "look"
          /\ UNCHANGED <<receipt, spawned, launcher, sweep, owner>>
      BY <2>1, MonitorEffect DEF MonitorFindsReceipt, RunInv, sharedVars
    <3>2. sweep' = sweep /\ envelope'.state = envelope.state
      BY <1>0, <3>1 DEF Observed
    <3>3. ASSUME NEW j \in Keys, Active(j)', ~rows'[j].cancel PROVE Active(j) /\ ~rows[j].cancel
      <4>1. CASE j # k BY <3>1, <3>3, <4>1 DEF Observed, OthersKept, Active
      <4>2. CASE j = k BY <3>1, <3>3, <4>2 DEF Observed, Active, Holding, Final
      <4>. QED BY <4>1, <4>2
    <3>. QED BY <1>0, <3>2, <3>3 DEF SweepCloses
  <2>2. ASSUME MonitorSettles(k) PROVE SweepCloses'
    <3>1. /\ \E st \in Final \cup {"unknown"} : Observed(k, st)
          /\ monitor' = [monitor EXCEPT ![k] = Off] /\ monitor[k].at = "settle"
          /\ UNCHANGED <<process, receipt, spawned, launcher, sweep, owner>>
      BY <2>2, MonitorEffect DEF MonitorSettles, RunInv, processVars, sharedVars
    <3>2. sweep' = sweep /\ envelope'.state = envelope.state
      BY <1>0, <3>1 DEF Observed
    <3>3. ASSUME NEW j \in Keys, Active(j)', ~rows'[j].cancel PROVE Active(j) /\ ~rows[j].cancel
      <4>1. CASE j # k BY <3>1, <3>3, <4>1 DEF Observed, OthersKept, Active
      <4>2. CASE j = k BY <3>1, <3>3, <4>2 DEF Observed, Active, Holding, Final
      <4>. QED BY <4>1, <4>2
    <3>. QED BY <1>0, <3>2, <3>3 DEF SweepCloses
  <2>3. ASSUME MonitorTerminates(k) PROVE SweepCloses'
    BY <1>0, <2>3 DEF MonitorTerminates, Terminated, SweepCloses, Active, Admissible, Holding,
         Final, sharedVars, analysisVars, lifeVars
  <2>4. ASSUME \/ MonitorReads(k) \/ MonitorFindsGone(k) \/ MonitorKills(k)
              \/ MonitorWaits(k)
        PROVE  UNCHANGED <<rows, envelope, sweep>>
    BY <2>4 DEF MonitorReads, MonitorFindsGone, MonitorKills, MonitorWaits, Off, Kill,
         outsideRunner, storeVars, processVars, sharedVars, analysisVars, lifeVars
  <2>5. ASSUME UNCHANGED <<rows, envelope, sweep>> PROVE SweepCloses'
    BY <2>5 DEF RunInv, SweepCloses, Active
  <2>. QED BY <1>3, <2>1, <2>2, <2>3, <2>4, <2>5 DEF Monitoring
<1>4. ASSUME NEW k \in Keys, Recovering(k) PROVE SweepCloses'
  <2>1. ASSUME AbandonReserved(k) PROVE SweepCloses'
    <3>1. /\ Settled(k) /\ rows[k].state = "reserved" /\ rows'[k].refunded
          /\ rows'[k].state = "failed_to_start"
          /\ envelope' = [envelope EXCEPT !.launches = IF @ > 0 THEN @ - 1 ELSE 0]
          /\ UNCHANGED <<process, receipt, spawned, launcher, monitor, sweep, owner>>
      BY <2>1, AbandonEffect DEF AbandonReserved, RunInv
    <3>2. sweep' = sweep /\ envelope'.state = envelope.state
      BY <1>0, <3>1 DEF Settled
    <3>3. ASSUME NEW j \in Keys, Active(j)', ~rows'[j].cancel PROVE Active(j) /\ ~rows[j].cancel
      <4>1. CASE j # k BY <3>1, <3>3, <4>1 DEF Settled, OthersKept, Active
      <4>2. CASE j = k BY <3>1, <3>3, <4>2 DEF Settled, Active, Holding, Final
      <4>. QED BY <4>1, <4>2
    <3>. QED BY <1>0, <3>2, <3>3 DEF SweepCloses
  <2>2. ASSUME RecoverUnidentified(k) PROVE SweepCloses'
    <3>1. /\ \/ /\ receipt[k] # "none" /\ UNCHANGED monitor
                /\ \E st \in Final \cup {"unknown"} : Observed(k, st)
             \/ Identified(k) /\ Watch(k) /\ UNCHANGED <<envelope, waits>>
             \/ Observed(k, "unknown") /\ UNCHANGED monitor
          /\ UNCHANGED <<process, receipt, spawned, launcher, sweep, owner>>
          /\ rows[k].state \in {"launching", "cancelling"} /\ ~rows[k].identity
          /\ launcher[k] = "idle"
      BY <2>2, RecoverEffect DEF RecoverUnidentified, RunInv, RecoversAlone
    <3>2. sweep' = sweep /\ envelope'.state = envelope.state
      BY <1>0, <3>1 DEF Observed, Identified
    <3>3. ASSUME NEW j \in Keys, Active(j)', ~rows'[j].cancel PROVE Active(j) /\ ~rows[j].cancel
      <4>1. CASE j # k BY <3>1, <3>3, <4>1 DEF Observed, Identified, OthersKept, Active
      <4>2. CASE j = k BY <3>1, <3>3, <4>2 DEF Observed, Identified, Active, Holding, Final
      <4>. QED BY <4>1, <4>2
    <3>. QED BY <1>0, <3>2, <3>3 DEF SweepCloses
  <2>3. ASSUME Adopt(k)
        PROVE  UNCHANGED <<rows, envelope, sweep>>
    BY <2>3 DEF Adopt, Recovered, Watch, storeVars, analysisVars, processVars
  <2>4. ASSUME UNCHANGED <<rows, envelope, sweep>> PROVE SweepCloses'
    BY <2>4 DEF RunInv, SweepCloses, Active
  <2>. QED BY <1>4, <2>1, <2>2, <2>3, <2>4 DEF Recovering
<1>5. ASSUME NEW k \in Keys, Answering(k) PROVE SweepCloses'
  <2>1. ASSUME Cancel(k) PROVE SweepCloses'
    BY <2>1, SweepCancelled DEF Cancel
  <2>2. ASSUME CancelListed(k) PROVE SweepCloses'
    <3>1. sweep' = [sweep EXCEPT !.left = @ \ {k}] /\ k \in sweep.left
      BY <2>2 DEF CancelListed
    <3>2. CASE CancelOne(k) BY <3>1, <3>2, SweepCancelled
    <3>3. CASE /\ ~Active(k) \/ rows[k].cancel
               /\ UNCHANGED <<callers, launcher, monitor, outsideRunner>>
      BY <1>0, <3>1, <3>3 DEF outsideRunner, storeVars, SweepCloses, Active
    <3>. QED BY <2>2, <3>2, <3>3 DEF CancelListed
  <2>3. ASSUME Decide(k) PROVE SweepCloses'
    BY <1>0, <2>3 DEF Decide, SweepCloses, Active, Admissible, Holding, Final, outsideStore,
         processVars, runnerVars, sharedVars, analysisVars, lifeVars
  <2>4. ASSUME NEW truth \in {"not_started", "finished"}, Reconcile(k, truth) PROVE SweepCloses'
    <3>1. /\ Settled(k) /\ rows[k].state = "unknown"
          /\ \/ /\ rows'[k].refunded /\ rows'[k].state = "failed_to_start" /\ spawned[k] = 0
                /\ envelope' = [envelope EXCEPT !.launches = IF @ > 0 THEN @ - 1 ELSE 0]
             \/ /\ rows'[k].refunded = rows[k].refunded /\ spawned[k] > 0 /\ ~GroupAlive(k)
                /\ UNCHANGED envelope
          /\ UNCHANGED <<process, receipt, spawned, launcher, monitor, sweep, owner>>
      BY <2>4, ReconcileEffect
         DEF Reconcile, RunInv, outsideStore, sharedVars, processVars, runnerVars
    <3>2. sweep' = sweep /\ envelope'.state = envelope.state
      BY <1>0, <3>1 DEF Settled
    <3>3. ASSUME NEW j \in Keys, Active(j)', ~rows'[j].cancel PROVE Active(j) /\ ~rows[j].cancel
      <4>1. CASE j # k BY <3>1, <3>3, <4>1 DEF Settled, OthersKept, Active
      <4>2. CASE j = k BY <3>1, <3>3, <4>2 DEF Settled, Active, Holding, Final
      <4>. QED BY <4>1, <4>2
    <3>. QED BY <1>0, <3>2, <3>3 DEF SweepCloses
  <2>5. ASSUME \/ (\E m \in Members : RegisterWait(k, m))
               \/ (\E m \in Members : ExpireWait(k, m))
        PROVE  UNCHANGED <<rows, envelope, sweep>>
    BY <2>5 DEF RegisterWait, ExpireWait, outsideStore, processVars, runnerVars, sharedVars,
         analysisVars, lifeVars
  <2>6. ASSUME UNCHANGED <<rows, envelope, sweep>> PROVE SweepCloses'
    BY <2>6 DEF RunInv, SweepCloses, Active
  <2>. QED BY <1>5, <2>1, <2>2, <2>3, <2>4, <2>5, <2>6 DEF Answering
<1>6. ASSUME NEW k \in Keys, Telling(k) PROVE SweepCloses'
  <2>1. UNCHANGED <<rows, envelope, sweep>>
    BY <1>6 DEF Telling, Acknowledge, Remind, RemindersExhausted, RouteFinished, outsideStore,
         processVars, runnerVars, sharedVars, analysisVars, lifeVars, outsideAnalysis, storeVars
  <2>. QED BY <2>1 DEF RunInv, SweepCloses, Active
<1>7. ASSUME Round PROVE SweepCloses'
  <2>1. ASSUME NEW l \in Limits, SetLimits(l) PROVE SweepCloses'
    BY <1>0, <2>1 DEF SetLimits, SweepCloses, Active, Admissible, Holding, Final, outsideStore,
         processVars, runnerVars, sharedVars, analysisVars, lifeVars
  <2>2. ASSUME NEW s \in {"active", "paused", "closed"}, SetEnvelopeState(s) PROVE SweepCloses'
    BY <1>0, <2>2 DEF SetEnvelopeState, SweepCloses, Active, Admissible, Holding, Final,
         outsideStore, processVars, runnerVars, sharedVars, analysisVars, lifeVars
  <2>3. ASSUME CloseForCancel PROVE SweepCloses'
    BY <1>0, <2>3 DEF CloseForCancel, SweepCloses, Active, Admissible, Holding, Final,
         processVars, sharedVars, analysisVars, lifeVars
  <2>4. ASSUME ListForCancel PROVE SweepCloses'
    BY <1>0, <2>4 DEF ListForCancel, SweepCloses, Active, Admissible, Holding, Final,
         outsideRunner, storeVars, processVars, sharedVars, analysisVars, lifeVars
  <2>5. ASSUME DeleteTeam PROVE SweepCloses'
    BY <1>0, <2>5 DEF DeleteTeam, SweepCloses, Active, Admissible, Holding, Final, analysisVars,
         processVars, runnerVars, lifeVars
  <2>6. ASSUME \/ (\E m \in Members : ReassignWaits(m)) \/ MarkDisbanding \/ CancelTeam
              \/ FlagTeam \/ ReadOwed \/ ReadSettled
              \/ StartAnalysis \/ ResolveAnalysis
        PROVE  UNCHANGED <<rows, envelope, sweep>>
    BY <2>6 DEF ReassignWaits, MarkDisbanding, CancelTeam, FlagTeam, ReadOwed, ReadSettled,
         StartAnalysis, ResolveAnalysis, KillAll, outsideStore, processVars, runnerVars,
         sharedVars, analysisVars, lifeVars, storeVars, outsideAnalysis
  <2>7. ASSUME UNCHANGED <<rows, envelope, sweep>> PROVE SweepCloses'
    BY <2>7 DEF RunInv, SweepCloses, Active
  <2>. QED BY <1>7, <2>1, <2>2, <2>3, <2>4, <2>5, <2>6, <2>7 DEF Round
<1>8. ASSUME NEW reboots \in BOOLEAN, Crash(reboots) PROVE SweepCloses'
    BY <1>8 DEF Crash, SweepCloses
<1>9. ASSUME Restart PROVE SweepCloses'
  <2>1. UNCHANGED <<rows, envelope, sweep>>
    BY <1>9 DEF Restart, storeVars, analysisVars, processVars, runnerVars
  <2>. QED BY <2>1 DEF RunInv, SweepCloses, Active
<1>10. ASSUME UNCHANGED runVars PROVE SweepCloses'
  <2>1. UNCHANGED <<rows, envelope, sweep>>
    BY <1>10 DEF runVars, storeVars, analysisVars, processVars, runnerVars, lifeVars
  <2>. QED BY <2>1 DEF RunInv, SweepCloses, Active
<1>. QED BY <1>1, <1>2, <1>3, <1>4, <1>5, <1>6, <1>7, <1>8, <1>9, <1>10 DEF RunNext

-----------------------------------------------------------------------------
(* The budget. *)

(* The attempts that count towards the budget are finitely many. *)
LEMMA LaunchedFinite == IsFiniteSet(Launched) /\ Cardinality(Launched) \in Nat
BY KeysFinite, FS_Subset, FS_CardinalityType DEF Launched

\* Attempts that are neither admitted nor given back leave the count alone.
LEMMA BudgetKept ==
    ASSUME BudgetIsExact, envelope'.launches = envelope.launches,
           \A j \in Keys : /\ rows'[j].state = "absent" <=> rows[j].state = "absent"
                           /\ rows'[j].refunded = rows[j].refunded
    PROVE  envelope'.launches = Cardinality(Launched')
<1>1. Launched' = Launched BY DEF Launched
<1>. QED BY <1>1 DEF BudgetIsExact

\* What is given back was counted.
LEMMA BudgetGivenBack ==
    ASSUME RunInv, NEW k \in Keys, ~rows[k].refunded, rows[k].state # "absent",
           OthersKept(k), rows'[k].refunded,
           envelope' = [envelope EXCEPT !.launches = IF @ > 0 THEN @ - 1 ELSE 0]
    PROVE  envelope'.launches = Cardinality(Launched')
<1>1. Launched' = Launched \ {k} /\ k \in Launched BY DEF Launched, OthersKept
<1>2. Cardinality(Launched') = Cardinality(Launched) - 1
  BY <1>1, LaunchedFinite, FS_RemoveElement
<1>3. Cardinality(Launched') \in Nat
  BY <1>1, LaunchedFinite, FS_RemoveElement, FS_CardinalityType
<1>4. envelope.launches = Cardinality(Launched) /\ envelope.launches \in Nat
  BY DEF RunInv, BudgetIsExact, RunTypeOK, StoreTypes
<1>5. envelope \in [state : {"active", "paused", "closed"}, limits : Limits, launches : Nat]
  BY DEF RunInv, RunTypeOK, StoreTypes
<1>6. envelope'.launches = IF envelope.launches > 0 THEN envelope.launches - 1 ELSE 0 BY <1>5
<1>. QED BY <1>2, <1>3, <1>4, <1>6, LaunchedFinite

(* Cancelling one attempt neither frees nor takes a launch of the budget. *)
LEMMA BudgetCancelled ==
    ASSUME RunInv, NEW k \in Keys, CancelOne(k)
        PROVE  envelope'.launches = Cardinality(Launched')
<1>1. CancelledNow(k) /\ UNCHANGED envelope BY CancelEffect DEF RunInv
<1>2. \A j \in Keys : /\ rows'[j].state = "absent" <=> rows[j].state = "absent"
                      /\ rows'[j].refunded = rows[j].refunded
  BY <1>1 DEF CancelledNow, OthersKept
<1>. QED BY <1>1, <1>2, BudgetKept DEF RunInv

(* A step that leaves the counted attempts and the counter alone keeps the budget exact. *)
LEMMA BudgetStep ==
    ASSUME RunInv, [RunNext]_runVars PROVE envelope'.launches = Cardinality(Launched')
<1>0. /\ \A j \in Keys : KeyInv(j)
      /\ BudgetIsExact /\ rows \in [Keys -> Row] /\ \A j \in Keys : rows[j] \in Row
      /\ envelope \in [state : {"active", "paused", "closed"}, limits : Limits, launches : Nat]
  BY DEF RunInv, RunTypeOK, LaunchInv, StoreTypes
<1>1. ASSUME NEW k \in Keys, Launching(k) PROVE envelope'.launches = Cardinality(Launched')
  <2>1. ASSUME Reserve(k) PROVE envelope'.launches = Cardinality(Launched')
    <3>1. /\ \A j \in Keys : j # k => rows'[j] = rows[j]
          /\ rows[k].state = "absent" /\ rows'[k].state = "reserved"
          /\ rows'[k].refunded = rows[k].refunded
          /\ envelope'.launches = envelope.launches + 1
      BY <1>0, <2>1 DEF Reserve
    <3>2. ~rows[k].refunded BY <1>0, <3>1 DEF KeyInv, RowsMatch
    <3>3. Launched' = Launched \cup {k} /\ k \notin Launched BY <3>1, <3>2 DEF Launched
    <3>4. Cardinality(Launched') = Cardinality(Launched) + 1
      BY <3>3, LaunchedFinite, FS_AddElement
    <3>. QED BY <1>0, <3>1, <3>4 DEF BudgetIsExact
  <2>2. ASSUME MarkLaunching(k) PROVE envelope'.launches = Cardinality(Launched')
    <3>1. /\ OthersKept(k) /\ UNCHANGED <<envelope, waits, process, receipt, spawned, monitor,
                                            sweep>>
          /\ \A j \in Keys : j # k => launcher'[j] = launcher[j]
          /\ rows'[k].identity = rows[k].identity /\ rows'[k].cancel = rows[k].cancel
          /\ rows'[k].timeout = rows[k].timeout /\ rows'[k].refunded = rows[k].refunded
          /\ \/ /\ rows[k].state = "reserved" /\ rows'[k].state = "launching"
                /\ launcher'[k] = "spawn"
             \/ /\ rows'[k].state = rows[k].state /\ launcher'[k] = launcher[k]
      BY <2>2, ClaimEffect DEF RunInv
    <3>2. \A j \in Keys : /\ rows'[j].state = "absent" <=> rows[j].state = "absent"
                          /\ rows'[j].refunded = rows[j].refunded
      BY <1>0, <3>1 DEF OthersKept, Active, Holding, Final
    <3>3. envelope'.launches = envelope.launches BY <3>1 DEF OthersKept
    <3>. QED BY <1>0, <3>2, <3>3, BudgetKept
  <2>3. ASSUME SpawnFails(k) PROVE envelope'.launches = Cardinality(Launched')
    <3>1. /\ Observed(k, "failed_to_start") /\ launcher[k] = "spawn"
          /\ launcher' = [launcher EXCEPT ![k] = "idle"]
          /\ UNCHANGED <<process, receipt, spawned, monitor, sweep, owner>>
      BY <2>3, ObserveEffect DEF SpawnFails, RunInv, RunTypeOK, Final, processVars, sharedVars
    <3>2. \A j \in Keys : /\ rows'[j].state = "absent" <=> rows[j].state = "absent"
                          /\ rows'[j].refunded = rows[j].refunded
      BY <1>0, <3>1 DEF Observed, OthersKept, Active, Holding, Final
    <3>3. envelope'.launches = envelope.launches BY <3>1 DEF Observed, OthersKept
    <3>. QED BY <1>0, <3>2, <3>3, BudgetKept
  <2>4. ASSUME MarkRunning(k) PROVE envelope'.launches = Cardinality(Launched')
    <3>1. /\ launcher' = [launcher EXCEPT ![k] = "idle"] /\ launcher[k] = "identify"
          /\ UNCHANGED <<envelope, waits, receipt, spawned, sweep>>
          /\ \/ /\ rows[k].state \in {"launching", "reserved", "cancelling"}
                /\ Identified(k) /\ Watch(k) /\ UNCHANGED process
             \/ Kill(k) /\ UNCHANGED <<rows, monitor>>
      BY <2>4, MarkRunningEffect DEF RunInv
    <3>2. \A j \in Keys : /\ rows'[j].state = "absent" <=> rows[j].state = "absent"
                          /\ rows'[j].refunded = rows[j].refunded
      BY <1>0, <3>1 DEF Identified, OthersKept, Active, Holding, Final
    <3>3. envelope'.launches = envelope.launches BY <3>1 DEF Identified, OthersKept
    <3>. QED BY <1>0, <3>2, <3>3, BudgetKept
  <2>5. ASSUME EndedUnidentified(k) PROVE envelope'.launches = Cardinality(Launched')
    <3>1. /\ \E st \in Final \cup {"unknown"} :
                   /\ Observed(k, st)
                   /\ receipt[k] = "none" /\ ~rows[k].timeout => st = "unknown"
          /\ launcher[k] = "identify" /\ launcher' = [launcher EXCEPT ![k] = "idle"]
          /\ UNCHANGED <<process, receipt, spawned, monitor, sweep, owner>>
      BY <2>5, FinishEffect DEF EndedUnidentified, RunInv, RunTypeOK, processVars, sharedVars
    <3>2. \A j \in Keys : /\ rows'[j].state = "absent" <=> rows[j].state = "absent"
                          /\ rows'[j].refunded = rows[j].refunded
      BY <1>0, <3>1 DEF Observed, OthersKept, Active, Holding, Final
    <3>3. envelope'.launches = envelope.launches BY <3>1 DEF Observed, OthersKept
    <3>. QED BY <1>0, <3>2, <3>3, BudgetKept
  <2>6. ASSUME ReserveAgain(k) \/ Spawn(k)
        PROVE  UNCHANGED <<rows, envelope>>
    BY <2>6 DEF ReserveAgain, Spawn, outsideRunner, storeVars, processVars, sharedVars,
         analysisVars, lifeVars
  <2>7. ASSUME UNCHANGED <<rows, envelope>> PROVE envelope'.launches = Cardinality(Launched')
    BY <2>7 DEF RunInv, BudgetIsExact, Launched
  <2>. QED BY <1>1, <2>1, <2>2, <2>3, <2>4, <2>5, <2>6, <2>7 DEF Launching
<1>2. ASSUME NEW k \in Keys, Running(k) PROVE envelope'.launches = Cardinality(Launched')
  <2>1. UNCHANGED <<rows, envelope>>
    BY <1>2 DEF Running, WritesPidFile, ProcessEnds, RuntimeLimitPasses, ProgramEnds,
         outsideProcess, storeVars, runnerVars, sharedVars, analysisVars, lifeVars
  <2>. QED BY <2>1 DEF RunInv, BudgetIsExact, Launched
<1>3. ASSUME NEW k \in Keys, Monitoring(k) PROVE envelope'.launches = Cardinality(Launched')
  <2>1. ASSUME MonitorFindsReceipt(k) PROVE envelope'.launches = Cardinality(Launched')
    <3>1. /\ \E st \in Final \cup {"unknown"} : Observed(k, st)
          /\ monitor' = [monitor EXCEPT ![k] = Off] /\ Kill(k) /\ monitor[k].at = "look"
          /\ UNCHANGED <<receipt, spawned, launcher, sweep, owner>>
      BY <2>1, MonitorEffect DEF MonitorFindsReceipt, RunInv, sharedVars
    <3>2. \A j \in Keys : /\ rows'[j].state = "absent" <=> rows[j].state = "absent"
                          /\ rows'[j].refunded = rows[j].refunded
      BY <1>0, <3>1 DEF Observed, OthersKept, Active, Holding, Final
    <3>3. envelope'.launches = envelope.launches BY <3>1 DEF Observed, OthersKept
    <3>. QED BY <1>0, <3>2, <3>3, BudgetKept
  <2>2. ASSUME MonitorSettles(k) PROVE envelope'.launches = Cardinality(Launched')
    <3>1. /\ \E st \in Final \cup {"unknown"} : Observed(k, st)
          /\ monitor' = [monitor EXCEPT ![k] = Off] /\ monitor[k].at = "settle"
          /\ UNCHANGED <<process, receipt, spawned, launcher, sweep, owner>>
      BY <2>2, MonitorEffect DEF MonitorSettles, RunInv, processVars, sharedVars
    <3>2. \A j \in Keys : /\ rows'[j].state = "absent" <=> rows[j].state = "absent"
                          /\ rows'[j].refunded = rows[j].refunded
      BY <1>0, <3>1 DEF Observed, OthersKept, Active, Holding, Final
    <3>3. envelope'.launches = envelope.launches BY <3>1 DEF Observed, OthersKept
    <3>. QED BY <1>0, <3>2, <3>3, BudgetKept
  <2>3. ASSUME MonitorTerminates(k) PROVE envelope'.launches = Cardinality(Launched')
    <3>1. envelope'.launches = envelope.launches
      BY <1>0, <2>3 DEF MonitorTerminates, Terminated, sharedVars, analysisVars, lifeVars
    <3>2. \A j \in Keys : /\ rows'[j].state = "absent" <=> rows[j].state = "absent"
                          /\ rows'[j].refunded = rows[j].refunded
      BY <1>0, <2>3 DEF MonitorTerminates, Terminated, Row, Recorded, sharedVars, analysisVars,
           lifeVars
    <3>. QED BY <1>0, <3>1, <3>2, BudgetKept
  <2>4. ASSUME \/ MonitorReads(k) \/ MonitorFindsGone(k) \/ MonitorKills(k)
              \/ MonitorWaits(k)
        PROVE  UNCHANGED <<rows, envelope>>
    BY <2>4 DEF MonitorReads, MonitorFindsGone, MonitorKills, MonitorWaits, Off, Kill,
         outsideRunner, storeVars, processVars, sharedVars, analysisVars, lifeVars
  <2>5. ASSUME UNCHANGED <<rows, envelope>> PROVE envelope'.launches = Cardinality(Launched')
    BY <2>5 DEF RunInv, BudgetIsExact, Launched
  <2>. QED BY <1>3, <2>1, <2>2, <2>3, <2>4, <2>5 DEF Monitoring
<1>4. ASSUME NEW k \in Keys, Recovering(k) PROVE envelope'.launches = Cardinality(Launched')
  <2>1. ASSUME AbandonReserved(k) PROVE envelope'.launches = Cardinality(Launched')
    <3>1. /\ Settled(k) /\ rows[k].state = "reserved" /\ rows'[k].refunded
          /\ rows'[k].state = "failed_to_start"
          /\ envelope' = [envelope EXCEPT !.launches = IF @ > 0 THEN @ - 1 ELSE 0]
          /\ UNCHANGED <<process, receipt, spawned, launcher, monitor, sweep, owner>>
      BY <2>1, AbandonEffect DEF AbandonReserved, RunInv
    <3>2. ~rows[k].refunded BY <1>0, <3>1 DEF KeyInv, RowsMatch
    <3>3. rows[k].state # "absent" /\ OthersKept(k) BY <3>1 DEF Settled
    <3>. QED BY <3>1, <3>2, <3>3, BudgetGivenBack
  <2>2. ASSUME RecoverUnidentified(k) PROVE envelope'.launches = Cardinality(Launched')
    <3>1. /\ \/ /\ receipt[k] # "none" /\ UNCHANGED monitor
                /\ \E st \in Final \cup {"unknown"} : Observed(k, st)
             \/ Identified(k) /\ Watch(k) /\ UNCHANGED <<envelope, waits>>
             \/ Observed(k, "unknown") /\ UNCHANGED monitor
          /\ UNCHANGED <<process, receipt, spawned, launcher, sweep, owner>>
          /\ rows[k].state \in {"launching", "cancelling"} /\ ~rows[k].identity
          /\ launcher[k] = "idle"
      BY <2>2, RecoverEffect DEF RecoverUnidentified, RunInv, RecoversAlone
    <3>2. \A j \in Keys : /\ rows'[j].state = "absent" <=> rows[j].state = "absent"
                          /\ rows'[j].refunded = rows[j].refunded
      BY <1>0, <3>1 DEF Observed, Identified, OthersKept, Active, Holding, Final
    <3>3. envelope'.launches = envelope.launches BY <3>1 DEF Observed, Identified, OthersKept
    <3>. QED BY <1>0, <3>2, <3>3, BudgetKept
  <2>3. ASSUME Adopt(k)
        PROVE  UNCHANGED <<rows, envelope>>
    BY <2>3 DEF Adopt, Recovered, Watch, storeVars, analysisVars, processVars
  <2>4. ASSUME UNCHANGED <<rows, envelope>> PROVE envelope'.launches = Cardinality(Launched')
    BY <2>4 DEF RunInv, BudgetIsExact, Launched
  <2>. QED BY <1>4, <2>1, <2>2, <2>3, <2>4 DEF Recovering
<1>5. ASSUME NEW k \in Keys, Answering(k) PROVE envelope'.launches = Cardinality(Launched')
  <2>1. ASSUME Cancel(k) PROVE envelope'.launches = Cardinality(Launched')
    BY <2>1, BudgetCancelled DEF Cancel
  <2>2. ASSUME CancelListed(k) PROVE envelope'.launches = Cardinality(Launched')
    <3>1. CASE CancelOne(k) BY <3>1, BudgetCancelled
    <3>2. CASE UNCHANGED <<callers, launcher, monitor, outsideRunner>>
      BY <1>0, <2>2, <3>2 DEF outsideRunner, storeVars, BudgetIsExact, Launched
    <3>. QED BY <2>2, <3>1, <3>2 DEF CancelListed
  <2>3. ASSUME Decide(k) PROVE envelope'.launches = Cardinality(Launched')
    <3>1. envelope'.launches = envelope.launches
      BY <1>0, <2>3 DEF Decide, outsideStore, processVars, runnerVars, sharedVars, analysisVars,
           lifeVars
    <3>2. \A j \in Keys : /\ rows'[j].state = "absent" <=> rows[j].state = "absent"
                          /\ rows'[j].refunded = rows[j].refunded
      BY <1>0, <2>3 DEF Decide, Row, Recorded, outsideStore, processVars, runnerVars,
           sharedVars, analysisVars, lifeVars
    <3>. QED BY <1>0, <3>1, <3>2, BudgetKept
  <2>4. ASSUME NEW truth \in {"not_started", "finished"}, Reconcile(k, truth)
      PROVE  envelope'.launches = Cardinality(Launched')
    <3>1. /\ Settled(k) /\ rows[k].state = "unknown"
          /\ \/ /\ rows'[k].refunded /\ rows'[k].state = "failed_to_start" /\ spawned[k] = 0
                /\ envelope' = [envelope EXCEPT !.launches = IF @ > 0 THEN @ - 1 ELSE 0]
             \/ /\ rows'[k].refunded = rows[k].refunded /\ spawned[k] > 0 /\ ~GroupAlive(k)
                /\ UNCHANGED envelope
          /\ UNCHANGED <<process, receipt, spawned, launcher, monitor, sweep, owner>>
      BY <2>4, ReconcileEffect
         DEF Reconcile, RunInv, outsideStore, sharedVars, processVars, runnerVars
    <3>2. ~rows[k].refunded BY <1>0, <3>1 DEF KeyInv, RowsMatch
    <3>3. rows[k].state # "absent" /\ OthersKept(k) BY <3>1 DEF Settled
    <3>4. CASE rows'[k].refunded
      <4>1. envelope' = [envelope EXCEPT !.launches = IF @ > 0 THEN @ - 1 ELSE 0]
        BY <3>1, <3>2, <3>4
      <4>. QED BY <3>2, <3>3, <3>4, <4>1, BudgetGivenBack
    <3>5. CASE rows'[k].refunded = rows[k].refunded /\ UNCHANGED envelope
      <4>1. \A j \in Keys : /\ rows'[j].state = "absent" <=> rows[j].state = "absent"
                            /\ rows'[j].refunded = rows[j].refunded
        BY <3>1, <3>3, <3>5 DEF Settled, OthersKept
      <4>. QED BY <1>0, <3>5, <4>1, BudgetKept
    <3>. QED BY <3>1, <3>4, <3>5
  <2>5. ASSUME \/ (\E m \in Members : RegisterWait(k, m))
               \/ (\E m \in Members : ExpireWait(k, m))
        PROVE  UNCHANGED <<rows, envelope>>
    BY <2>5 DEF RegisterWait, ExpireWait, outsideStore, processVars, runnerVars, sharedVars,
         analysisVars, lifeVars
  <2>6. ASSUME UNCHANGED <<rows, envelope>> PROVE envelope'.launches = Cardinality(Launched')
    BY <2>6 DEF RunInv, BudgetIsExact, Launched
  <2>. QED BY <1>5, <2>1, <2>2, <2>3, <2>4, <2>5, <2>6 DEF Answering
<1>6. ASSUME NEW k \in Keys, Telling(k) PROVE envelope'.launches = Cardinality(Launched')
  <2>1. UNCHANGED <<rows, envelope>>
    BY <1>6 DEF Telling, Acknowledge, Remind, RemindersExhausted, RouteFinished, outsideStore,
         processVars, runnerVars, sharedVars, analysisVars, lifeVars, outsideAnalysis, storeVars
  <2>. QED BY <2>1 DEF RunInv, BudgetIsExact, Launched
<1>7. ASSUME Round PROVE envelope'.launches = Cardinality(Launched')
  <2>1. ASSUME NEW l \in Limits, SetLimits(l) PROVE envelope'.launches = Cardinality(Launched')
    <3>1. envelope'.launches = envelope.launches
      BY <1>0, <2>1 DEF SetLimits, outsideStore, processVars, runnerVars, sharedVars,
           analysisVars, lifeVars
    <3>2. \A j \in Keys : /\ rows'[j].state = "absent" <=> rows[j].state = "absent"
                          /\ rows'[j].refunded = rows[j].refunded
      BY <1>0, <2>1 DEF SetLimits, Row, Recorded, outsideStore, processVars, runnerVars,
           sharedVars, analysisVars, lifeVars
    <3>. QED BY <1>0, <3>1, <3>2, BudgetKept
  <2>2. ASSUME NEW s \in {"active", "paused", "closed"}, SetEnvelopeState(s)
      PROVE  envelope'.launches = Cardinality(Launched')
    <3>1. envelope'.launches = envelope.launches
      BY <1>0, <2>2 DEF SetEnvelopeState, outsideStore, processVars, runnerVars, sharedVars,
           analysisVars, lifeVars
    <3>2. \A j \in Keys : /\ rows'[j].state = "absent" <=> rows[j].state = "absent"
                          /\ rows'[j].refunded = rows[j].refunded
      BY <1>0, <2>2 DEF SetEnvelopeState, Row, Recorded, outsideStore, processVars, runnerVars,
           sharedVars, analysisVars, lifeVars
    <3>. QED BY <1>0, <3>1, <3>2, BudgetKept
  <2>3. ASSUME CloseForCancel PROVE envelope'.launches = Cardinality(Launched')
    <3>1. envelope'.launches = envelope.launches
      BY <1>0, <2>3 DEF CloseForCancel, processVars, sharedVars, analysisVars, lifeVars
    <3>2. \A j \in Keys : /\ rows'[j].state = "absent" <=> rows[j].state = "absent"
                          /\ rows'[j].refunded = rows[j].refunded
      BY <1>0, <2>3 DEF CloseForCancel, Row, Recorded, processVars, sharedVars, analysisVars,
           lifeVars
    <3>. QED BY <1>0, <3>1, <3>2, BudgetKept
  <2>4. ASSUME DeleteTeam PROVE envelope'.launches = Cardinality(Launched')
    <3>1. envelope'.launches = envelope.launches
      BY <1>0, <2>4 DEF DeleteTeam, analysisVars, processVars, runnerVars, lifeVars
    <3>2. \A j \in Keys : /\ rows'[j].state = "absent" <=> rows[j].state = "absent"
                          /\ rows'[j].refunded = rows[j].refunded
      BY <1>0, <2>4 DEF DeleteTeam, Row, Recorded, analysisVars, processVars, runnerVars,
           lifeVars
    <3>. QED BY <1>0, <3>1, <3>2, BudgetKept
  <2>5. ASSUME \/ (\E m \in Members : ReassignWaits(m)) \/ ListForCancel \/ MarkDisbanding
              \/ CancelTeam \/ FlagTeam \/ ReadOwed
              \/ ReadSettled \/ StartAnalysis \/ ResolveAnalysis
        PROVE  UNCHANGED <<rows, envelope>>
    BY <2>5 DEF ReassignWaits, ListForCancel, MarkDisbanding, CancelTeam, FlagTeam, ReadOwed,
         ReadSettled, StartAnalysis, ResolveAnalysis, KillAll, outsideStore, processVars,
         runnerVars, sharedVars, analysisVars, lifeVars, outsideRunner, storeVars,
         outsideAnalysis
  <2>6. ASSUME UNCHANGED <<rows, envelope>> PROVE envelope'.launches = Cardinality(Launched')
    BY <2>6 DEF RunInv, BudgetIsExact, Launched
  <2>. QED BY <1>7, <2>1, <2>2, <2>3, <2>4, <2>5, <2>6 DEF Round
<1>8. ASSUME NEW reboots \in BOOLEAN, Crash(reboots)
    PROVE  envelope'.launches = Cardinality(Launched')
  <2>1. UNCHANGED <<rows, envelope>>
    BY <1>8 DEF Crash, KillAll, Off, storeVars
  <2>. QED BY <2>1 DEF RunInv, BudgetIsExact, Launched
<1>9. ASSUME Restart PROVE envelope'.launches = Cardinality(Launched')
  <2>1. UNCHANGED <<rows, envelope>>
    BY <1>9 DEF Restart, storeVars, analysisVars, processVars, runnerVars
  <2>. QED BY <2>1 DEF RunInv, BudgetIsExact, Launched
<1>10. ASSUME UNCHANGED runVars PROVE envelope'.launches = Cardinality(Launched')
  <2>1. UNCHANGED <<rows, envelope>>
    BY <1>10 DEF runVars, storeVars, analysisVars, processVars, runnerVars, lifeVars
  <2>. QED BY <2>1 DEF RunInv, BudgetIsExact, Launched
<1>. QED BY <1>1, <1>2, <1>3, <1>4, <1>5, <1>6, <1>7, <1>8, <1>9, <1>10 DEF RunNext

-----------------------------------------------------------------------------
(* The theorems. *)

(* The inductive invariant holds in an empty store with the Runtime up. *)
LEMMA InitInv == RunInit => RunInv
<1>. SUFFICES ASSUME RunInit PROVE RunInv OBVIOUS
<1>1. \A k \in Keys :
         /\ rows[k].state = "absent" /\ ~rows[k].identity /\ ~rows[k].refunded /\ ~rows[k].timeout
         /\ process[k] = "none" /\ receipt[k] = "none" /\ spawned[k] = 0
         /\ launcher[k] = "idle" /\ monitor[k].at = "off"
  BY DEF RunInit
<1>2. StoreTypes
  <2>1. rows \in [Keys -> Row] BY DEF RunInit, Row
  <2>2. envelope \in [state : {"active", "paused", "closed"}, limits : Limits, launches : Nat]
    BY DEF RunInit
  <2>3. ended \in Seq(Keys) BY DEF RunInit
  <2>4. waits \in [Keys \X Members -> {"none", "open", "resolved", "expired", "reassigned"}]
    BY DEF RunInit
  <2>. QED BY <2>1, <2>2, <2>3, <2>4 DEF RunInit, StoreTypes
<1>3. AnalysisTypes
  <2>1. 0 \in 0..(MaxReminders + 1) BY BoundAssumption
  <2>. QED BY <2>1 DEF RunInit, AnalysisTypes
<1>4. ProcessTypes BY DEF RunInit, ProcessTypes
<1>5. RunnerTypes BY DEF RunInit, RunnerTypes
<1>6. LifeTypes BY DEF RunInit, LifeTypes
<1>7. LaunchInv
  BY <1>1 DEF LaunchInv, KeyInv, RowsMatch, ClaimHeld, SettledGone
<1>8. TeamWaits /\ OpenWaitIsOwed
  <2>1. \A k \in Keys, m \in Members : waits[<<k, m>>] = "none"
    <3>. SUFFICES ASSUME NEW k \in Keys, NEW m \in Members PROVE waits[<<k, m>>] = "none"
      OBVIOUS
    <3>1. <<k, m>> \in Keys \X Members OBVIOUS
    <3>. QED BY <3>1 DEF RunInit
  <2>. QED BY <2>1 DEF TeamWaits, OpenWaitIsOwed
<1>9. BudgetIsExact
  <2>1. Launched = {} BY <1>1 DEF Launched
  <2>2. envelope.launches = 0 BY DEF RunInit
  <2>. QED BY <1>1, <2>1, <2>2, FS_EmptySet DEF BudgetIsExact
<1>10. RecoversAlone /\ SweepCloses BY DEF RunInit, RecoversAlone, SweepCloses
<1>11. SlotHeldWhileRunning BY <1>1 DEF SlotHeldWhileRunning, Final
<1>. QED BY <1>2, <1>3, <1>4, <1>5, <1>6, <1>7, <1>8, <1>9, <1>10, <1>11 DEF RunInv, RunTypeOK

\* Every step keeps every part.
LEMMA StepInv == RunInv /\ [RunNext]_runVars => RunInv'
<1>. SUFFICES ASSUME RunInv, [RunNext]_runVars PROVE RunInv' OBVIOUS
<1>1. RunTypeOK'
  BY StoreTypesStep, AnalysisTypesStep, ProcessTypesStep, RunnerTypesStep, LifeTypesStep
     DEF RunInv, RunTypeOK
<1>2. LaunchInv' BY LaunchInvStep
<1>3. BudgetIsExact'
  <2>1. envelope'.launches = Cardinality(Launched') BY BudgetStep
  <2>2. \A k \in Keys : rows'[k].refunded => spawned'[k] = 0
    BY <1>2 DEF LaunchInv, KeyInv, RowsMatch
  <2>. QED BY <2>1, <2>2 DEF BudgetIsExact
<1>. QED BY <1>1, <1>2, <1>3, RecoversAloneStep, SlotHeldWhileRunningStep, TeamWaitsStep,
            OpenWaitIsOwedStep, SweepClosesStep DEF RunInv

\* The inductive invariant: what a claim, a process, a monitor, a wait and the
\* sweep of a cancellation have to do with a row, at every step of a launch, an
\* observation, a cancellation and a recovery.
THEOREM RunInvHolds == RunSpec => []RunInv
<1>. QED BY InitInv, StepInv, PTL DEF RunSpec

\* The tables, the processes and the handlers stay well formed.
THEOREM RunTypesHold == RunSpec => []RunTypeOK
<1>1. RunInv => RunTypeOK BY DEF RunInv
<1>. QED BY <1>1, RunInvHolds, PTL

\* A launch key starts one process at most, whatever races and recovers
\* (reserve, mark_launching, recover).
THEOREM ProcessHolds == RunSpec => []OneProcessPerKey
<1>1. RunInv => OneProcessPerKey BY DEF RunInv, LaunchInv, KeyInv, OneProcessPerKey
<1>. QED BY <1>1, RunInvHolds, PTL

\* The budget counts what was admitted and not given back, and what is given back
\* never ran (reserve, abandon_reserved, reconcile).
THEOREM BudgetHolds == RunSpec => []BudgetIsExact
<1>1. RunInv => BudgetIsExact BY DEF RunInv
<1>. QED BY <1>1, RunInvHolds, PTL

\* No slot is released under a live process group (monitor, finish_from_files).
THEOREM SlotHolds == RunSpec => []SlotHeldWhileRunning
<1>1. RunInv => SlotHeldWhileRunning BY DEF RunInv
<1>. QED BY <1>1, RunInvHolds, PTL

\* An open wait is on an attempt that is still to be observed (register_wait,
\* resolve_open_waits).
THEOREM WaitHolds == RunSpec => []OpenWaitIsOwed
<1>1. RunInv => OpenWaitIsOwed BY DEF RunInv
<1>. QED BY <1>1, RunInvHolds, PTL

\* A cancelled round leaves no attempt unasked (cancel_round).
THEOREM CancelHolds == RunSpec => []RoundCancelIsComplete
<1>1. RunInv => RoundCancelIsComplete
  <2>. SUFFICES ASSUME RunInv, sweep = [at |-> "listed", left |-> {}], NEW k \in Keys, Active(k)
                PROVE  rows[k].cancel
    BY DEF RoundCancelIsComplete
  <2>1. sweep.at = "listed" /\ sweep.left = {} OBVIOUS
  <2>2. Active(k) /\ ~rows[k].cancel => k \in sweep.left BY <2>1 DEF RunInv, SweepCloses
  <2>3. rows[k].cancel \in BOOLEAN BY DEF RunInv, RunTypeOK, StoreTypes, Row
  <2>. QED BY <2>1, <2>2, <2>3
<1>. QED BY <1>1, RunInvHolds, PTL
=============================================================================
