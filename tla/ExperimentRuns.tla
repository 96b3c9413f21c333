--------------------------- MODULE ExperimentRuns ---------------------------
(***************************************************************************)
(* The experiments of one research round (server/src/experiment_store and  *)
(* experiment_runner, orchestrator/analysis.rs): admission against the     *)
(* envelope, the process of each attempt, its observation, cancellation    *)
(* and recovery, the waits of Team members on it and the analysis it owes. *)
(*                                                                         *)
(* A store command is one immediate transaction and one action.  The       *)
(* launch handler, the monitor of a process, the cancellation of a round   *)
(* and the removal of a Team are several, and the Runtime may stop between *)
(* any two of them while the processes go on.                              *)
(*                                                                         *)
(* An attempt is named by its launch key, which is unique in the round.    *)
(* Deadlines and authorized commands only refuse a launch and are left     *)
(* out, as are revisions: a stale one changes nothing.                     *)
(***************************************************************************)
EXTENDS Integers, Sequences, FiniteSets

CONSTANTS
    Keys,           \* launch keys
    Members,        \* members of the Team that may wait on its experiments
    Owners,         \* whose the experiments may be: of the Team, of a native task
    Limits,         \* the limits the researcher chooses from
    MaxCallers,     \* bound: launch handlers at the same time under one key
    MaxReminders,   \* EXPERIMENT_MAX_REMINDERS
    MaxCrashes,     \* bound: stops of the Runtime
    Ways            \* which of the optional commands occur

ASSUME KeysFinite == IsFiniteSet(Keys)
ASSUME LimitAssumption ==
    Limits \subseteq [launches : Nat, concurrent : Nat, failures : Nat \ {0}]
ASSUME LimitsExist == Limits # {}
ASSUME OwnerAssumption == Owners \subseteq {"team", "task"}
ASSUME BoundAssumption ==
    /\ MaxCallers \in Nat /\ MaxReminders \in Nat /\ MaxCrashes \in Nat
    /\ Ways \subseteq {"cancel", "round", "team", "limits", "pause", "unnamed", "tell"}

VARIABLES
    owner,      \* whose each experiment is: the Team's or a native task's
    rows,       \* experiments
    envelope,   \* research_envelopes: state, limits, launches reserved
    ended,      \* the keys by finished_at
    waits,      \* experiment_waits: the latest of each experiment and member
    mail,       \* the finished event of each experiment: unread or read
    reminders,  \* experiments.reminders
    flagged,    \* the Team needs attention
    flagging,   \* the supervisor is about to flag it
    team,       \* external: the Team of the round
    task,       \* the stage of the native task
    routing,    \* route_finished read whether analysis was owed
    process,    \* the process group of each experiment
    receipt,    \* its exit receipt
    spawned,    \* history: processes ever started
    callers,    \* launch handlers that have the row and not yet the claim
    launcher,   \* the launch handler that has the claim
    monitor,    \* the monitor of each experiment
    late,       \* the runtime limit of the experiment has passed
    sweep,      \* the handler that cancels the round
    recovering, \* what recover has still to look at
    up,         \* whether the Runtime runs
    crashes

storeVars == <<rows, envelope, ended, waits, mail>>
analysisVars == <<reminders, flagged, flagging, task, routing>>
processVars == <<process, receipt, spawned, late>>
runnerVars == <<callers, launcher, monitor, sweep>>
lifeVars == <<recovering, up, crashes>>
sharedVars == <<owner, analysisVars, lifeVars, team>>
outsideStore == <<sharedVars, processVars, runnerVars>>
outsideRunner == <<sharedVars, storeVars, processVars>>
outsideProcess == <<sharedVars, storeVars, runnerVars>>
outsideAnalysis == <<owner, lifeVars, team, storeVars, processVars, runnerVars>>
runVars == <<owner, storeVars, analysisVars, processVars, runnerVars, lifeVars, team>>

Holding == {"reserved", "launching", "running", "cancelling", "unknown"}
Final == {"exited", "timed_out", "cancelled", "failed_to_start"}
Row == [state : {"absent", "removed"} \cup Holding \cup Final,
        analysis : {"none", "pending", "analyzed"}, ok : BOOLEAN,
        identity : BOOLEAN, cancel : BOOLEAN, timeout : BOOLEAN, refunded : BOOLEAN]

\* started: the wrapper has not written its pid file yet.  leaderless: the
\* wrapper is gone and some of its group is not.
Alive == {"started", "named", "leaderless"}
Receipts == {"zero", "nonzero", "not_executed", "signalled"}

-----------------------------------------------------------------------------
(* Reading. *)

Recorded(k) == rows[k].state \notin {"absent", "removed"}
Active(k) == rows[k].state \in Holding
Holders == {k \in Keys : Active(k)}
Launched == {k \in Keys : rows[k].state # "absent" /\ ~rows[k].refunded}
GroupAlive(k) == process[k] \in Alive
LeaderAlive(k) == process[k] \in {"started", "named"}
Serving == up /\ recovering = {}

Unproductive(k) == ~(rows[k].state = "exited" /\ rows[k].ok)

\* The last attempts to end, as many as the limit says, all came to nothing.
\* A cancelled one and one given back are not counted, nor is an unknown one.
NoProgress ==
    LET counted == SelectSeq(ended, LAMBDA k : rows[k].state \in Final \ {"cancelled"}
                                               /\ ~rows[k].refunded)
        n == Len(counted)
        limit == envelope.limits.failures
    IN  n >= limit /\ \A i \in (n - limit + 1)..n : Unproductive(counted[i])

Owed(k) == Recorded(k) /\ rows[k].analysis = "pending"

-----------------------------------------------------------------------------
RunInit ==
    /\ owner \in [Keys -> Owners]
    /\ rows = [k \in Keys |-> [state |-> "absent", analysis |-> "none", ok |-> FALSE,
                               identity |-> FALSE, cancel |-> FALSE, timeout |-> FALSE,
                               refunded |-> FALSE]]
    /\ \E l \in Limits : envelope = [state |-> "active", limits |-> l, launches |-> 0]
    /\ ended = <<>>
    /\ waits = [w \in Keys \X Members |-> "none"]
    /\ mail = [k \in Keys |-> "none"]
    /\ reminders = [k \in Keys |-> 0]
    /\ flagged = FALSE /\ flagging = FALSE
    /\ team = "active" /\ task = "executing"
    /\ routing = {}
    /\ process = [k \in Keys |-> "none"]
    /\ receipt = [k \in Keys |-> "none"]
    /\ spawned = [k \in Keys |-> 0]
    /\ callers = [k \in Keys |-> 0]
    /\ launcher = [k \in Keys |-> "idle"]
    /\ monitor = [k \in Keys |-> [at |-> "off", cancel |-> FALSE, termed |-> FALSE]]
    /\ late = [k \in Keys |-> FALSE]
    /\ sweep = [at |-> "idle", left |-> {}]
    /\ recovering = {} /\ up = TRUE /\ crashes = 0

(* What the store commands have in common: the waits of an ended attempt are *)
(* resolved and its event is told, each event once.                          *)

ResolveOpenWaits(k) ==
    waits' = [w \in DOMAIN waits |->
                IF w[1] = k /\ waits[w] = "open" THEN "resolved" ELSE waits[w]]

DeliverFinished(k) == mail' = [mail EXCEPT ![k] = IF @ = "none" THEN "unread" ELSE @]

Ends(k, state) ==
    ended' = IF state = "unknown" THEN ended ELSE Append(ended, k)

Observe(k, state, ok) ==
    IF ~Active(k) THEN UNCHANGED storeVars
    ELSE /\ rows' = [rows EXCEPT ![k].state = state, ![k].ok = ok, ![k].analysis = "pending"]
         /\ Ends(k, state) /\ DeliverFinished(k) /\ ResolveOpenWaits(k)
         /\ UNCHANGED envelope

\* What the files and the recorded intent say, for a caller that read the
\* row's cancel flag some time ago; the reason is read again.
Outcome(k, cancelled) ==
    LET r == receipt[k]
    IN  CASE r = "signalled" /\ rows[k].timeout -> "timed_out"
          [] r = "signalled" /\ ~rows[k].timeout /\ cancelled -> "cancelled"
          [] r = "not_executed" -> "failed_to_start"
          [] r = "none" /\ cancelled -> "cancelled"
          [] r = "none" /\ ~cancelled /\ rows[k].timeout -> "timed_out"
          [] r = "none" /\ ~cancelled /\ ~rows[k].timeout -> "unknown"
          [] OTHER -> "exited"

FinishFromFiles(k, cancelled) == Observe(k, Outcome(k, cancelled), receipt[k] = "zero")

Watch(k) ==
    monitor' = [monitor EXCEPT ![k] =
                  IF @.at = "off" THEN [at |-> "watch", cancel |-> FALSE, termed |-> FALSE]
                                  ELSE @]

Kill(k) == process' = [process EXCEPT ![k] = IF @ \in Alive THEN "gone" ELSE @]
KillAll(S) == process' = [k \in Keys |-> IF k \in S /\ process[k] \in Alive
                                         THEN "gone" ELSE process[k]]

\* The wrapper dies on SIGTERM; the program may trap it.
Terminated(k) == process' \in {[process EXCEPT ![k] = "leaderless"],
                               [process EXCEPT ![k] = "gone"]}

-----------------------------------------------------------------------------
(* The envelope. *)

SetLimits(l) ==
    /\ "limits" \in Ways /\ Serving
    /\ envelope' = [envelope EXCEPT !.limits = l]
    /\ UNCHANGED <<rows, ended, waits, mail, outsideStore>>

SetEnvelopeState(s) ==
    /\ "pause" \in Ways /\ Serving
    /\ envelope.state # "closed"
    /\ envelope' = [envelope EXCEPT !.state = s]
    /\ UNCHANGED <<rows, ended, waits, mail, outsideStore>>

-----------------------------------------------------------------------------
(* A launch: reserve, claim, spawn, record the identity. *)

Admissible(k) ==
    /\ envelope.state = "active"
    /\ owner[k] = "team" => team = "active"
    /\ envelope.launches < envelope.limits.launches
    /\ Cardinality(Holders) < envelope.limits.concurrent
    /\ ~NoProgress

Reserve(k) ==
    /\ Serving
    /\ rows[k].state = "absent" /\ Admissible(k)
    /\ rows' = [rows EXCEPT ![k].state = "reserved"]
    /\ envelope' = [envelope EXCEPT !.launches = @ + 1]
    /\ callers' = [callers EXCEPT ![k] = 1]
    /\ UNCHANGED <<ended, waits, mail, processVars, launcher, monitor, sweep,
                   sharedVars>>

\* A repeated key finds the row; the handler goes on if it is still reserved.
ReserveAgain(k) ==
    /\ Serving
    /\ rows[k].state = "reserved"
    /\ callers[k] < MaxCallers
    /\ callers' = [callers EXCEPT ![k] = @ + 1]
    /\ UNCHANGED <<launcher, monitor, sweep, outsideRunner>>

\* Variant: the claim is not conditional on the row.
MarkLaunchingAlways(k) ==
    /\ up /\ callers[k] > 0
    /\ callers' = [callers EXCEPT ![k] = @ - 1]
    /\ rows' = [rows EXCEPT ![k].state = "launching"]
    /\ launcher' = [launcher EXCEPT ![k] = "spawn"]
    /\ UNCHANGED <<envelope, ended, waits, mail, processVars, monitor, sweep,
                   sharedVars>>

\* One of the handlers wins the claim; the others return the row as it stands.
MarkLaunching(k) ==
    /\ up /\ callers[k] > 0
    /\ callers' = [callers EXCEPT ![k] = @ - 1]
    /\ IF rows[k].state = "reserved"
       THEN /\ rows' = [rows EXCEPT ![k].state = "launching"]
            /\ launcher' = [launcher EXCEPT ![k] = "spawn"]
       ELSE UNCHANGED <<rows, launcher>>
    /\ UNCHANGED <<envelope, ended, waits, mail, processVars, monitor, sweep,
                   sharedVars>>

Spawn(k) ==
    /\ launcher[k] = "spawn"
    /\ launcher' = [launcher EXCEPT ![k] = "identify"]
    /\ process' = [process EXCEPT ![k] = "started"]
    /\ spawned' = [spawned EXCEPT ![k] = @ + 1]
    /\ UNCHANGED <<storeVars, receipt, late, callers, monitor, sweep, sharedVars>>

SpawnFails(k) ==
    /\ launcher[k] = "spawn"
    /\ launcher' = [launcher EXCEPT ![k] = "idle"]
    /\ Observe(k, "failed_to_start", FALSE)
    /\ UNCHANGED <<processVars, callers, monitor, sweep, sharedVars>>

\* mark_running, for the launch handler and for recovery.
RecordIdentity(k) ==
    rows' = [rows EXCEPT ![k].identity = TRUE,
                         ![k].state = IF rows[k].cancel THEN "cancelling" ELSE "running"]

\* A record that went away takes the process with it.
MarkRunning(k) ==
    /\ launcher[k] = "identify"
    /\ launcher' = [launcher EXCEPT ![k] = "idle"]
    /\ IF rows[k].state \in {"launching", "reserved", "cancelling"}
       THEN RecordIdentity(k) /\ Watch(k) /\ UNCHANGED process
       ELSE Kill(k) /\ UNCHANGED <<rows, monitor>>
    /\ UNCHANGED <<envelope, ended, waits, mail, receipt, spawned, late, callers,
                   sweep, sharedVars>>

\* The process was gone before its identity could be read; the row the handler
\* holds is the one it reserved, never a cancelled one.
EndedUnidentified(k) ==
    /\ "unnamed" \in Ways
    /\ launcher[k] = "identify" /\ ~LeaderAlive(k)
    /\ launcher' = [launcher EXCEPT ![k] = "idle"]
    /\ FinishFromFiles(k, FALSE)
    /\ UNCHANGED <<processVars, callers, monitor, sweep, sharedVars>>

-----------------------------------------------------------------------------
(* External: the wrapper and the program under it.                          *)

WritesPidFile(k) ==
    /\ process[k] = "started"
    /\ process' = [process EXCEPT ![k] = "named"]
    /\ UNCHANGED <<receipt, spawned, late, outsideProcess>>

\* The program ends, the wrapper writes the receipt; the program may have left
\* something behind in its group.
ProgramEnds(k, r) ==
    /\ process[k] = "named"
    /\ receipt' = [receipt EXCEPT ![k] = r]
    /\ process' \in {[process EXCEPT ![k] = "leaderless"], [process EXCEPT ![k] = "gone"]}
    /\ UNCHANGED <<spawned, late, outsideProcess>>

\* The wrapper or what is left of the group ends without a receipt.
ProcessEnds(k) ==
    /\ GroupAlive(k)
    /\ process' \in {[process EXCEPT ![k] = "leaderless"], [process EXCEPT ![k] = "gone"]}
    /\ process' # process
    /\ UNCHANGED <<receipt, spawned, late, outsideProcess>>

RuntimeLimitPasses(k) ==
    /\ GroupAlive(k) /\ ~late[k]
    /\ late' = [late EXCEPT ![k] = TRUE]
    /\ UNCHANGED <<process, receipt, spawned, outsideProcess>>

-----------------------------------------------------------------------------
(* The monitor of a process: it reads the row, then looks at the receipt and *)
(* the group, and what it decides on is the row it read.                     *)

Off == [at |-> "off", cancel |-> FALSE, termed |-> FALSE]

MonitorReads(k) ==
    /\ monitor[k].at = "watch"
    /\ monitor' = [monitor EXCEPT ![k] =
                     IF Active(k) /\ rows[k].state # "unknown" /\ rows[k].identity
                     THEN [@ EXCEPT !.at = "look", !.cancel = rows[k].cancel] ELSE Off]
    /\ UNCHANGED <<callers, launcher, sweep, outsideRunner>>

MonitorFindsReceipt(k) ==
    /\ monitor[k].at = "look" /\ receipt[k] # "none"
    /\ Kill(k)
    /\ FinishFromFiles(k, monitor[k].cancel)
    /\ monitor' = [monitor EXCEPT ![k] = Off]
    /\ UNCHANGED <<receipt, spawned, late, callers, launcher, sweep, sharedVars>>

\* Variant: the slot is given back when the wrapper is gone.
MonitorFindsLeaderGone(k) ==
    /\ monitor[k].at = "look" /\ receipt[k] = "none" /\ ~LeaderAlive(k)
    /\ monitor' = [monitor EXCEPT ![k].at = "settle"]
    /\ UNCHANGED <<callers, launcher, sweep, outsideRunner>>

\* Gone; a receipt on its way may still land.
MonitorFindsGone(k) ==
    /\ monitor[k].at = "look" /\ receipt[k] = "none" /\ ~GroupAlive(k)
    /\ monitor' = [monitor EXCEPT ![k].at = "settle"]
    /\ UNCHANGED <<callers, launcher, sweep, outsideRunner>>

MonitorSettles(k) ==
    /\ monitor[k].at = "settle"
    /\ FinishFromFiles(k, monitor[k].cancel)
    /\ monitor' = [monitor EXCEPT ![k] = Off]
    /\ UNCHANGED <<processVars, callers, launcher, sweep, sharedVars>>

MustStop(k) == monitor[k].cancel \/ late[k]

\* The reason is recorded before the signal.
MonitorTerminates(k) ==
    /\ monitor[k].at = "look" /\ receipt[k] = "none" /\ GroupAlive(k)
    /\ MustStop(k) /\ ~monitor[k].termed
    /\ rows' = [rows EXCEPT ![k].timeout =
                  @ \/ (~monitor[k].cancel /\ rows[k].state \in {"launching", "running",
                                                                  "cancelling"})]
    /\ Terminated(k)
    /\ monitor' = [monitor EXCEPT ![k].at = "watch", ![k].termed = TRUE]
    /\ UNCHANGED <<envelope, ended, waits, mail, receipt, spawned, late, callers,
                   launcher, sweep, sharedVars>>

\* The grace period is over.
MonitorKills(k) ==
    /\ monitor[k].at = "look" /\ receipt[k] = "none" /\ GroupAlive(k)
    /\ monitor[k].termed
    /\ Kill(k)
    /\ monitor' = [monitor EXCEPT ![k].at = "watch"]
    /\ UNCHANGED <<storeVars, receipt, spawned, late, callers, launcher, sweep,
                   sharedVars>>

MonitorWaits(k) ==
    /\ monitor[k].at = "look" /\ receipt[k] = "none" /\ GroupAlive(k)
    /\ MustStop(k) => monitor[k].termed
    /\ monitor' = [monitor EXCEPT ![k].at = "watch"]
    /\ UNCHANGED <<callers, launcher, sweep, outsideRunner>>

-----------------------------------------------------------------------------
(* Cancellation. *)

RequestCancel(k) ==
    IF rows[k].state = "reserved"
    THEN /\ rows' = [rows EXCEPT ![k].cancel = TRUE, ![k].state = "cancelled",
                                 ![k].analysis = "pending"]
         /\ Ends(k, "cancelled") /\ DeliverFinished(k) /\ ResolveOpenWaits(k)
    ELSE /\ rows' = [rows EXCEPT ![k].cancel = TRUE,
                                 ![k].state = IF @ \in {"launching", "running"}
                                              THEN "cancelling" ELSE @]
         /\ UNCHANGED <<ended, waits, mail>>

\* after_cancel; its signal is lost when the Runtime stops in between.
SignalCancelled(k) ==
    IF rows[k].identity /\ rows'[k].state = "cancelling"
    THEN /\ Watch(k)
         /\ IF LeaderAlive(k) THEN Terminated(k) \/ UNCHANGED process ELSE UNCHANGED process
    ELSE UNCHANGED <<monitor, process>>

CancelOne(k) ==
    /\ Active(k) /\ ~rows[k].cancel
    /\ RequestCancel(k)
    /\ SignalCancelled(k)
    /\ UNCHANGED <<envelope, receipt, spawned, late, callers, launcher, sharedVars>>

Cancel(k) ==
    /\ "cancel" \in Ways /\ Serving
    /\ CancelOne(k) /\ UNCHANGED sweep

\* Variant: the experiments are read and the envelope is closed afterwards.
CancelWithoutClosing ==
    /\ "round" \in Ways /\ Serving
    /\ sweep.at = "idle"
    /\ sweep' = [at |-> "closed", left |-> {}]
    /\ UNCHANGED <<callers, launcher, monitor, outsideRunner>>

\* The round is cancelled: its envelope is closed first, then its experiments
\* are read, then each of them is cancelled.
CloseForCancel ==
    /\ "round" \in Ways /\ Serving
    /\ sweep.at = "idle"
    /\ envelope' = [envelope EXCEPT !.state = "closed"]
    /\ sweep' = [at |-> "closed", left |-> {}]
    /\ UNCHANGED <<rows, ended, waits, mail, processVars, callers, launcher, monitor,
                   sharedVars>>

ListForCancel ==
    /\ sweep.at = "closed"
    /\ sweep' = [at |-> "listed", left |-> {k \in Keys : Active(k) /\ ~rows[k].cancel}]
    /\ UNCHANGED <<callers, launcher, monitor, outsideRunner>>

CancelListed(k) ==
    /\ sweep.at = "listed" /\ k \in sweep.left
    /\ sweep' = [sweep EXCEPT !.left = @ \ {k}]
    /\ \/ CancelOne(k)
       \/ /\ ~Active(k) \/ rows[k].cancel
          /\ UNCHANGED <<callers, launcher, monitor, outsideRunner>>

-----------------------------------------------------------------------------
(* The Team of the round is removed. *)

MarkDisbanding ==
    /\ "team" \in Ways /\ Serving
    /\ team = "active"
    /\ team' = "disbanding"
    /\ UNCHANGED <<owner, storeVars, analysisVars, processVars, runnerVars, lifeVars>>

\* Those an identity is recorded of; the unknown ones are not read.
CancelTeam ==
    /\ up /\ team = "disbanding"
    /\ team' = "cancelled"
    /\ KillAll({k \in Keys : owner[k] = "team" /\ Active(k) /\ rows[k].state # "unknown"
                             /\ rows[k].identity})
    /\ UNCHANGED <<owner, storeVars, analysisVars, receipt, spawned, late, runnerVars,
                   lifeVars>>

DeleteTeam ==
    /\ up /\ team = "cancelled"
    /\ team' = "deleted"
    /\ rows' = [k \in Keys |-> IF owner[k] = "team" /\ Recorded(k)
                               THEN [rows[k] EXCEPT !.state = "removed"] ELSE rows[k]]
    /\ waits' = [w \in DOMAIN waits |-> IF owner[w[1]] = "team" THEN "none" ELSE waits[w]]
    /\ UNCHANGED <<owner, envelope, ended, mail, analysisVars, processVars, runnerVars,
                   lifeVars>>

-----------------------------------------------------------------------------
(* Recovery. *)

\* The machine restarts with the Runtime or goes on without it.
Crash(reboots) ==
    /\ up /\ crashes < MaxCrashes
    /\ up' = FALSE /\ crashes' = crashes + 1 /\ recovering' = {}
    /\ IF reboots THEN KillAll(Keys) ELSE UNCHANGED process
    /\ callers' = [k \in Keys |-> 0]
    /\ launcher' = [k \in Keys |-> "idle"]
    /\ monitor' = [k \in Keys |-> Off]
    /\ sweep' = [at |-> "idle", left |-> {}]
    /\ flagging' = FALSE /\ routing' = {}
    /\ team' = IF team = "cancelled" THEN "disbanding" ELSE team
    /\ UNCHANGED <<owner, storeVars, reminders, flagged, task, receipt, spawned, late>>

Restart ==
    /\ ~up
    /\ up' = TRUE
    /\ recovering' = {k \in Keys : Active(k) /\ rows[k].state # "unknown"}
    /\ UNCHANGED <<owner, storeVars, analysisVars, processVars, runnerVars, crashes,
                   team>>

Recovered(k) == recovering' = recovering \ {k}

\* Variant: whatever was launching is given back.
AbandonUnidentified(k) ==
    /\ k \in recovering /\ ~rows[k].identity
    /\ rows[k].state \in {"reserved", "launching", "cancelling"}
    /\ Recovered(k)
    /\ rows' = [rows EXCEPT ![k].state = "failed_to_start", ![k].analysis = "pending",
                            ![k].refunded = TRUE]
    /\ envelope' = [envelope EXCEPT !.launches = IF @ > 0 THEN @ - 1 ELSE 0]
    /\ Ends(k, "failed_to_start") /\ DeliverFinished(k) /\ ResolveOpenWaits(k)
    /\ UNCHANGED <<owner, analysisVars, processVars, runnerVars, up, crashes, team>>

\* It provably never spawned: its launch is given back.
AbandonReserved(k) ==
    /\ k \in recovering /\ rows[k].state = "reserved"
    /\ Recovered(k)
    /\ rows' = [rows EXCEPT ![k].state = "failed_to_start", ![k].analysis = "pending",
                            ![k].refunded = TRUE]
    /\ envelope' = [envelope EXCEPT !.launches = IF @ > 0 THEN @ - 1 ELSE 0]
    /\ Ends(k, "failed_to_start") /\ DeliverFinished(k) /\ ResolveOpenWaits(k)
    /\ UNCHANGED <<owner, analysisVars, processVars, runnerVars, up, crashes, team>>

\* The receipt settles it; a pid file and the live process it names are
\* evidence enough to adopt it; anything else is unknown.
RecoverUnidentified(k) ==
    /\ k \in recovering
    /\ rows[k].state \in {"launching", "cancelling"} /\ ~rows[k].identity
    /\ Recovered(k)
    /\ IF receipt[k] # "none"
       THEN FinishFromFiles(k, rows[k].cancel) /\ UNCHANGED monitor
       ELSE IF process[k] = "named"
       THEN RecordIdentity(k) /\ Watch(k) /\ UNCHANGED <<envelope, ended, waits, mail>>
       ELSE Observe(k, "unknown", FALSE) /\ UNCHANGED monitor
    /\ UNCHANGED <<owner, analysisVars, processVars, callers, launcher, sweep, up,
                   crashes, team>>

\* Variant: a process that is being cancelled is not watched again.
AdoptRunning(k) ==
    /\ k \in recovering
    /\ rows[k].state \in {"running", "cancelling"} /\ rows[k].identity
    /\ Recovered(k)
    /\ IF rows[k].state = "running" THEN Watch(k) ELSE UNCHANGED monitor
    /\ UNCHANGED <<owner, storeVars, analysisVars, processVars, callers, launcher,
                   sweep, up, crashes, team>>

Adopt(k) ==
    /\ k \in recovering
    /\ rows[k].state \in {"running", "cancelling"} /\ rows[k].identity
    /\ Recovered(k)
    /\ Watch(k)
    /\ UNCHANGED <<owner, storeVars, analysisVars, processVars, callers, launcher,
                   sweep, up, crashes, team>>

\* A person says what became of an unknown attempt, and tells the truth.
Reconcile(k, truth) ==
    /\ Serving
    /\ rows[k].state = "unknown"
    /\ IF truth = "not_started" THEN spawned[k] = 0 ELSE spawned[k] > 0 /\ ~GroupAlive(k)
    /\ IF truth = "not_started"
       THEN /\ rows' = [rows EXCEPT ![k].state = "failed_to_start", ![k].analysis = "none",
                                    ![k].refunded = TRUE]
            /\ envelope' = [envelope EXCEPT !.launches = IF @ > 0 THEN @ - 1 ELSE 0]
       ELSE /\ \E ok \in BOOLEAN :
                 rows' = [rows EXCEPT ![k].state = "exited", ![k].ok = ok,
                                      ![k].analysis = "pending"]
            /\ UNCHANGED envelope
    /\ Ends(k, "exited") /\ ResolveOpenWaits(k)
    /\ UNCHANGED <<mail, outsideStore>>

-----------------------------------------------------------------------------
(* Waits of the Team's members.                                             *)

\* Variant: a new wait is open whatever the experiment's state.
RegisterOpenWait(k, m) ==
    /\ Serving
    /\ owner[k] = "team" /\ Recorded(k)
    /\ waits[<<k, m>>] = "none" \/ (Active(k) /\ waits[<<k, m>>] # "open")
    /\ waits' = [waits EXCEPT ![<<k, m>>] = "open"]
    /\ UNCHANGED <<rows, envelope, ended, mail, outsideStore>>

\* A wait that is open, and one on a finished experiment, is returned again.
RegisterWait(k, m) ==
    /\ Serving
    /\ owner[k] = "team" /\ Recorded(k)
    /\ waits[<<k, m>>] = "none" \/ (Active(k) /\ waits[<<k, m>>] # "open")
    /\ waits' = [waits EXCEPT ![<<k, m>>] = IF Active(k) THEN "open" ELSE "resolved"]
    /\ UNCHANGED <<rows, envelope, ended, mail, outsideStore>>

ExpireWait(k, m) ==
    /\ up /\ waits[<<k, m>>] = "open"
    /\ waits' = [waits EXCEPT ![<<k, m>>] = "expired"]
    /\ UNCHANGED <<rows, envelope, ended, mail, outsideStore>>

\* The member leaves the Team.
ReassignWaits(m) ==
    /\ up /\ \E k \in Keys : waits[<<k, m>>] = "open"
    /\ waits' = [w \in DOMAIN waits |->
                   IF w[2] = m /\ waits[w] = "open" THEN "reassigned" ELSE waits[w]]
    /\ UNCHANGED <<rows, envelope, ended, mail, outsideStore>>

-----------------------------------------------------------------------------
(* What is owed of an ended attempt.  The Leader of the Team is reminded of  *)
(* its results and the Team is flagged in the end; a native task is          *)
(* analyzing while a result of its experiments is owed.                      *)

Decide(k) ==
    /\ Serving
    /\ rows[k].state \in Final /\ Owed(k)
    /\ rows' = [rows EXCEPT ![k].analysis = "analyzed"]
    /\ UNCHANGED <<envelope, ended, waits, mail, outsideStore>>

Acknowledge(k) ==
    /\ "tell" \in Ways
    /\ owner[k] = "team" /\ mail[k] = "unread"
    /\ mail' = [mail EXCEPT ![k] = "read"]
    /\ UNCHANGED <<rows, envelope, ended, waits, outsideStore>>

Due(k) == up /\ owner[k] = "team" /\ team = "active" /\ Owed(k) /\ mail[k] = "read"

Remind(k) ==
    /\ Due(k) /\ reminders[k] < MaxReminders
    /\ mail' = [mail EXCEPT ![k] = "unread"]
    /\ reminders' = [reminders EXCEPT ![k] = @ + 1]
    /\ UNCHANGED <<owner, rows, envelope, ended, waits, flagged, flagging, task,
                   routing, processVars, runnerVars, lifeVars, team>>

\* Past the bound: it leaves the cycle, and the caller flags the Team.
RemindersExhausted(k) ==
    /\ Due(k) /\ reminders[k] = MaxReminders
    /\ reminders' = [reminders EXCEPT ![k] = MaxReminders + 1]
    /\ flagging' = TRUE
    /\ UNCHANGED <<flagged, task, routing, outsideAnalysis>>

FlagTeam ==
    /\ flagging
    /\ flagging' = FALSE /\ flagged' = TRUE
    /\ UNCHANGED <<reminders, task, routing, outsideAnalysis>>

OwedByTask == {k \in Keys : owner[k] = "task" /\ Owed(k)}

\* An ended experiment of the task is told once; an unknown one is not told.
RouteFinished(k) ==
    /\ "tell" \in Ways
    /\ up /\ owner[k] = "task" /\ mail[k] = "unread"
    /\ rows[k].state # "unknown"
    /\ mail' = [mail EXCEPT ![k] = "read"]
    /\ routing' = IF Owed(k) THEN routing \cup {"start"} ELSE routing
    /\ UNCHANGED <<owner, rows, envelope, ended, waits, reminders, flagged, flagging,
                   task, processVars, runnerVars, lifeVars, team>>

\* Variant: the pass looks only at what was not told yet.
ReadUntold ==
    /\ up /\ \E k \in OwedByTask : mail[k] = "unread"
    /\ routing' = routing \cup {"start"}
    /\ UNCHANGED <<reminders, flagged, flagging, task, outsideAnalysis>>

\* The passes read what is owed, and what is not, before they move the task.
ReadOwed ==
    /\ up /\ OwedByTask # {}
    /\ routing' = routing \cup {"start"}
    /\ UNCHANGED <<reminders, flagged, flagging, task, outsideAnalysis>>

ReadSettled ==
    /\ up /\ task = "analyzing" /\ OwedByTask = {}
    /\ routing' = routing \cup {"resolve"}
    /\ UNCHANGED <<reminders, flagged, flagging, task, outsideAnalysis>>

StartAnalysis ==
    /\ "start" \in routing
    /\ routing' = routing \ {"start"}
    /\ task' = "analyzing"
    /\ UNCHANGED <<reminders, flagged, flagging, outsideAnalysis>>

ResolveAnalysis ==
    /\ "resolve" \in routing
    /\ routing' = routing \ {"resolve"}
    /\ task' = "executing"
    /\ UNCHANGED <<reminders, flagged, flagging, outsideAnalysis>>

-----------------------------------------------------------------------------
Launching(k) ==
    \/ Reserve(k) \/ ReserveAgain(k) \/ MarkLaunching(k)
    \/ Spawn(k) \/ SpawnFails(k) \/ MarkRunning(k) \/ EndedUnidentified(k)

Running(k) ==
    \/ WritesPidFile(k) \/ ProcessEnds(k) \/ RuntimeLimitPasses(k)
    \/ \E r \in Receipts : ProgramEnds(k, r)

Monitoring(k) ==
    \/ MonitorReads(k) \/ MonitorFindsReceipt(k) \/ MonitorFindsGone(k) \/ MonitorSettles(k)
    \/ MonitorTerminates(k) \/ MonitorKills(k) \/ MonitorWaits(k)

Recovering(k) ==
    \/ AbandonReserved(k) \/ RecoverUnidentified(k) \/ Adopt(k)

Answering(k) ==
    \/ Cancel(k) \/ CancelListed(k) \/ Decide(k)
    \/ \E truth \in {"not_started", "finished"} : Reconcile(k, truth)
    \/ \E m \in Members : RegisterWait(k, m) \/ ExpireWait(k, m)

Telling(k) == Acknowledge(k) \/ Remind(k) \/ RemindersExhausted(k) \/ RouteFinished(k)

Round ==
    \/ \E l \in Limits : SetLimits(l)
    \/ \E s \in {"active", "paused", "closed"} : SetEnvelopeState(s)
    \/ \E m \in Members : ReassignWaits(m)
    \/ CloseForCancel \/ ListForCancel
    \/ MarkDisbanding \/ CancelTeam \/ DeleteTeam
    \/ FlagTeam \/ ReadOwed \/ ReadSettled \/ StartAnalysis \/ ResolveAnalysis

RunNext ==
    \/ \E k \in Keys : \/ Launching(k) \/ Running(k) \/ Monitoring(k)
                       \/ Recovering(k) \/ Answering(k) \/ Telling(k)
    \/ Round
    \/ \E reboots \in BOOLEAN : Crash(reboots)
    \/ Restart

RunSpec == RunInit /\ [][RunNext]_runVars

\* The Runtime is started again and its handlers, monitors and passes go on;
\* time passes.  Nothing is assumed of the program: it need not end, nor heed
\* SIGTERM.  A grace period always ends, however often the monitor looks before.
RunFairness ==
    /\ \A k \in Keys :
         /\ WF_runVars(MarkLaunching(k))
         /\ WF_runVars(Spawn(k) \/ SpawnFails(k))
         /\ WF_runVars(MarkRunning(k) \/ EndedUnidentified(k))
         /\ WF_runVars(RuntimeLimitPasses(k))
         /\ WF_runVars(MonitorReads(k))
         /\ WF_runVars(\/ MonitorFindsReceipt(k) \/ MonitorFindsGone(k)
                       \/ MonitorTerminates(k) \/ MonitorWaits(k) \/ MonitorKills(k))
         /\ SF_runVars(MonitorKills(k))
         /\ WF_runVars(MonitorSettles(k))
         /\ WF_runVars(Recovering(k))
         /\ WF_runVars(Acknowledge(k))
         /\ WF_runVars(Remind(k) \/ RemindersExhausted(k))
    /\ WF_runVars(Restart)
    /\ WF_runVars(FlagTeam)
    /\ WF_runVars(ReadOwed) /\ WF_runVars(ReadSettled)
    /\ WF_runVars(StartAnalysis) /\ WF_runVars(ResolveAnalysis)

FairRunSpec == RunSpec /\ RunFairness
-----------------------------------------------------------------------------
(* What the store and the runner promise. *)

StoreTypes ==
    /\ rows \in [Keys -> Row]
    /\ envelope \in [state : {"active", "paused", "closed"}, limits : Limits, launches : Nat]
    /\ ended \in Seq(Keys)
    /\ waits \in [Keys \X Members -> {"none", "open", "resolved", "expired", "reassigned"}]
    /\ mail \in [Keys -> {"none", "unread", "read"}]

AnalysisTypes ==
    /\ reminders \in [Keys -> 0..(MaxReminders + 1)]
    /\ flagged \in BOOLEAN /\ flagging \in BOOLEAN
    /\ task \in {"executing", "analyzing"} /\ routing \subseteq {"start", "resolve"}

ProcessTypes ==
    /\ process \in [Keys -> {"none", "gone"} \cup Alive]
    /\ receipt \in [Keys -> {"none"} \cup Receipts]
    /\ spawned \in [Keys -> Nat] /\ late \in [Keys -> BOOLEAN]

RunnerTypes ==
    /\ callers \in [Keys -> Nat]
    /\ launcher \in [Keys -> {"idle", "spawn", "identify"}]
    /\ monitor \in [Keys -> [at : {"off", "watch", "look", "settle"},
                             cancel : BOOLEAN, termed : BOOLEAN]]
    /\ sweep \in [at : {"idle", "closed", "listed"}, left : SUBSET Keys]

LifeTypes ==
    /\ owner \in [Keys -> Owners]
    /\ team \in {"active", "disbanding", "cancelled", "deleted"}
    /\ recovering \subseteq Keys /\ up \in BOOLEAN /\ crashes \in Nat

RunTypeOK == StoreTypes /\ AnalysisTypes /\ ProcessTypes /\ RunnerTypes /\ LifeTypes

\* Whatever is repeated, races or is recovered, one launch key starts one process
\* at most: a repeated launch, a launch beside another one and a restart in the
\* middle of one never make a second (reserve, mark_launching, recover).
OneProcessPerKey == \A k \in Keys : spawned[k] <= 1

\* The budget counts the attempts ever admitted except those given back, and
\* what is given back never ran: not by recovery, which finds a reservation, not
\* a claim, and not by a person (reserve, abandon_reserved, reconcile).
BudgetIsExact ==
    /\ envelope.launches = Cardinality(Launched)
    /\ \A k \in Keys : rows[k].refunded => spawned[k] = 0

\* A slot is never released while work may still be running: an attempt that has
\* ended has nothing left in its process group.  Left aside is what a program
\* left behind whose identity was never recorded (see the README), and what goes
\* with the records of a removed Team.
SlotHeldWhileRunning ==
    \A k \in Keys : rows[k].state \in Final =>
        ~GroupAlive(k) \/ (receipt[k] # "none" /\ ~rows[k].identity)

\* Who waits is waiting for something that is still to come: an open wait is on
\* an attempt that is still to be observed, so its observation will resolve it.
OpenWaitIsOwed ==
    \A k \in Keys, m \in Members : waits[<<k, m>>] = "open" => Active(k)

\* When the cancellation of a round is through, every attempt that still holds
\* a slot was asked to stop: no launch slips in beside it.
RoundCancelIsComplete ==
    sweep = [at |-> "listed", left |-> {}] => \A k \in Keys : Active(k) => rows[k].cancel

\* Every attempt comes to an end or to unknown, even one whose program never ends
\* and traps SIGTERM, across stops of the Runtime at any step of its launch.
AttemptSettles ==
    \A k \in Keys : (Active(k) /\ rows[k].state # "unknown")
                        ~> (~Active(k) \/ rows[k].state = "unknown")

\* The task's stage ends up following what is owed, although the passes and the
\* decisions move it on what they read a moment ago and may be cut short.
TaskFollowsAnalysis ==
    /\ <>[](OwedByTask # {}) => <>[](task = "analyzing")
    /\ <>[](OwedByTask = {}) => <>[](task = "executing")

-----------------------------------------------------------------------------
(* What the repository says and the code does not do. *)

\* ADR 0213, section 6: "removing the Team terminates its processes before its
\* rows are deleted."
TeamRemovalStopsProcesses ==
    \A k \in Keys : rows[k].state = "removed" => ~GroupAlive(k) \/ launcher[k] = "identify"

\* ADR 0213, section 6: results read and never analyzed are reminded of, "with
\* bounded reminders and a no-progress cap that escalates to attention".
OwedResultEscalates ==
    \A k \in Keys : (owner[k] = "team" /\ Owed(k))
                        ~> (~Owed(k) \/ flagged \/ team # "active")
=============================================================================
