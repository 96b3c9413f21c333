----------------------------- MODULE TaskStages -----------------------------
(***************************************************************************)
(* Tasks and the researcher's authorizations (task_store/mod.rs): a draft  *)
(* becomes a Task, executes and is reviewed because of what was said in    *)
(* General.  A call of the General Agent reads several stores and then     *)
(* writes several transactions (research_store/mod.rs has the briefs and   *)
(* the rounds), so calls of two Tasks, retries of one call, the            *)
(* researcher's own commands and stops of the Runtime come in between.     *)
(* A message of General is its position, its sequence number.  Rounds are  *)
(* named by the message that authorized them; the round of the research    *)
(* panel is PanelRound.                                                    *)
(***************************************************************************)
EXTENDS Integers, Sequences

CONSTANTS
    Tasks,          \* research questions of one Workspace
    NoTask,
    Calls,          \* calls in progress at once
    MaxPosts,       \* proposals and instructions in General
    MaxRevision,    \* of a brief
    MaxEvents       \* commands of the research panel, archivings, stops and failures

ASSUME TaskAssumption ==
    /\ NoTask \notin Tasks
    /\ MaxPosts \in Nat /\ MaxRevision \in Nat \ {0} /\ MaxEvents \in Nat

VARIABLES
    channel,    \* General: proposals, and the researcher's own words
    question,   \* research_questions, with whether internal work is active
    grants,     \* task_authorizations
    log,        \* task_events: the last stage event, the watermark, rounds with their event
    review,     \* whether a task_review_requests row is open
    rounds,     \* research_rounds
    calls,      \* what each call read, and where it is
    openings,   \* which call linked which round
    events      \* how many of them so far

generalVars == <<channel, calls, openings>>
taskVars == <<generalVars, question, grants, log, review, rounds, events>>

-----------------------------------------------------------------------------
Posts == 1 .. MaxPosts
PanelRound == 0
Rounds == 0 .. MaxPosts
Revisions == 0 .. MaxRevision
Kinds == {"admit", "revise", "execute"}
NoRound == [phase |-> "none", revision |-> 0]
Idle == [at |-> "idle", step |-> "none", task |-> NoTask, message |-> 0, revision |-> 0, since |-> 0]

Proposal(t, r) == [kind |-> "proposal", task |-> t, revision |-> r]
Words(t) == [kind |-> "words", task |-> t, revision |-> 0]
Said == {m \in 1 .. Len(channel) : channel[m].kind = "words"}

Grant(k, m, r) == [kind |-> k, message |-> m, revision |-> r, linked |-> FALSE]
Used(m) == \E t \in Tasks : \E g \in grants[t] : g.message = m
Admitted(t) == \E g \in grants[t] : g.kind = "admit"
Approves(g) == g.kind \in {"admit", "revise"}
Approved(t) == {g.revision : g \in {h \in grants[t] : Approves(h)}}

\* approved_revision is the largest; it is only ever compared with the brief's.
LatestApproved(t, r) == r \in Approved(t) /\ \A s \in Approved(t) : s <= r

\* stage and stage_watermark; a draft has stage "none".
Stage(t) ==
    CASE review[t] -> "review"
      [] ~review[t] /\ log[t].last \in {"execution_authorized", "review_returned"} -> "in_progress"
      [] ~review[t] /\ log[t].last = "review_accepted" -> "done"
      [] ~review[t] /\ log[t].last = "admitted" -> "ready"
      [] OTHER -> "none"
Logged(entry, kind) == [entry EXCEPT !.last = kind, !.mark = Len(channel)]
LoggedRounds(entry, rs) ==
    [last |-> "execution_authorized", mark |-> Len(channel), rounds |-> entry.rounds \cup rs]

\* require_shown: this revision was shown before the words, and they name the
\* Task or no other proposal was shown since.
Answers(m, t, r) ==
    /\ \E i \in 1 .. m - 1 : channel[i] = Proposal(t, r)
    /\ \/ channel[m].task = t
       \/ \E i \in 1 .. m - 1 : /\ channel[i] = Proposal(t, r)
                                /\ \A j \in i + 1 .. m - 1 : channel[j].kind # "proposal"

TaskInit ==
    /\ channel = <<>>
    /\ question = [t \in Tasks |-> [revision |-> 0, archived |-> FALSE, resolved |-> FALSE,
                                    work |-> FALSE]]
    /\ grants = [t \in Tasks |-> {}]
    /\ log = [t \in Tasks |-> [last |-> "none", mark |-> 0, rounds |-> {}]]
    /\ review = [t \in Tasks |-> FALSE]
    /\ rounds = [t \in Tasks |-> [r \in Rounds |-> NoRound]]
    /\ calls = [c \in Calls |-> Idle]
    /\ openings = {}
    /\ events = 0

Occurs == events < MaxEvents /\ events' = events + 1

Enters(c, at, step, t, m, r) ==
    calls' = [calls EXCEPT ![c] = [at |-> at, step |-> step, task |-> t, message |-> m,
                                   revision |-> r, since |-> log[t].mark]]
Goes(c, at) == calls' = [calls EXCEPT ![c].at = at]
Ends(c) == calls' = [calls EXCEPT ![c] = Idle]

-----------------------------------------------------------------------------
\* The researcher: what is said, and the commands of the research panel.
Say ==
    /\ Len(channel) < MaxPosts
    /\ \E t \in Tasks \cup {NoTask} : channel' = Append(channel, Words(t))
    /\ UNCHANGED <<question, grants, log, review, rounds, calls, openings, events>>

EditBrief(t) ==
    /\ question[t].revision \in 1 .. MaxRevision - 1 /\ ~question[t].archived
    /\ question' = [question EXCEPT ![t].revision = @ + 1]
    /\ Occurs
    /\ UNCHANGED <<channel, grants, log, review, rounds, calls, openings>>

\* begin_round for start_round of the panel, at the revision it shows.
BeginPanelRound(t) ==
    /\ rounds[t][PanelRound].phase = "none"
    /\ question[t].revision > 0 /\ ~question[t].archived
    /\ rounds' = [rounds EXCEPT ![t][PanelRound] = [phase |-> "created",
                                                    revision |-> question[t].revision]]
    /\ Occurs
    /\ UNCHANGED <<channel, question, grants, log, review, calls, openings>>

StartPanelRound(t) ==
    /\ rounds[t][PanelRound].phase = "created"
    /\ rounds' = [rounds EXCEPT ![t][PanelRound].phase = "started"]
    /\ UNCHANGED <<channel, question, grants, log, review, calls, openings, events>>

\* guard_status_command: the status of a Task is not set by hand.
SetStatus(t) ==
    /\ question[t].revision > 0 /\ ~Admitted(t)
    /\ question' = [question EXCEPT ![t].resolved = ~@]
    /\ Occurs
    /\ UNCHANGED <<channel, grants, log, review, rounds, calls, openings>>

\* The checks of set_archived are repeated in its transaction.
Archive(t) ==
    /\ question[t].revision > 0 /\ ~question[t].archived
    /\ ~review[t] /\ ~question[t].work
    /\ question' = [question EXCEPT ![t].archived = TRUE]
    /\ Occurs
    /\ UNCHANGED <<channel, grants, log, review, rounds, calls, openings>>

Restore(t) ==
    /\ question[t].archived
    /\ question' = [question EXCEPT ![t].archived = FALSE]
    /\ log' = IF Admitted(t) THEN [log EXCEPT ![t].mark = Len(channel)] ELSE log
    /\ UNCHANGED <<channel, grants, review, rounds, calls, openings, events>>

Review(t) ==
    /\ review[t]
    /\ review' = [review EXCEPT ![t] = FALSE]
    /\ \/ /\ log' = [log EXCEPT ![t] = Logged(@, "review_accepted")]
          /\ question' = [question EXCEPT ![t].resolved = TRUE]
       \/ /\ log' = [log EXCEPT ![t] = Logged(@, "review_returned")]
          /\ UNCHANGED question
    /\ UNCHANGED <<channel, grants, rounds, calls, openings, events>>

\* Internal work (work_store).  create refuses an archived question; work comes
\* to it, archived or not, when link_round moves a candidate onto one of its
\* rounds and when the mirror writes a task of a round's Team.
MakeWork(t) ==
    /\ question[t].revision > 0 /\ ~question[t].archived /\ ~question[t].work
    /\ question' = [question EXCEPT ![t].work = TRUE]
    /\ UNCHANGED <<channel, grants, log, review, rounds, calls, openings, events>>

LinkWork(t) ==
    /\ \E r \in Rounds : rounds[t][r].phase # "none"
    /\ ~question[t].work
    /\ question' = [question EXCEPT ![t].work = TRUE]
    /\ UNCHANGED <<channel, grants, log, review, rounds, calls, openings, events>>

\* Work is over in the end.
FinishWork(t) ==
    /\ question[t].work
    /\ question' = [question EXCEPT ![t].work = FALSE]
    /\ UNCHANGED <<channel, grants, log, review, rounds, calls, openings, events>>

-----------------------------------------------------------------------------
\* Proposals: propose and revise write the brief and then show it; show_again
\* shows the one it read.
Propose(c, t) ==
    /\ calls[c] = Idle /\ question[t].revision = 0
    /\ question' = [question EXCEPT ![t].revision = 1]
    /\ Enters(c, "show", "show", t, 0, 1)
    /\ UNCHANGED <<channel, grants, log, review, rounds, openings, events>>

Revise(c, t) ==
    /\ calls[c] = Idle /\ Stage(t) # "done"
    /\ question[t].revision \in 1 .. MaxRevision - 1 /\ ~question[t].archived
    /\ question' = [question EXCEPT ![t].revision = @ + 1]
    /\ Enters(c, "show", "show", t, 0, question[t].revision + 1)
    /\ UNCHANGED <<channel, grants, log, review, rounds, openings, events>>

ShowAgain(c, t) ==
    /\ calls[c] = Idle /\ question[t].revision > 0 /\ Stage(t) # "done"
    /\ Enters(c, "show", "show", t, 0, question[t].revision)
    /\ UNCHANGED <<channel, question, grants, log, review, rounds, openings, events>>

ShowProposal(c) ==
    /\ calls[c].at = "show" /\ Len(channel) < MaxPosts
    /\ channel' = Append(channel, Proposal(calls[c].task, calls[c].revision))
    /\ Ends(c)
    /\ UNCHANGED <<question, grants, log, review, rounds, openings, events>>

-----------------------------------------------------------------------------
\* admit and approve_revision: check_instruction and require_shown read the
\* brief before the transaction; the decisive look at the grants is in it.
CheckInstruction(t, m) == question[t].revision > 0 /\ ~question[t].archived /\ m \in Said

AskAdmission(c, t, m) ==
    /\ calls[c] = Idle /\ CheckInstruction(t, m)
    /\ ~Admitted(t) /\ Answers(m, t, question[t].revision)
    /\ Enters(c, "grant", "admit", t, m, question[t].revision)
    /\ UNCHANGED <<channel, question, grants, log, review, rounds, openings, events>>

AskRevision(c, t, m) ==
    /\ calls[c] = Idle /\ CheckInstruction(t, m)
    /\ Admitted(t) /\ Answers(m, t, question[t].revision)
    /\ Enters(c, "grant", "revise", t, m, question[t].revision)
    /\ UNCHANGED <<channel, question, grants, log, review, rounds, openings, events>>

\* Variant: the grant carries the brief of the moment it is written.
GrantCurrentBrief(c) ==
    /\ calls[c].at = "grant"
    /\ LET t == calls[c].task
           k == calls[c].step
           m == calls[c].message
       IN  IF Used(m) \/ (k = "admit" /\ Admitted(t))
                      \/ (k = "revise" /\ question[t].revision \in Approved(t))
           THEN UNCHANGED <<grants, log>>
           ELSE /\ grants' = [grants EXCEPT ![t] = @ \cup {Grant(k, m, question[t].revision)}]
                /\ log' = IF k = "admit" THEN [log EXCEPT ![t] = Logged(@, "admitted")] ELSE log
    /\ Ends(c)
    /\ UNCHANGED <<channel, question, review, rounds, openings, events>>

GrantStep(c) ==
    /\ calls[c].at = "grant"
    /\ LET t == calls[c].task
           k == calls[c].step
           m == calls[c].message
           r == calls[c].revision
       IN  IF Used(m) \/ (k = "admit" /\ Admitted(t)) \/ (k = "revise" /\ r \in Approved(t))
           THEN UNCHANGED <<grants, log>>
           ELSE /\ grants' = [grants EXCEPT ![t] = @ \cup {Grant(k, m, r)}]
                /\ log' = IF k = "admit" THEN [log EXCEPT ![t] = Logged(@, "admitted")] ELSE log
    /\ Ends(c)
    /\ UNCHANGED <<channel, question, review, rounds, openings, events>>

-----------------------------------------------------------------------------
\* start_execution.  A record that an earlier try left without its round is
\* checked like a new one.
Recorded(t, m) == {g \in grants[t] : g.kind = "execute" /\ g.message = m}

AskExecution(c, t, m) ==
    /\ calls[c] = Idle /\ CheckInstruction(t, m)
    /\ Enters(c, "check", "execute", t, m, question[t].revision)
    /\ UNCHANGED <<channel, question, grants, log, review, rounds, openings, events>>

MayExecute(t, m) == Stage(t) \in {"ready", "done"} /\ m > log[t].mark

\* Variant: a record of an earlier try is enough.
CheckNewExecutionOnly(c) ==
    /\ calls[c].at = "check"
    /\ LET t == calls[c].task
           m == calls[c].message
           r == calls[c].revision
           earlier == Recorded(t, m)
       IN  IF /\ Admitted(t) /\ LatestApproved(t, r)
              /\ \A g \in earlier : ~g.linked /\ g.revision = r
              /\ earlier # {} \/ MayExecute(t, m)
           THEN Goes(c, IF earlier = {} THEN "record" ELSE "begin")
           ELSE Ends(c)
    /\ UNCHANGED <<channel, question, grants, log, review, rounds, openings, events>>

CheckExecution(c) ==
    /\ calls[c].at = "check"
    /\ LET t == calls[c].task
           m == calls[c].message
           r == calls[c].revision
           earlier == Recorded(t, m)
       IN  IF /\ Admitted(t) /\ LatestApproved(t, r)
              /\ \A g \in earlier : ~g.linked /\ g.revision = r
              /\ MayExecute(t, m)
           THEN Goes(c, IF earlier = {} THEN "record" ELSE "begin")
           ELSE Ends(c)
    /\ UNCHANGED <<channel, question, grants, log, review, rounds, openings, events>>

RecordExecution(c) ==
    /\ calls[c].at = "record"
    /\ IF Used(calls[c].message)
       THEN Ends(c) /\ UNCHANGED grants
       ELSE /\ grants' = [grants EXCEPT ![calls[c].task] =
                              @ \cup {Grant("execute", calls[c].message, calls[c].revision)}]
            /\ Goes(c, "begin")
    /\ UNCHANGED <<channel, question, log, review, rounds, openings, events>>

\* begin_round: a repeated key returns the round as it is.
BeginRound(c) ==
    /\ calls[c].at = "begin"
    /\ LET t == calls[c].task
           m == calls[c].message
       IN  \/ /\ rounds[t][m].phase # "none"
              /\ Goes(c, "start") /\ rounds' = rounds
           \/ /\ rounds[t][m].phase = "none"
              /\ IF question[t].archived \/ question[t].revision # calls[c].revision
                 THEN Ends(c) /\ rounds' = rounds
                 ELSE /\ rounds' = [rounds EXCEPT ![t][m] = [phase |-> "created",
                                                             revision |-> question[t].revision]]
                      /\ Goes(c, "start")
    /\ UNCHANGED <<channel, question, grants, log, review, openings, events>>

StartRound(c) ==
    /\ calls[c].at = "start"
    /\ rounds' = [rounds EXCEPT ![calls[c].task][calls[c].message].phase = "started"]
    /\ Goes(c, "link")
    /\ UNCHANGED <<channel, question, grants, log, review, openings, events>>

\* The record gets its round, the question is open again and the step is logged.
LinkRound(c) ==
    /\ calls[c].at = "link"
    /\ LET t == calls[c].task
           m == calls[c].message
           unlinked == {g \in Recorded(t, m) : ~g.linked}
       IN  /\ grants' = [grants EXCEPT ![t] =
                  (@ \ unlinked) \cup {[g EXCEPT !.linked = TRUE] : g \in unlinked}]
           /\ IF unlinked # {}
              THEN /\ question' = [question EXCEPT ![t].resolved = FALSE]
                   /\ openings' = openings \cup {[message |-> m, since |-> calls[c].since]}
              ELSE UNCHANGED <<question, openings>>
           /\ log' = IF m \in log[t].rounds THEN log
                     ELSE [log EXCEPT ![t] = LoggedRounds(@, {m})]
    /\ Ends(c)
    /\ UNCHANGED <<channel, review, rounds, events>>

\* Variant: the request does not look whether the Task is archived.
RequestReviewUnseen(t) ==
    /\ Admitted(t) /\ ~review[t]
    /\ log[t].last \in {"execution_authorized", "review_returned"}
    /\ review' = [review EXCEPT ![t] = TRUE]
    /\ log' = [log EXCEPT ![t] = Logged(@, "review_requested")]
    /\ UNCHANGED <<channel, question, grants, rounds, calls, openings, events>>

RequestReview(t) ==
    /\ Admitted(t) /\ ~question[t].archived /\ ~review[t]
    /\ log[t].last \in {"execution_authorized", "review_returned"}
    /\ review' = [review EXCEPT ![t] = TRUE]
    /\ log' = [log EXCEPT ![t] = Logged(@, "review_requested")]
    /\ UNCHANGED <<channel, question, grants, rounds, calls, openings, events>>

-----------------------------------------------------------------------------
\* adopt: a started round that has no event gets one, and a draft with one is
\* admitted without a message.
Unlogged(t) == {r \in Rounds : rounds[t][r].phase = "started"} \ log[t].rounds
Adoptable(t) == Unlogged(t) # {} /\ (Admitted(t) \/ ~question[t].archived)
AdoptedGrants(t) ==
    IF Admitted(t) THEN grants[t]
    ELSE grants[t] \cup {[Grant(k, 0, rounds[t][PanelRound].revision) EXCEPT !.linked = TRUE] :
                            k \in {"admit", "execute"}}
AdoptedLog(t) ==
    LET entry == LoggedRounds(log[t], Unlogged(t))
    IN  IF ~Admitted(t) /\ question[t].resolved THEN Logged(entry, "review_accepted") ELSE entry

\* Reading the board or the drafts.
Adopt(t) ==
    /\ Adoptable(t)
    /\ grants' = [grants EXCEPT ![t] = AdoptedGrants(t)]
    /\ log' = [log EXCEPT ![t] = AdoptedLog(t)]
    /\ UNCHANGED <<channel, question, review, rounds, calls, openings, events>>

\* The Runtime stops anywhere; TaskStore::from_database adopts before calls come.
RestartTasks ==
    /\ calls' = [c \in Calls |-> Idle]
    /\ grants' = [t \in Tasks |-> IF Adoptable(t) THEN AdoptedGrants(t) ELSE grants[t]]
    /\ log' = [t \in Tasks |-> IF Adoptable(t) THEN AdoptedLog(t) ELSE log[t]]
    /\ Occurs
    /\ UNCHANGED <<channel, question, review, rounds, openings>>

\* A statement of the call fails: it returns with what is written so far.
CallFails(c) ==
    /\ calls[c] # Idle
    /\ Ends(c)
    /\ Occurs
    /\ UNCHANGED <<channel, question, grants, log, review, rounds, openings>>

-----------------------------------------------------------------------------
Researcher ==
    \/ Say
    \/ \E t \in Tasks : \/ EditBrief(t) \/ BeginPanelRound(t) \/ StartPanelRound(t)
                        \/ SetStatus(t) \/ Archive(t) \/ Restore(t) \/ Review(t) \/ Adopt(t)
                        \/ MakeWork(t) \/ LinkWork(t) \/ FinishWork(t)

General ==
    \/ \E t \in Tasks : RequestReview(t)
    \/ \E c \in Calls, t \in Tasks : Propose(c, t) \/ Revise(c, t) \/ ShowAgain(c, t)
    \/ \E c \in Calls, t \in Tasks, m \in Posts :
          AskAdmission(c, t, m) \/ AskRevision(c, t, m) \/ AskExecution(c, t, m)
    \/ \E c \in Calls : \/ ShowProposal(c) \/ GrantStep(c) \/ CheckExecution(c)
                        \/ RecordExecution(c) \/ BeginRound(c) \/ StartRound(c) \/ LinkRound(c)
                        \/ CallFails(c)

TaskNext == Researcher \/ General \/ RestartTasks

TaskSpec == TaskInit /\ [][TaskNext]_taskVars

-----------------------------------------------------------------------------
PostType == [kind : {"proposal", "words"}, task : Tasks \cup {NoTask}, revision : Revisions]
QuestionType == [revision : Revisions, archived : BOOLEAN, resolved : BOOLEAN, work : BOOLEAN]
GrantType == [kind : Kinds, message : Rounds, revision : Revisions, linked : BOOLEAN]
EntryType == [last : {"none", "admitted", "execution_authorized", "review_requested",
                      "review_returned", "review_accepted"},
              mark : Rounds, rounds : SUBSET Rounds]
RoundType == [phase : {"none", "created", "started"}, revision : Revisions]
CallType == [at : {"idle", "show", "grant", "check", "record", "begin", "start", "link"},
             step : Kinds \cup {"none", "show"}, task : Tasks \cup {NoTask}, message : Rounds,
             revision : Revisions, since : Rounds]

\* The types of the rows, the messages and the calls.
TaskTypeOK ==
    /\ channel \in Seq(PostType) /\ Len(channel) <= MaxPosts
    /\ question \in [Tasks -> QuestionType]
    /\ grants \in [Tasks -> SUBSET GrantType]
    /\ log \in [Tasks -> EntryType]
    /\ review \in [Tasks -> BOOLEAN]
    /\ rounds \in [Tasks -> [Rounds -> RoundType]]
    /\ calls \in [Calls -> CallType]
    /\ openings \subseteq [message : Posts, since : Rounds]
    /\ events \in 0 .. MaxEvents

\* What the researcher authorized is what they were shown (ADR 0221, section 2):
\* each brief that was approved was shown before the words that approved it, and
\* each round started from General runs a brief approved for its own Task.
ApprovedWasShown ==
    \A t \in Tasks : \A g \in grants[t] :
        Approves(g) /\ g.message > 0 => g.message \in Said /\ Answers(g.message, t, g.revision)

RoundIsApproved ==
    \A t \in Tasks, m \in Posts :
        rounds[t][m].phase # "none" =>
            /\ rounds[t][m].revision \in Approved(t)
            /\ \E g \in Recorded(t, m) : g.revision = rounds[t][m].revision

ScopeWasShown == ApprovedWasShown /\ RoundIsApproved

\* One instruction authorizes one thing: words that did something for one Task
\* do nothing else, for this Task or another, however calls race.
OneStepPerInstruction ==
    \A t, u \in Tasks : \A g \in grants[t], h \in grants[u] :
        g.message = h.message /\ g.message > 0 => t = u /\ g = h

\* An instruction older than the Task's last stage change or restore starts no
\* round, also when a try of it was left half done: each opening names words that
\* are newer than all that had changed when its call came.
OldWordsStartNothing == \A o \in openings : o.message > o.since

\* An archived Task hides no open review, and no work unless a round of it brought
\* it: what was there when it was archived was looked at in the transaction, and
\* afterwards neither request_review nor create adds to it.
Begun(t) == \E r \in Rounds : rounds[t][r].phase # "none"
ArchivedIsSettled ==
    \A t \in Tasks : question[t].archived => ~review[t] /\ (question[t].work => Begun(t))

\* While archived, a Task takes no new internal work (ADR 0230, section 2).
ArchivedTakesNoWork == \A t \in Tasks : question[t].archived => ~question[t].work

\* The status mirrors the stage (ADR 0230, section 1).
StatusMirrorsStage ==
    \A t \in Tasks : /\ Stage(t) = "done" => question[t].resolved
                     /\ Stage(t) = "in_progress" => ~question[t].resolved

\* A finished Task goes on only by words newer than its acceptance, or by a round
\* of the panel (ADR 0221, section 3).
FinishedIsReopenedByNewWords ==
    [][\A t \in Tasks : Stage(t) = "done" /\ Stage(t)' = "in_progress" =>
          \E m \in log'[t].rounds \ log[t].rounds : m = PanelRound \/ m > log[t].mark]_taskVars

=============================================================================
