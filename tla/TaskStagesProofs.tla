-------------------------- MODULE TaskStagesProofs --------------------------
(***************************************************************************)
(* Proofs about TaskStages for every set of Tasks and calls and every      *)
(* bound: the types, and that what was authorized was shown, used once and *)
(* fresh, from one inductive invariant.  Other calls, edits, stops and     *)
(* failing statements are among the steps throughout.                      *)
(***************************************************************************)
EXTENDS TaskStages, TLAPS

-----------------------------------------------------------------------------
(* The inductive invariant. *)

Executing == {"check", "record", "begin", "start", "link"}

\* What a call may rely on, whatever was written since it read: what was shown
\* stays shown and what was approved stays approved.
CallHolds(k) ==
    /\ k.at # "idle" => k.task \in Tasks
    /\ k.at = "grant" => /\ k.step \in {"admit", "revise"}
                         /\ k.message \in Said /\ Answers(k.message, k.task, k.revision)
    /\ k.at \in Executing => k.message \in Posts
    /\ k.at = "check" => k.since <= log[k.task].mark
    /\ k.at \in Executing \ {"check"} => k.since < k.message /\ k.revision \in Approved(k.task)
    /\ k.at \in {"begin", "start", "link"} =>
          \E g \in Recorded(k.task, k.message) : g.revision = k.revision
    /\ k.at \in {"start", "link"} => rounds[k.task][k.message].phase # "none"

\* The watermark is a sequence number of General.
MarksInChannel == \A t \in Tasks : log[t].mark <= Len(channel)

TaskInv ==
    /\ TaskTypeOK /\ MarksInChannel /\ \A c \in Calls : CallHolds(calls[c])
    /\ ApprovedWasShown /\ RoundIsApproved /\ OneStepPerInstruction
    /\ OldWordsStartNothing /\ ArchivedIsSettled

\* What every step leaves standing for the calls it does not make.
SameStep(g, h) == h.kind = g.kind /\ h.message = g.message /\ h.revision = g.revision
ChannelKept == channel' = channel \/ \E p \in PostType : channel' = Append(channel, p)
GrantsKept == \A t \in Tasks : \A g \in grants[t] : \E h \in grants'[t] : SameStep(g, h)
MarksKept == \A t \in Tasks : log'[t].mark \in Rounds /\ log[t].mark <= log'[t].mark
RoundsKept ==
    \A t \in Tasks, r \in Rounds :
        rounds[t][r].phase # "none" =>
            rounds'[t][r].phase # "none" /\ rounds'[t][r].revision = rounds[t][r].revision
Kept == ChannelKept /\ GrantsKept /\ MarksKept /\ RoundsKept

-----------------------------------------------------------------------------
(* What was read stays true. *)

\* A message keeps its place, and what came before it never changes.
LEMMA ShownStays ==
    ASSUME TaskTypeOK, ChannelKept, NEW CONSTANT m \in Said, NEW CONSTANT t, NEW CONSTANT r, Answers(m, t, r)
    PROVE  m \in Said' /\ Answers(m, t, r)'
  <1>1. m \in 1 .. Len(channel) /\ m \in 1 .. Len(channel')
    BY DEF Said, ChannelKept, TaskTypeOK
  <1>2. \A i \in 1 .. m : channel'[i] = channel[i]
    <2>1. channel \in Seq(PostType) BY DEF TaskTypeOK
    <2>2. CASE channel' = channel BY <2>2
    <2>3. ASSUME NEW CONSTANT p \in PostType, channel' = Append(channel, p)
          PROVE  \A i \in 1 .. m : channel'[i] = channel[i]
      BY <1>1, <2>1, <2>3
    <2>4. QED
      BY <2>2, <2>3 DEF ChannelKept
  <1>3. m \in Said'
    BY <1>1, <1>2 DEF Said
  <1>4. \A i \in 1 .. m - 1 : channel'[i] = channel[i]
    BY <1>1, <1>2
  <1>5. channel'[m] = channel[m]
    BY <1>1, <1>2
  <1>6. \E i \in 1 .. m - 1 : channel'[i] = Proposal(t, r)
    BY <1>4 DEF Answers
  <1>7. CASE channel[m].task = t
    BY <1>3, <1>5, <1>6, <1>7 DEF Answers, Proposal
  <1>8. CASE \E i \in 1 .. m - 1 : /\ channel[i] = Proposal(t, r)
                                   /\ \A j \in i + 1 .. m - 1 : channel[j].kind # "proposal"
    <2>1. PICK i \in 1 .. m - 1 : /\ channel[i] = Proposal(t, r)
                                  /\ \A j \in i + 1 .. m - 1 : channel[j].kind # "proposal"
      BY <1>8
    <2>2. channel'[i] = Proposal(t, r) /\ \A j \in i + 1 .. m - 1 : channel'[j].kind # "proposal"
      BY <1>1, <1>4, <2>1
    <2>3. QED
      BY <1>3, <1>6, <2>2 DEF Answers, Proposal
  <1>9. QED
    BY <1>7, <1>8 DEF Answers

LEMMA ApprovalStays ==
    ASSUME GrantsKept, NEW CONSTANT t \in Tasks, NEW CONSTANT r \in Approved(t)
    PROVE  r \in Approved(t)'
  <1>1. PICK g \in grants[t] : Approves(g) /\ g.revision = r
    BY DEF Approved
  <1>2. PICK h \in grants'[t] : SameStep(g, h)
    BY DEF GrantsKept
  <1>3. QED
    BY <1>1, <1>2 DEF Approved, Approves, SameStep

LEMMA RecordStays ==
    ASSUME GrantsKept, NEW CONSTANT t \in Tasks, NEW CONSTANT m
    PROVE  \A g \in Recorded(t, m) : \E h \in Recorded(t, m)' : h.revision = g.revision
  BY DEF GrantsKept, Recorded, SameStep

\* So a call that does not move keeps what it relies on.
LEMMA CallStays ==
    ASSUME TaskTypeOK, Kept, NEW CONSTANT k \in CallType, CallHolds(k)
    PROVE  CallHolds(k)'
  <1>1. k.at = "grant" => k.message \in Said' /\ Answers(k.message, k.task, k.revision)'
    BY ShownStays DEF Kept, CallHolds
  <1>2. k.at = "check" => k.since <= log'[k.task].mark
    <2>1. SUFFICES ASSUME k.at = "check" PROVE k.since <= log'[k.task].mark
      OBVIOUS
    <2>2. k.task \in Tasks /\ k.since <= log[k.task].mark
      BY <2>1 DEF CallHolds
    <2>3. /\ k.since \in Int /\ log[k.task].mark \in Int /\ log'[k.task].mark \in Int
          /\ log[k.task].mark <= log'[k.task].mark
      BY <2>2 DEF TaskTypeOK, EntryType, CallType, Rounds, Kept, MarksKept
    <2>4. QED
      BY <2>2, <2>3
  <1>3. k.at \in Executing \ {"check"} => k.revision \in Approved(k.task)'
    BY ApprovalStays DEF CallHolds, Kept, Executing
  <1>4. k.at \in {"begin", "start", "link"} =>
           \E g \in Recorded(k.task, k.message)' : g.revision = k.revision
    BY RecordStays DEF CallHolds, Kept
  <1>5. k.at \in {"start", "link"} => rounds'[k.task][k.message].phase # "none"
    BY DEF CallHolds, Kept, RoundsKept, Executing, Posts, Rounds
  <1>6. QED
    BY <1>1, <1>2, <1>3, <1>4, <1>5 DEF CallHolds

-----------------------------------------------------------------------------
(* Types. *)

\* What log writes: the sequence number of the newest message is in range.
LEMMA EntryTypes ==
    ASSUME TaskTypeOK, NEW CONSTANT e \in EntryType
    PROVE  /\ \A k \in {"admitted", "review_requested", "review_returned", "review_accepted"} :
                Logged(e, k) \in EntryType
           /\ [e EXCEPT !.mark = Len(channel)] \in EntryType
           /\ \A rs \in SUBSET Rounds : LoggedRounds(e, rs) \in EntryType
  <1>1. Len(channel) \in Rounds
    BY TaskAssumption DEF TaskTypeOK, Rounds
  <1>2. QED
    BY <1>1 DEF EntryType, Logged, LoggedRounds

LEMMA CallTypes ==
    /\ Idle \in CallType
    /\ \A k \in CallType : \A at \in {"show", "grant", "check", "record", "begin", "start", "link"} :
          [k EXCEPT !.at = at] \in CallType
  BY TaskAssumption DEF CallType, Idle, Rounds, Revisions

LEMMA Entered ==
    ASSUME TaskTypeOK, NEW CONSTANT c \in Calls, NEW CONSTANT t \in Tasks, NEW CONSTANT m \in Rounds,
           NEW CONSTANT r \in Revisions, NEW CONSTANT at \in {"show", "grant", "check"},
           NEW CONSTANT step \in Kinds \cup {"show"}, Enters(c, at, step, t, m, r)
    PROVE  /\ calls' \in [Calls -> CallType]
           /\ calls'[c] = [at |-> at, step |-> step, task |-> t, message |-> m, revision |-> r,
                           since |-> log[t].mark]
           /\ \A d \in Calls \ {c} : calls'[d] = calls[d]
  <1>1. log[t].mark \in Rounds
    BY DEF TaskTypeOK, EntryType
  <1>2. QED
    BY <1>1 DEF Enters, TaskTypeOK, CallType

LEMMA GrantTypes ==
    /\ \A k \in Kinds, m \in Rounds, r \in Revisions :
          Grant(k, m, r) \in GrantType /\ [Grant(k, m, r) EXCEPT !.linked = TRUE] \in GrantType
    /\ \A g \in GrantType : [g EXCEPT !.linked = TRUE] \in GrantType
  BY DEF GrantType, Grant

LEMMA QuestionTypes ==
    ASSUME NEW CONSTANT q \in QuestionType, NEW CONSTANT r \in Revisions, NEW CONSTANT b \in BOOLEAN
    PROVE  /\ [q EXCEPT !.revision = r] \in QuestionType
           /\ [q EXCEPT !.resolved = b] \in QuestionType
  BY DEF QuestionType

LEMMA RoundTypes ==
    /\ \A r \in Revisions : [phase |-> "created", revision |-> r] \in RoundType
    /\ \A x \in RoundType : [x EXCEPT !.phase = "started"] \in RoundType
  BY DEF RoundType

LEMMA AdoptedTypes ==
    ASSUME TaskTypeOK, NEW CONSTANT t \in Tasks
    PROVE  AdoptedGrants(t) \in SUBSET GrantType /\ AdoptedLog(t) \in EntryType
  <1>1. PanelRound \in Rounds /\ rounds[t][PanelRound].revision \in Revisions
    BY TaskAssumption DEF TaskTypeOK, RoundType, PanelRound, Rounds
  <1>2. {[Grant(k, 0, rounds[t][PanelRound].revision) EXCEPT !.linked = TRUE] :
                            k \in {"admit", "execute"}} \subseteq GrantType
    BY <1>1, GrantTypes DEF PanelRound, Kinds
  <1>3. LoggedRounds(log[t], Unlogged(t)) \in EntryType
    BY EntryTypes DEF TaskTypeOK, Unlogged
  <1>4. Logged(LoggedRounds(log[t], Unlogged(t)), "review_accepted") \in EntryType
    BY <1>3, EntryTypes
  <1>5. QED
    BY <1>2, <1>3, <1>4 DEF AdoptedGrants, AdoptedLog, TaskTypeOK

\* The types of the rows, the messages and the calls of start_execution, admit
\* and the others survive every step.
LEMMA TypesStay ==
    ASSUME TaskTypeOK, \A c \in Calls : CallHolds(calls[c]), TaskNext
    PROVE  TaskTypeOK'
  <1> USE TaskAssumption
  <1>1. ASSUME Say PROVE TaskTypeOK'
    <2>1. channel' \in Seq(PostType) /\ Len(channel') <= MaxPosts
      BY <1>1 DEF Say, TaskTypeOK, PostType, Words, Revisions
    <2>2. QED
      BY <1>1, <2>1 DEF Say, TaskTypeOK
  <1>2. ASSUME NEW CONSTANT t \in Tasks, EditBrief(t) PROVE TaskTypeOK'
    <2>1. question' \in [Tasks -> QuestionType]
      <3>1. question[t] \in QuestionType /\ question[t].revision + 1 \in Revisions
        BY <1>2 DEF EditBrief, TaskTypeOK, QuestionType, Revisions
      <3>2. [question[t] EXCEPT !.revision = question[t].revision + 1] \in QuestionType
        BY <3>1, QuestionTypes
      <3>3. question' = [question EXCEPT ![t] = [question[t] EXCEPT !.revision = question[t].revision + 1]]
        BY <1>2 DEF EditBrief, TaskTypeOK
      <3>4. QED
        BY <3>2, <3>3 DEF TaskTypeOK
    <2>2. QED
      BY <1>2, <2>1 DEF EditBrief, TaskTypeOK, Occurs
  <1>3. ASSUME NEW CONSTANT t \in Tasks, BeginPanelRound(t) PROVE TaskTypeOK'
    <2>1. rounds' \in [Tasks -> [Rounds -> RoundType]]
      BY <1>3 DEF BeginPanelRound, TaskTypeOK, QuestionType, RoundType, PanelRound, Rounds
    <2>2. QED
      BY <1>3, <2>1 DEF BeginPanelRound, TaskTypeOK, Occurs
  <1>4. ASSUME NEW CONSTANT t \in Tasks, StartPanelRound(t) PROVE TaskTypeOK'
    <2>1. rounds' \in [Tasks -> [Rounds -> RoundType]]
      <3> DEFINE x == [rounds[t][PanelRound] EXCEPT !.phase = "started"]
      <3>1. PanelRound \in Rounds /\ rounds[t] \in [Rounds -> RoundType]
        BY DEF TaskTypeOK, PanelRound, Rounds
      <3>2. x \in RoundType
        BY <3>1, RoundTypes
      <3>3. [rounds[t] EXCEPT ![PanelRound] = x] \in [Rounds -> RoundType]
        BY <3>1, <3>2
      <3>4. rounds' = [rounds EXCEPT ![t] = [rounds[t] EXCEPT ![PanelRound] = x]]
        BY <1>4, <3>1 DEF StartPanelRound, TaskTypeOK
      <3>5. QED
        BY <3>3, <3>4 DEF TaskTypeOK
    <2>2. QED
      BY <1>4, <2>1 DEF StartPanelRound, TaskTypeOK
  <1>5. ASSUME NEW CONSTANT t \in Tasks, SetStatus(t) PROVE TaskTypeOK'
    <2>1. question' \in [Tasks -> QuestionType]
      BY <1>5 DEF SetStatus, TaskTypeOK, QuestionType, Revisions
    <2>2. QED
      BY <1>5, <2>1 DEF SetStatus, TaskTypeOK, Occurs
  <1>6. ASSUME NEW CONSTANT t \in Tasks, Archive(t) PROVE TaskTypeOK'
    <2>1. question' \in [Tasks -> QuestionType]
      BY <1>6 DEF Archive, TaskTypeOK, QuestionType, Revisions
    <2>2. QED
      BY <1>6, <2>1 DEF Archive, TaskTypeOK, Occurs
  <1>7. ASSUME NEW CONSTANT t \in Tasks, Restore(t) PROVE TaskTypeOK'
    <2>1. question' \in [Tasks -> QuestionType]
      BY <1>7 DEF Restore, TaskTypeOK, QuestionType, Revisions
    <2>2. log[t] \in EntryType
      BY DEF TaskTypeOK
    <2>3. [log[t] EXCEPT !.mark = Len(channel)] \in EntryType
      BY <2>2, EntryTypes DEF TaskTypeOK
    <2>4. log' \in [Tasks -> EntryType]
      BY <1>7, <2>3 DEF Restore, TaskTypeOK
    <2>5. QED
      BY <1>7, <2>1, <2>4 DEF Restore, TaskTypeOK
  <1>8. ASSUME NEW CONSTANT t \in Tasks, Review(t) PROVE TaskTypeOK'
    <2>1. question' \in [Tasks -> QuestionType]
      <3>1. question[t] \in QuestionType
        BY DEF TaskTypeOK
      <3>2. [question[t] EXCEPT !.resolved = TRUE] \in QuestionType
        BY <3>1 DEF QuestionType
      <3>3. \/ question' = [question EXCEPT ![t] = [question[t] EXCEPT !.resolved = TRUE]]
            \/ question' = question
        BY <1>8 DEF Review, TaskTypeOK
      <3>4. QED
        BY <3>2, <3>3 DEF TaskTypeOK
    <2>2. log[t] \in EntryType
      BY DEF TaskTypeOK
    <2>3. Logged(log[t], "review_accepted") \in EntryType /\ Logged(log[t], "review_returned") \in EntryType
      BY <2>2, EntryTypes
    <2>4. log' \in [Tasks -> EntryType]
      BY <1>8, <2>3 DEF Review, TaskTypeOK
    <2>5. QED
      BY <1>8, <2>1, <2>4 DEF Review, TaskTypeOK
  <1>9. ASSUME NEW CONSTANT t \in Tasks, MakeWork(t) PROVE TaskTypeOK'
    <2>1. question' \in [Tasks -> QuestionType]
      BY <1>9 DEF MakeWork, TaskTypeOK, QuestionType, Revisions
    <2>2. QED
      BY <1>9, <2>1 DEF MakeWork, TaskTypeOK
  <1>10. ASSUME NEW CONSTANT t \in Tasks, FinishWork(t) PROVE TaskTypeOK'
    <2>1. question' \in [Tasks -> QuestionType]
      BY <1>10 DEF FinishWork, TaskTypeOK, QuestionType, Revisions
    <2>2. QED
      BY <1>10, <2>1 DEF FinishWork, TaskTypeOK
  <1>11. ASSUME NEW CONSTANT t \in Tasks, Adopt(t) PROVE TaskTypeOK'
    <2>1. grants' \in [Tasks -> SUBSET GrantType]
      BY <1>11, AdoptedTypes DEF Adopt, TaskTypeOK
    <2>2. log' \in [Tasks -> EntryType]
      BY <1>11, AdoptedTypes DEF Adopt, TaskTypeOK
    <2>3. QED
      BY <1>11, <2>1, <2>2 DEF Adopt, TaskTypeOK
  <1>12. ASSUME NEW CONSTANT t \in Tasks, RequestReview(t) PROVE TaskTypeOK'
    <2>1. log[t] \in EntryType
      BY DEF TaskTypeOK
    <2>2. Logged(log[t], "review_requested") \in EntryType
      BY <2>1, EntryTypes
    <2>3. log' \in [Tasks -> EntryType]
      BY <1>12, <2>2 DEF RequestReview, TaskTypeOK
    <2>4. review' \in [Tasks -> BOOLEAN]
      BY <1>12 DEF RequestReview, TaskTypeOK
    <2>5. QED
      BY <1>12, <2>3, <2>4 DEF RequestReview, TaskTypeOK
  <1>13. ASSUME NEW CONSTANT c \in Calls, NEW CONSTANT t \in Tasks, Propose(c, t)
         PROVE  TaskTypeOK'
    <2>1. question' \in [Tasks -> QuestionType]
      <3>1. question[t] \in QuestionType /\ 1 \in Revisions
        BY DEF TaskTypeOK, Revisions
      <3>2. [question[t] EXCEPT !.revision = 1] \in QuestionType
        BY <3>1, QuestionTypes
      <3>3. question' = [question EXCEPT ![t] = [question[t] EXCEPT !.revision = 1]]
        BY <1>13 DEF Propose, TaskTypeOK
      <3>4. QED
        BY <3>2, <3>3 DEF TaskTypeOK
    <2>2. 0 \in Rounds /\ 1 \in Revisions
      BY <1>13 DEF Propose, TaskTypeOK, QuestionType, Rounds, Revisions
    <2>3. Enters(c, "show", "show", t, 0, 1)
      BY <1>13 DEF Propose
    <2>4. calls' \in [Calls -> CallType]
      BY <2>3, <2>2, Entered
    <2>5. QED
      BY <1>13, <2>1, <2>4 DEF Propose, TaskTypeOK
  <1>14. ASSUME NEW CONSTANT c \in Calls, NEW CONSTANT t \in Tasks, Revise(c, t) PROVE TaskTypeOK'
    <2>1. question' \in [Tasks -> QuestionType]
      <3>1. question[t] \in QuestionType /\ question[t].revision + 1 \in Revisions
        BY <1>14 DEF Revise, TaskTypeOK, QuestionType, Revisions
      <3>2. [question[t] EXCEPT !.revision = question[t].revision + 1] \in QuestionType
        BY <3>1, QuestionTypes
      <3>3. question' = [question EXCEPT ![t] = [question[t] EXCEPT !.revision = question[t].revision + 1]]
        BY <1>14 DEF Revise, TaskTypeOK
      <3>4. QED
        BY <3>2, <3>3 DEF TaskTypeOK
    <2>2. 0 \in Rounds /\ question[t].revision + 1 \in Revisions
      BY <1>14 DEF Revise, TaskTypeOK, QuestionType, Rounds, Revisions
    <2>3. Enters(c, "show", "show", t, 0, question[t].revision + 1)
      BY <1>14 DEF Revise
    <2>4. calls' \in [Calls -> CallType]
      BY <2>3, <2>2, Entered
    <2>5. QED
      BY <1>14, <2>1, <2>4 DEF Revise, TaskTypeOK
  <1>15. ASSUME NEW CONSTANT c \in Calls, NEW CONSTANT t \in Tasks, ShowAgain(c, t)
         PROVE  TaskTypeOK'
    <2>1. 0 \in Rounds /\ question[t].revision \in Revisions
      BY <1>15 DEF ShowAgain, TaskTypeOK, QuestionType, Rounds, Revisions
    <2>2. Enters(c, "show", "show", t, 0, question[t].revision)
      BY <1>15 DEF ShowAgain
    <2>3. calls' \in [Calls -> CallType]
      BY <2>2, <2>1, Entered
    <2>4. QED
      BY <1>15, <2>3 DEF ShowAgain, TaskTypeOK
  <1>16. ASSUME NEW CONSTANT c \in Calls, NEW CONSTANT t \in Tasks, NEW CONSTANT m \in Posts, AskAdmission(c, t, m)
         PROVE  TaskTypeOK'
    <2>1. m \in Rounds /\ question[t].revision \in Revisions
      BY DEF TaskTypeOK, QuestionType, Posts, Rounds
    <2>2. Enters(c, "grant", "admit", t, m, question[t].revision) /\ "admit" \in Kinds
      BY <1>16 DEF AskAdmission, Kinds
    <2>3. calls' \in [Calls -> CallType]
      BY <2>2, <2>1, Entered
    <2>4. QED
      BY <1>16, <2>3 DEF AskAdmission, TaskTypeOK
  <1>17. ASSUME NEW CONSTANT c \in Calls, NEW CONSTANT t \in Tasks, NEW CONSTANT m \in Posts, AskRevision(c, t, m)
         PROVE  TaskTypeOK'
    <2>1. m \in Rounds /\ question[t].revision \in Revisions
      BY DEF TaskTypeOK, QuestionType, Posts, Rounds
    <2>2. Enters(c, "grant", "revise", t, m, question[t].revision) /\ "revise" \in Kinds
      BY <1>17 DEF AskRevision, Kinds
    <2>3. calls' \in [Calls -> CallType]
      BY <2>2, <2>1, Entered
    <2>4. QED
      BY <1>17, <2>3 DEF AskRevision, TaskTypeOK
  <1>18. ASSUME NEW CONSTANT c \in Calls, NEW CONSTANT t \in Tasks, NEW CONSTANT m \in Posts, AskExecution(c, t, m)
         PROVE  TaskTypeOK'
    <2>1. m \in Rounds /\ question[t].revision \in Revisions
      BY DEF TaskTypeOK, QuestionType, Posts, Rounds
    <2>2. Enters(c, "check", "execute", t, m, question[t].revision) /\ "execute" \in Kinds
      BY <1>18 DEF AskExecution, Kinds
    <2>3. calls' \in [Calls -> CallType]
      BY <2>2, <2>1, Entered
    <2>4. QED
      BY <1>18, <2>3 DEF AskExecution, TaskTypeOK
  <1>19. ASSUME NEW CONSTANT c \in Calls, ShowProposal(c) PROVE TaskTypeOK'
    <2>1. calls[c].task \in Tasks /\ calls[c].revision \in Revisions
      BY <1>19 DEF ShowProposal, CallHolds, TaskTypeOK, CallType
    <2>2. channel' \in Seq(PostType) /\ Len(channel') <= MaxPosts
      BY <1>19, <2>1 DEF ShowProposal, TaskTypeOK, PostType, Proposal
    <2>3. calls' \in [Calls -> CallType]
      BY <1>19, CallTypes DEF ShowProposal, Ends, Goes, TaskTypeOK, CallType
    <2>4. QED
      BY <1>19, <2>2, <2>3 DEF ShowProposal, TaskTypeOK
  <1>20. ASSUME NEW CONSTANT c \in Calls, GrantStep(c) PROVE TaskTypeOK'
    <2>1. /\ calls[c].task \in Tasks /\ calls[c].message \in Rounds
          /\ calls[c].revision \in Revisions /\ calls[c].step \in Kinds
      BY <1>20 DEF GrantStep, CallHolds, TaskTypeOK, CallType, Kinds
    <2>2. Grant(calls[c].step, calls[c].message, calls[c].revision) \in GrantType
      BY <2>1, GrantTypes
    <2>3. grants' \in [Tasks -> SUBSET GrantType]
      <3>1. grants \in [Tasks -> SUBSET GrantType] BY DEF TaskTypeOK
      <3>2. grants' = grants \/ grants' = [grants EXCEPT ![calls[c].task] = @ \cup
                 {Grant(calls[c].step, calls[c].message, calls[c].revision)}]
        BY <1>20 DEF GrantStep
      <3>3. QED
        BY <2>1, <2>2, <3>1, <3>2
    <2>4. Logged(log[calls[c].task], "admitted") \in EntryType
      BY <2>1, EntryTypes DEF TaskTypeOK
    <2>5. log' \in [Tasks -> EntryType]
      BY <1>20, <2>4, <2>1 DEF GrantStep, TaskTypeOK
    <2>6. calls' \in [Calls -> CallType]
      BY <1>20, CallTypes DEF GrantStep, Ends, Goes, TaskTypeOK, CallType
    <2>7. QED
      BY <1>20, <2>3, <2>5, <2>6 DEF GrantStep, TaskTypeOK
  <1>21. ASSUME NEW CONSTANT c \in Calls, CheckExecution(c) PROVE TaskTypeOK'
    <2>1. calls' \in [Calls -> CallType]
      <3>1. calls[c] \in CallType
        BY DEF TaskTypeOK
      <3>2. /\ [calls[c] EXCEPT !.at = "record"] \in CallType
            /\ [calls[c] EXCEPT !.at = "begin"] \in CallType /\ Idle \in CallType
        BY <3>1, CallTypes
      <3>3. \/ calls' = [calls EXCEPT ![c] = [calls[c] EXCEPT !.at = "record"]]
          \/ calls' = [calls EXCEPT ![c] = [calls[c] EXCEPT !.at = "begin"]]
          \/ calls' = [calls EXCEPT ![c] = Idle]
        BY <1>21 DEF CheckExecution, Ends, Goes, TaskTypeOK
      <3>4. QED
        BY <3>2, <3>3 DEF TaskTypeOK
    <2>2. QED
      BY <1>21, <2>1 DEF CheckExecution, TaskTypeOK
  <1>22. ASSUME NEW CONSTANT c \in Calls, RecordExecution(c) PROVE TaskTypeOK'
    <2>1. calls[c].task \in Tasks /\ calls[c].message \in Rounds /\ calls[c].revision \in Revisions
      BY <1>22 DEF RecordExecution, CallHolds, TaskTypeOK, CallType
    <2>2. Grant("execute", calls[c].message, calls[c].revision) \in GrantType
      BY <2>1, GrantTypes DEF Kinds
    <2>3. grants' \in [Tasks -> SUBSET GrantType]
      BY <1>22, <2>2, <2>1 DEF RecordExecution, TaskTypeOK
    <2>4. calls' \in [Calls -> CallType]
      <3>1. calls[c] \in CallType
        BY DEF TaskTypeOK
      <3>2. [calls[c] EXCEPT !.at = "begin"] \in CallType /\ Idle \in CallType
        BY <3>1, CallTypes
      <3>3. \/ calls' = [calls EXCEPT ![c] = [calls[c] EXCEPT !.at = "begin"]]
          \/ calls' = [calls EXCEPT ![c] = Idle]
        BY <1>22 DEF RecordExecution, Ends, Goes, TaskTypeOK
      <3>4. QED
        BY <3>2, <3>3 DEF TaskTypeOK
    <2>5. QED
      BY <1>22, <2>3, <2>4 DEF RecordExecution, TaskTypeOK
  <1>23. ASSUME NEW CONSTANT c \in Calls, BeginRound(c) PROVE TaskTypeOK'
    <2>1. calls[c].task \in Tasks /\ calls[c].message \in Rounds
      BY <1>23 DEF BeginRound, CallHolds, TaskTypeOK, CallType
    <2>2. question[calls[c].task].revision \in Revisions
      BY <2>1 DEF TaskTypeOK, QuestionType
    <2>3. rounds' \in [Tasks -> [Rounds -> RoundType]]
      <3> DEFINE t == calls[c].task
                 m == calls[c].message
                 x == [phase |-> "created", revision |-> question[t].revision]
      <3>1. t \in Tasks /\ m \in Rounds /\ rounds[t] \in [Rounds -> RoundType]
        BY <2>1, TaskAssumption DEF TaskTypeOK, PanelRound, Rounds
      <3>2. x \in RoundType
        BY <1>23, <3>1, RoundTypes DEF TaskTypeOK, QuestionType
      <3>3. [rounds[t] EXCEPT ![m] = x] \in [Rounds -> RoundType]
        BY <3>1, <3>2
      <3>4. rounds' = [rounds EXCEPT ![t] = [rounds[t] EXCEPT ![m] = x]] \/ rounds' = rounds
        BY <1>23, <3>1 DEF BeginRound, TaskTypeOK
      <3>5. QED
        BY <3>1, <3>3, <3>4 DEF TaskTypeOK
    <2>4. calls' \in [Calls -> CallType]
      <3>1. calls[c] \in CallType
        BY DEF TaskTypeOK
      <3>2. [calls[c] EXCEPT !.at = "start"] \in CallType /\ Idle \in CallType
        BY <3>1, CallTypes
      <3>3. \/ calls' = [calls EXCEPT ![c] = [calls[c] EXCEPT !.at = "start"]]
          \/ calls' = [calls EXCEPT ![c] = Idle]
        BY <1>23 DEF BeginRound, Ends, Goes, TaskTypeOK
      <3>4. QED
        BY <3>2, <3>3 DEF TaskTypeOK
    <2>5. QED
      BY <1>23, <2>3, <2>4 DEF BeginRound, TaskTypeOK
  <1>24. ASSUME NEW CONSTANT c \in Calls, StartRound(c) PROVE TaskTypeOK'
    <2>1. calls[c].task \in Tasks /\ calls[c].message \in Rounds
      BY <1>24 DEF StartRound, CallHolds, TaskTypeOK, CallType
    <2>2. rounds' \in [Tasks -> [Rounds -> RoundType]]
      <3> DEFINE t == calls[c].task
                 m == calls[c].message
                 x == [rounds[t][m] EXCEPT !.phase = "started"]
      <3>1. t \in Tasks /\ m \in Rounds /\ rounds[t] \in [Rounds -> RoundType]
        BY <2>1, TaskAssumption DEF TaskTypeOK, PanelRound, Rounds
      <3>2. x \in RoundType
        BY <1>24, <3>1, RoundTypes DEF TaskTypeOK, QuestionType
      <3>3. [rounds[t] EXCEPT ![m] = x] \in [Rounds -> RoundType]
        BY <3>1, <3>2
      <3>4. rounds' = [rounds EXCEPT ![t] = [rounds[t] EXCEPT ![m] = x]] \/ rounds' = rounds
        BY <1>24, <3>1 DEF StartRound, TaskTypeOK
      <3>5. QED
        BY <3>1, <3>3, <3>4 DEF TaskTypeOK
    <2>3. calls' \in [Calls -> CallType]
      <3>1. calls[c] \in CallType
        BY DEF TaskTypeOK
      <3>2. [calls[c] EXCEPT !.at = "link"] \in CallType /\ Idle \in CallType
        BY <3>1, CallTypes
      <3>3. \/ calls' = [calls EXCEPT ![c] = [calls[c] EXCEPT !.at = "link"]]
          \/ calls' = [calls EXCEPT ![c] = Idle]
        BY <1>24 DEF StartRound, Ends, Goes, TaskTypeOK
      <3>4. QED
        BY <3>2, <3>3 DEF TaskTypeOK
    <2>4. QED
      BY <1>24, <2>2, <2>3 DEF StartRound, TaskTypeOK
  <1>25. ASSUME NEW CONSTANT c \in Calls, LinkRound(c) PROVE TaskTypeOK'
    <2>1. calls[c].task \in Tasks /\ calls[c].message \in Posts /\ calls[c].since \in Rounds
      BY <1>25 DEF LinkRound, CallHolds, TaskTypeOK, CallType, Executing
    <2>2. question' \in [Tasks -> QuestionType]
      <3> DEFINE t == calls[c].task
      <3>1. question[t] \in QuestionType
        BY <2>1 DEF TaskTypeOK
      <3>2. [question[t] EXCEPT !.resolved = FALSE] \in QuestionType
        BY <3>1 DEF QuestionType
      <3>3. \/ question' = [question EXCEPT ![t] = [question[t] EXCEPT !.resolved = FALSE]]
            \/ question' = question
        BY <1>25, <2>1 DEF LinkRound, TaskTypeOK
      <3>4. QED
        BY <2>1, <3>2, <3>3 DEF TaskTypeOK
    <2>3. grants' \in [Tasks -> SUBSET GrantType]
      BY <1>25, <2>1, GrantTypes DEF LinkRound, TaskTypeOK, Recorded
    <2>4. LoggedRounds(log[calls[c].task], {calls[c].message}) \in EntryType
      <3>1. {calls[c].message} \in SUBSET Rounds /\ log[calls[c].task] \in EntryType
        BY <2>1 DEF TaskTypeOK, Posts, Rounds
      <3>2. QED
        BY <3>1, EntryTypes
    <2>5. log' \in [Tasks -> EntryType]
      BY <1>25, <2>1, <2>4 DEF LinkRound, TaskTypeOK
    <2>6. calls' \in [Calls -> CallType]
      BY <1>25, CallTypes DEF LinkRound, Ends, Goes, TaskTypeOK, CallType
    <2>7. openings' \subseteq [message : Posts, since : Rounds]
      BY <1>25, <2>1 DEF LinkRound, TaskTypeOK
    <2>8. QED
      BY <1>25, <2>2, <2>3, <2>5, <2>6, <2>7 DEF LinkRound, TaskTypeOK
  <1>26. ASSUME NEW CONSTANT c \in Calls, CallFails(c) PROVE TaskTypeOK'
    <2>1. calls' \in [Calls -> CallType]
      BY <1>26, CallTypes DEF CallFails, Ends, Goes, TaskTypeOK, CallType
    <2>2. QED
      BY <1>26, <2>1 DEF CallFails, TaskTypeOK, Occurs
  <1>27. ASSUME RestartTasks PROVE TaskTypeOK'
    <2>1. calls' \in [Calls -> CallType]
      BY <1>27, CallTypes DEF RestartTasks
    <2>2. grants' \in [Tasks -> SUBSET GrantType] /\ log' \in [Tasks -> EntryType]
      BY <1>27, AdoptedTypes DEF RestartTasks, TaskTypeOK
    <2>3. QED
      BY <1>27, <2>1, <2>2 DEF RestartTasks, TaskTypeOK, Occurs
  <1>28. ASSUME NEW CONSTANT t \in Tasks, LinkWork(t) PROVE TaskTypeOK'
    <2>1. question' \in [Tasks -> QuestionType]
      BY <1>28 DEF LinkWork, TaskTypeOK, QuestionType, Revisions
    <2>2. QED
      BY <1>28, <2>1 DEF LinkWork, TaskTypeOK
  <1>29. QED
    BY <1>1, <1>2, <1>3, <1>4, <1>5, <1>6, <1>7, <1>8, <1>9, <1>10, <1>11, <1>12, <1>13, <1>14,
       <1>15, <1>16, <1>17, <1>18, <1>19, <1>20, <1>21, <1>22, <1>23, <1>24, <1>25, <1>26,
       <1>27, <1>28 DEF TaskNext, Researcher, General

-----------------------------------------------------------------------------
(* What a step writes, row by row. *)

\* Which steps write which rows: every other handler leaves them alone.
LEMMA ChannelWriters ==
    ASSUME TaskNext
    PROVE  channel' = channel \/ Say \/ \E c \in Calls : ShowProposal(c)
  BY DEF TaskNext, Researcher, General, Say, EditBrief, BeginPanelRound,
         StartPanelRound, SetStatus, Archive, Restore, Review, MakeWork, LinkWork, FinishWork,
         Adopt, RequestReview, Propose, Revise, ShowAgain, AskAdmission, AskRevision,
         AskExecution, ShowProposal, GrantStep, CheckExecution, RecordExecution,
         BeginRound, StartRound, LinkRound, CallFails, RestartTasks

LEMMA GrantWriters ==
    ASSUME TaskNext
    PROVE  \/ grants' = grants
           \/ \E c \in Calls : GrantStep(c) \/ RecordExecution(c) \/ LinkRound(c)
           \/ (\E t \in Tasks : Adopt(t)) \/ RestartTasks
  BY DEF TaskNext, Researcher, General, Say, EditBrief, BeginPanelRound,
         StartPanelRound, SetStatus, Archive, Restore, Review, MakeWork, LinkWork, FinishWork,
         Adopt, RequestReview, Propose, Revise, ShowAgain, AskAdmission, AskRevision,
         AskExecution, ShowProposal, GrantStep, CheckExecution, RecordExecution,
         BeginRound, StartRound, LinkRound, CallFails, RestartTasks

LEMMA LogWriters ==
    ASSUME TaskNext
    PROVE  \/ log' = log
           \/ \E t \in Tasks : Restore(t) \/ Review(t) \/ RequestReview(t) \/ Adopt(t)
           \/ \E c \in Calls : GrantStep(c) \/ LinkRound(c)
           \/ RestartTasks
  BY DEF TaskNext, Researcher, General, Say, EditBrief, BeginPanelRound,
         StartPanelRound, SetStatus, Archive, Restore, Review, MakeWork, LinkWork, FinishWork,
         Adopt, RequestReview, Propose, Revise, ShowAgain, AskAdmission, AskRevision,
         AskExecution, ShowProposal, GrantStep, CheckExecution, RecordExecution,
         BeginRound, StartRound, LinkRound, CallFails, RestartTasks

LEMMA RoundWriters ==
    ASSUME TaskNext
    PROVE  \/ rounds' = rounds
           \/ \E t \in Tasks : BeginPanelRound(t) \/ StartPanelRound(t)
           \/ \E c \in Calls : BeginRound(c) \/ StartRound(c)
  BY DEF TaskNext, Researcher, General, Say, EditBrief, BeginPanelRound,
         StartPanelRound, SetStatus, Archive, Restore, Review, MakeWork, LinkWork, FinishWork,
         Adopt, RequestReview, Propose, Revise, ShowAgain, AskAdmission, AskRevision,
         AskExecution, ShowProposal, GrantStep, CheckExecution, RecordExecution,
         BeginRound, StartRound, LinkRound, CallFails, RestartTasks

LEMMA OpeningWriters ==
    ASSUME TaskNext
    PROVE  openings' = openings \/ \E c \in Calls : LinkRound(c)
  BY DEF TaskNext, Researcher, General, Say, EditBrief, BeginPanelRound,
         StartPanelRound, SetStatus, Archive, Restore, Review, MakeWork, LinkWork, FinishWork,
         Adopt, RequestReview, Propose, Revise, ShowAgain, AskAdmission, AskRevision,
         AskExecution, ShowProposal, GrantStep, CheckExecution, RecordExecution,
         BeginRound, StartRound, LinkRound, CallFails, RestartTasks

LEMMA QuestionWriters ==
    ASSUME TaskNext
    PROVE  \/ question' = question /\ review' = review
           \/ \E t \in Tasks : \/ EditBrief(t) \/ SetStatus(t) \/ Restore(t) \/ FinishWork(t)
                               \/ Archive(t) \/ MakeWork(t) \/ LinkWork(t) \/ Review(t)
                               \/ RequestReview(t)
           \/ \E c \in Calls, t \in Tasks : Propose(c, t) \/ Revise(c, t)
           \/ \E c \in Calls : LinkRound(c)
  <1>1. CASE Researcher
    BY <1>1 DEF Researcher, Say, BeginPanelRound, StartPanelRound, Adopt
  <1>2. CASE General
    <2>1. ASSUME NEW CONSTANT c \in Calls, NEW CONSTANT t \in Tasks, ShowAgain(c, t)
          PROVE  question' = question /\ review' = review
      BY <2>1 DEF ShowAgain
    <2>2. ASSUME NEW CONSTANT c \in Calls, NEW CONSTANT t \in Tasks, NEW CONSTANT m \in Posts,
                 AskAdmission(c, t, m) \/ AskRevision(c, t, m) \/ AskExecution(c, t, m)
          PROVE  question' = question /\ review' = review
      BY <2>2 DEF AskAdmission, AskRevision, AskExecution
    <2>3. ASSUME NEW CONSTANT c \in Calls,
                 \/ ShowProposal(c) \/ GrantStep(c) \/ CheckExecution(c) \/ RecordExecution(c)
                 \/ BeginRound(c) \/ StartRound(c) \/ CallFails(c)
          PROVE  question' = question /\ review' = review
      BY <2>3 DEF ShowProposal, GrantStep, CheckExecution, RecordExecution, BeginRound,
         StartRound, CallFails
    <2>4. QED
      BY <1>2, <2>1, <2>2, <2>3 DEF General
  <1>3. CASE RestartTasks
    BY <1>3 DEF RestartTasks
  <1>4. QED
    BY <1>1, <1>2, <1>3 DEF TaskNext

\* General only grows: ShowProposal and the researcher append.
LEMMA ChannelStep ==
    ASSUME TaskTypeOK, \A c \in Calls : CallHolds(calls[c]), TaskNext
    PROVE  ChannelKept /\ channel \in Seq(PostType) /\ Len(channel) <= Len(channel')
  <1>1. CASE Say
    <2>1. PICK t \in Tasks \cup {NoTask} : channel' = Append(channel, Words(t))
      BY <1>1 DEF Say
    <2>2. Words(t) \in PostType
      BY TaskAssumption DEF Words, PostType, Revisions
    <2>3. QED
      BY <2>1, <2>2 DEF ChannelKept, TaskTypeOK
  <1>2. CASE \E c \in Calls : ShowProposal(c)
    <2>1. PICK c \in Calls : ShowProposal(c)
      BY <1>2
    <2>2. calls[c].task \in Tasks /\ calls[c].revision \in Revisions
      BY <2>1 DEF ShowProposal, CallHolds, TaskTypeOK, CallType
    <2>3. Proposal(calls[c].task, calls[c].revision) \in PostType
      BY <2>2 DEF Proposal, PostType
    <2>4. QED
      BY <2>1, <2>3 DEF ShowProposal, ChannelKept, TaskTypeOK
  <1>3. CASE channel' = channel
    BY <1>3 DEF ChannelKept, TaskTypeOK
  <1>4. QED
    BY <1>1, <1>2, <1>3, ChannelWriters

\* A record is only added to or linked: LinkRound replaces it by itself, linked.
LEMMA LinkedRecords ==
    ASSUME TaskTypeOK, NEW CONSTANT c \in Calls, CallHolds(calls[c]), LinkRound(c)
    PROVE  /\ calls[c].task \in Tasks
           /\ \A u \in Tasks : u # calls[c].task => grants'[u] = grants[u]
           /\ grants'[calls[c].task] =
                 (grants[calls[c].task] \ {g \in Recorded(calls[c].task, calls[c].message) : ~g.linked})
                 \cup {[g EXCEPT !.linked = TRUE] :
                          g \in {h \in Recorded(calls[c].task, calls[c].message) : ~h.linked}}
           /\ \A g \in GrantType : SameStep(g, [g EXCEPT !.linked = TRUE])
  BY DEF LinkRound, CallHolds, TaskTypeOK, GrantType, SameStep

LEMMA GrantsStep ==
    ASSUME TaskTypeOK, \A c \in Calls : CallHolds(calls[c]), TaskNext
    PROVE  GrantsKept
  <1>1. ASSUME grants' = grants PROVE GrantsKept
    BY <1>1 DEF GrantsKept, SameStep
  <1>2. ASSUME NEW CONSTANT c \in Calls, GrantStep(c) PROVE GrantsKept
    <2>1. \A t \in Tasks : grants[t] \subseteq grants'[t]
      BY <1>2 DEF GrantStep, TaskTypeOK
    <2>2. QED
      BY <2>1 DEF GrantsKept, SameStep
  <1>3. ASSUME NEW CONSTANT c \in Calls, RecordExecution(c) PROVE GrantsKept
    <2>1. \A t \in Tasks : grants[t] \subseteq grants'[t]
      BY <1>3 DEF RecordExecution, TaskTypeOK
    <2>2. QED
      BY <2>1 DEF GrantsKept, SameStep
  <1>4. ASSUME NEW CONSTANT c \in Calls, LinkRound(c) PROVE GrantsKept
    <2>1. SUFFICES ASSUME NEW CONSTANT t \in Tasks, NEW CONSTANT g \in grants[t]
                   PROVE  \E h \in grants'[t] : SameStep(g, h)
      BY DEF GrantsKept
    <2>2. g \in GrantType
      BY DEF TaskTypeOK
    <2>3. CASE t # calls[c].task
      BY <1>4, <2>3, LinkedRecords DEF SameStep
    <2>4. CASE t = calls[c].task /\ g \in Recorded(t, calls[c].message) /\ ~g.linked
      <3>1. [g EXCEPT !.linked = TRUE] \in grants'[t]
        BY <1>4, <2>4, LinkedRecords
      <3>2. QED
        BY <1>4, <2>2, <3>1, LinkedRecords
    <2>5. CASE t = calls[c].task /\ ~(g \in Recorded(t, calls[c].message) /\ ~g.linked)
      <3>1. g \in grants'[t]
        BY <1>4, <2>5, LinkedRecords
      <3>2. QED
        BY <3>1 DEF SameStep
    <2>6. QED
      BY <2>3, <2>4, <2>5
  <1>5. ASSUME NEW CONSTANT u \in Tasks, Adopt(u) PROVE GrantsKept
    <2>1. \A t \in Tasks : grants[t] \subseteq grants'[t]
      BY <1>5 DEF Adopt, AdoptedGrants, TaskTypeOK
    <2>2. QED
      BY <2>1 DEF GrantsKept, SameStep
  <1>6. ASSUME RestartTasks PROVE GrantsKept
    <2>1. \A t \in Tasks : grants[t] \subseteq grants'[t]
      BY <1>6 DEF RestartTasks, AdoptedGrants, TaskTypeOK
    <2>2. QED
      BY <2>1 DEF GrantsKept, SameStep
  <1>7. QED
    BY <1>1, <1>2, <1>3, <1>4, <1>5, <1>6, GrantWriters

\* A stage event and a restore move the watermark to the newest message.
LEMMA MarksStep ==
    ASSUME TaskTypeOK, \A c \in Calls : CallHolds(calls[c]), MarksInChannel, TaskNext
    PROVE  MarksKept /\ MarksInChannel'
  <1>1. \A t \in Tasks : log[t].mark \in Rounds /\ Len(channel) \in Rounds /\ log[t] \in EntryType
    BY DEF TaskTypeOK, EntryType, Rounds
  <1>2. \A t \in Tasks : log'[t].mark = log[t].mark \/ log'[t].mark = Len(channel)
    <2>1. \A t \in Tasks, k \in {"admitted", "review_requested", "review_returned", "review_accepted"} :
             Logged(log[t], k).mark = Len(channel)
      BY <1>1 DEF Logged, EntryType
    <2>2. \A t \in Tasks : AdoptedLog(t).mark = Len(channel)
      BY DEF AdoptedLog, Logged, LoggedRounds
    <2>3. ASSUME NEW CONSTANT u \in Tasks, Restore(u)
          PROVE  \A t \in Tasks : log'[t].mark = log[t].mark \/ log'[t].mark = Len(channel)
      BY <1>1, <2>3 DEF Restore, TaskTypeOK, EntryType
    <2>4. ASSUME NEW CONSTANT u \in Tasks, Review(u)
          PROVE  \A t \in Tasks : log'[t].mark = log[t].mark \/ log'[t].mark = Len(channel)
      BY <2>1, <2>4 DEF Review, TaskTypeOK
    <2>5. ASSUME NEW CONSTANT u \in Tasks, RequestReview(u)
          PROVE  \A t \in Tasks : log'[t].mark = log[t].mark \/ log'[t].mark = Len(channel)
      BY <2>1, <2>5 DEF RequestReview, TaskTypeOK
    <2>6. ASSUME NEW CONSTANT u \in Tasks, Adopt(u)
          PROVE  \A t \in Tasks : log'[t].mark = log[t].mark \/ log'[t].mark = Len(channel)
      BY <2>2, <2>6 DEF Adopt, TaskTypeOK
    <2>7. ASSUME NEW CONSTANT c \in Calls, GrantStep(c)
          PROVE  \A t \in Tasks : log'[t].mark = log[t].mark \/ log'[t].mark = Len(channel)
      BY <2>1, <2>7 DEF GrantStep, TaskTypeOK
    <2>8. ASSUME NEW CONSTANT c \in Calls, LinkRound(c)
          PROVE  \A t \in Tasks : log'[t].mark = log[t].mark \/ log'[t].mark = Len(channel)
      BY <2>8 DEF LinkRound, LoggedRounds, TaskTypeOK
    <2>9. ASSUME RestartTasks
          PROVE  \A t \in Tasks : log'[t].mark = log[t].mark \/ log'[t].mark = Len(channel)
      BY <2>2, <2>9 DEF RestartTasks
    <2>10. QED
      BY <2>3, <2>4, <2>5, <2>6, <2>7, <2>8, <2>9, LogWriters
  <1>3. Len(channel) <= Len(channel') /\ channel' \in Seq(PostType)
    BY ChannelStep, TypesStay DEF TaskTypeOK
  <1>4. \A t \in Tasks : log[t].mark <= Len(channel)
    BY DEF MarksInChannel
  <1>5. Len(channel) \in Int /\ Len(channel') \in Int
    BY <1>3 DEF TaskTypeOK
  <1>6. \A t \in Tasks : /\ log'[t].mark \in Rounds
                         /\ log[t].mark <= log'[t].mark /\ log'[t].mark <= Len(channel')
    BY <1>1, <1>2, <1>3, <1>4, <1>5 DEF Rounds
  <1>7. QED
    BY <1>6 DEF MarksKept, MarksInChannel

\* A round keeps its brief: a repeated key returns it as it is.
LEMMA RoundsStep ==
    ASSUME TaskTypeOK, \A c \in Calls : CallHolds(calls[c]), TaskNext
    PROVE  RoundsKept
  <1>1. ASSUME rounds' = rounds PROVE RoundsKept
    BY <1>1 DEF RoundsKept
  <1>2. ASSUME NEW CONSTANT t \in Tasks, BeginPanelRound(t) PROVE RoundsKept
    BY <1>2 DEF BeginPanelRound, RoundsKept, TaskTypeOK, RoundType
  <1>3. ASSUME NEW CONSTANT t \in Tasks, StartPanelRound(t) PROVE RoundsKept
    BY <1>3 DEF StartPanelRound, RoundsKept, TaskTypeOK, RoundType
  <1>4. ASSUME NEW CONSTANT c \in Calls, BeginRound(c) PROVE RoundsKept
    <2>1. \/ rounds' = rounds
          \/ /\ rounds[calls[c].task][calls[c].message].phase = "none"
             /\ rounds' = [rounds EXCEPT ![calls[c].task][calls[c].message] =
                              [phase |-> "created", revision |-> question[calls[c].task].revision]]
      BY <1>4 DEF BeginRound
    <2>2. CASE rounds' = rounds
      BY <2>2 DEF RoundsKept
    <2>3. CASE rounds' # rounds
      <3> DEFINE u == calls[c].task
                 m == calls[c].message
                 x == [phase |-> "created", revision |-> question[u].revision]
      <3>1. SUFFICES ASSUME NEW CONSTANT t \in Tasks, NEW CONSTANT r \in Rounds,
                            rounds[t][r].phase # "none"
                     PROVE  rounds'[t][r] = rounds[t][r]
        BY DEF RoundsKept
      <3>2. rounds[u][m].phase = "none" /\ rounds' = [rounds EXCEPT ![u] = [rounds[u] EXCEPT ![m] = x]]
        BY <2>1, <2>3
      <3>3. rounds'[t] = IF t = u THEN [rounds[u] EXCEPT ![m] = x] ELSE rounds[t]
        BY <3>2 DEF TaskTypeOK
      <3>4. t = u => r # m
        BY <3>1, <3>2
      <3>5. rounds[t] \in [Rounds -> RoundType]
        BY DEF TaskTypeOK
      <3>6. QED
        BY <3>3, <3>4, <3>5
    <2>4. QED
      BY <2>2, <2>3
  <1>5. ASSUME NEW CONSTANT c \in Calls, StartRound(c) PROVE RoundsKept
    BY <1>5 DEF StartRound, RoundsKept, TaskTypeOK, RoundType
  <1>6. QED
    BY <1>1, <1>2, <1>3, <1>4, <1>5, RoundWriters

LEMMA KeptStep ==
    ASSUME TaskTypeOK, \A c \in Calls : CallHolds(calls[c]), MarksInChannel, TaskNext
    PROVE  Kept /\ MarksInChannel'
  BY ChannelStep, GrantsStep, MarksStep, RoundsStep DEF Kept

-----------------------------------------------------------------------------
(* The calls. *)

\* A call that ends, fails or is stopped relies on nothing.
LEMMA IdleHolds == CallHolds(Idle)'
  BY DEF CallHolds, Idle, Executing

\* The steps of a call; every other step leaves the calls alone or ends one.
LEMMA CallWriters ==
    ASSUME TaskTypeOK, TaskNext
    PROVE  \/ calls' = calls \/ RestartTasks \/ \E c \in Calls : calls' = [calls EXCEPT ![c] = Idle]
           \/ \E c \in Calls, t \in Tasks : Propose(c, t) \/ Revise(c, t) \/ ShowAgain(c, t)
           \/ \E c \in Calls, t \in Tasks, m \in Posts :
                 AskAdmission(c, t, m) \/ AskRevision(c, t, m) \/ AskExecution(c, t, m)
           \/ \E c \in Calls : CheckExecution(c) \/ RecordExecution(c) \/ BeginRound(c) \/ StartRound(c)
  <1>1. \A c \in Calls : ShowProposal(c) \/ GrantStep(c) \/ LinkRound(c) \/ CallFails(c) =>
           calls' = [calls EXCEPT ![c] = Idle]
    BY DEF ShowProposal, GrantStep, LinkRound, CallFails, Ends
  <1>2. \A t \in Tasks : EditBrief(t) \/ BeginPanelRound(t) \/ StartPanelRound(t) \/ SetStatus(t)
           \/ Archive(t) \/ Restore(t) \/ Review(t) \/ MakeWork(t) \/ LinkWork(t)
           \/ FinishWork(t) \/ Adopt(t) \/ RequestReview(t) => calls' = calls
    BY DEF EditBrief, BeginPanelRound, StartPanelRound, SetStatus, Archive, Restore, Review,
           MakeWork, LinkWork, FinishWork, Adopt, RequestReview
  <1>3. Say => calls' = calls
    BY DEF Say
  <1>4. QED
    BY <1>1, <1>2, <1>3 DEF TaskNext, Researcher, General

\* Entering: what a call has just read holds.
LEMMA EnteredHolds ==
    ASSUME TaskTypeOK, TaskTypeOK', Kept, NEW CONSTANT c \in Calls, NEW CONSTANT t \in Tasks,
           NEW CONSTANT k, k = calls'[c]
    PROVE  /\ Propose(c, t) \/ Revise(c, t) \/ ShowAgain(c, t) => CallHolds(k)'
           /\ \A m \in Posts : AskAdmission(c, t, m) \/ AskRevision(c, t, m) \/ AskExecution(c, t, m)
                 => CallHolds(k)'
  <1>1. ASSUME Propose(c, t) \/ Revise(c, t) \/ ShowAgain(c, t) PROVE CallHolds(k)'
    <2>1. k.at = "show" /\ k.task = t
      BY <1>1 DEF Propose, Revise, ShowAgain, Enters, TaskTypeOK
    <2>2. QED
      BY <2>1 DEF CallHolds, Executing
  <1>2. ASSUME NEW CONSTANT m \in Posts, AskAdmission(c, t, m) \/ AskRevision(c, t, m)
        PROVE  CallHolds(k)'
    <2>1. /\ k.at = "grant" /\ k.task = t /\ k.step \in {"admit", "revise"}
          /\ k.message = m /\ k.revision = question[t].revision
      BY <1>2 DEF AskAdmission, AskRevision, Enters, TaskTypeOK
    <2>2. m \in Said /\ Answers(m, t, k.revision)
      BY <1>2, <2>1 DEF AskAdmission, AskRevision, CheckInstruction
    <2>3. m \in Said' /\ Answers(m, t, k.revision)'
      BY <2>2, ShownStays DEF Kept
    <2>4. QED
      BY <2>1, <2>3 DEF CallHolds, Executing
  <1>3. ASSUME NEW CONSTANT m \in Posts, AskExecution(c, t, m) PROVE CallHolds(k)'
    <2>1. /\ k.at = "check" /\ k.task = t /\ k.message = m
          /\ k.since = log[t].mark
      BY <1>3 DEF AskExecution, Enters, TaskTypeOK
    <2>2. log[t].mark <= log'[t].mark
      BY DEF Kept, MarksKept
    <2>3. k.since <= log'[k.task].mark
      BY <2>1, <2>2
    <2>4. QED
      BY <2>1, <2>3 DEF CallHolds, Executing
  <1>4. QED
    BY <1>1, <1>2, <1>3

\* start_execution: the check reads the newest watermark, and each later step
\* writes what the following ones rely on.
LEMMA ExecutionHolds ==
    ASSUME TaskTypeOK, TaskTypeOK', Kept, NEW CONSTANT c \in Calls, CallHolds(calls[c]),
           NEW CONSTANT j, j = calls[c], NEW CONSTANT n, n = calls'[c]
    PROVE  CheckExecution(c) \/ RecordExecution(c) \/ BeginRound(c) \/ StartRound(c) => CallHolds(n)'
  <1> DEFINE t == j.task
             m == j.message
             r == j.revision
  <1>1. j = calls[c] /\ j \in CallType /\ n = calls'[c]
    BY DEF TaskTypeOK
  <1>2. ASSUME NEW CONSTANT at \in {"record", "begin", "start", "link"}, Goes(c, at)
        PROVE  n.at = at /\ n.task = t /\ n.message = m /\ n.revision = r /\ n.since = j.since
    BY <1>1, <1>2 DEF Goes, TaskTypeOK, CallType
  <1>3. ASSUME Ends(c) PROVE CallHolds(n)'
    <2>1. n = Idle
      BY <1>3 DEF Ends, TaskTypeOK
    <2>2. QED
      BY <2>1, IdleHolds
  <1>4. ASSUME CheckExecution(c), ~Ends(c) PROVE CallHolds(n)'
    <2>1. t \in Tasks /\ m \in Posts /\ j.since <= log[t].mark
      BY <1>4 DEF CheckExecution, CallHolds, Executing
    <2>2. j.since \in Int /\ log[t].mark \in Int /\ m \in Int
      BY <1>1, <2>1 DEF TaskTypeOK, EntryType, CallType, Rounds
    <2>3. /\ LatestApproved(t, r) /\ MayExecute(t, m)
          /\ \A g \in Recorded(t, m) : ~g.linked /\ g.revision = r
      BY <1>4 DEF CheckExecution
    <2>4. r \in Approved(t)'
      BY <2>1, <2>3, ApprovalStays DEF LatestApproved, Kept
    <2>5. j.since < m
      BY <2>1, <2>2, <2>3 DEF MayExecute
    <2>6. CASE Recorded(t, m) = {}
      <3>1. n.at = "record" /\ n.task = t /\ n.message = m /\ n.revision = r /\ n.since = j.since
        <4>1. Goes(c, "record")
          BY <1>4, <2>6 DEF CheckExecution
        <4>2. QED
          BY <1>2, <4>1
      <3>2. QED
        BY <2>1, <2>4, <2>5, <3>1 DEF CallHolds, Executing
    <2>7. CASE Recorded(t, m) # {}
      <3>1. n.at = "begin" /\ n.task = t /\ n.message = m /\ n.revision = r /\ n.since = j.since
        <4>1. Goes(c, "begin")
          BY <1>1, <1>4, <2>7 DEF CheckExecution
        <4>2. QED
          BY <1>2, <4>1
      <3>2. \E g \in Recorded(t, m) : g.revision = r
        BY <2>3, <2>7
      <3>3. \E g \in Recorded(t, m)' : g.revision = r
        BY <2>1, <3>2, RecordStays DEF Kept
      <3>4. QED
        BY <2>1, <2>4, <2>5, <3>1, <3>3 DEF CallHolds, Executing
    <2>8. QED
      BY <2>6, <2>7
  <1>5. ASSUME RecordExecution(c), ~Ends(c) PROVE CallHolds(n)'
    <2>1. t \in Tasks /\ m \in Posts /\ j.since < m /\ r \in Approved(t)
      BY <1>5 DEF RecordExecution, CallHolds, Executing
    <2>2. n.at = "begin" /\ n.task = t /\ n.message = m /\ n.revision = r /\ n.since = j.since
      <3>1. Goes(c, "begin")
        BY <1>5 DEF RecordExecution
      <3>2. QED
        BY <1>2, <3>1
    <2>3. Grant("execute", m, r) \in grants'[t]
      BY <1>5, <2>1 DEF RecordExecution, TaskTypeOK
    <2>4. \E g \in Recorded(t, m)' : g.revision = r
      BY <2>3 DEF Recorded, Grant
    <2>5. r \in Approved(t)'
      BY <2>1, ApprovalStays DEF Kept
    <2>6. QED
      BY <2>1, <2>2, <2>4, <2>5 DEF CallHolds, Executing
  <1>6. ASSUME BeginRound(c) \/ StartRound(c), ~Ends(c) PROVE CallHolds(n)'
    <2>1. /\ t \in Tasks /\ m \in Posts /\ j.since < m /\ r \in Approved(t)
          /\ \E g \in Recorded(t, m) : g.revision = r
      BY <1>6 DEF BeginRound, StartRound, CallHolds, Executing
    <2>2. n.at \in {"start", "link"} /\ n.task = t /\ n.message = m /\ n.revision = r /\ n.since = j.since
      <3>1. Goes(c, "start") \/ Goes(c, "link")
        BY <1>6 DEF BeginRound, StartRound
      <3>2. QED
        BY <1>2, <3>1
    <2>3. rounds'[t][m].phase # "none"
      <3>1. m \in Rounds /\ rounds[t] \in [Rounds -> RoundType]
        BY <2>1 DEF TaskTypeOK, Posts, Rounds
      <3>2. CASE StartRound(c)
        BY <2>1, <3>1, <3>2 DEF StartRound, TaskTypeOK, RoundType
      <3>3. CASE BeginRound(c)
        BY <1>6, <2>1, <3>1, <3>3 DEF BeginRound, TaskTypeOK
      <3>4. QED
        BY <1>6, <3>2, <3>3
    <2>4. r \in Approved(t)' /\ \E g \in Recorded(t, m)' : g.revision = r
      BY <2>1, ApprovalStays, RecordStays DEF Kept
    <2>5. QED
      BY <2>1, <2>2, <2>3, <2>4 DEF CallHolds, Executing
  <1>7. QED
    BY <1>3, <1>4, <1>5, <1>6

LEMMA CallRead ==
    ASSUME NEW CONSTANT d, \A k : k = calls'[d] => CallHolds(k)'
    PROVE  CallHolds(calls[d])'
  BY DEF CallHolds, Answers, Said, Recorded, Approved

LEMMA CallsStep ==
    ASSUME TaskTypeOK, TaskTypeOK', \A c \in Calls : CallHolds(calls[c]), Kept, TaskNext
    PROVE  (\A c \in Calls : CallHolds(calls[c]))'
  <1> SUFFICES ASSUME NEW CONSTANT d \in Calls, NEW CONSTANT k, k = calls'[d] PROVE CallHolds(k)'
    BY CallRead
  <1>1. ASSUME calls'[d] = calls[d] PROVE CallHolds(k)'
    <2>1. k \in CallType /\ CallHolds(k)
      BY <1>1 DEF TaskTypeOK
    <2>2. QED
      BY <1>1, <2>1, CallStays
  <1>2. ASSUME calls'[d] = Idle PROVE CallHolds(k)'
    BY <1>2, IdleHolds
  <1>3. CASE calls' = calls \/ RestartTasks \/ \E c \in Calls : calls' = [calls EXCEPT ![c] = Idle]
    <2>1. calls'[d] = calls[d] \/ calls'[d] = Idle
      BY <1>3 DEF RestartTasks, TaskTypeOK
    <2>2. QED
      BY <1>1, <1>2, <2>1
  <1>4. ASSUME NEW CONSTANT c \in Calls, NEW CONSTANT t \in Tasks,
               Propose(c, t) \/ Revise(c, t) \/ ShowAgain(c, t)
        PROVE  CallHolds(k)'
    <2>1. d # c => calls'[d] = calls[d]
      BY <1>4 DEF Propose, Revise, ShowAgain, Enters, TaskTypeOK
    <2>2. QED
      BY <1>1, <1>4, <2>1, EnteredHolds
  <1>5. ASSUME NEW CONSTANT c \in Calls, NEW CONSTANT t \in Tasks, NEW CONSTANT m \in Posts,
               AskAdmission(c, t, m) \/ AskRevision(c, t, m) \/ AskExecution(c, t, m)
        PROVE  CallHolds(k)'
    <2>1. d # c => calls'[d] = calls[d]
      BY <1>5 DEF AskAdmission, AskRevision, AskExecution, Enters, TaskTypeOK
    <2>2. QED
      BY <1>1, <1>5, <2>1, EnteredHolds
  <1>6. ASSUME NEW CONSTANT c \in Calls,
               CheckExecution(c) \/ RecordExecution(c) \/ BeginRound(c) \/ StartRound(c)
        PROVE  CallHolds(k)'
    <2>1. d # c => calls'[d] = calls[d]
      BY <1>6 DEF CheckExecution, RecordExecution, BeginRound, StartRound, Goes, Ends, TaskTypeOK
    <2>2. QED
      BY <1>1, <1>6, <2>1, ExecutionHolds
  <1>7. QED
    BY <1>3, <1>4, <1>5, <1>6, CallWriters

-----------------------------------------------------------------------------
(* The properties, step by step. *)

\* What adopt writes names no message.
LEMMA AdoptedByNone ==
    ASSUME TaskTypeOK, TaskNext,
           ~ \E c \in Calls : GrantStep(c) \/ RecordExecution(c) \/ LinkRound(c)
    PROVE  \A t \in Tasks : \A g \in grants'[t] : g \in grants[t] \/ g.message = 0
  <1>1. \A k \in {"admit", "execute"} : \A r : [Grant(k, 0, r) EXCEPT !.linked = TRUE].message = 0
    BY DEF Grant
  <1>2. \A t \in Tasks : \A g \in AdoptedGrants(t) : g \in grants[t] \/ g.message = 0
    BY <1>1 DEF AdoptedGrants
  <1>3. CASE grants' = grants
    BY <1>3
  <1>4. ASSUME NEW CONSTANT u \in Tasks, Adopt(u)
        PROVE  \A t \in Tasks : \A g \in grants'[t] : g \in grants[t] \/ g.message = 0
    BY <1>2, <1>4 DEF Adopt, TaskTypeOK
  <1>5. CASE RestartTasks
    BY <1>2, <1>5 DEF RestartTasks
  <1>6. QED
    BY <1>3, <1>4, <1>5, GrantWriters

\* LinkRound leaves kind, message and brief of each record as they are.
LEMMA LinkedFrom ==
    ASSUME TaskTypeOK, NEW CONSTANT c \in Calls, CallHolds(calls[c]), LinkRound(c),
           NEW CONSTANT t \in Tasks, NEW CONSTANT g \in grants'[t]
    PROVE  \E h \in grants[t] :
              /\ SameStep(h, g)
              /\ \/ g = h /\ ~(/\ t = calls[c].task /\ h.message = calls[c].message
                               /\ h.kind = "execute" /\ ~h.linked)
                 \/ /\ t = calls[c].task /\ h.message = calls[c].message
                    /\ h.kind = "execute" /\ ~h.linked
                    /\ g = [h EXCEPT !.linked = TRUE]
  <1>1. \A h \in grants[t] : h \in GrantType
    BY DEF TaskTypeOK
  <1>2. CASE t # calls[c].task
    BY <1>2, LinkedRecords DEF SameStep
  <1>3. CASE t = calls[c].task
    <2> DEFINE un == {h \in Recorded(t, calls[c].message) : ~h.linked}
    <2>1. grants'[t] = (grants[t] \ un) \cup {[h EXCEPT !.linked = TRUE] : h \in un}
      BY <1>3, LinkedRecords
    <2>2. CASE g \in grants[t] \ un
      BY <2>2 DEF Recorded, SameStep
    <2>3. CASE g \in {[h EXCEPT !.linked = TRUE] : h \in un}
      <3>1. PICK h \in un : g = [h EXCEPT !.linked = TRUE]
        BY <2>3
      <3>2. h \in grants[t] /\ h.kind = "execute" /\ h.message = calls[c].message /\ ~h.linked
        BY DEF Recorded
      <3>3. SameStep(h, g)
        BY <1>1, <3>1, <3>2, LinkedRecords
      <3>4. QED
        BY <1>3, <3>1, <3>2, <3>3
    <2>4. QED
      BY <2>1, <2>2, <2>3
  <1>4. QED
    BY <1>2, <1>3

\* admit and approve_revision write what their call checked; nothing else approves
\* by a message.
LEMMA ShownStep ==
    ASSUME TaskTypeOK, \A c \in Calls : CallHolds(calls[c]), ApprovedWasShown, TaskNext
    PROVE  ApprovedWasShown'
  <1> SUFFICES ASSUME NEW CONSTANT t \in Tasks, NEW CONSTANT g \in grants'[t],
                      Approves(g), g.message > 0
               PROVE  g.message \in Said' /\ Answers(g.message, t, g.revision)'
    BY DEF ApprovedWasShown, Approves
  <1>1. ChannelKept
    BY ChannelStep
  <1>2. ASSUME g.message \in Said, Answers(g.message, t, g.revision)
        PROVE  g.message \in Said' /\ Answers(g.message, t, g.revision)'
    BY <1>1, <1>2, ShownStays
  <1>3. ASSUME NEW CONSTANT h \in grants[t], SameStep(h, g)
        PROVE  g.message \in Said' /\ Answers(g.message, t, g.revision)'
    <2>1. Approves(h) /\ h.message = g.message /\ h.revision = g.revision
      BY <1>3 DEF SameStep, Approves
    <2>2. g.message \in Said /\ Answers(g.message, t, g.revision)
      BY <2>1 DEF ApprovedWasShown
    <2>3. QED
      BY <1>2, <2>2
  <1>4. ASSUME NEW CONSTANT c \in Calls, GrantStep(c)
        PROVE  g.message \in Said' /\ Answers(g.message, t, g.revision)'
    <2>1. CASE g \in grants[t]
      BY <1>3, <2>1 DEF SameStep
    <2>2. CASE g \notin grants[t]
      <3>1. t = calls[c].task /\ g = Grant(calls[c].step, calls[c].message, calls[c].revision)
        BY <1>4, <2>2 DEF GrantStep, TaskTypeOK
      <3>2. /\ calls[c].message \in Said
            /\ Answers(calls[c].message, calls[c].task, calls[c].revision)
        BY <1>4 DEF GrantStep, CallHolds
      <3>3. g.message \in Said /\ Answers(g.message, t, g.revision)
        BY <3>1, <3>2 DEF Grant
      <3>4. QED
        BY <1>2, <3>3
    <2>3. QED
      BY <2>1, <2>2
  <1>5. ASSUME NEW CONSTANT c \in Calls, RecordExecution(c)
        PROVE  g.message \in Said' /\ Answers(g.message, t, g.revision)'
    <2>1. g \in grants[t]
      BY <1>5 DEF RecordExecution, TaskTypeOK, Grant, Approves
    <2>2. QED
      BY <1>3, <2>1 DEF SameStep
  <1>6. ASSUME NEW CONSTANT c \in Calls, LinkRound(c)
        PROVE  g.message \in Said' /\ Answers(g.message, t, g.revision)'
    BY <1>3, <1>6, LinkedFrom
  <1>7. CASE ~ \E c \in Calls : GrantStep(c) \/ RecordExecution(c) \/ LinkRound(c)
    <2>1. g \in grants[t]
      BY <1>7, AdoptedByNone
    <2>2. QED
      BY <1>3, <2>1 DEF SameStep
  <1>8. QED
    BY <1>4, <1>5, <1>6, <1>7

\* begin_round runs the brief the call checked, and compares it with the newest.
LEMMA RoundApprovedStep ==
    ASSUME TaskTypeOK, \A c \in Calls : CallHolds(calls[c]), RoundIsApproved, GrantsKept, TaskNext
    PROVE  RoundIsApproved'
  <1> SUFFICES ASSUME NEW CONSTANT t \in Tasks, NEW CONSTANT m \in Posts, rounds'[t][m].phase # "none"
               PROVE  /\ rounds'[t][m].revision \in Approved(t)'
                      /\ \E g \in Recorded(t, m)' : g.revision = rounds'[t][m].revision
    BY DEF RoundIsApproved
  <1>1. m \in Rounds /\ m # PanelRound /\ rounds[t] \in [Rounds -> RoundType] /\ PanelRound \in Rounds
    BY TaskAssumption DEF TaskTypeOK, Posts, Rounds, PanelRound
  <1>2. ASSUME NEW CONSTANT r, rounds'[t][m].revision = r, r \in Approved(t),
               \E g \in Recorded(t, m) : g.revision = r
        PROVE  /\ rounds'[t][m].revision \in Approved(t)'
               /\ \E g \in Recorded(t, m)' : g.revision = rounds'[t][m].revision
    BY <1>2, ApprovalStays, RecordStays
  <1>3. CASE rounds[t][m].phase # "none" /\ rounds'[t][m].revision = rounds[t][m].revision
    <2>1. PICK r : r = rounds[t][m].revision
      OBVIOUS
    <2>2. r \in Approved(t) /\ \E g \in Recorded(t, m) : g.revision = r
      BY <1>3, <2>1 DEF RoundIsApproved
    <2>3. QED
      BY <1>2, <1>3, <2>1, <2>2
  <1>4. CASE rounds' = rounds
    BY <1>3, <1>4
  <1>5. ASSUME NEW CONSTANT u \in Tasks, BeginPanelRound(u) \/ StartPanelRound(u)
        PROVE  rounds[t][m].phase # "none" /\ rounds'[t][m].revision = rounds[t][m].revision
    BY <1>1, <1>5 DEF BeginPanelRound, StartPanelRound, TaskTypeOK
  <1>6. ASSUME NEW CONSTANT c \in Calls, StartRound(c)
        PROVE  rounds[t][m].phase # "none" /\ rounds'[t][m].revision = rounds[t][m].revision
    <2>1. calls[c].task \in Tasks /\ rounds[calls[c].task][calls[c].message].phase # "none"
      BY <1>6 DEF StartRound, CallHolds
    <2>2. QED
      BY <1>1, <1>6, <2>1 DEF StartRound, TaskTypeOK, RoundType
  <1>7. ASSUME NEW CONSTANT c \in Calls, BeginRound(c)
        PROVE  /\ rounds'[t][m].revision \in Approved(t)'
               /\ \E g \in Recorded(t, m)' : g.revision = rounds'[t][m].revision
    <2> DEFINE u == calls[c].task
               k == calls[c].message
               x == [phase |-> "created", revision |-> question[u].revision]
    <2>1. \/ rounds' = rounds
          \/ /\ rounds[u][k].phase = "none" /\ question[u].revision = calls[c].revision
             /\ rounds' = [rounds EXCEPT ![u] = [rounds[u] EXCEPT ![k] = x]]
      BY <1>7 DEF BeginRound
    <2>2. CASE rounds' = rounds
      BY <1>3, <2>2
    <2>3. CASE rounds' # rounds /\ t = u /\ m = k
      <3>1. PICK r : r = calls[c].revision
        OBVIOUS
      <3>2. rounds'[t][m].revision = r
        BY <1>1, <2>1, <2>3, <3>1 DEF TaskTypeOK
      <3>3. r \in Approved(t) /\ \E g \in Recorded(t, m) : g.revision = r
        BY <1>7, <2>3, <3>1 DEF BeginRound, CallHolds, Executing
      <3>4. QED
        BY <1>2, <3>2, <3>3
    <2>4. CASE rounds' # rounds /\ ~(t = u /\ m = k)
      <3>1. rounds'[t][m] = rounds[t][m]
        BY <1>1, <2>1, <2>4 DEF TaskTypeOK
      <3>2. QED
        BY <1>3, <3>1
    <2>5. QED
      BY <2>2, <2>3, <2>4
  <1>8. QED
    BY <1>3, <1>4, <1>5, <1>6, <1>7, RoundWriters

\* The message of a new record is used by none, which is looked up in the same
\* transaction.
LEMMA OneStepStep ==
    ASSUME TaskTypeOK, \A c \in Calls : CallHolds(calls[c]), OneStepPerInstruction, TaskNext
    PROVE  OneStepPerInstruction'
  <1> SUFFICES ASSUME NEW CONSTANT t \in Tasks, NEW CONSTANT u \in Tasks,
                      NEW CONSTANT g \in grants'[t], NEW CONSTANT h \in grants'[u],
                      g.message = h.message, g.message > 0
               PROVE  t = u /\ g = h
    BY DEF OneStepPerInstruction
  <1>1. ASSUME g \in grants[t], h \in grants[u] PROVE t = u /\ g = h
    BY <1>1 DEF OneStepPerInstruction
  <1>2. ASSUME NEW CONSTANT v \in Tasks, NEW CONSTANT k \in Kinds, NEW CONSTANT m, NEW CONSTANT r,
               ~Used(m), grants' = [grants EXCEPT ![v] = @ \cup {Grant(k, m, r)}]
        PROVE  t = u /\ g = h
    <2>1. /\ g \in grants[t] \/ (t = v /\ g = Grant(k, m, r))
          /\ h \in grants[u] \/ (u = v /\ h = Grant(k, m, r))
      BY <1>2 DEF TaskTypeOK
    <2>2. Grant(k, m, r).message = m
      BY DEF Grant
    <2>3. \A w \in Tasks : \A x \in grants[w] : x.message # m
      BY <1>2 DEF Used
    <2>4. QED
      BY <1>1, <2>1, <2>2, <2>3
  <1>3. ASSUME NEW CONSTANT c \in Calls, GrantStep(c) PROVE t = u /\ g = h
    <2>1. PICK v, k, m, r : v = calls[c].task /\ k = calls[c].step /\ m = calls[c].message /\ r = calls[c].revision
      OBVIOUS
    <2>2. v \in Tasks /\ k \in Kinds
      BY <1>3, <2>1 DEF GrantStep, CallHolds, Kinds
    <2>3. CASE grants' = grants
      BY <1>1, <2>3
    <2>4. CASE grants' # grants
      <3>1. ~Used(m) /\ grants' = [grants EXCEPT ![v] = @ \cup {Grant(k, m, r)}]
        BY <1>3, <2>1, <2>4 DEF GrantStep
      <3>2. QED
        BY <1>2, <2>2, <3>1
    <2>5. QED
      BY <2>3, <2>4
  <1>4. ASSUME NEW CONSTANT c \in Calls, RecordExecution(c) PROVE t = u /\ g = h
    <2>1. PICK v, m, r : v = calls[c].task /\ m = calls[c].message /\ r = calls[c].revision
      OBVIOUS
    <2>2. v \in Tasks /\ "execute" \in Kinds
      BY <1>4, <2>1 DEF RecordExecution, CallHolds, Kinds
    <2>3. CASE grants' = grants
      BY <1>1, <2>3
    <2>4. CASE grants' # grants
      <3>1. ~Used(m) /\ grants' = [grants EXCEPT ![v] = @ \cup {Grant("execute", m, r)}]
        BY <1>4, <2>1, <2>4 DEF RecordExecution
      <3>2. QED
        BY <1>2, <2>2, <3>1
    <2>5. QED
      BY <2>3, <2>4
  <1>5. ASSUME NEW CONSTANT c \in Calls, LinkRound(c) PROVE t = u /\ g = h
    <2> DEFINE Linking(w, x) == /\ w = calls[c].task /\ x.message = calls[c].message
                                /\ x.kind = "execute" /\ ~x.linked
    <2>1. PICK x \in grants[t] : /\ SameStep(x, g)
                                 /\ \/ g = x /\ ~Linking(t, x)
                                    \/ Linking(t, x) /\ g = [x EXCEPT !.linked = TRUE]
      BY <1>5, LinkedFrom
    <2>2. PICK y \in grants[u] : /\ SameStep(y, h)
                                 /\ \/ h = y /\ ~Linking(u, y)
                                    \/ Linking(u, y) /\ h = [y EXCEPT !.linked = TRUE]
      BY <1>5, LinkedFrom
    <2>3. x.message = y.message /\ x.message > 0
      BY <2>1, <2>2 DEF SameStep
    <2>4. t = u /\ x = y
      BY <2>3 DEF OneStepPerInstruction
    <2>5. QED
      BY <2>1, <2>2, <2>4
  <1>6. CASE ~ \E c \in Calls : GrantStep(c) \/ RecordExecution(c) \/ LinkRound(c)
    <2>1. g \in grants[t] /\ h \in grants[u]
      BY <1>6, AdoptedByNone
    <2>2. QED
      BY <1>1, <2>1
  <1>7. QED
    BY <1>3, <1>4, <1>5, <1>6

\* A round is linked by words newer than the watermark of when its call came.
LEMMA OldWordsStep ==
    ASSUME TaskTypeOK, \A c \in Calls : CallHolds(calls[c]), OldWordsStartNothing, TaskNext
    PROVE  OldWordsStartNothing'
  <1>1. CASE openings' = openings
    BY <1>1 DEF OldWordsStartNothing
  <1>2. ASSUME NEW CONSTANT c \in Calls, LinkRound(c) PROVE OldWordsStartNothing'
    <2>1. calls[c].since < calls[c].message /\ calls[c].since \in Int /\ calls[c].message \in Int
      BY <1>2 DEF LinkRound, CallHolds, Executing, TaskTypeOK, CallType, Rounds
    <2>2. openings' = openings \/
             openings' = openings \cup {[message |-> calls[c].message, since |-> calls[c].since]}
      BY <1>2 DEF LinkRound
    <2>3. QED
      BY <2>1, <2>2 DEF OldWordsStartNothing
  <1>3. QED
    BY <1>1, <1>2, OpeningWriters

\* Archiving looks at reviews and work in its transaction, and request_review and
\* create look at the archive in theirs; a link or a mirror has a round, and
\* rounds stay.
LEMMA ArchivedStep ==
    ASSUME TaskTypeOK, RoundsKept, ArchivedIsSettled, TaskNext
    PROVE  ArchivedIsSettled'
  <1>0. question \in [Tasks -> QuestionType] /\ review \in [Tasks -> BOOLEAN]
    BY DEF TaskTypeOK
  <1>1. \A t \in Tasks : Begun(t) => Begun(t)'
    BY DEF Begun, RoundsKept
  <1>2. ASSUME \A t \in Tasks :
                  /\ review'[t] => review[t] \/ ~question'[t].archived
                  /\ question'[t].archived => question[t].archived
                  /\ question'[t].work =>
                        question[t].work \/ Begun(t) \/ ~question'[t].archived
        PROVE  ArchivedIsSettled'
    BY <1>1, <1>2 DEF ArchivedIsSettled
  <1>3. ASSUME NEW CONSTANT t \in Tasks, EditBrief(t) \/ SetStatus(t) \/ Restore(t) \/ FinishWork(t)
        PROVE  ArchivedIsSettled'
    <2>1. CASE EditBrief(t) BY <1>0, <1>2, <2>1 DEF EditBrief, QuestionType
    <2>2. CASE SetStatus(t) BY <1>0, <1>2, <2>2 DEF SetStatus, QuestionType
    <2>3. CASE Restore(t) BY <1>0, <1>2, <2>3 DEF Restore, QuestionType
    <2>4. CASE FinishWork(t) BY <1>0, <1>2, <2>4 DEF FinishWork, QuestionType
    <2>5. QED
      BY <1>3, <2>1, <2>2, <2>3, <2>4
  <1>4. ASSUME NEW CONSTANT t \in Tasks, Archive(t) PROVE ArchivedIsSettled'
    BY <1>0, <1>1, <1>4 DEF Archive, QuestionType, ArchivedIsSettled
  <1>5. ASSUME NEW CONSTANT t \in Tasks, MakeWork(t) PROVE ArchivedIsSettled'
    BY <1>0, <1>2, <1>5 DEF MakeWork, QuestionType
  <1>6. ASSUME NEW CONSTANT t \in Tasks, LinkWork(t) PROVE ArchivedIsSettled'
    BY <1>0, <1>2, <1>6 DEF LinkWork, QuestionType, Begun
  <1>7. ASSUME NEW CONSTANT t \in Tasks, Review(t) PROVE ArchivedIsSettled'
    BY <1>0, <1>2, <1>7 DEF Review, QuestionType
  <1>8. ASSUME NEW CONSTANT t \in Tasks, RequestReview(t) PROVE ArchivedIsSettled'
    BY <1>0, <1>2, <1>8 DEF RequestReview, QuestionType
  <1>9. ASSUME NEW CONSTANT c \in Calls, NEW CONSTANT t \in Tasks, Propose(c, t) \/ Revise(c, t)
        PROVE  ArchivedIsSettled'
    <2>1. CASE Propose(c, t) BY <1>0, <1>2, <2>1 DEF Propose, QuestionType
    <2>2. CASE Revise(c, t) BY <1>0, <1>2, <2>2 DEF Revise, QuestionType
    <2>3. QED
      BY <1>9, <2>1, <2>2
  <1>10. ASSUME NEW CONSTANT c \in Calls, LinkRound(c) PROVE ArchivedIsSettled'
    <2>1. /\ review' = review
          /\ question' = question \/ question' = [question EXCEPT ![calls[c].task].resolved = FALSE]
      BY <1>10 DEF LinkRound
    <2>2. QED
      BY <1>0, <1>2, <2>1 DEF QuestionType
  <1>11. QED
    BY <1>2, <1>3, <1>4, <1>5, <1>6, <1>7, <1>8, <1>9, <1>10, QuestionWriters

-----------------------------------------------------------------------------
(* The invariant, and what follows from it. *)

LEMMA TaskInitInv == TaskInit => TaskInv
  <1> SUFFICES ASSUME TaskInit PROVE TaskInv
    OBVIOUS
  <1> USE TaskAssumption
  <1>1. channel = <<>> /\ grants = [t \in Tasks |-> {}] /\ openings = {}
    BY DEF TaskInit
  <1>2. channel \in Seq(PostType) /\ Len(channel) = 0
    BY <1>1
  <1>3. question \in [Tasks -> QuestionType] /\ grants \in [Tasks -> SUBSET GrantType]
    BY DEF TaskInit, QuestionType, Revisions
  <1>4. log \in [Tasks -> EntryType] /\ review \in [Tasks -> BOOLEAN]
    BY DEF TaskInit, EntryType, Rounds
  <1>5. rounds \in [Tasks -> [Rounds -> RoundType]]
    BY DEF TaskInit, NoRound, RoundType, Revisions
  <1>6. calls \in [Calls -> CallType]
    BY CallTypes DEF TaskInit
  <1>7. TaskTypeOK
    BY <1>1, <1>2, <1>3, <1>4, <1>5, <1>6 DEF TaskInit, TaskTypeOK
  <1>8. MarksInChannel
    <2>1. \A t \in Tasks : log[t].mark = 0
      BY DEF TaskInit
    <2>2. SUFFICES ASSUME NEW CONSTANT t \in Tasks PROVE log[t].mark <= Len(channel)
      BY DEF MarksInChannel
    <2>3. log[t].mark = 0 /\ Len(channel) = 0
      BY <1>2, <2>1
    <2>4. QED
      BY <2>3
  <1>9. \A c \in Calls : CallHolds(calls[c])
    BY DEF TaskInit, Idle, CallHolds, Executing
  <1>10. ApprovedWasShown /\ OneStepPerInstruction /\ OldWordsStartNothing
    BY <1>1 DEF ApprovedWasShown, OneStepPerInstruction, OldWordsStartNothing
  <1>11. RoundIsApproved
    BY DEF TaskInit, NoRound, RoundIsApproved, Posts, Rounds
  <1>12. ArchivedIsSettled
    BY DEF TaskInit, ArchivedIsSettled
  <1>13. QED
    BY <1>7, <1>8, <1>9, <1>10, <1>11, <1>12 DEF TaskInv

LEMMA TaskStepInv == TaskInv /\ [TaskNext]_taskVars => TaskInv'
  <1> SUFFICES ASSUME TaskInv, [TaskNext]_taskVars PROVE TaskInv'
    OBVIOUS
  <1>1. CASE TaskNext
    <2>1. TaskTypeOK'
      BY <1>1, TypesStay DEF TaskInv
    <2>2. Kept /\ MarksInChannel'
      BY <1>1, KeptStep DEF TaskInv
    <2>3. (\A c \in Calls : CallHolds(calls[c]))'
      BY <1>1, <2>1, <2>2, CallsStep DEF TaskInv
    <2>4. ApprovedWasShown' /\ RoundIsApproved'
      BY <1>1, <2>2, ShownStep, RoundApprovedStep DEF TaskInv, Kept
    <2>5. OneStepPerInstruction' /\ OldWordsStartNothing' /\ ArchivedIsSettled'
      BY <1>1, <2>2, OneStepStep, OldWordsStep, ArchivedStep DEF TaskInv, Kept
    <2>6. QED
      BY <2>1, <2>2, <2>3, <2>4, <2>5 DEF TaskInv
  <1>2. CASE UNCHANGED taskVars
    BY <1>2 DEF taskVars, generalVars, TaskInv, TaskTypeOK, MarksInChannel, CallHolds,
       ApprovedWasShown,
        RoundIsApproved, OneStepPerInstruction, OldWordsStartNothing, ArchivedIsSettled, Begun,
        Said, Answers, Recorded, Approved
  <1>3. QED
    BY <1>1, <1>2

\* The inductive invariant: what each call of the General Agent may still rely on
\* when it writes, with the properties.
THEOREM TaskInvHolds == TaskSpec => []TaskInv
  BY TaskInitInv, TaskStepInv, PTL DEF TaskSpec

\* The rows, the messages of General and the calls stay well formed.
THEOREM TaskTypesHold == TaskSpec => []TaskTypeOK
  <1>1. TaskInv => TaskTypeOK
    BY DEF TaskInv
  <1>2. QED
    BY <1>1, TaskInvHolds, PTL

\* What admit and approve_revision approved, and the brief of every round started
\* from General, was shown to the researcher before they said so, whatever was
\* written between the reads of the call and its transaction.
THEOREM ScopeHolds == TaskSpec => []ScopeWasShown
  <1>1. TaskInv => ScopeWasShown
    BY DEF TaskInv, ScopeWasShown
  <1>2. QED
    BY <1>1, TaskInvHolds, PTL

\* One message of the researcher authorizes one thing (task_authorizations).
THEOREM OneStepHolds == TaskSpec => []OneStepPerInstruction
  <1>1. TaskInv => OneStepPerInstruction
    BY DEF TaskInv
  <1>2. QED
    BY <1>1, TaskInvHolds, PTL

\* start_execution links no round to words older than the watermark it came to.
THEOREM OldWordsHolds == TaskSpec => []OldWordsStartNothing
  <1>1. TaskInv => OldWordsStartNothing
    BY DEF TaskInv
  <1>2. QED
    BY <1>1, TaskInvHolds, PTL

\* set_archived hides no open review and no work, and afterwards neither
\* request_review nor create adds any: what work an archived Task has, a link to
\* one of its rounds or the mirror of a round's Team brought.
THEOREM ArchiveHolds == TaskSpec => []ArchivedIsSettled
  <1>1. TaskInv => ArchivedIsSettled
    BY DEF TaskInv
  <1>2. QED
    BY <1>1, TaskInvHolds, PTL

=============================================================================
