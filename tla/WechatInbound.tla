--------------------------- MODULE WechatInbound ---------------------------
(***************************************************************************)
(* The WeChat channel, from Tencent's server to the Session router: the    *)
(* login, the supervised long-poll loop and its reconnects                 *)
(* (ilink/service.rs), the bridge that takes pages apart (bridge.rs,       *)
(* inbound.rs), and the stored credentials with the cursor and the         *)
(* dedupe keys (agent_store/ilink.rs).  One account; every step is one     *)
(* section under the lock of ServiceCore, one transaction, or one receive. *)
(* A message is its position at the server, a page an interval with the    *)
(* cursor (get_updates_buf) that came with it: the position it reads to.   *)
(***************************************************************************)
EXTENDS Integers, Sequences

CONSTANTS
    Messages,       \* messages at Tencent's server
    Strangers,      \* the ones from a peer without authorization, which it is told
    Unreadable,     \* the ones the bridge answers itself too: voice, files
    MaxLoops,       \* poll loops of one life of the Runtime
    MaxEvents,      \* stops, failures, refusals, logins and calls of the user
    Ways            \* what else may happen in this instance

ASSUME WechatAssumption ==
    /\ Messages \in Nat /\ MaxLoops \in Nat \ {0} /\ MaxEvents \in Nat
    /\ Strangers \subseteq 1 .. Messages /\ Unreadable \subseteq 1 .. Messages

VARIABLES
    disk,       \* ilink_credentials: linked, get_updates_buf; ilink_inbound_dedupe
    core,       \* ServiceCore
    loops,      \* sync_loop by generation
    callers,    \* who is inside restore_on_startup, reconnect, confirm or disconnect
    pages,      \* the channel of page_loop
    desk,       \* process_page: what is left of its page
    prompts,    \* the channel of prompt_loop
    handed,     \* how often each message was replied to or put into prompts
    served,     \* replied to, or through with the router
    excused,    \* how often a record of that was lost or could not be read
    refused,    \* rate limited, out of bounds, unusable or not looked up
    lost,       \* was in memory when the Runtime stopped or the account was gone
    cutOff,     \* the login expired or was ended in this life, or its loop failed
    events      \* how many of them so far

linkVars == <<core, loops, callers, cutOff>>
bridgeVars == <<pages, desk, prompts, refused>>
recordVars == <<handed, served, excused, lost>>
wechatVars == <<disk, linkVars, bridgeVars, recordVars, events>>

-----------------------------------------------------------------------------
Numbers == 1 .. Messages
Loops == 1 .. MaxLoops
Callers == {"restore", "reconnect", "login", "disconnect"}
\* The statuses the code compares with; the others only tell a person why.
Statuses == {"connected", "backing_off", "down"}
NoPage == [next |-> 1, last |-> 0, buf |-> 0]
Idle == [at |-> "idle", loop |-> 0]
NoLoop == [at |-> "none", page |-> NoPage]
NewDesk == [next |-> 1, last |-> 0, buf |-> 0, handed |-> FALSE]

Left(page) == page.next .. page.last
Entries(s) == {s[i] : i \in 1 .. Len(s)}

\* What a stop of the Runtime finds in memory.
InPages == UNION {Left(p) : p \in Entries(pages)}
InMemory == InPages \cup Left(desk) \cup Entries(prompts)

\* A new process: nothing is linked or polled until restore_on_startup.
FreshCore == [account |-> FALSE, status |-> "down", generation |-> 0, task |-> 0,
              cancelled |-> {}, wire |-> 0, login |-> FALSE]

WechatInit ==
    /\ \E linked \in BOOLEAN : disk = [linked |-> linked, cursor |-> 0, seen |-> {}]
    /\ core = FreshCore /\ loops = [g \in Loops |-> NoLoop]
    /\ callers = [c \in Callers |-> IF c = "restore" THEN [Idle EXCEPT !.at = "begin"] ELSE Idle]
    /\ pages = <<>> /\ desk = NewDesk /\ prompts = <<>>
    /\ handed = [m \in Numbers |-> 0] /\ served = {} /\ excused = [m \in Numbers |-> 0]
    /\ refused = {} /\ lost = {} /\ cutOff = FALSE
    /\ events = 0

-----------------------------------------------------------------------------
\* The environment.
Occurs == events < MaxEvents /\ events' = events + 1

\* The Runtime ends at any point, with or without a shutdown, and starts again.
\* What was handed on without its record may come again.
Restart ==
    /\ Occurs
    /\ core' = FreshCore /\ loops' = [g \in Loops |-> NoLoop]
    /\ callers' = [c \in Callers |-> IF c = "restore" THEN [Idle EXCEPT !.at = "begin"] ELSE Idle]
    /\ pages' = <<>> /\ desk' = NewDesk /\ prompts' = <<>>
    /\ lost' = lost \cup InMemory
    /\ excused' = IF desk.handed THEN [excused EXCEPT ![desk.next] = @ + 1] ELSE excused
    /\ cutOff' = FALSE
    /\ UNCHANGED <<disk, handed, served, refused>>

-----------------------------------------------------------------------------
Calls(c, at) == callers' = [callers EXCEPT ![c].at = at]

\* Variant: the generation moves on before the look at the task that is there.
SpawnRenumbersFirst(c) ==
    /\ callers[c].at = "spawn" /\ core.generation < MaxLoops
    /\ LET g == core.generation + 1
       IN  /\ core' = [core EXCEPT !.generation = g]
           /\ IF core.task # 0 THEN Calls(c, "idle") /\ loops' = loops
              ELSE /\ loops' = [loops EXCEPT ![g].at = "top"]
                   /\ callers' = [callers EXCEPT ![c] = [at |-> "insert", loop |-> g]]
    /\ UNCHANGED <<disk, cutOff, bridgeVars, recordVars, events>>

\* spawn_poll_loop: two sections, and the task of the first is not in
\* poll_task before the second.  A task that has ended stays there.
SpawnPollLoop(c) ==
    /\ callers[c].at = "spawn"
    /\ \/ /\ core.task # 0
          /\ Calls(c, "idle")
          /\ UNCHANGED <<core, loops>>
       \/ /\ core.task = 0 /\ core.generation < MaxLoops
          /\ LET g == core.generation + 1
             IN  /\ core' = [core EXCEPT !.generation = g]
                 /\ loops' = [loops EXCEPT ![g].at = "top"]
                 /\ callers' = [callers EXCEPT ![c] = [at |-> "insert", loop |-> g]]
    /\ UNCHANGED <<disk, cutOff, bridgeVars, recordVars, events>>

InsertPollTask(c) ==
    /\ callers[c].at = "insert"
    /\ core' = [core EXCEPT !.task = callers[c].loop]
    /\ callers' = [callers EXCEPT ![c] = Idle]
    /\ UNCHANGED <<disk, loops, cutOff, bridgeVars, recordVars, events>>

\* restore_on_startup, at boot and from a reconnect of an account not restored.
RestoreOnStartup(c) ==
    /\ callers[c].at = "begin"
    /\ LET restores == disk.linked /\ core.task = 0 /\ ~core.account
       IN  /\ core' = IF restores THEN [core EXCEPT !.account = TRUE, !.wire = disk.cursor]
                      ELSE core
           /\ Calls(c, IF restores THEN "restored" ELSE "idle")
    /\ UNCHANGED <<disk, loops, cutOff, bridgeVars, recordVars, events>>

\* The credentials, or the secret that seals them, cannot be read.
RestoreFails(c) ==
    /\ Ways \cap {"seal", "store"} # {}
    /\ callers[c].at = "begin" /\ disk.linked /\ core.task = 0 /\ ~core.account
    /\ Calls(c, "idle") /\ cutOff' = TRUE
    /\ Occurs
    /\ UNCHANGED <<disk, core, loops, bridgeVars, recordVars>>

Restored(c) ==
    /\ callers[c].at = "restored"
    /\ core' = [core EXCEPT !.status = "backing_off"]
    /\ Calls(c, "spawn")
    /\ UNCHANGED <<disk, loops, cutOff, bridgeVars, recordVars, events>>

\* reconnect; within the cooldown of an expired token it is refused.
Reconnect ==
    /\ "reconnect" \in Ways
    /\ callers["reconnect"].at = "idle"
    /\ core.task = 0 \/ core.status # "connected"
    /\ Calls("reconnect", IF core.account THEN "spawn" ELSE "begin")
    /\ Occurs
    /\ UNCHANGED <<disk, core, loops, cutOff, bridgeVars, recordVars>>

-----------------------------------------------------------------------------
\* Aborting the login task ends it where it waits, or too late to matter.
CutLogin ==
    \E kept \in {callers["login"], Idle} :
        /\ callers' = [callers EXCEPT !["login"] = kept]
        /\ cutOff' = (cutOff \/ kept # callers["login"])

\* start_login asks for a QR code, unless one is live.
StartLogin ==
    /\ "login" \in Ways
    /\ ~(core.status = "connected" /\ core.task # 0) /\ ~core.login
    /\ \/ core' = [core EXCEPT !.status = "down", !.login = TRUE]
       \/ core' = [core EXCEPT !.status = "down"]
    /\ CutLogin
    /\ Occurs
    /\ UNCHANGED <<disk, loops, bridgeVars, recordVars>>

CancelLogin ==
    /\ "login" \in Ways
    /\ core' = [core EXCEPT !.login = FALSE,
                            !.status = IF @ = "connected" THEN @ ELSE "down"]
    /\ CutLogin /\ Occurs
    /\ UNCHANGED <<disk, loops, bridgeVars, recordVars>>

\* login_loop: the code was refused, ran out or belongs to a bound bot.
LoginEnds ==
    /\ core.login
    /\ core' = [core EXCEPT !.login = FALSE, !.status = "down"]
    /\ UNCHANGED <<disk, loops, callers, cutOff, bridgeVars, recordVars, events>>

\* Confirmed: confirm_login stores the credentials, with an empty cursor, and
\* the loop then takes the lock to say so.
ConfirmLogin ==
    /\ core.login /\ callers["login"].at = "idle"
    /\ disk' = [disk EXCEPT !.linked = TRUE, !.cursor = 0]
    /\ Calls("login", "confirmed")
    /\ UNCHANGED <<core, loops, cutOff, bridgeVars, recordVars, events>>

LoginConfirmed ==
    /\ callers["login"].at = "confirmed"
    /\ core' = [core EXCEPT !.login = FALSE, !.account = TRUE, !.status = "connected"]
    /\ Calls("login", "spawn")
    /\ UNCHANGED <<disk, loops, cutOff, bridgeVars, recordVars, events>>

\* disconnect: teardown_tasks_locked, then ilink_logout in a transaction.  An
\* aborted loop that has its answer may still take the lock before it ends.
Disconnect ==
    /\ "disconnect" \in Ways
    /\ callers["disconnect"].at = "idle"
    /\ core' = [core EXCEPT !.cancelled = @ \cup {core.generation}, !.task = 0, !.login = FALSE,
                            !.status = "down", !.account = FALSE]
    /\ \/ loops' = [g \in Loops |-> IF g = core.task THEN [NoLoop EXCEPT !.at = "done"]
                                    ELSE loops[g]]
       \/ /\ core.task # 0 /\ loops[core.task].at = "answered"
          /\ loops' = loops
    /\ \E kept \in {callers["login"], Idle} :
          callers' = [callers EXCEPT !["disconnect"].at =
                         IF core.account \/ disk.linked THEN "logout" ELSE "idle",
                                     !["login"] = kept]
    /\ cutOff' = TRUE
    /\ Occurs
    /\ UNCHANGED <<disk, bridgeVars, recordVars>>

Logout ==
    /\ callers["disconnect"].at = "logout"
    /\ disk' = [linked |-> FALSE, cursor |-> 0, seen |-> {}]
    /\ excused' = [m \in Numbers |-> excused[m] + IF m \in disk.seen THEN 1 ELSE 0]
    /\ Calls("disconnect", "idle")
    /\ UNCHANGED <<core, loops, cutOff, bridgeVars, handed, served, lost, events>>

-----------------------------------------------------------------------------
\* sync_loop.  Each section takes the lock anew; only the first and the one
\* that delivers a page look at the generation.
At(g, at) == loops[g].at = at
Goes(g, at) == loops' = [loops EXCEPT ![g] = [at |-> at, page |-> NoPage]]

LoopReads(g) ==
    /\ At(g, "top")
    /\ IF g \in core.cancelled \/ core.generation # g \/ ~core.account \/ ~disk.linked
       THEN Goes(g, "done")
       ELSE loops' = [loops EXCEPT ![g] = [at |-> "polling",
                                           page |-> [next |-> core.wire + 1, last |-> core.wire,
                                                     buf |-> core.wire]]]
    /\ UNCHANGED <<disk, core, callers, cutOff, bridgeVars, recordVars, events>>

\* The credentials cannot be unsealed, which the status says, or not be read from
\* the store, which ends the loop as if none were linked and says nothing.
LoopCannotRead(g) ==
    /\ At(g, "top") /\ g \notin core.cancelled /\ core.generation = g /\ core.account /\ disk.linked
    /\ \/ "seal" \in Ways /\ core' = [core EXCEPT !.status = "down"]
       \/ "store" \in Ways /\ core' = core
    /\ Goes(g, "done") /\ cutOff' = TRUE
    /\ Occurs
    /\ UNCHANGED <<disk, callers, bridgeVars, recordVars>>

\* getupdates answers with some of what follows the cursor it was given; what the
\* server got later, or keeps back, comes with a later page.
LoopAnswered(g) ==
    /\ At(g, "polling")
    /\ \E last \in loops[g].page.next .. Messages :
          loops' = [loops EXCEPT ![g].at = "answered", ![g].page.last = last, ![g].page.buf = last]
    /\ UNCHANGED <<disk, core, callers, cutOff, bridgeVars, recordVars, events>>

\* An answer without get_updates_buf: the client puts the one it sent in its place.
LoopAnsweredBare(g) ==
    /\ "bare" \in Ways
    /\ At(g, "polling")
    /\ \E last \in loops[g].page.next .. Messages :
          loops' = [loops EXCEPT ![g].at = "answered", ![g].page.last = last]
    /\ Occurs
    /\ UNCHANGED <<disk, core, callers, cutOff, bridgeVars, recordVars>>

\* Nothing new, a time-out, lost packets or the cancellation.
LoopQuiet(g) ==
    /\ At(g, "polling")
    /\ core' = [core EXCEPT !.status = IF @ = "backing_off" THEN "connected" ELSE @]
    /\ Goes(g, IF g \in core.cancelled THEN "done" ELSE "top")
    /\ UNCHANGED <<disk, callers, cutOff, bridgeVars, recordVars, events>>

LoopBacksOff(g) ==
    /\ At(g, "polling")
    /\ core' = [core EXCEPT !.status = IF @ = "connected" THEN "backing_off" ELSE @]
    /\ Goes(g, IF g \in core.cancelled THEN "done" ELSE "top")
    /\ UNCHANGED <<disk, callers, cutOff, bridgeVars, recordVars, events>>

LoopExpires(g) ==
    /\ "expire" \in Ways
    /\ At(g, "polling")
    /\ core' = [core EXCEPT !.status = "down"]
    /\ Goes(g, "done") /\ cutOff' = TRUE
    /\ Occurs
    /\ UNCHANGED <<disk, callers, bridgeVars, recordVars>>

\* Variant: a superseded loop drops its page but moves the cursor over it.
SupersededMovesCursor(g) ==
    /\ At(g, "answered")
    /\ core' = [core EXCEPT !.wire = loops[g].page.buf, !.status = "connected"]
    /\ IF core.generation = g
       THEN pages' = Append(pages, loops[g].page) /\ Goes(g, "top")
       ELSE pages' = pages /\ Goes(g, "done")
    /\ UNCHANGED <<disk, callers, cutOff, desk, prompts, refused, recordVars, events>>

\* The page goes to the bridge and the wire cursor to the page's, together.
LoopDelivers(g) ==
    /\ At(g, "answered")
    /\ IF core.generation = g
       THEN /\ core' = [core EXCEPT !.wire = loops[g].page.buf, !.status = "connected"]
            /\ pages' = Append(pages, loops[g].page)
            /\ Goes(g, "top")
       ELSE Goes(g, "done") /\ UNCHANGED <<core, pages>>
    /\ UNCHANGED <<disk, callers, cutOff, desk, prompts, refused, recordVars, events>>

-----------------------------------------------------------------------------
\* page_loop drops a page that comes when no account is linked any more.
TakePage ==
    /\ Left(desk) = {} /\ pages # <<>>
    /\ pages' = Tail(pages)
    /\ IF core.account
       THEN /\ desk' = [next |-> Head(pages).next, last |-> Head(pages).last,
                        buf |-> Head(pages).buf, handed |-> FALSE]
            /\ lost' = lost
       ELSE lost' = lost \cup Left(Head(pages)) /\ desk' = desk
    /\ UNCHANGED <<disk, linkVars, prompts, refused, handed, served, excused, events>>

Current == desk.next
Advanced == IF desk.next = desk.last THEN NewDesk
            ELSE [desk EXCEPT !.next = @ + 1, !.handed = FALSE]

\* process_message of a message that was recorded before.
SkipDuplicate ==
    /\ Left(desk) # {} /\ ~desk.handed /\ Current \in disk.seen
    /\ desk' = Advanced
    /\ UNCHANGED <<disk, linkVars, pages, prompts, refused, recordVars, events>>

\* Rate limited, out of bounds, an echo or an empty message: no record is made.
RefuseMessage ==
    /\ "refuse" \in Ways
    /\ Left(desk) # {} /\ ~desk.handed
    /\ desk' = Advanced /\ refused' = refused \cup {Current}
    /\ Occurs
    /\ UNCHANGED <<disk, linkVars, pages, prompts, recordVars>>

\* The effect comes first: a reply to the peer, or the prompt's way to the router.
Handed ==
    /\ desk' = [desk EXCEPT !.handed = TRUE]
    /\ handed' = [handed EXCEPT ![Current] = @ + 1]
    /\ IF Current \in Strangers \cup Unreadable
       THEN served' = served \cup {Current} /\ prompts' = prompts
       ELSE prompts' = Append(prompts, Current) /\ served' = served
    /\ UNCHANGED <<disk, linkVars, pages, refused, lost>>

\* Variant: the dedupe key is not looked up.
HandUnseen ==
    /\ Left(desk) # {} /\ ~desk.handed
    /\ Handed
    /\ UNCHANGED <<excused, events>>

HandMessage ==
    /\ Left(desk) # {} /\ ~desk.handed /\ Current \notin disk.seen
    /\ Handed
    /\ UNCHANGED <<excused, events>>

\* The key cannot be looked up: a stranger is told (again), anybody else's
\* message is skipped.
LookupFails ==
    /\ "store" \in Ways
    /\ Left(desk) # {} /\ ~desk.handed
    /\ IF Current \in Strangers
       THEN /\ Handed
            /\ excused' = [excused EXCEPT ![Current] = IF Current \in disk.seen THEN @ + 1 ELSE @]
       ELSE /\ desk' = Advanced /\ refused' = refused \cup {Current}
            /\ UNCHANGED <<disk, linkVars, pages, prompts, recordVars>>
    /\ Occurs

\* commit_ilink_inbound_message: the key, and the cursor of the whole page, unless
\* the key is there.
CommitMessage ==
    /\ desk.handed
    /\ desk' = Advanced
    /\ disk' = [disk EXCEPT !.seen = @ \cup {Current},
                            !.cursor = IF disk.linked /\ Current \notin disk.seen THEN desk.buf ELSE @]
    /\ UNCHANGED <<linkVars, pages, prompts, refused, recordVars, events>>

CommitFails ==
    /\ desk.handed /\ Occurs
    /\ desk' = Advanced
    /\ excused' = [excused EXCEPT ![Current] = @ + 1]
    /\ UNCHANGED <<disk, linkVars, pages, prompts, refused, handed, served, lost>>

\* prompt_loop hands one prompt to the commands or to the router.
Dispatch ==
    /\ prompts # <<>>
    /\ prompts' = Tail(prompts)
    /\ served' = served \cup {Head(prompts)}
    /\ UNCHANGED <<disk, linkVars, pages, desk, refused, handed, excused, lost, events>>

-----------------------------------------------------------------------------
Calling(c) ==
    \/ SpawnPollLoop(c) \/ InsertPollTask(c) \/ RestoreOnStartup(c) \/ Restored(c)
    \/ c = "login" /\ LoginConfirmed
    \/ c = "disconnect" /\ Logout

Linking ==
    \/ \E c \in Callers : Calling(c) \/ RestoreFails(c)
    \/ Reconnect \/ StartLogin \/ CancelLogin \/ LoginEnds \/ ConfirmLogin \/ Disconnect

Polling ==
    \E g \in Loops : \/ LoopReads(g) \/ LoopCannotRead(g) \/ LoopAnswered(g)
                     \/ LoopAnsweredBare(g) \/ LoopQuiet(g)
                     \/ LoopBacksOff(g) \/ LoopExpires(g) \/ LoopDelivers(g)

Bridging ==
    \/ TakePage \/ SkipDuplicate \/ RefuseMessage \/ HandMessage \/ LookupFails
    \/ CommitMessage \/ CommitFails \/ Dispatch

WechatNext == Restart \/ Linking \/ Polling \/ Bridging

WechatSpec == WechatInit /\ [][WechatNext]_wechatVars

\* Calls and loops that can go on do so, and a server that is asked again and
\* again answers at last.  Nothing is assumed of logins, reconnects and stops.
WechatFairness ==
    /\ \A c \in Callers : WF_wechatVars(Calling(c))
    /\ \A g \in Loops : /\ WF_wechatVars(LoopReads(g) \/ LoopDelivers(g))
                        /\ SF_wechatVars(LoopAnswered(g))
    /\ WF_wechatVars(Bridging)

FairWechatSpec == WechatSpec /\ WechatFairness

-----------------------------------------------------------------------------
DiskType == [linked : BOOLEAN, cursor : 0 .. Messages, seen : SUBSET Numbers]
CoreType == [account : BOOLEAN, status : Statuses, generation : 0 .. MaxLoops, task : 0 .. MaxLoops,
             cancelled : SUBSET (0 .. MaxLoops), wire : 0 .. Messages, login : BOOLEAN]
PageType == [next : 1 .. Messages + 1, last : 0 .. Messages, buf : 0 .. Messages]
LoopType == [at : {"none", "top", "polling", "answered", "done"}, page : PageType]
CallerType == [at : {"idle", "begin", "restored", "spawn", "insert", "confirmed", "logout"},
               loop : 0 .. MaxLoops]
DeskType == [next : 1 .. Messages + 1, last : 0 .. Messages, buf : 0 .. Messages, handed : BOOLEAN]

\* The types of the tables, of ServiceCore, and of what is under way.
WechatTypeOK ==
    /\ disk \in DiskType /\ core \in CoreType
    /\ loops \in [Loops -> LoopType] /\ callers \in [Callers -> CallerType] /\ cutOff \in BOOLEAN
    /\ pages \in Seq(PageType) /\ desk \in DeskType /\ prompts \in Seq(Numbers)
    /\ handed \in [Numbers -> Nat] /\ excused \in [Numbers -> Nat]
    /\ served \subseteq Numbers /\ refused \subseteq Numbers /\ lost \subseteq Numbers
    /\ events \in 0 .. MaxEvents

\* At most one dispatch ever (inbound.rs): pages fetched twice by loops that
\* replace each other, new logins that reset the cursor and restarts hand a
\* message on again only if the record of the last time was lost, or, for a
\* stranger's, could not be read.
HandledOnce == \A m \in Numbers : handed[m] <= 1 + excused[m]

\* Only a stop or the end of the login loses a message: whatever the wire
\* cursor has passed was handed on or refused (as one is whose dedupe key cannot
\* be looked up), or is on its way in memory.
NothingIsSkipped ==
    \A m \in 1 .. core.wire : m \in served \cup refused \cup lost \cup InMemory

\* While the login lasts, and the store lets the loop read it, every message is
\* handed on or refused in the end.
EveryMessageIsServed ==
    disk.linked ~> cutOff \/ Numbers \subseteq served \cup refused \cup lost

\* A status of connected means that somebody polls (service.rs:63).
ConnectedPolls ==
    core.status = "connected" =>
        \/ \E g \in Loops : g = core.generation /\ loops[g].at \notin {"none", "done"}
        \/ \E c \in Callers : callers[c].at \in {"spawn"} /\ core.task = 0

=============================================================================
