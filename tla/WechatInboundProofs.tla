------------------------- MODULE WechatInboundProofs -------------------------
(***************************************************************************)
(* Proofs about WechatInbound for any number of messages, poll loops and   *)
(* failures: no message is handed on again while the record of the last    *)
(* time stands, and no cursor passes a message that nobody has.            *)
(***************************************************************************)
EXTENDS WechatInbound, TLAPS

-----------------------------------------------------------------------------
(* The inductive invariant. *)

\* What a message is once the bridge is through with it, and what it is once
\* the channel to the bridge has it.
Settled == served \cup lost \cup Entries(prompts)
Accounted == served \cup refused \cup lost \cup InMemory

\* The effect of the message at hand comes before its record.
DeskHolds ==
    desk.handed => desk.next \in Settled /\ desk.next <= desk.last

\* Every position that becomes a cursor has all messages up to it behind it: the
\* one in memory, the stored one, the one a loop asks from, and the ends of pages.
CursorsHold ==
    /\ 1 .. core.wire \subseteq Accounted /\ 1 .. disk.cursor \subseteq Accounted
    /\ \A g \in Loops : loops[g].at \in {"polling", "answered"} =>
                           1 .. loops[g].page.next - 1 \subseteq Accounted
    /\ \A p \in Entries(pages) : 1 .. p.last \subseteq Accounted
    /\ Left(desk) # {} => 1 .. desk.last \subseteq Accounted
    /\ disk.seen \subseteq Settled

\* The cursor that comes with a page is not beyond its end; the one a loop sent is
\* before the messages it asked for.
BufsHold ==
    /\ \A g \in Loops : /\ loops[g].at = "polling" => loops[g].page.buf < loops[g].page.next
                        /\ loops[g].at = "answered" => loops[g].page.buf <= loops[g].page.last
    /\ \A p \in Entries(pages) : p.buf <= p.last
    /\ Left(desk) # {} => desk.buf <= desk.last

\* A hand-over is recorded, about to be recorded, or its record was lost or not read.
HandedCounted ==
    \A m \in Numbers :
        handed[m] <= excused[m] +
                     (IF m \in disk.seen \/ (desk.handed /\ desk.next = m) THEN 1 ELSE 0)

WechatInv == WechatTypeOK /\ DeskHolds /\ CursorsHold /\ BufsHold /\ HandedCounted

-----------------------------------------------------------------------------
(* The two ends of process_message that make no record at once. *)

\* The message takes effect, or is left without any.
Hands == Left(desk) # {} /\ ~desk.handed /\ Handed
Skips ==
    /\ Left(desk) # {} /\ ~desk.handed
    /\ desk' = Advanced /\ refused' = refused \cup {Current}
    /\ UNCHANGED <<disk, linkVars, pages, prompts, recordVars>>

LEMMA HandWays ==
    /\ HandMessage => Hands
    /\ RefuseMessage => Skips
    /\ LookupFails => Hands \/ Skips
  BY DEF HandMessage, RefuseMessage, LookupFails, Hands, Skips

-----------------------------------------------------------------------------
(* The channels. *)

LEMMA EntriesAppended ==
    ASSUME NEW CONSTANT S, NEW CONSTANT s \in Seq(S), NEW CONSTANT x \in S
    PROVE  Entries(Append(s, x)) = Entries(s) \cup {x}
  <1>1. Len(Append(s, x)) = Len(s) + 1 /\ Len(s) \in Nat
    OBVIOUS
  <1>2. \A i \in 1 .. Len(s) : Append(s, x)[i] = s[i]
    OBVIOUS
  <1>3. Append(s, x)[Len(s) + 1] = x
    OBVIOUS
  <1>4. Entries(Append(s, x)) \subseteq Entries(s) \cup {x}
    BY <1>1, <1>2, <1>3 DEF Entries
  <1>5. Entries(s) \subseteq Entries(Append(s, x))
    BY <1>1, <1>2 DEF Entries
  <1>6. x \in Entries(Append(s, x))
    <2>1. Len(s) + 1 \in 1 .. Len(Append(s, x))
      BY <1>1
    <2>2. QED
      BY <1>3, <2>1 DEF Entries
  <1>7. QED
    BY <1>4, <1>5, <1>6

LEMMA EntriesTaken ==
    ASSUME NEW CONSTANT S, NEW CONSTANT s \in Seq(S), s # <<>>
    PROVE  /\ Entries(s) = Entries(Tail(s)) \cup {Head(s)} /\ Head(s) \in S /\ Tail(s) \in Seq(S)
  <1>1. Len(s) \in Nat \ {0} /\ Head(s) = s[1] /\ Len(Tail(s)) = Len(s) - 1 /\ Tail(s) \in Seq(S)
    OBVIOUS
  <1>2. \A i \in 1 .. Len(s) - 1 : Tail(s)[i] = s[i + 1]
    OBVIOUS
  <1>3. Entries(s) \subseteq Entries(Tail(s)) \cup {Head(s)}
    <2>1. SUFFICES ASSUME NEW CONSTANT i \in 1 .. Len(s), s[i] # Head(s)
                   PROVE  s[i] \in Entries(Tail(s))
      BY DEF Entries
    <2>2. i - 1 \in 1 .. Len(s) - 1 /\ (i - 1) + 1 = i
      BY <1>1, <2>1
    <2>3. s[i] = Tail(s)[i - 1]
      BY <1>2, <2>2
    <2>4. QED
      BY <1>1, <2>2, <2>3 DEF Entries
  <1>4. Entries(Tail(s)) \subseteq Entries(s)
    <2>1. SUFFICES ASSUME NEW CONSTANT i \in 1 .. Len(s) - 1
                   PROVE  Tail(s)[i] \in Entries(s)
      BY <1>1 DEF Entries
    <2>2. i + 1 \in 1 .. Len(s) /\ Tail(s)[i] = s[i + 1]
      BY <1>1, <1>2
    <2>3. QED
      BY <2>2 DEF Entries
  <1>5. Head(s) \in Entries(s)
    BY <1>1 DEF Entries
  <1>6. QED
    BY <1>1, <1>3, <1>4, <1>5

-----------------------------------------------------------------------------
(* Types. *)

LEMMA FreshTypes ==
    /\ FreshCore \in CoreType /\ NoLoop \in LoopType /\ Idle \in CallerType /\ NewDesk \in DeskType
    /\ [Idle EXCEPT !.at = "begin"] \in CallerType /\ [NoLoop EXCEPT !.at = "done"] \in LoopType
  BY WechatAssumption DEF FreshCore, NoLoop, NoPage, Idle, NewDesk, CoreType, LoopType, PageType,
     CallerType, DeskType, Statuses

LEMMA CallTypes ==
    ASSUME WechatTypeOK, NEW CONSTANT c \in Callers
    PROVE  \A at \in {"idle", "begin", "restored", "spawn", "confirmed", "logout"} :
              Calls(c, at) => callers' \in [Callers -> CallerType]
  BY DEF Calls, WechatTypeOK, CallerType

LEMMA LoopTypes ==
    ASSUME WechatTypeOK, NEW CONSTANT g \in Loops
    PROVE  \A at \in {"top", "done"} : Goes(g, at) => loops' \in [Loops -> LoopType]
  BY WechatAssumption DEF Goes, WechatTypeOK, LoopType, NoPage, PageType

LEMMA CutTypes ==
    ASSUME WechatTypeOK, CutLogin
    PROVE  callers' \in [Callers -> CallerType] /\ cutOff' \in BOOLEAN
  BY FreshTypes DEF CutLogin, WechatTypeOK, Callers

LEMMA AdvancedTypes ==
    ASSUME WechatTypeOK, Left(desk) # {}
    PROVE  Advanced \in DeskType /\ Current \in Numbers
  <1>1. desk \in DeskType /\ desk.next <= desk.last
    BY DEF Left, WechatTypeOK, DeskType
  <1>2. Current \in Numbers
    BY <1>1, WechatAssumption DEF Current, Numbers, DeskType
  <1>3. CASE desk.next = desk.last
    BY <1>2, <1>3, FreshTypes DEF Advanced
  <1>4. CASE desk.next # desk.last
    <2>1. desk.next + 1 \in 1 .. Messages + 1
      BY <1>1, <1>4, WechatAssumption DEF DeskType
    <2>2. [desk EXCEPT !.next = @ + 1, !.handed = FALSE] \in DeskType
      BY <1>1, <2>1 DEF DeskType
    <2>3. QED
      BY <1>2, <1>4, <2>2 DEF Advanced
  <1>5. QED
    BY <1>3, <1>4

\* The tables, ServiceCore and the channels stay well formed.
LEMMA WechatTypesStay ==
    ASSUME WechatTypeOK, DeskHolds, WechatNext
    PROVE  WechatTypeOK'
  <1> USE WechatAssumption
  <1>1. ASSUME Restart PROVE WechatTypeOK'
    <2>1. core' \in CoreType
      BY <1>1, FreshTypes DEF Restart, WechatTypeOK
    <2>2. loops' \in [Loops -> LoopType]
      BY <1>1, FreshTypes DEF Restart, WechatTypeOK
    <2>3. callers' \in [Callers -> CallerType]
      BY <1>1, FreshTypes DEF Restart, WechatTypeOK
    <2>4. pages' \in Seq(PageType)
      BY <1>1 DEF Restart, WechatTypeOK
    <2>5. desk' \in DeskType
      BY <1>1, FreshTypes DEF Restart, WechatTypeOK
    <2>6. prompts' \in Seq(Numbers)
      BY <1>1 DEF Restart, WechatTypeOK
    <2>7. lost' \subseteq Numbers
      <3>1. InMemory \subseteq Numbers
        <4>1. \A p \in Entries(pages) : Left(p) \subseteq Numbers
          <5>1. \A p \in Entries(pages) : p \in PageType
            BY DEF Entries, WechatTypeOK
          <5>2. \A p \in PageType : Left(p) \subseteq Numbers
            BY DEF Left, Numbers, PageType
          <5>3. QED
            BY <5>1, <5>2
        <4>2. Left(desk) \subseteq Numbers
          BY DEF Left, Numbers, WechatTypeOK, DeskType
        <4>3. Entries(prompts) \subseteq Numbers
          BY DEF Entries, WechatTypeOK
        <4>4. QED
          BY <4>1, <4>2, <4>3 DEF InMemory, InPages
      <3>2. QED
        BY <1>1, <3>1 DEF Restart, WechatTypeOK
    <2>8. excused' \in [Numbers -> Nat]
      <3>1. desk.handed => desk.next \in Numbers
        BY DEF DeskHolds, Numbers, WechatTypeOK, DeskType
      <3>2. QED
        BY <1>1, <3>1 DEF Restart, WechatTypeOK
    <2>9. cutOff' \in BOOLEAN
      BY <1>1 DEF Restart, WechatTypeOK
    <2>10. events' \in 0 .. MaxEvents
      BY <1>1 DEF Restart, Occurs, WechatTypeOK
    <2>11. QED
      BY <1>1, <2>1, <2>2, <2>3, <2>4, <2>5, <2>6, <2>7, <2>8, <2>9, <2>10 DEF Restart, WechatTypeOK, linkVars, bridgeVars, recordVars
  <1>2. ASSUME NEW CONSTANT c \in Callers, SpawnPollLoop(c) PROVE WechatTypeOK'
    <2>1. core' \in CoreType
      <3>1. core \in CoreType
        BY DEF WechatTypeOK
      <3>2. core' = core \/ (/\ core.generation < MaxLoops
                            /\ core' = [core EXCEPT !.generation = core.generation + 1])
        BY <1>2 DEF SpawnPollLoop
      <3>3. QED
        BY <3>1, <3>2 DEF CoreType
    <2>2. loops' \in [Loops -> LoopType]
      <3>1. loops' = loops \/ loops' = [loops EXCEPT ![core.generation + 1].at = "top"]
        BY <1>2 DEF SpawnPollLoop
      <3>2. QED
        BY <3>1 DEF LoopType, WechatTypeOK
    <2>3. callers' \in [Callers -> CallerType]
      <3>1. \/ Calls(c, "idle")
            \/ /\ core.generation < MaxLoops
               /\ callers' = [callers EXCEPT ![c] = [at |-> "insert", loop |-> core.generation + 1]]
        BY <1>2 DEF SpawnPollLoop
      <3>2. core.generation < MaxLoops => core.generation + 1 \in 0 .. MaxLoops
        BY DEF WechatTypeOK, CoreType
      <3>3. CASE Calls(c, "idle")
        BY <3>3, CallTypes
      <3>4. CASE ~Calls(c, "idle")
        <4>1. [at |-> "insert", loop |-> core.generation + 1] \in CallerType
          BY <3>1, <3>2, <3>4 DEF CallerType
        <4>2. QED
          BY <3>1, <3>4, <4>1 DEF WechatTypeOK
      <3>5. QED
        BY <3>3, <3>4
    <2>4. QED
      BY <1>2, <2>1, <2>2, <2>3 DEF SpawnPollLoop, WechatTypeOK, linkVars, bridgeVars, recordVars
  <1>3. ASSUME NEW CONSTANT c \in Callers, InsertPollTask(c) PROVE WechatTypeOK'
    <2>1. core' \in CoreType
      BY <1>3 DEF InsertPollTask, CoreType, CallerType, WechatTypeOK
    <2>2. callers' \in [Callers -> CallerType]
      BY <1>3, FreshTypes DEF InsertPollTask, WechatTypeOK
    <2>3. QED
      BY <1>3, <2>1, <2>2 DEF InsertPollTask, WechatTypeOK, linkVars, bridgeVars, recordVars
  <1>4. ASSUME NEW CONSTANT c \in Callers, RestoreOnStartup(c) PROVE WechatTypeOK'
    <2>1. core' \in CoreType
      BY <1>4 DEF RestoreOnStartup, CoreType, DiskType, WechatTypeOK
    <2>2. callers' \in [Callers -> CallerType]
      BY <1>4, CallTypes DEF RestoreOnStartup, WechatTypeOK
    <2>3. QED
      BY <1>4, <2>1, <2>2 DEF RestoreOnStartup, WechatTypeOK, linkVars, bridgeVars, recordVars
  <1>5. ASSUME NEW CONSTANT c \in Callers, RestoreFails(c) PROVE WechatTypeOK'
    <2>1. callers' \in [Callers -> CallerType]
      BY <1>5, CallTypes DEF RestoreFails, WechatTypeOK
    <2>2. cutOff' \in BOOLEAN
      BY <1>5 DEF RestoreFails, WechatTypeOK
    <2>3. events' \in 0 .. MaxEvents
      BY <1>5 DEF RestoreFails, Occurs, WechatTypeOK
    <2>4. QED
      BY <1>5, <2>1, <2>2, <2>3 DEF RestoreFails, WechatTypeOK, linkVars, bridgeVars, recordVars
  <1>6. ASSUME NEW CONSTANT c \in Callers, Restored(c) PROVE WechatTypeOK'
    <2>1. core' \in CoreType
      BY <1>6 DEF Restored, CoreType, Statuses, WechatTypeOK
    <2>2. callers' \in [Callers -> CallerType]
      BY <1>6, CallTypes DEF Restored, WechatTypeOK
    <2>3. QED
      BY <1>6, <2>1, <2>2 DEF Restored, WechatTypeOK, linkVars, bridgeVars, recordVars
  <1>7. ASSUME Reconnect PROVE WechatTypeOK'
    <2>1. callers' \in [Callers -> CallerType]
      BY <1>7, CallTypes DEF Reconnect, Callers, WechatTypeOK
    <2>2. events' \in 0 .. MaxEvents
      BY <1>7 DEF Reconnect, Occurs, WechatTypeOK
    <2>3. QED
      BY <1>7, <2>1, <2>2 DEF Reconnect, WechatTypeOK, linkVars, bridgeVars, recordVars
  <1>8. ASSUME StartLogin PROVE WechatTypeOK'
    <2>1. core' \in CoreType
      BY <1>8 DEF StartLogin, CoreType, Statuses, WechatTypeOK
    <2>2. callers' \in [Callers -> CallerType]
      BY <1>8, CutTypes DEF StartLogin, WechatTypeOK
    <2>3. cutOff' \in BOOLEAN
      BY <1>8, CutTypes DEF StartLogin, WechatTypeOK
    <2>4. events' \in 0 .. MaxEvents
      BY <1>8 DEF StartLogin, Occurs, WechatTypeOK
    <2>5. QED
      BY <1>8, <2>1, <2>2, <2>3, <2>4 DEF StartLogin, WechatTypeOK, linkVars, bridgeVars, recordVars
  <1>9. ASSUME CancelLogin PROVE WechatTypeOK'
    <2>1. core' \in CoreType
      BY <1>9 DEF CancelLogin, CoreType, Statuses, WechatTypeOK
    <2>2. callers' \in [Callers -> CallerType]
      BY <1>9, CutTypes DEF CancelLogin, WechatTypeOK
    <2>3. cutOff' \in BOOLEAN
      BY <1>9, CutTypes DEF CancelLogin, WechatTypeOK
    <2>4. events' \in 0 .. MaxEvents
      BY <1>9 DEF CancelLogin, Occurs, WechatTypeOK
    <2>5. QED
      BY <1>9, <2>1, <2>2, <2>3, <2>4 DEF CancelLogin, WechatTypeOK, linkVars, bridgeVars, recordVars
  <1>10. ASSUME LoginEnds PROVE WechatTypeOK'
    <2>1. core' \in CoreType
      BY <1>10 DEF LoginEnds, CoreType, Statuses, WechatTypeOK
    <2>2. QED
      BY <1>10, <2>1 DEF LoginEnds, WechatTypeOK, linkVars, bridgeVars, recordVars
  <1>11. ASSUME ConfirmLogin PROVE WechatTypeOK'
    <2>1. disk' \in DiskType
      <3>1. disk \in DiskType /\ disk' = [disk EXCEPT !.linked = TRUE, !.cursor = 0]
        BY <1>11 DEF ConfirmLogin, WechatTypeOK
      <3>2. 0 \in 0 .. Messages
        OBVIOUS
      <3>3. QED
        BY <3>1, <3>2 DEF DiskType
    <2>2. callers' \in [Callers -> CallerType]
      BY <1>11, CallTypes DEF ConfirmLogin, Callers, WechatTypeOK
    <2>3. QED
      BY <1>11, <2>1, <2>2 DEF ConfirmLogin, WechatTypeOK, linkVars, bridgeVars, recordVars
  <1>12. ASSUME LoginConfirmed PROVE WechatTypeOK'
    <2>1. core' \in CoreType
      BY <1>12 DEF LoginConfirmed, CoreType, Statuses, WechatTypeOK
    <2>2. callers' \in [Callers -> CallerType]
      BY <1>12, CallTypes DEF LoginConfirmed, Callers, WechatTypeOK
    <2>3. QED
      BY <1>12, <2>1, <2>2 DEF LoginConfirmed, WechatTypeOK, linkVars, bridgeVars, recordVars
  <1>13. ASSUME Disconnect PROVE WechatTypeOK'
    <2>1. core' \in CoreType
      <3>1. /\ core \in CoreType /\ core.cancelled \cup {core.generation} \in SUBSET (0 .. MaxLoops)
            /\ 0 \in 0 .. MaxLoops /\ "down" \in Statuses
        BY DEF WechatTypeOK, CoreType, Statuses
      <3>2. core' = [core EXCEPT !.cancelled = core.cancelled \cup {core.generation}, !.task = 0,
                                 !.login = FALSE, !.status = "down", !.account = FALSE]
        BY <1>13 DEF Disconnect
      <3>3. QED
        BY <3>1, <3>2 DEF CoreType
    <2>2. loops' \in [Loops -> LoopType]
      BY <1>13, FreshTypes DEF Disconnect, WechatTypeOK
    <2>3. callers' \in [Callers -> CallerType]
      <3>1. PICK kept \in {callers["login"], Idle} :
               callers' = [callers EXCEPT !["disconnect"].at =
                             IF core.account \/ disk.linked THEN "logout" ELSE "idle",
                                          !["login"] = kept]
        BY <1>13 DEF Disconnect
      <3>2. kept \in CallerType /\ "login" \in Callers /\ "disconnect" \in Callers
        BY FreshTypes DEF WechatTypeOK, Callers
      <3>3. QED
        BY <3>1, <3>2 DEF WechatTypeOK, CallerType
    <2>4. cutOff' \in BOOLEAN
      BY <1>13 DEF Disconnect, WechatTypeOK
    <2>5. events' \in 0 .. MaxEvents
      BY <1>13 DEF Disconnect, Occurs, WechatTypeOK
    <2>6. QED
      BY <1>13, <2>1, <2>2, <2>3, <2>4, <2>5 DEF Disconnect, WechatTypeOK, linkVars, bridgeVars, recordVars
  <1>14. ASSUME Logout PROVE WechatTypeOK'
    <2>1. disk' \in DiskType
      BY <1>14 DEF Logout, DiskType, WechatTypeOK
    <2>2. callers' \in [Callers -> CallerType]
      BY <1>14, CallTypes DEF Logout, Callers, WechatTypeOK
    <2>3. excused' \in [Numbers -> Nat]
      BY <1>14 DEF Logout, Numbers, DiskType, WechatTypeOK
    <2>4. QED
      BY <1>14, <2>1, <2>2, <2>3 DEF Logout, WechatTypeOK, linkVars, bridgeVars, recordVars
  <1>15. ASSUME NEW CONSTANT g \in Loops, LoopReads(g) PROVE WechatTypeOK'
    <2>1. loops' \in [Loops -> LoopType]
      <3>1. CASE Goes(g, "done")
        BY <3>1, LoopTypes
      <3>2. CASE ~Goes(g, "done")
        <4>1. loops' = [loops EXCEPT ![g] = [at |-> "polling",
                                              page |-> [next |-> core.wire + 1, last |-> core.wire,
                                                        buf |-> core.wire]]]
          BY <1>15, <3>2 DEF LoopReads
        <4>2. [next |-> core.wire + 1, last |-> core.wire, buf |-> core.wire] \in PageType
          BY DEF WechatTypeOK, CoreType, PageType
        <4>3. QED
          BY <4>1, <4>2 DEF WechatTypeOK, LoopType
      <3>3. QED
        BY <3>1, <3>2
    <2>2. QED
      BY <1>15, <2>1 DEF LoopReads, WechatTypeOK, linkVars, bridgeVars, recordVars
  <1>16. ASSUME NEW CONSTANT g \in Loops, LoopCannotRead(g) PROVE WechatTypeOK'
    <2>1. core' \in CoreType
      BY <1>16 DEF LoopCannotRead, CoreType, Statuses, WechatTypeOK
    <2>2. loops' \in [Loops -> LoopType]
      BY <1>16, LoopTypes DEF LoopCannotRead, WechatTypeOK
    <2>3. cutOff' \in BOOLEAN
      BY <1>16 DEF LoopCannotRead, WechatTypeOK
    <2>4. events' \in 0 .. MaxEvents
      BY <1>16 DEF LoopCannotRead, Occurs, WechatTypeOK
    <2>5. QED
      BY <1>16, <2>1, <2>2, <2>3, <2>4 DEF LoopCannotRead, WechatTypeOK, linkVars, bridgeVars, recordVars
  <1>17. ASSUME NEW CONSTANT g \in Loops, LoopAnswered(g) PROVE WechatTypeOK'
    <2>1. loops' \in [Loops -> LoopType]
      <3>1. PICK last \in loops[g].page.next .. Messages :
               loops' = [loops EXCEPT ![g].at = "answered", ![g].page.last = last, ![g].page.buf = last]
        BY <1>17 DEF LoopAnswered
      <3>2. loops[g] \in LoopType /\ last \in 0 .. Messages
        BY DEF WechatTypeOK, LoopType, PageType
      <3>3. [loops[g] EXCEPT !.at = "answered", !.page.last = last, !.page.buf = last] \in LoopType
        BY <3>2 DEF LoopType, PageType
      <3>4. loops' = [loops EXCEPT ![g] = [loops[g] EXCEPT !.at = "answered", !.page.last = last,
                                                           !.page.buf = last]]
        BY <3>1 DEF WechatTypeOK
      <3>5. QED
        BY <3>3, <3>4 DEF WechatTypeOK
    <2>2. QED
      BY <1>17, <2>1 DEF LoopAnswered, WechatTypeOK, linkVars, bridgeVars, recordVars
  <1>30. ASSUME NEW CONSTANT g \in Loops, LoopAnsweredBare(g) PROVE WechatTypeOK'
    <2>1. loops' \in [Loops -> LoopType]
      <3>1. PICK last \in loops[g].page.next .. Messages :
               loops' = [loops EXCEPT ![g].at = "answered", ![g].page.last = last]
        BY <1>30 DEF LoopAnsweredBare
      <3>2. loops[g] \in LoopType /\ last \in 0 .. Messages
        BY DEF WechatTypeOK, LoopType, PageType
      <3>3. [loops[g] EXCEPT !.at = "answered", !.page.last = last] \in LoopType
        BY <3>2 DEF LoopType, PageType
      <3>4. loops' = [loops EXCEPT ![g] = [loops[g] EXCEPT !.at = "answered", !.page.last = last]]
        BY <3>1 DEF WechatTypeOK
      <3>5. QED
        BY <3>3, <3>4 DEF WechatTypeOK
    <2>2. events' \in 0 .. MaxEvents
      BY <1>30 DEF LoopAnsweredBare, Occurs, WechatTypeOK
    <2>3. QED
      BY <1>30, <2>1, <2>2 DEF LoopAnsweredBare, WechatTypeOK, linkVars, bridgeVars, recordVars
  <1>18. ASSUME NEW CONSTANT g \in Loops, LoopQuiet(g) PROVE WechatTypeOK'
    <2>1. core' \in CoreType
      BY <1>18 DEF LoopQuiet, CoreType, Statuses, WechatTypeOK
    <2>2. loops' \in [Loops -> LoopType]
      BY <1>18, LoopTypes DEF LoopQuiet, WechatTypeOK
    <2>3. QED
      BY <1>18, <2>1, <2>2 DEF LoopQuiet, WechatTypeOK, linkVars, bridgeVars, recordVars
  <1>19. ASSUME NEW CONSTANT g \in Loops, LoopBacksOff(g) PROVE WechatTypeOK'
    <2>1. core' \in CoreType
      BY <1>19 DEF LoopBacksOff, CoreType, Statuses, WechatTypeOK
    <2>2. loops' \in [Loops -> LoopType]
      BY <1>19, LoopTypes DEF LoopBacksOff, WechatTypeOK
    <2>3. QED
      BY <1>19, <2>1, <2>2 DEF LoopBacksOff, WechatTypeOK, linkVars, bridgeVars, recordVars
  <1>20. ASSUME NEW CONSTANT g \in Loops, LoopExpires(g) PROVE WechatTypeOK'
    <2>1. core' \in CoreType
      BY <1>20 DEF LoopExpires, CoreType, Statuses, WechatTypeOK
    <2>2. loops' \in [Loops -> LoopType]
      BY <1>20, LoopTypes DEF LoopExpires, WechatTypeOK
    <2>3. cutOff' \in BOOLEAN
      BY <1>20 DEF LoopExpires, WechatTypeOK
    <2>4. events' \in 0 .. MaxEvents
      BY <1>20 DEF LoopExpires, Occurs, WechatTypeOK
    <2>5. QED
      BY <1>20, <2>1, <2>2, <2>3, <2>4 DEF LoopExpires, WechatTypeOK, linkVars, bridgeVars, recordVars
  <1>21. ASSUME NEW CONSTANT g \in Loops, LoopDelivers(g) PROVE WechatTypeOK'
    <2>1. core' \in CoreType
      BY <1>21 DEF LoopDelivers, CoreType, Statuses, LoopType, PageType, WechatTypeOK
    <2>2. pages' \in Seq(PageType)
      <3>1. loops[g].page \in PageType
        BY DEF WechatTypeOK, LoopType
      <3>0. pages \in Seq(PageType)
        BY DEF WechatTypeOK
      <3>2. pages' = pages \/ pages' = Append(pages, loops[g].page)
        BY <1>21 DEF LoopDelivers
      <3>3. QED
        BY <3>0, <3>1, <3>2
    <2>3. loops' \in [Loops -> LoopType]
      BY <1>21, LoopTypes DEF LoopDelivers, WechatTypeOK
    <2>4. QED
      BY <1>21, <2>1, <2>2, <2>3 DEF LoopDelivers, WechatTypeOK, linkVars, bridgeVars, recordVars
  <1>22. ASSUME TakePage PROVE WechatTypeOK'
    <2>1. pages' \in Seq(PageType)
      BY <1>22, EntriesTaken DEF TakePage, WechatTypeOK
    <2>2. desk' \in DeskType
      <3>1. Head(pages) \in PageType
        BY <1>22, EntriesTaken DEF TakePage, WechatTypeOK
      <3>2. [next |-> Head(pages).next, last |-> Head(pages).last, buf |-> Head(pages).buf,
             handed |-> FALSE] \in DeskType
        BY <3>1 DEF DeskType, PageType
      <3>3. QED
        BY <1>22, <3>2 DEF TakePage, WechatTypeOK
    <2>3. lost' \subseteq Numbers
      <3>1. Head(pages) \in PageType
        BY <1>22, EntriesTaken DEF TakePage, WechatTypeOK
      <3>2. Left(Head(pages)) \subseteq Numbers
        BY <3>1 DEF Left, Numbers, PageType
      <3>3. QED
        BY <1>22, <3>2 DEF TakePage, WechatTypeOK
    <2>4. QED
      BY <1>22, <2>1, <2>2, <2>3 DEF TakePage, WechatTypeOK, linkVars, bridgeVars, recordVars
  <1>23. ASSUME SkipDuplicate PROVE WechatTypeOK'
    <2>1. desk' \in DeskType
      BY <1>23, AdvancedTypes DEF SkipDuplicate, WechatTypeOK
    <2>2. QED
      BY <1>23, <2>1 DEF SkipDuplicate, WechatTypeOK, linkVars, bridgeVars, recordVars
  <1>24. ASSUME RefuseMessage PROVE WechatTypeOK'
    <2>1. desk' \in DeskType
      BY <1>24, AdvancedTypes DEF RefuseMessage, WechatTypeOK
    <2>2. refused' \subseteq Numbers
      BY <1>24, AdvancedTypes DEF RefuseMessage, WechatTypeOK
    <2>3. events' \in 0 .. MaxEvents
      BY <1>24 DEF RefuseMessage, Occurs, WechatTypeOK
    <2>4. QED
      BY <1>24, <2>1, <2>2, <2>3 DEF RefuseMessage, WechatTypeOK, linkVars, bridgeVars, recordVars
  <1>25. ASSUME Hands PROVE
             /\ desk' \in DeskType /\ handed' \in [Numbers -> Nat] /\ prompts' \in Seq(Numbers)
             /\ served' \subseteq Numbers /\ UNCHANGED <<disk, linkVars, pages, refused, lost>>
    <2>1. desk' \in DeskType
      BY <1>25 DEF Hands, Handed, DeskType, WechatTypeOK
    <2>2. handed' \in [Numbers -> Nat]
      BY <1>25, AdvancedTypes DEF Hands, Handed, Current, WechatTypeOK
    <2>3. prompts' \in Seq(Numbers)
      <3>1. Current \in Numbers
        BY <1>25, AdvancedTypes DEF Hands
      <3>0. prompts \in Seq(Numbers)
        BY DEF WechatTypeOK
      <3>2. prompts' = prompts \/ prompts' = Append(prompts, Current)
        BY <1>25 DEF Hands, Handed
      <3>3. QED
        BY <3>0, <3>1, <3>2
    <2>4. served' \subseteq Numbers
      BY <1>25, AdvancedTypes DEF Hands, Handed, WechatTypeOK
    <2>5. QED
      BY <1>25, <2>1, <2>2, <2>3, <2>4 DEF Hands, Handed
  <1>31. CASE HandMessage
    BY <1>25, <1>31, HandWays DEF HandMessage, WechatTypeOK, linkVars
  <1>32. CASE LookupFails
    <2>1. events' \in 0 .. MaxEvents
      BY <1>32 DEF LookupFails, Occurs, WechatTypeOK
    <2>2. CASE Current \in Strangers
      <3>1. Hands
        BY <1>32, <2>2 DEF LookupFails, Hands
      <3>2. excused' \in [Numbers -> Nat]
        <4>1. Current \in Numbers
          BY <3>1, AdvancedTypes DEF Hands
        <4>2. \E n \in {excused[Current], excused[Current] + 1} :
                 excused' = [excused EXCEPT ![Current] = n]
          BY <1>32, <2>2 DEF LookupFails
        <4>3. QED
          BY <4>1, <4>2 DEF WechatTypeOK
      <3>3. QED
        BY <1>25, <2>1, <3>1, <3>2 DEF WechatTypeOK, linkVars
    <2>3. CASE Current \notin Strangers
      <3>1. desk' \in DeskType /\ refused' \subseteq Numbers
        BY <1>32, <2>3, AdvancedTypes DEF LookupFails, WechatTypeOK
      <3>2. UNCHANGED <<disk, linkVars, pages, prompts, recordVars>>
        BY <1>32, <2>3 DEF LookupFails
      <3>3. QED
        BY <2>1, <3>1, <3>2 DEF WechatTypeOK, linkVars, recordVars
    <2>4. QED
      BY <2>2, <2>3
  <1>26. ASSUME CommitMessage PROVE WechatTypeOK'
    <2>1. Advanced \in DeskType /\ Current \in Numbers
      BY <1>26, AdvancedTypes DEF CommitMessage, DeskHolds, Left, WechatTypeOK, DeskType
    <2>2. desk' \in DeskType
      BY <1>26, <2>1 DEF CommitMessage, WechatTypeOK
    <2>3. disk' \in DiskType
      BY <1>26, <2>1 DEF CommitMessage, DiskType, DeskType, WechatTypeOK
    <2>4. QED
      BY <1>26, <2>2, <2>3 DEF CommitMessage, WechatTypeOK, linkVars, bridgeVars, recordVars
  <1>27. ASSUME CommitFails PROVE WechatTypeOK'
    <2>1. Advanced \in DeskType /\ Current \in Numbers
      BY <1>27, AdvancedTypes DEF CommitFails, DeskHolds, Left, WechatTypeOK, DeskType
    <2>2. desk' \in DeskType
      BY <1>27, <2>1 DEF CommitFails, WechatTypeOK
    <2>3. excused' \in [Numbers -> Nat]
      BY <1>27, <2>1 DEF CommitFails, Current, WechatTypeOK
    <2>4. events' \in 0 .. MaxEvents
      BY <1>27 DEF CommitFails, Occurs, WechatTypeOK
    <2>5. QED
      BY <1>27, <2>2, <2>3, <2>4 DEF CommitFails, WechatTypeOK, linkVars, bridgeVars, recordVars
  <1>28. ASSUME Dispatch PROVE WechatTypeOK'
    <2>1. prompts' \in Seq(Numbers)
      BY <1>28, EntriesTaken DEF Dispatch, WechatTypeOK
    <2>2. served' \subseteq Numbers
      BY <1>28, EntriesTaken DEF Dispatch, WechatTypeOK
    <2>3. QED
      BY <1>28, <2>1, <2>2 DEF Dispatch, WechatTypeOK, linkVars, bridgeVars, recordVars
  <1>29. QED
    BY <1>1, <1>2, <1>3, <1>4, <1>5, <1>6, <1>7, <1>8, <1>9, <1>10, <1>11, <1>12, <1>13,
       <1>14, <1>15, <1>16, <1>17, <1>18, <1>19, <1>20, <1>21, <1>22, <1>23, <1>24,
       <1>26, <1>27, <1>28, <1>30, <1>31, <1>32 DEF WechatNext, Linking, Calling, Polling, Bridging

-----------------------------------------------------------------------------
(* Who writes what. *)

LEMMA BridgeWriters ==
    ASSUME WechatNext
    PROVE  \/ UNCHANGED <<pages, desk, prompts, refused, served, lost, handed>>
           \/ Restart \/ \E g \in Loops : LoopDelivers(g)
           \/ TakePage \/ SkipDuplicate \/ Skips \/ Hands
           \/ CommitMessage \/ CommitFails \/ Dispatch
  BY HandWays DEF WechatNext, Linking, Calling, Polling, Bridging, Restart, SpawnPollLoop, InsertPollTask,
         RestoreOnStartup, Restored, LoginConfirmed, Logout, RestoreFails, Reconnect, StartLogin,
         CancelLogin, LoginEnds, ConfirmLogin, Disconnect, LoopReads, LoopCannotRead, LoopAnswered,
         LoopAnsweredBare, LoopQuiet, LoopBacksOff, LoopExpires, LoopDelivers, TakePage, SkipDuplicate,
         CommitMessage, CommitFails, Dispatch, linkVars, bridgeVars, recordVars

LEMMA HandWriters ==
    ASSUME WechatNext
    PROVE  \/ UNCHANGED <<desk, handed>>
           \/ Restart \/ TakePage \/ SkipDuplicate \/ RefuseMessage \/ HandMessage \/ LookupFails
           \/ CommitMessage \/ CommitFails
  BY DEF WechatNext, Linking, Calling, Polling, Bridging, SpawnPollLoop, InsertPollTask,
         RestoreOnStartup, Restored, LoginConfirmed, Logout, RestoreFails, Reconnect, StartLogin,
         CancelLogin, LoginEnds, ConfirmLogin, Disconnect, LoopReads, LoopCannotRead, LoopAnswered,
         LoopAnsweredBare, LoopQuiet, LoopBacksOff, LoopExpires, LoopDelivers, Dispatch,
         linkVars, bridgeVars, recordVars

LEMMA RecordWriters ==
    ASSUME WechatNext
    PROVE  \/ UNCHANGED <<disk, excused>>
           \/ disk'.seen = disk.seen /\ disk'.cursor = 0 /\ excused' = excused
           \/ Restart \/ Logout \/ CommitMessage \/ CommitFails \/ LookupFails
  <1>1. ConfirmLogin => disk'.seen = disk.seen /\ disk'.cursor = 0 /\ excused' = excused
    BY DEF ConfirmLogin, recordVars
  <1>2. Linking => \/ UNCHANGED <<disk, excused>>
                   \/ Logout \/ ConfirmLogin
    BY DEF Linking, Calling, SpawnPollLoop, InsertPollTask, RestoreOnStartup, Restored,
         LoginConfirmed, RestoreFails, Reconnect, StartLogin, CancelLogin, LoginEnds,
         Disconnect, bridgeVars, recordVars
  <1>3. Polling => UNCHANGED <<disk, excused>>
    BY DEF Polling, LoopReads, LoopCannotRead, LoopAnswered, LoopAnsweredBare, LoopQuiet,
         LoopBacksOff, LoopExpires, LoopDelivers, bridgeVars, recordVars
  <1>4. Bridging => \/ UNCHANGED <<disk, excused>>
                    \/ CommitMessage \/ CommitFails \/ LookupFails
    BY DEF Bridging, TakePage, SkipDuplicate, RefuseMessage, HandMessage, Handed,
         Dispatch, linkVars, bridgeVars, recordVars
  <1>5. QED
    BY <1>1, <1>2, <1>3, <1>4 DEF WechatNext

LEMMA DiskWriters ==
    ASSUME WechatNext
    PROVE  \/ CommitMessage
           \/ disk'.seen = disk.seen /\ (disk'.cursor = disk.cursor \/ disk'.cursor = 0)
           \/ disk'.seen = {} /\ disk'.cursor = 0
  <1>1. Restart \/ CommitFails \/ LookupFails => disk' = disk
    BY DEF Restart, CommitFails, LookupFails, Handed
  <1>2. Logout => disk'.seen = {} /\ disk'.cursor = 0
    BY DEF Logout
  <1>3. QED
    BY <1>1, <1>2, RecordWriters

LEMMA WireWriters ==
    ASSUME WechatTypeOK, WechatNext
    PROVE  \/ core'.wire = core.wire \/ Restart
           \/ \E c \in Callers : RestoreOnStartup(c)
           \/ \E g \in Loops : LoopDelivers(g)
  <1>1. core \in CoreType
    BY DEF WechatTypeOK
  <1>2. QED
    BY <1>1 DEF CoreType, WechatNext, Linking, Calling, Polling, Bridging, Restart, SpawnPollLoop, InsertPollTask,
         RestoreOnStartup, Restored, LoginConfirmed, Logout, RestoreFails, Reconnect, StartLogin,
         CancelLogin, LoginEnds, ConfirmLogin, Disconnect, LoopReads, LoopCannotRead, LoopAnswered,
         LoopAnsweredBare, LoopQuiet, LoopBacksOff, LoopExpires, LoopDelivers, TakePage, SkipDuplicate, RefuseMessage,
         HandMessage, LookupFails, Handed, CommitMessage, CommitFails, Dispatch, linkVars, bridgeVars, recordVars

\* Only its own steps make a loop ask or answer.
LEMMA LoopWriters ==
    ASSUME WechatTypeOK, WechatNext, NEW CONSTANT g \in Loops
    PROVE  \/ loops'[g] = loops[g] \/ loops'[g].at \in {"none", "top", "done"}
           \/ LoopReads(g) \/ LoopAnswered(g) \/ LoopAnsweredBare(g)
  <1>1. \A h \in Loops, at \in {"top", "done"} : Goes(h, at) =>
           loops'[g] = loops[g] \/ loops'[g].at \in {"none", "top", "done"}
    BY DEF Goes, WechatTypeOK
  <1>2. \A h \in Loops : LoopCannotRead(h) \/ LoopQuiet(h) \/ LoopBacksOff(h) \/ LoopExpires(h)
           \/ LoopDelivers(h) => Goes(h, "top") \/ Goes(h, "done")
    BY DEF LoopCannotRead, LoopQuiet, LoopBacksOff, LoopExpires, LoopDelivers
  <1>3. \A h \in Loops : LoopReads(h) \/ LoopAnswered(h) \/ LoopAnsweredBare(h) =>
           h = g \/ loops'[g] = loops[g]
    BY DEF LoopReads, LoopAnswered, LoopAnsweredBare, Goes, WechatTypeOK
  <1>4. \A c \in Callers : SpawnPollLoop(c) =>
           loops'[g] = loops[g] \/ loops'[g].at \in {"none", "top", "done"}
    BY DEF SpawnPollLoop, WechatTypeOK, LoopType
  <1>5. Restart \/ Disconnect => loops'[g] = loops[g] \/ loops'[g].at \in {"none", "top", "done"}
    BY DEF Restart, Disconnect, NoLoop
  <1>6. \/ loops' = loops \/ Restart \/ Disconnect \/ \E c \in Callers : SpawnPollLoop(c)
        \/ \E h \in Loops : \/ LoopCannotRead(h) \/ LoopQuiet(h) \/ LoopBacksOff(h) \/ LoopExpires(h)
                            \/ LoopDelivers(h) \/ LoopReads(h) \/ LoopAnswered(h)
                            \/ LoopAnsweredBare(h)
    BY DEF WechatNext, Linking, Calling, Polling, Bridging, Restart, SpawnPollLoop, InsertPollTask,
         RestoreOnStartup, Restored, LoginConfirmed, Logout, RestoreFails, Reconnect, StartLogin,
         CancelLogin, LoginEnds, ConfirmLogin, Disconnect, LoopReads, LoopCannotRead, LoopAnswered,
         LoopAnsweredBare, LoopQuiet, LoopBacksOff, LoopExpires, LoopDelivers, TakePage, SkipDuplicate, RefuseMessage,
         HandMessage, LookupFails, Handed, CommitMessage, CommitFails, Dispatch, linkVars, bridgeVars, recordVars
  <1>7. QED
    BY <1>1, <1>2, <1>3, <1>4, <1>5, <1>6

-----------------------------------------------------------------------------
(* Nothing that was accounted for is forgotten. *)

LEMMA LeftAdvanced ==
    ASSUME WechatTypeOK, Left(desk) # {}
    PROVE  /\ Left(desk) = {Current} \cup Left(Advanced) /\ Current \in Numbers
           /\ ~Advanced.handed
           /\ Left(Advanced) # {} => Advanced.last = desk.last /\ Advanced.buf = desk.buf
  <1>1. desk \in DeskType /\ desk.next <= desk.last
    BY DEF Left, WechatTypeOK, DeskType
  <1>2. Current \in Numbers
    BY <1>1, WechatAssumption DEF Current, Numbers, DeskType
  <1>3. CASE desk.next = desk.last
    <2>1. Left(Advanced) = {} /\ ~Advanced.handed
      BY <1>3 DEF Advanced, NewDesk, Left
    <2>2. Left(desk) = {Current}
      BY <1>1, <1>3 DEF Left, Current, DeskType
    <2>3. QED
      BY <1>2, <2>1, <2>2
  <1>4. CASE desk.next # desk.last
    <2>1. /\ Advanced.next = desk.next + 1 /\ Advanced.last = desk.last /\ ~Advanced.handed
          /\ Advanced.buf = desk.buf
      BY <1>1, <1>4 DEF Advanced, DeskType
    <2>2. desk.next \in Int /\ desk.last \in Int
      BY <1>1 DEF DeskType
    <2>3. desk.next .. desk.last = {desk.next} \cup desk.next + 1 .. desk.last
      BY <1>1, <2>2
    <2>4. QED
      BY <1>2, <2>1, <2>3 DEF Left, Current
  <1>5. QED
    BY <1>3, <1>4

LEMMA InPagesAppended ==
    ASSUME WechatTypeOK, NEW CONSTANT p \in PageType, pages' = Append(pages, p)
    PROVE  InPages' = InPages \cup Left(p)
  <1>1. Entries(pages') = Entries(pages) \cup {p}
    BY EntriesAppended DEF WechatTypeOK
  <1>2. QED
    BY <1>1 DEF InPages

LEMMA InPagesTaken ==
    ASSUME WechatTypeOK, pages # <<>>, pages' = Tail(pages)
    PROVE  InPages = InPages' \cup Left(Head(pages))
  <1>1. Entries(pages) = Entries(pages') \cup {Head(pages)}
    BY EntriesTaken DEF WechatTypeOK
  <1>2. QED
    BY <1>1 DEF InPages

\* A message the bridge is through with stays so: a stop loses it, the router
\* gets it, or it waits.
LEMMA SettledStays ==
    ASSUME WechatTypeOK, DeskHolds, WechatNext
    PROVE  Settled \subseteq Settled'
  <1>1. CASE UNCHANGED <<pages, desk, prompts, refused, served, lost, handed>>
    BY <1>1 DEF Settled
  <1>2. CASE Restart
    BY <1>2 DEF Restart, Settled, InMemory
  <1>3. CASE \E g \in Loops : LoopDelivers(g)
    BY <1>3 DEF LoopDelivers, Settled, recordVars
  <1>4. CASE TakePage
    BY <1>4 DEF TakePage, Settled
  <1>5. CASE SkipDuplicate \/ Skips \/ CommitMessage \/ CommitFails
    BY <1>5 DEF SkipDuplicate, Skips, CommitMessage, CommitFails, Settled, recordVars
  <1>6. CASE Hands
    <2>1. Current \in Numbers /\ prompts \in Seq(Numbers)
      BY <1>6, LeftAdvanced DEF Hands, Handed, WechatTypeOK
    <2>2. Entries(Append(prompts, Current)) = Entries(prompts) \cup {Current}
      BY <2>1, EntriesAppended
    <2>3. QED
      BY <1>6, <2>2 DEF Hands, Handed, Settled
  <1>7. CASE Dispatch
    <2>1. Entries(prompts) = Entries(Tail(prompts)) \cup {Head(prompts)}
      BY <1>7, EntriesTaken DEF Dispatch, WechatTypeOK
    <2>2. QED
      BY <1>7, <2>1 DEF Dispatch, Settled
  <1>8. QED
    BY <1>1, <1>2, <1>3, <1>4, <1>5, <1>6, <1>7, BridgeWriters

\* A message that left the desk was refused, was recorded before, or was handed
\* on; the rest of its page is still there.
LEMMA AccountedStays ==
    ASSUME WechatTypeOK, DeskHolds, CursorsHold, WechatNext
    PROVE  Accounted \subseteq Accounted'
  <1>1. Settled \subseteq Settled' /\ Settled' \subseteq Accounted'
    BY SettledStays DEF Settled, Accounted, InMemory
  <1>2. Accounted = Settled \cup refused \cup InPages \cup Left(desk)
    BY DEF Accounted, Settled, InMemory
  <1>3. CASE UNCHANGED <<pages, desk, prompts, refused, served, lost, handed>>
    BY <1>3 DEF Accounted, InMemory, InPages
  <1>4. CASE Restart
    BY <1>4 DEF Restart, Accounted
  <1>5. ASSUME NEW CONSTANT g \in Loops, LoopDelivers(g) PROVE Accounted \subseteq Accounted'
    <2>1. InPages \subseteq InPages'
      <3>1. pages' = pages \/ pages' = Append(pages, loops[g].page)
        BY <1>5 DEF LoopDelivers
      <3>2. PICK p : p = loops[g].page
        OBVIOUS
      <3>3. p \in PageType
        BY <3>2 DEF WechatTypeOK, LoopType
      <3>4. CASE pages' = pages
        BY <3>4 DEF InPages
      <3>5. CASE pages' = Append(pages, p)
        BY <3>3, <3>5, InPagesAppended
      <3>6. QED
        BY <3>1, <3>2, <3>4, <3>5
    <2>2. UNCHANGED <<desk, prompts, refused, served, lost>>
      BY <1>5 DEF LoopDelivers, recordVars
    <2>3. QED
      BY <2>1, <2>2 DEF Accounted, InMemory
  <1>6. CASE TakePage
    <2>1. InPages = InPages' \cup Left(Head(pages)) /\ Left(desk) = {}
      BY <1>6, InPagesTaken DEF TakePage
    <2>2. Left(Head(pages)) \subseteq Left(desk') \cup lost'
      BY <1>6 DEF TakePage, Left
    <2>3. refused' = refused
      BY <1>6 DEF TakePage
    <2>4. QED
      BY <1>1, <1>2, <2>1, <2>2, <2>3 DEF Accounted, InMemory
  <1>7. CASE SkipDuplicate \/ Skips \/ CommitMessage \/ CommitFails
    <2>1. Left(desk) # {}
      BY <1>7 DEF SkipDuplicate, Skips, CommitMessage, CommitFails, DeskHolds, Left,
         WechatTypeOK, DeskType
    <2>2. desk' = Advanced /\ pages' = pages /\ refused \subseteq refused'
      BY <1>7 DEF SkipDuplicate, Skips, CommitMessage, CommitFails
    <2>3. Current \in Settled \cup refused'
      BY <1>7 DEF SkipDuplicate, Skips, CommitMessage, CommitFails, DeskHolds, CursorsHold,
         Current
    <2>4. Left(desk) = {Current} \cup Left(desk')
      BY <2>1, <2>2, LeftAdvanced
    <2>5. InPages' = InPages
      BY <2>2 DEF InPages
    <2>6. QED
      BY <1>1, <1>2, <2>2, <2>3, <2>4, <2>5 DEF Accounted, InMemory
  <1>8. CASE Hands \/ Dispatch
    <2>1. pages' = pages /\ refused' = refused /\ Left(desk') = Left(desk)
      BY <1>8 DEF Hands, Handed, Dispatch, Left, WechatTypeOK, DeskType
    <2>2. InPages' = InPages
      BY <2>1 DEF InPages
    <2>3. QED
      BY <1>1, <1>2, <2>1, <2>2 DEF Accounted, InMemory
  <1>9. QED
    BY <1>3, <1>4, <1>5, <1>6, <1>7, <1>8, BridgeWriters

-----------------------------------------------------------------------------
(* The cursors. *)

\* A desk that is done with a message has another one only of the same page.
LEMMA DeskWriters ==
    ASSUME WechatNext
    PROVE  desk' = desk \/ Restart \/ TakePage \/ Hands
           \/ SkipDuplicate \/ Skips \/ CommitMessage \/ CommitFails
  BY BridgeWriters DEF LoopDelivers, Dispatch

LEMMA DeskStep ==
    ASSUME WechatTypeOK, DeskHolds, WechatNext
    PROVE  DeskHolds'
  <1>1. Settled \subseteq Settled'
    BY SettledStays
  <1>2. CASE desk' = desk
    BY <1>1, <1>2 DEF DeskHolds
  <1>3. CASE Restart
    BY <1>3 DEF Restart, NewDesk, DeskHolds
  <1>4. CASE TakePage
    <2>1. ~desk.handed
      BY <1>4 DEF TakePage, DeskHolds, Left, WechatTypeOK, DeskType
    <2>2. ~desk'.handed
      BY <1>4, <2>1 DEF TakePage
    <2>3. QED
      BY <2>2 DEF DeskHolds
  <1>5. CASE Hands
    <2>1. Current \in Numbers /\ prompts \in Seq(Numbers) /\ desk \in DeskType /\ desk.next <= desk.last
      BY <1>5, LeftAdvanced DEF Hands, Handed, WechatTypeOK, Left, DeskType
    <2>2. Entries(Append(prompts, Current)) = Entries(prompts) \cup {Current}
      BY <2>1, EntriesAppended
    <2>3. Current \in Settled'
      BY <1>5, <2>2 DEF Hands, Handed, Settled
    <2>4. desk'.next = Current /\ desk'.last = desk.last
      BY <1>5, <2>1 DEF Hands, Handed, Current, DeskType
    <2>5. QED
      BY <2>1, <2>3, <2>4 DEF DeskHolds, Current
  <1>6. CASE SkipDuplicate \/ Skips \/ CommitMessage \/ CommitFails
    <2>1. Left(desk) # {}
      BY <1>6 DEF SkipDuplicate, Skips, CommitMessage, CommitFails, DeskHolds, Left,
         WechatTypeOK, DeskType
    <2>2. desk' = Advanced
      BY <1>6 DEF SkipDuplicate, Skips, CommitMessage, CommitFails
    <2>3. ~desk'.handed
      BY <2>1, <2>2, LeftAdvanced
    <2>4. QED
      BY <2>3 DEF DeskHolds
  <1>7. QED
    BY <1>2, <1>3, <1>4, <1>5, <1>6, DeskWriters

LEMMA CursorsStep ==
    ASSUME WechatTypeOK, DeskHolds, CursorsHold, BufsHold, WechatNext
    PROVE  CursorsHold'
  <1>1. Accounted \subseteq Accounted' /\ Settled \subseteq Settled'
    BY AccountedStays, SettledStays
  <1>2. \A p \in Entries(pages') : 1 .. p.last \subseteq Accounted'
    <2>1. CASE pages' = pages
      BY <1>1, <2>1 DEF CursorsHold
    <2>2. CASE Restart
      BY <2>2 DEF Restart, Entries
    <2>3. CASE TakePage
      <3>1. Entries(pages') \subseteq Entries(pages)
        BY <2>3, EntriesTaken DEF TakePage, WechatTypeOK
      <3>2. QED
        BY <1>1, <3>1 DEF CursorsHold
    <2>4. ASSUME NEW CONSTANT g \in Loops, LoopDelivers(g), pages' # pages
          PROVE  \A p \in Entries(pages') : 1 .. p.last \subseteq Accounted'
      <3>1. PICK p : p = loops[g].page
        OBVIOUS
      <3>2. p \in PageType /\ pages' = Append(pages, p) /\ loops[g].at = "answered"
        BY <2>4, <3>1 DEF LoopDelivers, At, WechatTypeOK, LoopType
      <3>3. Entries(pages') = Entries(pages) \cup {p} /\ InPages' = InPages \cup Left(p)
        BY <3>2, EntriesAppended, InPagesAppended DEF WechatTypeOK
      <3>4. 1 .. p.next - 1 \subseteq Accounted
        BY <2>4, <3>1, <3>2 DEF CursorsHold
      <3>5. Left(p) \subseteq Accounted'
        BY <3>3 DEF Accounted, InMemory
      <3>6. 1 .. p.last \subseteq 1 .. p.next - 1 \cup Left(p)
        BY <3>2 DEF Left, PageType
      <3>7. QED
        BY <1>1, <3>3, <3>4, <3>5, <3>6 DEF CursorsHold
    <2>5. QED
      BY <2>1, <2>2, <2>3, <2>4, BridgeWriters DEF SkipDuplicate, Skips, Hands, Handed,
         CommitMessage, CommitFails, Dispatch
  <1>3. 1 .. core'.wire \subseteq Accounted'
    <2>1. CASE core'.wire = core.wire
      BY <1>1, <2>1 DEF CursorsHold
    <2>2. CASE Restart
      BY <2>2 DEF Restart, FreshCore
    <2>3. ASSUME NEW CONSTANT c \in Callers, RestoreOnStartup(c) PROVE 1 .. core'.wire \subseteq Accounted'
      <3>1. core'.wire = core.wire \/ core'.wire = disk.cursor
        BY <2>3 DEF RestoreOnStartup, WechatTypeOK, CoreType
      <3>2. QED
        BY <1>1, <3>1 DEF CursorsHold
    <2>4. ASSUME NEW CONSTANT g \in Loops, LoopDelivers(g), core'.wire # core.wire
          PROVE  1 .. core'.wire \subseteq Accounted'
      <3>1. PICK p : p = loops[g].page
        OBVIOUS
      <3>2. /\ p \in PageType /\ pages' = Append(pages, p) /\ loops[g].at = "answered"
            /\ core'.wire = p.buf /\ p.buf <= p.last
        BY <2>4, <3>1 DEF LoopDelivers, At, WechatTypeOK, LoopType, CoreType, BufsHold
      <3>3. p \in Entries(pages')
        BY <3>2, EntriesAppended DEF WechatTypeOK
      <3>4. 1 .. core'.wire \subseteq 1 .. p.last
        BY <3>2 DEF PageType
      <3>5. QED
        BY <1>2, <3>3, <3>4
    <2>5. QED
      BY <2>1, <2>2, <2>3, <2>4, WireWriters
  <1>4. 1 .. disk'.cursor \subseteq Accounted'
    <2>1. CASE disk'.cursor = 0 \/ disk'.cursor = disk.cursor
      BY <1>1, <2>1 DEF CursorsHold
    <2>2. CASE CommitMessage
      <3>1. Left(desk) # {}
        BY <2>2 DEF CommitMessage, DeskHolds, Left, WechatTypeOK, DeskType
      <3>2. disk'.cursor \in {disk.cursor, desk.buf}
        BY <2>2 DEF CommitMessage, WechatTypeOK, DiskType
      <3>3. 1 .. desk.buf \subseteq 1 .. desk.last
        BY <3>1 DEF BufsHold, WechatTypeOK, DeskType
      <3>4. QED
        BY <1>1, <3>1, <3>2, <3>3 DEF CursorsHold
    <2>3. QED
      BY <2>1, <2>2, DiskWriters
  <1>5. \A g \in Loops : loops'[g].at \in {"polling", "answered"} =>
                            1 .. loops'[g].page.next - 1 \subseteq Accounted'
    <2>1. SUFFICES ASSUME NEW CONSTANT g \in Loops, loops'[g].at \in {"polling", "answered"}
                   PROVE  1 .. loops'[g].page.next - 1 \subseteq Accounted'
      OBVIOUS
    <2>2. CASE loops'[g] = loops[g]
      BY <1>1, <2>1, <2>2 DEF CursorsHold
    <2>3. CASE LoopReads(g)
      <3>1. loops'[g].page.next = core.wire + 1
        BY <2>1, <2>3 DEF LoopReads, Goes, WechatTypeOK
      <3>2. loops'[g].page.next - 1 = core.wire
        BY <3>1 DEF WechatTypeOK, CoreType
      <3>3. QED
        BY <1>1, <3>2 DEF CursorsHold
    <2>4. CASE LoopAnswered(g) \/ LoopAnsweredBare(g)
      <3>1. loops[g].at = "polling"
        BY <2>4 DEF LoopAnswered, LoopAnsweredBare, At
      <3>2. CASE LoopAnswered(g)
        BY <1>1, <3>1, <3>2 DEF LoopAnswered, WechatTypeOK, LoopType, PageType, CursorsHold
      <3>3. CASE LoopAnsweredBare(g)
        BY <1>1, <3>1, <3>3 DEF LoopAnsweredBare, WechatTypeOK, LoopType, PageType, CursorsHold
      <3>4. QED
        BY <2>4, <3>2, <3>3
    <2>5. QED
      BY <2>1, <2>2, <2>3, <2>4, LoopWriters
  <1>6. Left(desk') # {} => 1 .. desk'.last \subseteq Accounted'
    <2>1. CASE desk' = desk
      BY <1>1, <2>1 DEF CursorsHold, Left
    <2>2. CASE Restart
      BY <2>2 DEF Restart, NewDesk, Left
    <2>3. CASE TakePage
      <3>1. Head(pages) \in Entries(pages)
        BY <2>3, EntriesTaken DEF TakePage, WechatTypeOK
      <3>2. desk' = desk \/ desk'.last = Head(pages).last
        BY <2>3 DEF TakePage
      <3>3. QED
        BY <1>1, <2>1, <3>1, <3>2 DEF CursorsHold
    <2>4. CASE Hands
      <3>1. desk'.next = desk.next /\ desk'.last = desk.last /\ Left(desk) # {}
        BY <2>4 DEF Hands, Handed, WechatTypeOK, DeskType
      <3>2. QED
        BY <1>1, <3>1 DEF CursorsHold
    <2>5. CASE SkipDuplicate \/ Skips \/ CommitMessage \/ CommitFails
      <3>1. Left(desk) # {} /\ desk' = Advanced
        BY <2>5 DEF SkipDuplicate, Skips, CommitMessage, CommitFails, DeskHolds, Left,
           WechatTypeOK, DeskType
      <3>2. QED
        BY <1>1, <3>1, LeftAdvanced DEF CursorsHold
    <2>6. QED
      BY <2>1, <2>2, <2>3, <2>4, <2>5, DeskWriters
  <1>7. disk'.seen \subseteq Settled'
    <2>1. CASE disk'.seen = disk.seen \/ disk'.seen = {}
      BY <1>1, <2>1 DEF CursorsHold
    <2>2. CASE CommitMessage
      BY <1>1, <2>2 DEF CommitMessage, CursorsHold, DeskHolds, Current, WechatTypeOK, DiskType
    <2>3. QED
      BY <2>1, <2>2, DiskWriters
  <1>8. QED
    BY <1>2, <1>3, <1>4, <1>5, <1>6, <1>7 DEF CursorsHold

LEMMA BufsStep ==
    ASSUME WechatTypeOK, DeskHolds, BufsHold, WechatNext
    PROVE  BufsHold'
  <1>1. ASSUME NEW CONSTANT g \in Loops
        PROVE  /\ loops'[g].at = "polling" => loops'[g].page.buf < loops'[g].page.next
               /\ loops'[g].at = "answered" => loops'[g].page.buf <= loops'[g].page.last
    <2>1. CASE loops'[g] = loops[g] \/ loops'[g].at \in {"none", "top", "done"}
      BY <2>1 DEF BufsHold
    <2>2. CASE LoopReads(g)
      <3>1. CASE Goes(g, "done")
        BY <3>1 DEF Goes, WechatTypeOK
      <3>2. CASE ~Goes(g, "done")
        <4>1. loops'[g] = [at |-> "polling", page |-> [next |-> core.wire + 1, last |-> core.wire,
                                                       buf |-> core.wire]]
          BY <2>2, <3>2 DEF LoopReads, WechatTypeOK
        <4>2. QED
          BY <4>1 DEF WechatTypeOK, CoreType
      <3>3. QED
        BY <3>1, <3>2
    <2>3. CASE LoopAnswered(g)
      <3>1. loops'[g].at = "answered" /\ loops'[g].page.buf = loops'[g].page.last
        BY <2>3 DEF LoopAnswered, WechatTypeOK, LoopType, PageType
      <3>2. loops'[g].page.last \in Int
        BY <2>3 DEF LoopAnswered, WechatTypeOK, LoopType, PageType
      <3>3. QED
        BY <3>1, <3>2
    <2>4. CASE LoopAnsweredBare(g)
      <3>1. PICK last \in loops[g].page.next .. Messages :
               loops' = [loops EXCEPT ![g].at = "answered", ![g].page.last = last]
        BY <2>4 DEF LoopAnsweredBare
      <3>2. /\ loops'[g].at = "answered" /\ loops'[g].page.last = last
            /\ loops'[g].page.buf = loops[g].page.buf
        BY <3>1 DEF WechatTypeOK, LoopType, PageType
      <3>3. loops[g].page.buf < loops[g].page.next
        BY <2>4 DEF LoopAnsweredBare, At, BufsHold
      <3>4. loops[g].page.buf \in Int /\ loops[g].page.next \in Int /\ last >= loops[g].page.next
        BY DEF WechatTypeOK, LoopType, PageType
      <3>5. QED
        BY <3>2, <3>3, <3>4
    <2>5. QED
      BY <2>1, <2>2, <2>3, <2>4, LoopWriters
  <1>2. \A p \in Entries(pages') : p.buf <= p.last
    <2>1. CASE pages' = pages
      BY <2>1 DEF BufsHold
    <2>2. CASE Restart
      BY <2>2 DEF Restart, Entries
    <2>3. CASE TakePage
      BY <2>3, EntriesTaken DEF TakePage, WechatTypeOK, BufsHold
    <2>4. ASSUME NEW CONSTANT g \in Loops, LoopDelivers(g), pages' # pages
          PROVE  \A p \in Entries(pages') : p.buf <= p.last
      <3>1. PICK p : p = loops[g].page
        OBVIOUS
      <3>2. p \in PageType /\ pages' = Append(pages, p) /\ p.buf <= p.last
        BY <2>4, <3>1 DEF LoopDelivers, At, WechatTypeOK, LoopType, BufsHold
      <3>3. Entries(pages') = Entries(pages) \cup {p}
        BY <3>2, EntriesAppended DEF WechatTypeOK
      <3>4. QED
        BY <3>2, <3>3 DEF BufsHold
    <2>5. QED
      BY <2>1, <2>2, <2>3, <2>4, BridgeWriters DEF SkipDuplicate, Skips, Hands, Handed,
         CommitMessage, CommitFails, Dispatch
  <1>3. Left(desk') # {} => desk'.buf <= desk'.last
    <2>1. CASE desk' = desk
      BY <2>1 DEF BufsHold, Left
    <2>2. CASE Restart
      BY <2>2 DEF Restart, NewDesk, Left
    <2>3. CASE TakePage
      <3>1. Head(pages) \in Entries(pages)
        BY <2>3, EntriesTaken DEF TakePage, WechatTypeOK
      <3>2. desk' = desk \/ (desk'.last = Head(pages).last /\ desk'.buf = Head(pages).buf)
        BY <2>3 DEF TakePage
      <3>3. QED
        BY <2>1, <3>1, <3>2 DEF BufsHold
    <2>4. CASE Hands
      <3>1. desk'.buf = desk.buf /\ desk'.last = desk.last /\ Left(desk) # {}
        BY <2>4 DEF Hands, Handed, WechatTypeOK, DeskType
      <3>2. QED
        BY <3>1 DEF BufsHold
    <2>5. CASE SkipDuplicate \/ Skips \/ CommitMessage \/ CommitFails
      <3>1. Left(desk) # {} /\ desk' = Advanced
        BY <2>5 DEF SkipDuplicate, Skips, CommitMessage, CommitFails, DeskHolds, Left,
           WechatTypeOK, DeskType
      <3>2. QED
        BY <3>1, LeftAdvanced DEF BufsHold
    <2>6. QED
      BY <2>1, <2>2, <2>3, <2>4, <2>5, DeskWriters
  <1>4. QED
    BY <1>1, <1>2, <1>3 DEF BufsHold

-----------------------------------------------------------------------------
(* The records. *)

LEMMA RecordedNow ==
    ASSUME WechatTypeOK, CommitMessage
    PROVE  disk'.seen = disk.seen \cup {Current}
  BY DEF CommitMessage, WechatTypeOK, DiskType

\* A message is handed on when it has no record, and then has one, or its record
\* is lost by a stop, a failing statement or the end of the login; or a stranger's,
\* whose record could not be read.
LEMMA HandedStep ==
    ASSUME WechatTypeOK, DeskHolds, HandedCounted, WechatNext
    PROVE  HandedCounted'
  <1> DEFINE Known(m) == m \in disk.seen \/ (desk.handed /\ desk.next = m)
  <1> SUFFICES ASSUME NEW CONSTANT m \in Numbers
               PROVE  handed'[m] <= excused'[m] + (IF Known(m)' THEN 1 ELSE 0)
    BY DEF HandedCounted
  <1>1. /\ handed[m] \in Nat /\ excused[m] \in Nat
        /\ handed[m] <= excused[m] + (IF Known(m) THEN 1 ELSE 0)
    BY DEF HandedCounted, WechatTypeOK
  <1>2. CASE /\ handed' = handed /\ excused' = excused /\ disk'.seen = disk.seen
             /\ desk' = desk \/ ~desk.handed
    BY <1>1, <1>2
  <1>3. CASE Restart
    <2>1. ~desk'.handed /\ disk' = disk /\ handed' = handed
      BY <1>3 DEF Restart, NewDesk
    <2>2. excused'[m] = excused[m] + (IF desk.handed /\ desk.next = m THEN 1 ELSE 0)
      BY <1>1, <1>3 DEF Restart, WechatTypeOK
    <2>3. QED
      BY <1>1, <2>1, <2>2
  <1>4. CASE Logout
    <2>1. handed' = handed /\ desk' = desk /\ disk'.seen = {}
      BY <1>4 DEF Logout, bridgeVars
    <2>2. excused'[m] = excused[m] + (IF m \in disk.seen THEN 1 ELSE 0)
      BY <1>4 DEF Logout
    <2>3. QED
      BY <1>1, <2>1, <2>2
  <1>5. CASE CommitMessage
    <2>1. handed' = handed /\ excused' = excused /\ desk.handed
      BY <1>5 DEF CommitMessage, recordVars
    <2>2. disk'.seen = disk.seen \cup {desk.next}
      BY <1>5, RecordedNow DEF Current
    <2>3. QED
      BY <1>1, <2>1, <2>2
  <1>6. CASE CommitFails
    <2>1. handed' = handed /\ disk' = disk /\ desk.handed
      BY <1>6 DEF CommitFails
    <2>2. excused'[m] = excused[m] + (IF desk.next = m THEN 1 ELSE 0)
      BY <1>1, <1>6, <2>1 DEF CommitFails, Current, WechatTypeOK
    <2>3. QED
      BY <1>1, <2>1, <2>2
  <1>7. ASSUME Hands
        PROVE  /\ ~desk.handed /\ disk' = disk /\ desk'.handed /\ desk'.next = Current
               /\ handed'[m] = handed[m] + (IF m = Current THEN 1 ELSE 0)
    <2>1. /\ ~desk.handed /\ disk' = disk /\ desk' = [desk EXCEPT !.handed = TRUE]
          /\ desk \in DeskType
      BY <1>7 DEF Hands, Handed, WechatTypeOK
    <2>2. desk'.handed /\ desk'.next = Current
      BY <2>1 DEF DeskType, Current
    <2>3. handed'[m] = handed[m] + (IF m = Current THEN 1 ELSE 0)
      BY <1>1, <1>7 DEF Hands, Handed, WechatTypeOK
    <2>4. QED
      BY <2>1, <2>2, <2>3
  <1>8. CASE HandMessage
    <2>1. Hands /\ Current \notin disk.seen /\ excused' = excused
      BY <1>8, HandWays DEF HandMessage
    <2>2. QED
      BY <1>1, <1>7, <2>1
  <1>9. CASE LookupFails
    <2>1. CASE Current \in Strangers
      <3>1. Hands
        BY <1>9, <2>1 DEF LookupFails, Hands
      <3>2. excused'[m] = excused[m] + (IF m = Current /\ m \in disk.seen THEN 1 ELSE 0)
        BY <1>1, <1>9, <2>1 DEF LookupFails, WechatTypeOK
      <3>3. QED
        BY <1>1, <1>7, <3>1, <3>2
    <2>2. CASE Current \notin Strangers
      BY <1>2, <1>9, <2>2 DEF LookupFails, recordVars
    <2>3. QED
      BY <2>1, <2>2
  <1>10. CASE TakePage \/ SkipDuplicate \/ RefuseMessage
    BY <1>2, <1>10 DEF TakePage, SkipDuplicate, RefuseMessage, recordVars, DeskHolds, Left,
       WechatTypeOK, DeskType
  <1>11. \/ Restart \/ Logout \/ CommitMessage \/ CommitFails \/ HandMessage \/ LookupFails
         \/ TakePage \/ SkipDuplicate \/ RefuseMessage
         \/ handed' = handed /\ excused' = excused /\ disk'.seen = disk.seen /\ desk' = desk
    BY HandWriters, RecordWriters
  <1>12. QED
    BY <1>2, <1>3, <1>4, <1>5, <1>6, <1>8, <1>9, <1>10, <1>11

-----------------------------------------------------------------------------
(* The invariant, and what follows from it. *)

LEMMA WechatInitInv == WechatInit => WechatInv
  <1> SUFFICES ASSUME WechatInit PROVE WechatInv
    OBVIOUS
  <1>1. PICK linked \in BOOLEAN : disk = [linked |-> linked, cursor |-> 0, seen |-> {}]
    BY DEF WechatInit
  <1>2. disk \in DiskType
    BY <1>1, WechatAssumption DEF DiskType
  <1>3. core \in CoreType /\ loops \in [Loops -> LoopType] /\ callers \in [Callers -> CallerType]
    BY FreshTypes DEF WechatInit
  <1>4. pages \in Seq(PageType) /\ desk \in DeskType /\ prompts \in Seq(Numbers)
    BY FreshTypes DEF WechatInit
  <1>5. WechatTypeOK
    <2>1. handed \in [Numbers -> Nat] /\ excused \in [Numbers -> Nat]
      BY DEF WechatInit
    <2>2. served = {} /\ refused = {} /\ lost = {} /\ cutOff = FALSE /\ events = 0
      BY DEF WechatInit
    <2>3. events \in 0 .. MaxEvents
      BY <2>2, WechatAssumption
    <2>4. QED
      BY <1>2, <1>3, <1>4, <2>1, <2>2, <2>3 DEF WechatTypeOK
  <1>6. DeskHolds /\ Left(desk) = {}
    BY DEF WechatInit, NewDesk, DeskHolds, Left
  <1>7. Entries(pages) = {}
    BY DEF WechatInit, Entries
  <1>8. CursorsHold
    BY <1>1, <1>6, <1>7 DEF WechatInit, CursorsHold, FreshCore, NoLoop
  <1>9. HandedCounted
    BY <1>1 DEF WechatInit, HandedCounted, NewDesk
  <1>10. BufsHold
    BY <1>6, <1>7 DEF WechatInit, BufsHold, NoLoop
  <1>11. QED
    BY <1>5, <1>6, <1>8, <1>9, <1>10 DEF WechatInv

LEMMA WechatStepInv == WechatInv /\ [WechatNext]_wechatVars => WechatInv'
  <1> SUFFICES ASSUME WechatInv, [WechatNext]_wechatVars PROVE WechatInv'
    OBVIOUS
  <1>1. CASE WechatNext
    BY <1>1, WechatTypesStay, DeskStep, CursorsStep, BufsStep, HandedStep DEF WechatInv
  <1>2. CASE UNCHANGED wechatVars
    BY <1>2 DEF wechatVars, linkVars, bridgeVars, recordVars, WechatInv, WechatTypeOK, DeskHolds,
       CursorsHold, BufsHold, HandedCounted, Settled, Accounted, InMemory, InPages
  <1>3. QED
    BY <1>1, <1>2

\* The inductive invariant: what each cursor has behind it, and where the record
\* of each hand-over is.
THEOREM WechatInvHolds == WechatSpec => []WechatInv
  BY WechatInitInv, WechatStepInv, PTL DEF WechatSpec

\* A message is handed on once for each time its record was lost or, a stranger's,
\* could not be read, and once more
\* (process_message, commit_ilink_inbound_message, ilink_logout).
THEOREM HandledOnceHolds == WechatSpec => []HandledOnce
  <1>1. WechatInv => HandledOnce
    <2>1. SUFFICES ASSUME WechatInv, NEW CONSTANT m \in Numbers
                   PROVE  handed[m] <= 1 + excused[m]
      BY DEF HandledOnce
    <2>2. /\ handed[m] \in Nat /\ excused[m] \in Nat
          /\ handed[m] <= excused[m] +
                          (IF m \in disk.seen \/ (desk.handed /\ desk.next = m) THEN 1 ELSE 0)
      BY <2>1 DEF WechatInv, HandedCounted, WechatTypeOK
    <2>3. QED
      BY <2>2
  <1>2. QED
    BY <1>1, WechatInvHolds, PTL

\* The wire cursor passes no message that is not handed on, refused, lost by a
\* stop or the end of the login, or on its way (sync_loop, page_loop).
THEOREM NothingSkippedHolds == WechatSpec => []NothingIsSkipped
  <1>1. WechatInv => NothingIsSkipped
    BY DEF WechatInv, CursorsHold, Accounted, NothingIsSkipped
  <1>2. QED
    BY <1>1, WechatInvHolds, PTL

=============================================================================
