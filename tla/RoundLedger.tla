---------------------------- MODULE RoundLedger ----------------------------
(***************************************************************************)
(* What the work store promises about one round, whatever happens to the   *)
(* tasks in it: attempts are spent against the limits the researcher set   *)
(* (ADR 0217, section 2), and whoever coordinates holds a fenced epoch     *)
(* (ADR 0215, section 4).  WorkStore implements it.                        *)
(***************************************************************************)
EXTENDS Integers, FiniteSets

CONSTANTS
    Slots,      \* identities of attempts
    Limits      \* the limits a researcher may set: [parallel, attempts, paused]

VARIABLES
    slots,      \* each attempt: "unused", "open" or "closed"
    limits,     \* the round's current limits
    epoch,      \* how often the round has been given a coordinator
    spoken      \* the latest epoch in whose name a command was carried out

ledgerVars == <<slots, limits, epoch, spoken>>

Used == {n \in Slots : slots[n] # "unused"}
Running == {n \in Slots : slots[n] = "open"}

LedgerInit ==
    /\ slots = [n \in Slots |-> "unused"]
    /\ limits \in Limits
    /\ epoch = 0
    /\ spoken = 0

\* A command speaks for the researcher or an executor, or for the coordinator
\* of the current epoch.
Speak == spoken' = spoken \/ (epoch > 0 /\ spoken' = epoch)

Spend(n) ==
    /\ slots[n] = "unused"
    /\ ~limits.paused
    /\ Cardinality(Running) < limits.parallel
    /\ Cardinality(Used) < limits.attempts
    /\ slots' = [slots EXCEPT ![n] = "open"]
    /\ Speak
    /\ UNCHANGED <<limits, epoch>>

Settle(S) ==
    /\ slots' = [n \in Slots |-> IF n \in S THEN "closed" ELSE slots[n]]
    /\ Speak
    /\ UNCHANGED <<limits, epoch>>

SetLimits == limits' \in Limits /\ UNCHANGED <<slots, epoch, spoken>>

Seat == epoch' = epoch + 1 /\ Speak /\ UNCHANGED <<slots, limits>>

LedgerNext ==
    \/ \E n \in Slots : Spend(n)
    \/ \E S \in SUBSET Running : Settle(S)
    \/ SetLimits
    \/ Seat

LedgerSpec == LedgerInit /\ [][LedgerNext]_ledgerVars
=============================================================================
