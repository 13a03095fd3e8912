----------------------------- MODULE RoutePrices ------------------------------
(***************************************************************************)
(* The price history of one route.                                         *)
(*                                                                         *)
(* A price change is one transaction of three statements on rows that other*)
(* changes want too: close the open period, insert the next one from the   *)
(* same instant, mirror the price onto the route.  Each statement is a     *)
(* step, for what one change has written and not committed makes another   *)
(* wait or fail:                                                           *)
(*   - the close waits while another change has the period it found closed,*)
(*     and closes NOTHING if that change commits, the period that change   *)
(*     opened being newer than the statement's snapshot;                   *)
(*   - the insert writes its row, then waits for every change under way    *)
(*     that closed or wrote a row it overlaps, and fails on a committed    *)
(*     one.  Two inserts may so wait for each other: PostgreSQL breaks the *)
(*     deadlock by failing one.                                            *)
(* What a change has not committed is in its record; the variables hold    *)
(* what is committed.  Routes do not affect each other, so there is one;   *)
(* only periods of a route nobody deletes matter (no operation does).      *)
(*                                                                         *)
(* X_Mutant, placed before X, is X with a plausible slip.                  *)
(***************************************************************************)
EXTENDS Integers, Sequences

CONSTANTS
    Change,       \* price changes that may be under way at once
    Price,        \* prices a change may set
    MaxClock      \* bound: the last moment, and so the number of periods

ASSUME PricesConstantsOK ==
    /\ Price # {}
    /\ MaxClock \in Nat

VARIABLES
    clock,     \* clock_timestamp()
    history,   \* route_price_history of the route, oldest first
    mirror,    \* routes.default_price_mru
    change     \* the transactions under way

vars == <<clock, history, mirror, change>>

Null == -1   \* effective_to IS NULL
Period == [price : Price, from : Nat, to : Nat \cup {Null}]

\* pc is the statement the change is at; saw is the period its close found open;
\* boundary is the instant it closed that period at and opens the next one from.
Idle == [pc |-> "idle", price |-> CHOOSE p \in Price : TRUE,
         saw |-> 0, closed |-> FALSE, boundary |-> 0]

PricesTypeOK ==
    /\ clock \in Nat
    /\ history \in Seq(Period)
    /\ mirror \in Price
    /\ change \in [Change -> [pc : {"idle", "closing", "opening", "checking", "mirroring"},
                              price : Price, saw : Nat, closed : BOOLEAN,
                              boundary : Nat]]

\* A route is created with its first period, in one transaction.
Init ==
    /\ clock = 0
    /\ \E p \in Price : /\ history = <<[price |-> p, from |-> 0, to |-> Null]>>
                        /\ mirror = p
    /\ change = [c \in Change |-> Idle]

-----------------------------------------------------------------------------
\* The newest committed period.
Last == Len(history)

\* Changes that hold a row lock on the open period, and that have a row in the table
\* whose constraints may still fail.
Closers == {c \in Change : change[c].closed}
Inserters == {c \in Change : change[c].pc \in {"checking", "mirroring"}}

\* What an open-ended row from a moment on overlaps among the committed rows nobody
\* has closed meanwhile.
ClashesWith(boundary) ==
    {i \in DOMAIN history :
        /\ history[i].to = Null \/ history[i].to > boundary
        /\ \A d \in Closers : change[d].saw # i}

\* The change c cannot go on before d has ended.
WaitsFor(c, d) ==
    /\ c # d
    /\ \/ change[c].pc = "closing" /\ d \in Closers /\ change[d].saw = change[c].saw
       \/ change[c].pc = "checking" /\ d \in Closers \cup Inserters

Waiting(c) == \E d \in Change : WaitsFor(c, d)

\* Every member of S waits, directly or not, for every other.
Deadlocked(S) ==
    \A T \in SUBSET S \ {{}, S} : \E c \in T, d \in S \ T : WaitsFor(c, d)

BeginChange(c, price) ==
    /\ change[c].pc = "idle"
    /\ change' = [change EXCEPT ![c] = [pc |-> "closing", price |-> price,
                                        saw |-> Last, closed |-> FALSE,
                                        boundary |-> 0]]
    /\ UNCHANGED <<clock, history, mirror>>

\* ck_route_price_period: the period must not be empty.
MayClose(i) == clock > history[i].from

CloseOpenPeriod(c) ==
    /\ change[c].pc = "closing"
    /\ ~ Waiting(c)
    /\ LET i == change[c].saw IN
       IF history[i].to = Null
       THEN /\ MayClose(i)
            /\ change' = [change EXCEPT ![c] = [@ EXCEPT !.pc = "opening", !.closed = TRUE,
                                                         !.boundary = clock]]
       ELSE change' = [change EXCEPT ![c].pc = "opening"]
    /\ UNCHANGED <<clock, history, mirror>>

\* The insert, up to its checks: from the boundary, or from now if there is none.
OpenPeriod(c) ==
    /\ change[c].pc = "opening"
    /\ change' = [change EXCEPT ![c] = [@ EXCEPT
                    !.pc = "checking",
                    !.boundary = IF change[c].closed THEN change[c].boundary ELSE clock]]
    /\ UNCHANGED <<clock, history, mirror>>

\* The two constraints on open periods left out.
NoClash_Mutant(c) == TRUE

NoClash(c) ==
    /\ ~ Waiting(c)
    /\ ClashesWith(change[c].boundary) = {}

PassConstraints(c) ==
    /\ change[c].pc = "checking"
    /\ NoClash(c)
    /\ change' = [change EXCEPT ![c].pc = "mirroring"]
    /\ UNCHANGED <<clock, history, mirror>>

\* The close and the mirrored price take effect together with the new period; the
\* mutant also overwrites the old price.
ClosedHistory_Mutant(c) ==
    IF change[c].closed
    THEN [history EXCEPT ![change[c].saw].price = change[c].price,
                         ![change[c].saw].to = change[c].boundary] ELSE history

ClosedHistory(c) ==
    IF change[c].closed
    THEN [history EXCEPT ![change[c].saw].to = change[c].boundary] ELSE history

Mirrored_Mutant(c) == mirror

Mirrored(c) == change[c].price

CommitChange(c) ==
    /\ change[c].pc = "mirroring"
    /\ history' = Append(ClosedHistory(c), [price |-> change[c].price,
                                            from |-> change[c].boundary, to |-> Null])
    /\ mirror' = Mirrored(c)
    /\ change' = [change EXCEPT ![c] = Idle]
    /\ UNCHANGED clock

RollBack(c) ==
    /\ change' = [change EXCEPT ![c] = Idle]
    /\ UNCHANGED <<clock, history, mirror>>

\* A constraint refuses the statement: the call ends in a 409 or 422.
Refuse(c) ==
    /\ \/ /\ change[c].pc = "closing" /\ ~ Waiting(c)
          /\ history[change[c].saw].to = Null /\ ~ MayClose(change[c].saw)
       \/ /\ change[c].pc = "checking"
          /\ ClashesWith(change[c].boundary) # {}
    /\ RollBack(c)

\* PostgreSQL fails one change of a deadlock.
BreakDeadlock(c) ==
    /\ \E S \in SUBSET Change : c \in S /\ S # {c} /\ Deadlocked(S)
    /\ RollBack(c)

\* The connection is lost, or a statement fails for a reason of its own.
Fail(c) ==
    /\ change[c].pc # "idle"
    /\ RollBack(c)

Tick ==
    /\ clock < MaxClock
    /\ clock' = clock + 1
    /\ UNCHANGED <<history, mirror, change>>

Step(c) ==
    \/ CloseOpenPeriod(c)
    \/ OpenPeriod(c)
    \/ PassConstraints(c)
    \/ CommitChange(c)
    \/ Refuse(c)
    \/ BreakDeadlock(c)

Next ==
    \/ \E c \in Change, price \in Price : BeginChange(c, price)
    \/ \E c \in Change : Step(c) \/ Fail(c)
    \/ Tick

Spec == Init /\ [][Next]_vars

-----------------------------------------------------------------------------
(***************************************************************************)
(* Properties.                                                             *)
(***************************************************************************)

\* The history is gapless whatever changes race: every period ends at the very
\* instant the next begins, none is empty, and exactly the last one is open (README:
\* "exactly one open period always survives (never zero, never two)").
PeriodsAbut ==
    /\ history # <<>>
    /\ \A i \in DOMAIN history :
        IF i = Last THEN history[i].to = Null
        ELSE history[i].from < history[i].to /\ history[i].to = history[i + 1].from

\* The price trips are created at is the price of the open period, though the two are
\* in different tables and written by different statements.
MirrorShowsOpenPrice == mirror = history[Last].price

\* Append-only: no change ever alters a closed period, or the price or the beginning
\* of the open one, and at most one period is added at a time.
KeepsHistory ==
    /\ Last' \in {Last, Last + 1}
    /\ \A i \in DOMAIN history :
        /\ history'[i].price = history[i].price /\ history'[i].from = history[i].from
        /\ history[i].to # Null => history'[i].to = history[i].to

HistoryAppendOnly == [][KeepsHistory]_vars

=============================================================================
