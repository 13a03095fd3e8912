----------------------------- MODULE ServiceProofs -----------------------------
(***************************************************************************)
(* The price history stays gapless, append-only and mirrored on the route, *)
(* for any number of changes under way and any prices; and around it the   *)
(* pool accounts for its connections, a client is told what happened, and  *)
(* a graceful stop cuts nothing off.                                       *)
(*                                                                         *)
(* The argument of the first part: the open period is closed by at most    *)
(* one change at a time (CloserInv), and a change whose insert passed the  *)
(* constraints is that one (PassedInv) -- any other would have met the     *)
(* open period, or waited for its closer.  So what commits always extends  *)
(* the period it closed.                                                   *)
(*                                                                         *)
(* The second part: nobody stands in the queue twice or while holding a    *)
(* connection (QueueInv), so each connection borrowed is one more holder   *)
(* (PoolInv), and a transaction is open only in the hands of one (WorkInv).*)
(***************************************************************************)
EXTENDS Service, SequenceTheorems, FiniteSetTheorems, TLAPS

\* The change that closed a period closed the open one, after its beginning, and no
\* other has.
CloserInv ==
    /\ \A c \in Change : change[c].closed =>
        /\ change[c].saw = Last
        /\ change[c].boundary > history[Last].from
        /\ change[c].pc \in {"opening", "checking", "mirroring"}
    /\ \A c, d \in Change : change[c].closed /\ change[d].closed => c = d

\* Whoever passed the constraints closed the open period.
PassedInv == \A c \in Change : change[c].pc = "mirroring" => change[c].closed

\* A close looks at a period there is.
SawInv == \A c \in Change : change[c].pc = "closing" => change[c].saw \in 1 .. Last

IInv == PricesTypeOK /\ PeriodsAbut /\ MirrorShowsOpenPrice /\ CloserInv /\ PassedInv /\ SawInv

-----------------------------------------------------------------------------
\* There is a price for a change that is not under way to carry.
LEMMA IdleTyped == Idle.price \in Price
    BY PricesConstantsOK DEF PricesConstantsOK, Idle

LEMMA InitOK == ASSUME Init PROVE IInv
<1>1. PICK p \in Price : history = <<[price |-> p, from |-> 0, to |-> Null]>> /\ mirror = p
    BY DEF Init
<1>2. history \in Seq(Period) /\ Last = 1
    BY <1>1 DEF Period, Null, Last
<1>3. change \in [Change -> {Idle}]
    BY DEF Init
<1>4. PricesTypeOK
    BY <1>1, <1>2, <1>3, IdleTyped DEF Init, PricesTypeOK, Idle
<1>5. PeriodsAbut /\ MirrorShowsOpenPrice
    BY <1>1, <1>2 DEF PeriodsAbut, MirrorShowsOpenPrice
<1>6. CloserInv /\ PassedInv /\ SawInv
    BY <1>3 DEF CloserInv, PassedInv, SawInv, Idle
<1> QED BY <1>4, <1>5, <1>6 DEF IInv

\* The last period is the one with no end.
LEMMA OpenIsLast ==
    ASSUME IInv
    PROVE /\ Last \in Nat \ {0} /\ DOMAIN history = 1 .. Last
          /\ history[Last].to = Null
          /\ \A i \in 1 .. Last : history[i] \in Period
          /\ \A i \in 1 .. Last : history[i].to = Null => i = Last
<1>1. history \in Seq(Period) /\ history # <<>>
    BY DEF IInv, PricesTypeOK, PeriodsAbut
<1>2. Last \in Nat \ {0} /\ DOMAIN history = 1 .. Last
    BY <1>1, EmptySeq, LenProperties DEF Last
<1>3. \A i \in 1 .. Last : history[i] \in Period
    BY <1>1, <1>2
<1>4. history[Last].to = Null
    BY <1>2 DEF IInv, PeriodsAbut
<1>5. ASSUME NEW i \in 1 .. Last, history[i].to = Null, i # Last PROVE FALSE
    <2>1. i + 1 \in 1 .. Last
        BY <1>2, <1>5
    <2>2. history[i].to = history[i + 1].from
        BY <1>2, <1>5 DEF IInv, PeriodsAbut
    <2>3. history[i + 1].from \in Nat
        BY <1>3, <2>1 DEF Period
    <2> QED BY <1>5, <2>2, <2>3 DEF Null
<1> QED BY <1>2, <1>3, <1>4, <1>5

-----------------------------------------------------------------------------
(***************************************************************************)
(* Steps that touch no committed row only have to keep the record of the   *)
(* change that takes them in order.                                        *)
(***************************************************************************)
Undisturbed(c, r) ==
    /\ r \in [pc : {"idle", "closing", "opening", "checking", "mirroring"},
              price : Price, saw : Nat, closed : BOOLEAN, boundary : Nat]
    /\ r.closed =>
        /\ r.saw = Last
        /\ r.boundary > history[Last].from
        /\ r.pc \in {"opening", "checking", "mirroring"}
        /\ \A d \in Change \ {c} : ~ change[d].closed
    /\ r.pc = "mirroring" => r.closed
    /\ r.pc = "closing" => r.saw \in 1 .. Last

LEMMA RecordStep ==
    ASSUME IInv, NEW c \in Change, NEW r, Undisturbed(c, r),
           change' = [change EXCEPT ![c] = r],
           UNCHANGED <<clock, history, mirror>>
    PROVE IInv'
<1>1. change \in [Change -> [pc : {"idle", "closing", "opening", "checking", "mirroring"},
                             price : Price, saw : Nat, closed : BOOLEAN, boundary : Nat]]
    BY DEF IInv, PricesTypeOK
<1>2. change'[c] = r /\ \A d \in Change \ {c} : change'[d] = change[d]
    BY <1>1
<1>3. PricesTypeOK'
    BY <1>1 DEF IInv, PricesTypeOK, Undisturbed
<1>4. Last' = Last
    BY DEF Last
<1>5. PeriodsAbut' /\ MirrorShowsOpenPrice'
    BY <1>4 DEF IInv, PeriodsAbut, MirrorShowsOpenPrice
<1>6. CloserInv'
    BY <1>2, <1>4 DEF IInv, CloserInv, Undisturbed
<1>7. PassedInv' /\ SawInv'
    BY <1>2, <1>4 DEF IInv, PassedInv, SawInv, Undisturbed
<1> QED BY <1>3, <1>5, <1>6, <1>7 DEF IInv

LEMMA RollBackOK == ASSUME IInv, NEW c \in Change, RollBack(c) PROVE IInv'
<1>1. Undisturbed(c, Idle)
    BY IdleTyped DEF Undisturbed, Idle
<1> QED BY <1>1, RecordStep DEF RollBack

LEMMA BeginOK ==
    ASSUME IInv, NEW c \in Change, NEW price \in Price,
           BeginChange(c, price)
    PROVE IInv'
<1> DEFINE r == [pc |-> "closing", price |-> price, saw |-> Last, closed |-> FALSE,
                 boundary |-> 0]
<1>1. Last \in 1 .. Last /\ Last \in Nat
    BY OpenIsLast
<1>2. Undisturbed(c, r)
    BY <1>1 DEF Undisturbed
<1> QED BY <1>2, RecordStep DEF BeginChange

LEMMA CloseOK == ASSUME IInv, NEW c \in Change, CloseOpenPeriod(c) PROVE IInv'
<1> DEFINE i == change[c].saw
<1>1. change[c] \in [pc : {"idle", "closing", "opening", "checking", "mirroring"},
                     price : Price, saw : Nat, closed : BOOLEAN, boundary : Nat]
    BY DEF IInv, PricesTypeOK
<1>2. i \in 1 .. Last /\ ~ change[c].closed /\ clock \in Nat
    BY DEF IInv, SawInv, CloserInv, CloseOpenPeriod, PricesTypeOK
<1>3. CASE history[i].to = Null
    <2> DEFINE r == [change[c] EXCEPT !.pc = "opening", !.closed = TRUE, !.boundary = clock]
    <2>1. i = Last
        BY <1>2, <1>3, OpenIsLast
    <2>2. \A d \in Change \ {c} : ~ change[d].closed
        BY <2>1 DEF CloseOpenPeriod, Waiting, WaitsFor, Closers, IInv, CloserInv
    <2>3. clock > history[i].from
        BY <1>3 DEF CloseOpenPeriod, MayClose
    <2>4. Undisturbed(c, r)
        BY <1>1, <1>2, <2>1, <2>2, <2>3 DEF Undisturbed
    <2>5. change' = [change EXCEPT ![c] = r]
        BY <1>3 DEF CloseOpenPeriod
    <2> QED BY <2>4, <2>5, RecordStep DEF CloseOpenPeriod
<1>4. CASE history[i].to # Null
    <2> DEFINE r == [change[c] EXCEPT !.pc = "opening"]
    <2>1. Undisturbed(c, r)
        BY <1>1, <1>2 DEF Undisturbed
    <2>2. change' = [change EXCEPT ![c] = r]
        BY <1>4 DEF CloseOpenPeriod
    <2> QED BY <2>1, <2>2, RecordStep DEF CloseOpenPeriod
<1> QED BY <1>3, <1>4

LEMMA OpenOK == ASSUME IInv, NEW c \in Change, OpenPeriod(c) PROVE IInv'
<1> DEFINE r == [change[c] EXCEPT !.pc = "checking",
                    !.boundary = IF change[c].closed THEN change[c].boundary ELSE clock]
<1>1. change[c] \in [pc : {"idle", "closing", "opening", "checking", "mirroring"},
                     price : Price, saw : Nat, closed : BOOLEAN, boundary : Nat]
    BY DEF IInv, PricesTypeOK
<1>2. clock \in Nat
    BY DEF IInv, PricesTypeOK
<1>3. Undisturbed(c, r)
    BY <1>1, <1>2 DEF Undisturbed, IInv, CloserInv
<1>4. change' = [change EXCEPT ![c] = r]
    BY <1>1 DEF OpenPeriod
<1> QED BY <1>3, <1>4, RecordStep DEF OpenPeriod

LEMMA PassOK == ASSUME IInv, NEW c \in Change, PassConstraints(c) PROVE IInv'
<1> DEFINE r == [change[c] EXCEPT !.pc = "mirroring"]
<1>1. change[c] \in [pc : {"idle", "closing", "opening", "checking", "mirroring"},
                     price : Price, saw : Nat, closed : BOOLEAN, boundary : Nat]
    BY DEF IInv, PricesTypeOK
<1>2. \A d \in Change \ {c} : ~ change[d].closed
    BY DEF PassConstraints, NoClash, Waiting, WaitsFor, Closers
<1>3. Last \notin ClashesWith(change[c].boundary)
    BY DEF PassConstraints, NoClash
<1>4. \E d \in Closers : change[d].saw = Last
    <2>1. Last \in DOMAIN history /\ history[Last].to = Null
        BY OpenIsLast
    <2> QED BY <1>3, <2>1 DEF ClashesWith
<1>5. change[c].closed
    BY <1>2, <1>4 DEF Closers
<1>6. Undisturbed(c, r)
    BY <1>1, <1>2, <1>5 DEF Undisturbed, IInv, CloserInv
<1>7. change' = [change EXCEPT ![c] = r]
    BY <1>1 DEF PassConstraints
<1> QED BY <1>6, <1>7, RecordStep DEF PassConstraints

-----------------------------------------------------------------------------
\* What a commit makes of the history.
LEMMA Extended ==
    ASSUME IInv, NEW c \in Change, CommitChange(c)
    PROVE /\ change[c].closed
          /\ history' \in Seq(Period)
          /\ Last' = Last + 1
          /\ \A i \in 1 .. Last : i # Last => history'[i] = history[i]
          /\ history'[Last].price = history[Last].price
          /\ history'[Last].from = history[Last].from
          /\ history'[Last].to = change[c].boundary
          /\ history[Last].from < change[c].boundary
          /\ history'[Last + 1] =
                [price |-> change[c].price, from |-> change[c].boundary, to |-> Null]
<1> DEFINE n == Last
           b == change[c].boundary
           H == [history EXCEPT ![n].to = b]
           p == [price |-> change[c].price, from |-> b, to |-> Null]
<1>1. change[c] \in [pc : {"idle", "closing", "opening", "checking", "mirroring"},
                     price : Price, saw : Nat, closed : BOOLEAN, boundary : Nat]
    BY DEF IInv, PricesTypeOK
<1>2. change[c].closed /\ change[c].saw = n /\ history[n].from < b
    BY <1>1, OpenIsLast DEF IInv, PassedInv, CloserInv, CommitChange, Period
<1>3. history' = Append(H, p)
    BY <1>2 DEF CommitChange, ClosedHistory
<1>4. history \in Seq(Period) /\ n \in Nat \ {0} /\ DOMAIN history = 1 .. n
    BY OpenIsLast DEF IInv, PricesTypeOK
<1>5. history[n] \in Period /\ n \in 1 .. n
    BY OpenIsLast
<1>6. [history[n] EXCEPT !.to = b] \in Period
    BY <1>1, <1>5 DEF Period
<1>7. /\ H \in Seq(Period) /\ Len(H) = n
      /\ \A i \in 1 .. n : i # n => H[i] = history[i]
      /\ H[n] = [history[n] EXCEPT !.to = b]
    <2>1. H = [history EXCEPT ![n] = [history[n] EXCEPT !.to = b]]
        OBVIOUS
    <2> HIDE DEF H
    <2> QED BY <1>4, <1>5, <1>6, <2>1, ExceptSeq DEF Last
<1>8. p \in Period
    BY <1>1 DEF Period
<1> HIDE DEF H, p
<1>9. /\ history' \in Seq(Period) /\ Last' = n + 1
      /\ \A i \in 1 .. n : history'[i] = H[i]
      /\ history'[n + 1] = p
    BY <1>3, <1>7, <1>8, AppendProperties DEF Last
<1>10. /\ H[n].price = history[n].price /\ H[n].from = history[n].from
       /\ H[n].to = b
    BY <1>5, <1>7 DEF Period
<1> QED BY <1>2, <1>5, <1>7, <1>9, <1>10 DEF p

LEMMA CommitOK == ASSUME IInv, NEW c \in Change, CommitChange(c) PROVE IInv'
<1> DEFINE n == Last
           Rec == [pc : {"idle", "closing", "opening", "checking", "mirroring"},
                   price : Price, saw : Nat, closed : BOOLEAN, boundary : Nat]
<1>1. change \in [Change -> Rec] /\ n \in Nat \ {0}
    BY OpenIsLast DEF IInv, PricesTypeOK
<1>2. change'[c] = Idle /\ \A d \in Change \ {c} : change'[d] = change[d]
    BY <1>1 DEF CommitChange
<1>3. \A d \in Change \ {c} : ~ change[d].closed
    BY Extended DEF IInv, CloserInv
<1>4. PricesTypeOK'
    <2>1. Idle \in Rec
        BY IdleTyped DEF Idle
    <2>2. change' \in [Change -> Rec]
        BY <1>1, <2>1 DEF CommitChange
    <2>3. mirror' \in Price
        BY <1>1 DEF CommitChange, Mirrored
    <2> QED BY <2>2, <2>3, Extended DEF IInv, PricesTypeOK, CommitChange
<1>5. /\ history' \in Seq(Period) /\ Last' = n + 1
      /\ \A i \in 1 .. n : i # n => history'[i] = history[i]
      /\ history'[n].from = history[n].from
      /\ history'[n].to = change[c].boundary
      /\ history[n].from < change[c].boundary
      /\ history'[n + 1] =
            [price |-> change[c].price, from |-> change[c].boundary, to |-> Null]
    BY Extended
<1>6. PeriodsAbut'
    <2>1. history' # <<>> /\ DOMAIN history' = 1 .. n + 1
        <3>1. Len(history') = n + 1
            BY <1>5 DEF Last
        <3> QED BY <1>1, <1>5, <3>1, EmptySeq, LenProperties
    <2>2. ASSUME NEW i \in 1 .. n + 1
          PROVE IF i = n + 1 THEN history'[i].to = Null
                ELSE history'[i].from < history'[i].to /\ history'[i].to = history'[i + 1].from
        <3>1. CASE i = n + 1
            <4>1. history'[i] =
                    [price |-> change[c].price, from |-> change[c].boundary, to |-> Null]
                BY <1>5, <3>1
            <4> QED BY <3>1, <4>1
        <3>2. CASE i = n
            <4>1. history'[n + 1].from = change[c].boundary
                BY <1>5
            <4>2. n # n + 1
                BY <1>1
            <4>3. history'[n].from < history'[n].to /\ history'[n].to = history'[n + 1].from
                BY <1>5, <4>1
            <4> HIDE DEF n
            <4> QED BY <3>2, <4>2, <4>3
        <3>3. CASE i # n /\ i # n + 1
            <4>1. history[i].from < history[i].to /\ history[i].to = history[i + 1].from
                BY <1>1, <3>3, OpenIsLast DEF IInv, PeriodsAbut
            <4>2. history'[i] = history[i] /\ history'[i + 1].from = history[i + 1].from
                <5>1. i \in 1 .. n /\ i + 1 \in 1 .. n
                    BY <1>1, <3>3
                <5> QED BY <3>3, <5>1, <1>5
            <4> QED BY <1>1, <3>3, <4>1, <4>2
        <3> QED BY <1>1, <3>1, <3>2, <3>3
    <2> QED BY <1>5, <2>1, <2>2 DEF PeriodsAbut
<1>7. MirrorShowsOpenPrice'
    <2>1. mirror' = change[c].price
        BY DEF CommitChange, Mirrored
    <2>2. history'[Last'].price = change[c].price
        BY <1>5
    <2> QED BY <2>1, <2>2 DEF MirrorShowsOpenPrice
<1>8. \A d \in Change : ~ change'[d].closed /\ change'[d].pc # "mirroring"
    <2>1. ~ Idle.closed /\ Idle.pc = "idle"
        BY DEF Idle
    <2>2. \A d \in Change \ {c} : change[d].pc # "mirroring"
        BY <1>3 DEF IInv, PassedInv
    <2> QED BY <1>2, <1>3, <2>1, <2>2
<1>9. CloserInv' /\ PassedInv'
    BY <1>8 DEF CloserInv, PassedInv
<1>10. SawInv'
    <2>1. Idle.pc = "idle"
        BY DEF Idle
    <2>2. \A d \in Change : change'[d].pc = "closing" =>
              d # c /\ change'[d] = change[d] /\ change[d].saw \in 1 .. n
        BY <1>2, <2>1 DEF IInv, SawInv
    <2> QED BY <1>1, <1>5, <2>2 DEF SawInv
<1> QED BY <1>4, <1>6, <1>7, <1>9, <1>10 DEF IInv

-----------------------------------------------------------------------------
LEMMA StepOK == ASSUME IInv, [Next]_vars PROVE IInv'
<1>1. ASSUME NEW c \in Change, NEW price \in Price, BeginChange(c, price) PROVE IInv'
    BY <1>1, BeginOK
<1>2. ASSUME NEW c \in Change, Step(c) PROVE IInv'
    BY <1>2, CloseOK, OpenOK, PassOK, CommitOK, RollBackOK DEF Step, Refuse, BreakDeadlock
<1>3. ASSUME NEW c \in Change, Fail(c) PROVE IInv'
    BY <1>3, RollBackOK DEF Fail
<1>4. CASE Tick
    <2>1. UNCHANGED <<history, mirror, change>> /\ clock' \in Nat
        BY <1>4 DEF Tick, IInv, PricesTypeOK
    <2>2. Last' = Last
        BY <2>1 DEF Last
    <2> QED BY <2>1, <2>2 DEF IInv, PricesTypeOK, PeriodsAbut, MirrorShowsOpenPrice, CloserInv,
                        PassedInv, SawInv
<1>5. CASE UNCHANGED vars
    <2>1. Last' = Last
        BY <1>5 DEF Last, vars
    <2> QED BY <1>5, <2>1 DEF vars, IInv, PricesTypeOK, PeriodsAbut, MirrorShowsOpenPrice,
                CloserInv, PassedInv, SawInv
<1> QED BY <1>1, <1>2, <1>3, <1>4, <1>5 DEF Next

\* The inductive invariant holds in every reachable state.
THEOREM PricesInvariant == Spec => []IInv
<1>1. Init => IInv
    BY InitOK
<1>2. IInv /\ [Next]_vars => IInv'
    BY StepOK
<1> QED BY <1>1, <1>2, PTL DEF Spec

\* The tables and the records of the changes under way are well typed.
THEOREM PricesTyped == Spec => []PricesTypeOK
<1>1. IInv => PricesTypeOK
    BY DEF IInv
<1> QED BY <1>1, PricesInvariant, PTL

\* Exactly one period is open and no two are apart or overlap, whatever changes race.
THEOREM HistoryGapless == Spec => []PeriodsAbut
<1>1. IInv => PeriodsAbut
    BY DEF IInv
<1> QED BY <1>1, PricesInvariant, PTL

\* routes.default_price_mru is the price of the open period.
THEOREM MirrorHonest == Spec => []MirrorShowsOpenPrice
<1>1. IInv => MirrorShowsOpenPrice
    BY DEF IInv
<1> QED BY <1>1, PricesInvariant, PTL

\* What is committed stays, and at most one period is added.
LEMMA KeepsOK == ASSUME IInv, [Next]_vars PROVE [KeepsHistory]_vars
<1>1. CASE UNCHANGED history
    <2>1. Last' = Last
        BY <1>1 DEF Last
    <2> QED BY <1>1, <2>1 DEF KeepsHistory
<1>2. ASSUME NEW c \in Change, CommitChange(c) PROVE KeepsHistory
    <2> DEFINE n == Last
    <2>1. n \in Nat \ {0} /\ DOMAIN history = 1 .. n /\ history[n].to = Null
        BY OpenIsLast
    <2>2. /\ Last' = n + 1
          /\ \A i \in 1 .. n : i # n => history'[i] = history[i]
          /\ history'[n].price = history[n].price /\ history'[n].from = history[n].from
        BY <1>2, Extended
    <2> HIDE DEF n
    <2>3. \A i \in 1 .. n :
            /\ history'[i].price = history[i].price
            /\ history'[i].from = history[i].from
            /\ history[i].to # Null => history'[i].to = history[i].to
        BY <2>1, <2>2
    <2> QED BY <2>1, <2>2, <2>3 DEF KeepsHistory, n
<1>3. UNCHANGED history \/ \E c \in Change : CommitChange(c)
    BY DEF Next, vars, BeginChange, Step, CloseOpenPeriod, OpenPeriod,
           PassConstraints, Refuse, BreakDeadlock, Fail, RollBack, Tick
<1> QED BY <1>1, <1>2, <1>3

\* No change alters what an earlier one recorded.
THEOREM PastIsFixed == Spec => HistoryAppendOnly
<1>1. IInv /\ [Next]_vars => [KeepsHistory]_vars
    BY KeepsOK
<1> QED BY <1>1, PricesInvariant, PTL DEF Spec, HistoryAppendOnly

-----------------------------------------------------------------------------
(***************************************************************************)
(* The service leaves the history to the changes: its steps are steps of   *)
(* RoutePrices, or the end of the process, which loses what was under way. *)
(***************************************************************************)
AllLost == change' = [c \in Change |-> Idle] /\ UNCHANGED <<clock, history, mirror>>

LEMMA PricesStep ==
    ASSUME [ServiceNext]_serviceVars
    PROVE  [Next]_vars \/ AllLost
<1> USE DEF vars
<1>1. ASSUME NEW c \in Change,
             Arrive(c) \/ HangUp(c) \/ Guarded(c) \/ Release(c) \/ Connect(c)
             \/ ConnectTimeout(c)
      PROVE  UNCHANGED vars
    BY <1>1 DEF Arrive, HangUp, Guarded, Release, Connect, ConnectTimeout
<1>2. ASSUME NEW c \in Change, Begin(c) PROVE [Next]_vars
    BY <1>2 DEF Begin, Next
<1>3. ASSUME NEW c \in Change, Work(c) \/ Commit(c) \/ Conflict(c) PROVE [Next]_vars
    BY <1>3 DEF Work, Commit, Conflict, Next, Step
<1>4. ASSUME NEW c \in Change, StatementTimeout(c) PROVE [Next]_vars
    <2>1. change[c].pc # "idle"
        BY <1>4 DEF StatementTimeout, Waiting, WaitsFor
    <2> QED BY <1>4, <2>1 DEF StatementTimeout, Fail, Next
<1>5. ASSUME NEW c \in Change, LoseConnection(c) PROVE [Next]_vars
    BY <1>5 DEF LoseConnection, Next
<1>6. ASSUME Connect(Probe) \/ ConnectTimeout(Probe) \/ CheckReadiness \/ ReadinessTimeout
             \/ Probed \/ Signal \/ CloseServer
      PROVE  UNCHANGED vars
    BY <1>6 DEF Connect, ConnectTimeout, CheckReadiness, ReadinessTimeout, Probed, Signal,
                CloseServer
<1>7. ASSUME PoolEnded \/ Watchdog PROVE AllLost
    BY <1>7 DEF PoolEnded, Watchdog, Halt, AllLost
<1>8. ASSUME Tick PROVE Next
    BY <1>8 DEF Next
<1>9. ASSUME UNCHANGED serviceVars PROVE UNCHANGED vars
    BY <1>9 DEF serviceVars
<1> QED BY <1>1, <1>2, <1>3, <1>4, <1>5, <1>6, <1>7, <1>8, <1>9 DEF ServiceNext, Caller

LEMMA LostOK == ASSUME IInv, AllLost PROVE IInv'
<1>1. \A c \in Change : ~ change'[c].closed /\ change'[c].pc = "idle"
    BY DEF AllLost, Idle
<1>2. Last' = Last
    BY DEF AllLost, Last
<1>3. PricesTypeOK'
    <2>1. Idle \in [pc : {"idle", "closing", "opening", "checking", "mirroring"},
                    price : Price, saw : Nat, closed : BOOLEAN, boundary : Nat]
        BY IdleTyped DEF Idle
    <2> QED BY <2>1 DEF IInv, PricesTypeOK, AllLost
<1>4. PeriodsAbut' /\ MirrorShowsOpenPrice'
    BY <1>2 DEF IInv, PeriodsAbut, MirrorShowsOpenPrice, AllLost
<1>5. CloserInv' /\ PassedInv' /\ SawInv'
    BY <1>1 DEF CloserInv, PassedInv, SawInv
<1> QED BY <1>3, <1>4, <1>5 DEF IInv

LEMMA PricesKept == ASSUME IInv, [ServiceNext]_serviceVars PROVE IInv'
    BY PricesStep, StepOK, LostOK

-----------------------------------------------------------------------------
(***************************************************************************)
(* The requests, the queue and the pool.                                   *)
(***************************************************************************)
InLine == {"asking", "queued"}
Holding == {"looking", "connected", "working", "ending"}
Request == [stage : {"idle"} \cup InLine \cup Holding, waited : BOOLEAN, kept : BOOLEAN,
            answer : {"none", "done", "refused", "unknown"}]

\* An outcome and an answer there are at the end of a transaction only, and they agree.
Honest(r) ==
    /\ r.stage # "ending" => ~ r.kept /\ r.answer = "none"
    /\ r.answer = "done" => r.kept
    /\ r.answer = "refused" => ~ r.kept

\* Nobody waits for an answer while the pool drains.
CallsInv ==
    /\ call \in [Caller -> Request]
    /\ \A c \in Caller : Honest(call[c])
    /\ server = "draining" => \A c \in Caller : ~ call[c].waited

\* Who is in the queue waits for a connection, and stands there once.
QueueInv ==
    /\ queue \in Seq(Caller)
    /\ \A i \in 1 .. Len(queue) : call[queue[i]].stage \in InLine
    /\ \A i, j \in 1 .. Len(queue) : queue[i] = queue[j] => i = j

PoolInv ==
    /\ free \in Nat
    /\ IsFiniteSet(Holders)
    /\ free + Cardinality(Holders) = PoolMax

\* A transaction is open in the hands of a request that works.
WorkInv == \A c \in Change : change[c].pc # "idle" => call[c].stage = "working"

\* The invariant is IInv with these four.
SInv == CallsInv /\ QueueInv /\ PoolInv /\ WorkInv

-----------------------------------------------------------------------------
\* What is left of a queue whose i-th is spliced out.
LEMMA SplicedLeaves ==
    ASSUME queue \in Seq(Caller), NEW i \in 1 .. Len(queue)
    PROVE  /\ Spliced(i) \in Seq(Caller)
           /\ Len(Spliced(i)) = Len(queue) - 1
           /\ \A j \in 1 .. Len(queue) - 1 :
                    Spliced(i)[j] = IF j < i THEN queue[j] ELSE queue[j + 1]
<1> DEFINE n == Len(queue)
           front == SubSeq(queue, 1, i - 1)
           back == SubSeq(queue, i + 1, n)
<1>1. n \in Nat /\ \A j \in 1 .. n : queue[j] \in Caller
    BY LenProperties, ElementOfSeq
<1>2. front \in Seq(Caller) /\ Len(front) = i - 1 /\ \A j \in 1 .. i - 1 : front[j] = queue[j]
    <2>1. \A j \in 1 .. i - 1 : queue[j] \in Caller
        BY <1>1
    <2>2. /\ front \in Seq(Caller)
          /\ Len(front) = IF 1 <= i - 1 THEN (i - 1) - 1 + 1 ELSE 0
          /\ \A j \in 1 .. (i - 1) - 1 + 1 : front[j] = queue[1 + j - 1]
        BY <1>1, <2>1, SubSeqProperties
    <2> HIDE DEF front
    <2> QED BY <1>1, <2>2
<1>3. back \in Seq(Caller) /\ Len(back) = n - i /\ \A j \in 1 .. n - i : back[j] = queue[i + j]
    <2>1. \A j \in i + 1 .. n : queue[j] \in Caller
        BY <1>1
    <2>2. /\ back \in Seq(Caller)
          /\ Len(back) = IF i + 1 <= n THEN n - (i + 1) + 1 ELSE 0
          /\ \A j \in 1 .. n - (i + 1) + 1 : back[j] = queue[(i + 1) + j - 1]
        BY <1>1, <2>1, SubSeqProperties
    <2> HIDE DEF back, n
    <2> QED BY <1>1, <2>2 DEF n
<1> HIDE DEF front, back, n
<1>4. /\ front \o back \in Seq(Caller)
      /\ Len(front \o back) = Len(front) + Len(back)
      /\ \A j \in 1 .. Len(front) + Len(back) : (front \o back)[j] =
              IF j <= Len(front) THEN front[j] ELSE back[j - Len(front)]
    BY <1>2, <1>3, ConcatProperties
<1>5. i \in 1 .. n
    BY DEF n
<1>6. ASSUME NEW j \in 1 .. n - 1
      PROVE  (front \o back)[j] = IF j < i THEN queue[j] ELSE queue[j + 1]
    <2>1. CASE j < i
        BY <1>1, <1>2, <1>3, <1>4, <1>5, <2>1
    <2>2. CASE ~ (j < i)
        <3>1. j - (i - 1) \in 1 .. n - i /\ i + (j - (i - 1)) = j + 1
            BY <1>1, <1>5, <2>2
        <3>2. (front \o back)[j] = back[j - (i - 1)]
            BY <1>1, <1>2, <1>3, <1>4, <1>5, <2>2
        <3> QED BY <1>3, <2>2, <3>1, <3>2
    <2> QED BY <2>1, <2>2
<1>7. Spliced(i) = front \o back /\ n = Len(queue)
    BY DEF Spliced, front, back, n
<1>8. Len(front \o back) = n - 1
    BY <1>1, <1>2, <1>3, <1>4, <1>5
<1> QED BY <1>4, <1>6, <1>7, <1>8

\* A caller that leaves the queue, wherever it stood.
LEMMA LeaveQueue ==
    ASSUME QueueInv, call \in [Caller -> Request], NEW i \in 1 .. Len(queue),
           NEW c, c = queue[i], NEW r, call' = [call EXCEPT ![c] = r],
           queue' = Spliced(i)
    PROVE  QueueInv'
<1>1. queue \in Seq(Caller) /\ Len(queue) \in Nat
    BY LenProperties DEF QueueInv
<1>2. /\ queue' \in Seq(Caller) /\ Len(queue') = Len(queue) - 1
      /\ \A j \in 1 .. Len(queue) - 1 : queue'[j] = IF j < i THEN queue[j] ELSE queue[j + 1]
    BY <1>1, SplicedLeaves
<1>3. ASSUME NEW j \in 1 .. Len(queue')
      PROVE  \E k \in 1 .. Len(queue) :
                k # i /\ k = (IF j < i THEN j ELSE j + 1) /\ queue'[j] = queue[k]
    BY <1>1, <1>2
<1>4. ASSUME NEW j \in 1 .. Len(queue') PROVE call'[queue'[j]].stage \in InLine
    <2>1. PICK k \in 1 .. Len(queue) : k # i /\ queue'[j] = queue[k]
        BY <1>3
    <2>2. queue[k] # c /\ queue[k] \in Caller
        BY <1>1, <2>1, ElementOfSeq DEF QueueInv
    <2> QED BY <2>1, <2>2 DEF QueueInv
<1>5. ASSUME NEW j \in 1 .. Len(queue'), NEW k \in 1 .. Len(queue'), queue'[j] = queue'[k]
      PROVE  j = k
    <2>1. PICK l \in 1 .. Len(queue) : l = (IF j < i THEN j ELSE j + 1) /\ queue'[j] = queue[l]
        BY <1>3
    <2>2. PICK m \in 1 .. Len(queue) : m = (IF k < i THEN k ELSE k + 1) /\ queue'[k] = queue[m]
        BY <1>3
    <2>3. l = m
        BY <1>5, <2>1, <2>2 DEF QueueInv
    <2> QED BY <1>1, <1>2, <2>1, <2>2, <2>3
<1> QED BY <1>2, <1>4, <1>5 DEF QueueInv

\* The head leaves as any other.
LEMMA HeadIsFirst ==
    ASSUME queue \in Seq(Caller), queue # <<>>
    PROVE  /\ 1 \in 1 .. Len(queue) /\ Head(queue) = queue[1]
           /\ Tail(queue) = Spliced(1)
<1>1. Len(queue) \in Nat \ {0} /\ Head(queue) = queue[1]
    BY EmptySeq
<1>2. 1 \in 1 .. Len(queue)
    BY <1>1
<1>3. /\ Tail(queue) \in Seq(Caller) /\ Len(Tail(queue)) = Len(queue) - 1
      /\ \A j \in 1 .. Len(Tail(queue)) : Tail(queue)[j] = queue[j + 1]
    BY HeadTailProperties
<1>4. /\ Spliced(1) \in Seq(Caller) /\ Len(Spliced(1)) = Len(queue) - 1
      /\ \A j \in 1 .. Len(queue) - 1 :
            Spliced(1)[j] = IF j < 1 THEN queue[j] ELSE queue[j + 1]
    BY <1>2, SplicedLeaves
<1>5. \A j \in 1 .. Len(Tail(queue)) : Tail(queue)[j] = Spliced(1)[j]
    BY <1>1, <1>3, <1>4
<1>6. Tail(queue) = Spliced(1)
    BY <1>3, <1>4, <1>5, SeqEqual
<1> QED BY <1>1, <1>2, <1>6

LEMMA JoinQueue ==
    ASSUME QueueInv, call \in [Caller -> Request], NEW c \in Caller,
           call[c].stage \notin InLine, NEW r, r.stage \in InLine,
           call' = [call EXCEPT ![c] = r], queue' = Append(queue, c)
    PROVE  QueueInv'
<1> DEFINE n == Len(queue)
<1>1. queue \in Seq(Caller) /\ n \in Nat
    BY LenProperties DEF QueueInv
<1>2. /\ queue' \in Seq(Caller) /\ Len(queue') = n + 1 /\ queue'[n + 1] = c
      /\ \A i \in 1 .. n : queue'[i] = queue[i]
    BY <1>1, AppendProperties
<1>3. \A i \in 1 .. n : queue[i] \in Caller /\ queue[i] # c
    BY <1>1, ElementOfSeq DEF QueueInv
<1> HIDE DEF n
<1>4. ASSUME NEW i \in 1 .. n + 1 PROVE call'[queue'[i]].stage \in InLine
    <2>1. CASE i = n + 1
        <3>1. queue'[i] = c /\ call'[c] = r
            BY <1>2, <2>1
        <3> QED BY <3>1
    <2>2. CASE i \in 1 .. n
        <3>1. queue'[i] = queue[i] /\ call'[queue[i]] = call[queue[i]]
            BY <1>2, <1>3, <2>2
        <3> QED BY <2>2, <3>1 DEF QueueInv, n
    <2>3. i = n + 1 \/ i \in 1 .. n
        BY <1>1
    <2> QED BY <2>1, <2>2, <2>3
<1>5. ASSUME NEW i \in 1 .. n + 1, NEW j \in 1 .. n + 1, queue'[i] = queue'[j]
      PROVE  i = j
    <2>1. CASE i \in 1 .. n /\ j \in 1 .. n
        BY <1>2, <1>5, <2>1 DEF QueueInv, n
    <2>2. CASE i = n + 1 \/ j = n + 1
        BY <1>1, <1>2, <1>3, <1>5, <2>2
    <2> QED BY <1>1, <2>1, <2>2
<1> QED BY <1>2, <1>4, <1>5 DEF QueueInv

\* A caller that neither joins nor leaves.
LEMMA SameQueue ==
    ASSUME QueueInv, call \in [Caller -> Request], NEW c \in Caller, NEW r,
           r.stage = call[c].stage \/ call[c].stage \notin InLine,
           call' = [call EXCEPT ![c] = r], queue' = queue
    PROVE  QueueInv'
<1>1. \A i \in 1 .. Len(queue) : queue[i] \in Caller
    BY ElementOfSeq DEF QueueInv
<1>2. \A i \in 1 .. Len(queue) : call'[queue[i]].stage \in InLine
    BY <1>1 DEF QueueInv
<1> QED BY <1>2 DEF QueueInv

-----------------------------------------------------------------------------
\* Who holds a connection after a step of one caller.
LEMMA HoldersStep ==
    ASSUME call \in [Caller -> Request], NEW c \in Caller, NEW r,
           call' = [call EXCEPT ![c] = r]
    PROVE  /\ r.stage \in Holding => Holders' = Holders \cup {c}
           /\ r.stage \notin Holding => Holders' = Holders \ {c}
<1>1. \A d \in Caller : call'[d] = IF d = c THEN r ELSE call[d]
    OBVIOUS
<1> QED BY <1>1 DEF Holders, Holding

\* The step of a caller that borrows a connection, gives one back, or does neither.
LEMMA PoolStep ==
    ASSUME PoolInv, call \in [Caller -> Request], NEW c \in Caller, NEW r,
           call' = [call EXCEPT ![c] = r],
           \/ /\ call[c].stage \notin Holding /\ r.stage \in Holding
              /\ free > 0 /\ free' = free - 1
           \/ /\ call[c].stage \in Holding /\ r.stage \notin Holding
              /\ free' = free + 1
           \/ /\ call[c].stage \in Holding <=> r.stage \in Holding
              /\ free' = free
    PROVE  PoolInv'
<1>1. c \in Holders <=> call[c].stage \in Holding
    BY DEF Holders, Holding
<1>2. /\ free \in Nat /\ IsFiniteSet(Holders) /\ free + Cardinality(Holders) = PoolMax
      /\ Cardinality(Holders) \in Nat
    BY FS_CardinalityType DEF PoolInv
<1>3. CASE call[c].stage \notin Holding /\ r.stage \in Holding /\ free > 0 /\ free' = free - 1
    <2>1. Holders' = Holders \cup {c}
        BY <1>3, HoldersStep
    <2>2. IsFiniteSet(Holders') /\ Cardinality(Holders') = Cardinality(Holders) + 1
        BY <1>1, <1>2, <1>3, <2>1, FS_AddElement
    <2> QED BY <1>2, <1>3, <2>2 DEF PoolInv
<1>4. CASE call[c].stage \in Holding /\ r.stage \notin Holding /\ free' = free + 1
    <2>1. Holders' = Holders \ {c}
        BY <1>4, HoldersStep
    <2>2. IsFiniteSet(Holders') /\ Cardinality(Holders') = Cardinality(Holders) - 1
        BY <1>1, <1>2, <1>4, <2>1, FS_RemoveElement
    <2> QED BY <1>2, <1>4, <2>2 DEF PoolInv
<1>5. CASE (call[c].stage \in Holding <=> r.stage \in Holding) /\ free' = free
    <2>1. Holders' = Holders
        BY <1>1, <1>5, HoldersStep
    <2> QED BY <1>2, <1>5, <2>1 DEF PoolInv
<1> QED BY <1>3, <1>4, <1>5

LEMMA CallsStep ==
    ASSUME CallsInv, NEW c \in Caller, NEW r \in Request, Honest(r),
           call' = [call EXCEPT ![c] = r], server' = server,
           r.waited => server = "serving" \/ call[c].waited
    PROVE  CallsInv'
<1>1. \A d \in Caller : call'[d] = IF d = c THEN r ELSE call[d]
    BY DEF CallsInv
<1>2. call' \in [Caller -> Request]
    BY DEF CallsInv
<1> QED BY <1>1, <1>2 DEF CallsInv

\* Only a caller at work may leave a transaction open.
LEMMA WorkStep ==
    ASSUME WorkInv, call \in [Caller -> Request], NEW c \in Caller, NEW r,
           call' = [call EXCEPT ![c] = r],
           \A d \in Change : d # c /\ change'[d].pc # "idle" => change[d].pc # "idle",
           c \in Change /\ change'[c].pc # "idle" => r.stage = "working"
    PROVE  WorkInv'
<1>1. \A d \in Change : call'[d] = IF d = c THEN r ELSE call[d]
    BY DEF Caller
<1> QED BY <1>1 DEF WorkInv

-----------------------------------------------------------------------------
(***************************************************************************)
(* One lemma per kind of step.                                             *)
(***************************************************************************)

LEMMA NoRequestOK == NoRequest \in Request /\ Honest(NoRequest) /\ ~ NoRequest.waited
    BY DEF NoRequest, Request, Honest

\* What is known of a caller.
LEMMA CallerKnown ==
    ASSUME SInv, NEW c \in Caller
    PROVE  /\ call \in [Caller -> Request] /\ call[c] \in Request /\ Honest(call[c])
           /\ call[c].stage # "working" => c \notin Change \/ change[c].pc = "idle"
    BY DEF SInv, CallsInv, WorkInv

\* A request or a probe arrives.
LEMMA AskOK ==
    ASSUME SInv, NEW c \in Caller, server = "serving", server' = server, call[c].stage = "idle",
           call' = [call EXCEPT ![c] = [NoRequest EXCEPT !.stage = "asking", !.waited = TRUE]],
           queue' = Append(queue, c), free' = free, change' = change
    PROVE  SInv'
<1> DEFINE r == [NoRequest EXCEPT !.stage = "asking", !.waited = TRUE]
<1>1. r \in Request /\ r.stage = "asking" /\ Honest(r)
    BY DEF NoRequest, Request, InLine, Honest
<1>2. call \in [Caller -> Request] /\ (c \notin Change \/ change[c].pc = "idle")
    BY CallerKnown
<1> HIDE DEF r
<1>3. call' = [call EXCEPT ![c] = r]
    BY DEF r
<1>4. CallsInv'
    BY <1>1, <1>3, CallsStep DEF SInv
<1>5. QueueInv'
    <2>1. call[c].stage \notin InLine /\ r.stage \in InLine
        BY <1>1 DEF InLine
    <2> QED BY <1>2, <1>3, <2>1, JoinQueue DEF SInv
<1>6. PoolInv'
    BY <1>1, <1>2, <1>3, PoolStep DEF SInv, Holding
<1>7. WorkInv'
    BY <1>2, <1>3, WorkStep DEF SInv
<1> QED BY <1>4, <1>5, <1>6, <1>7 DEF SInv

\* The head of the queue gets its connection, or fails.
LEMMA ConnectOK == ASSUME SInv, NEW c \in Caller, Connect(c) PROVE SInv'
<1>1. /\ call \in [Caller -> Request] /\ call[c] \in Request /\ Honest(call[c])
      /\ call[c].stage # "working" => c \notin Change \/ change[c].pc = "idle"
    BY CallerKnown
<1>2. queue \in Seq(Caller) /\ queue # <<>> /\ c = Head(queue)
    BY DEF Connect, SInv, QueueInv
<1>3. 1 \in 1 .. Len(queue) /\ c = queue[1] /\ queue' = Spliced(1)
    BY <1>2, HeadIsFirst DEF Connect
<1>4. call[c].stage \in InLine
    BY <1>3 DEF SInv, QueueInv
<1>5. server' = server /\ change' = change /\ free > 0
    BY DEF Connect, vars
<1>6. ASSUME NEW r \in Request, Honest(r), call' = [call EXCEPT ![c] = r],
             r.waited => call[c].waited,
             \/ r.stage \in {"looking", "connected"} /\ free' = free - 1
             \/ r.stage = "idle" /\ free' = free
      PROVE  SInv'
    <2>1. CallsInv'
        BY <1>5, <1>6, CallsStep DEF SInv
    <2>2. QueueInv'
        BY <1>1, <1>3, <1>6, LeaveQueue DEF SInv
    <2>3. PoolInv'
        BY <1>1, <1>4, <1>5, <1>6, PoolStep DEF SInv, InLine, Holding
    <2>4. WorkInv'
        BY <1>1, <1>4, <1>5, <1>6, WorkStep DEF SInv, InLine
    <2> QED BY <2>1, <2>2, <2>3, <2>4 DEF SInv
<1>7. CASE call' = Answered(c) /\ free' = free
    BY <1>6, <1>7, NoRequestOK DEF Answered, NoRequest
<1>8. CASE /\ free' = free - 1
           /\ call' = [call EXCEPT ![c].stage = IF @ = "asking" THEN "looking" ELSE "connected"]
    <2> DEFINE r == [call[c] EXCEPT !.stage = IF call[c].stage = "asking" THEN "looking"
                                              ELSE "connected"]
    <2>1. r \in Request /\ r.stage \in {"looking", "connected"} /\ r.waited = call[c].waited
        BY <1>1 DEF Request, Holding
    <2>2. Honest(r)
        BY <1>1, <1>4 DEF Honest, Request, InLine
    <2>3. call' = [call EXCEPT ![c] = r]
        BY <1>1, <1>8
    <2> QED BY <1>6, <1>8, <2>1, <2>2, <2>3
<1> QED BY <1>7, <1>8 DEF Connect

LEMMA TimeoutOK == ASSUME SInv, NEW c \in Caller, ConnectTimeout(c) PROVE SInv'
<1>1. /\ call \in [Caller -> Request]
      /\ call[c].stage # "working" => c \notin Change \/ change[c].pc = "idle"
    BY CallerKnown
<1>2. PICK i \in 1 .. Len(queue) : queue[i] = c /\ queue' = Spliced(i)
    BY LenProperties DEF ConnectTimeout, SInv, QueueInv
<1>3. call[c].stage \in InLine
    BY <1>2 DEF SInv, QueueInv
<1>4. /\ call' = [call EXCEPT ![c] = NoRequest]
      /\ server' = server /\ change' = change /\ free' = free
    BY DEF ConnectTimeout, Answered, vars
<1>5. CallsInv'
    BY <1>4, CallsStep, NoRequestOK DEF SInv
<1>6. QueueInv'
    BY <1>1, <1>2, <1>4, LeaveQueue DEF SInv
<1>7. PoolInv'
    BY <1>1, <1>3, <1>4, PoolStep DEF SInv, InLine, Holding, NoRequest
<1>8. WorkInv'
    BY <1>1, <1>3, <1>4, WorkStep DEF SInv, InLine
<1> QED BY <1>5, <1>6, <1>7, <1>8 DEF SInv

\* The client hangs up, or the probe's answer is no longer waited for.
LEMMA LeaveOK ==
    ASSUME SInv, NEW c \in Caller, call' = [call EXCEPT ![c].waited = FALSE],
           UNCHANGED <<vars, poolVars, server>>
    PROVE  SInv'
<1> DEFINE r == [call[c] EXCEPT !.waited = FALSE]
<1>1. /\ call \in [Caller -> Request] /\ call[c] \in Request /\ Honest(call[c])
      /\ call[c].stage # "working" => c \notin Change \/ change[c].pc = "idle"
    BY CallerKnown
<1>2. r \in Request /\ r.stage = call[c].stage /\ ~ r.waited /\ Honest(r)
    BY <1>1 DEF Request, Honest
<1>3. call' = [call EXCEPT ![c] = r] /\ change' = change /\ free' = free /\ queue' = queue
    BY DEF vars, poolVars
<1> HIDE DEF r
<1>4. CallsInv'
    BY <1>2, <1>3, CallsStep DEF SInv
<1>5. QueueInv'
    BY <1>1, <1>2, <1>3, SameQueue DEF SInv
<1>6. PoolInv'
    BY <1>1, <1>2, <1>3, PoolStep DEF SInv
<1>7. WorkInv'
    BY <1>1, <1>2, <1>3, WorkStep DEF SInv, WorkInv
<1> QED BY <1>4, <1>5, <1>6, <1>7 DEF SInv

\* A connection comes back, and its request is over.
LEMMA GiveBackOK ==
    ASSUME SInv, NEW c \in Caller, call[c].stage \in {"looking", "ending"},
           call' = Answered(c), free' = free + 1, UNCHANGED <<vars, queue, server>>
    PROVE  SInv'
<1>1. /\ call \in [Caller -> Request] /\ (c \notin Change \/ change[c].pc = "idle")
      /\ call' = [call EXCEPT ![c] = NoRequest] /\ change' = change
    BY CallerKnown DEF Answered, vars
<1>2. CallsInv'
    BY <1>1, CallsStep, NoRequestOK DEF SInv
<1>3. QueueInv'
    BY <1>1, SameQueue DEF SInv, InLine
<1>4. PoolInv'
    BY <1>1, PoolStep DEF SInv, Holding, NoRequest
<1>5. WorkInv'
    BY <1>1, WorkStep DEF SInv
<1> QED BY <1>2, <1>3, <1>4, <1>5 DEF SInv

LEMMA GuardedOK == ASSUME SInv, NEW c \in Change, Guarded(c) PROVE SInv'
<1>1. c \in Caller /\ call[c].stage = "looking" /\ free' = free + 1
      /\ UNCHANGED <<vars, server>> /\ change' = change
    BY DEF Guarded, Caller, vars
<1>2. CASE call' = Answered(c) /\ queue' = queue
    BY <1>1, <1>2, GiveBackOK
<1>3. CASE call' = [call EXCEPT ![c].stage = "queued"] /\ queue' = Append(queue, c)
    <2> DEFINE r == [call[c] EXCEPT !.stage = "queued"]
    <2>1. call \in [Caller -> Request] /\ call[c] \in Request /\ Honest(call[c])
          /\ (c \notin Change \/ change[c].pc = "idle")
        BY <1>1, CallerKnown
    <2>2. r \in Request /\ r.stage = "queued" /\ r.waited = call[c].waited /\ Honest(r)
        BY <1>1, <2>1 DEF Request, InLine, Honest
    <2>3. call' = [call EXCEPT ![c] = r]
        BY <1>3
    <2> HIDE DEF r
    <2>4. CallsInv'
        BY <1>1, <2>2, <2>3, CallsStep DEF SInv
    <2>5. QueueInv'
        <3>1. call[c].stage \notin InLine /\ r.stage \in InLine
            BY <1>1, <2>2 DEF InLine
        <3> QED BY <1>1, <1>3, <2>1, <2>3, <3>1, JoinQueue DEF SInv
    <2>6. PoolInv'
        BY <1>1, <2>1, <2>2, <2>3, PoolStep DEF SInv, Holding
    <2>7. WorkInv'
        BY <1>1, <2>1, <2>3, WorkStep DEF SInv
    <2> QED BY <2>4, <2>5, <2>6, <2>7 DEF SInv
<1> QED BY <1>2, <1>3 DEF Guarded, WantConnection

-----------------------------------------------------------------------------
\* A request goes on with its transaction, or ends it.
LEMMA TransactOK ==
    ASSUME SInv, NEW c \in Change, call[c].stage \in {"connected", "working"},
           NEW r \in Request, Honest(r), r.stage \in {"working", "ending"},
           r.waited = call[c].waited, call' = [call EXCEPT ![c] = r],
           UNCHANGED <<poolVars, server>>,
           \A d \in Change \ {c} : change'[d] = change[d],
           change'[c].pc # "idle" => r.stage = "working"
    PROVE  SInv'
<1>1. c \in Caller /\ call \in [Caller -> Request] /\ queue' = queue /\ free' = free
    BY CallerKnown DEF Caller, poolVars
<1>2. CallsInv'
    BY <1>1, CallsStep DEF SInv
<1>3. QueueInv'
    <2>1. call[c].stage \notin InLine
        BY DEF InLine
    <2> QED BY <1>1, <2>1, SameQueue DEF SInv
<1>4. PoolInv'
    <2>1. call[c].stage \in Holding /\ r.stage \in Holding
        BY DEF Holding
    <2> QED BY <1>1, <2>1, PoolStep DEF SInv
<1>5. WorkInv'
    BY <1>1, WorkStep DEF SInv
<1> QED BY <1>2, <1>3, <1>4, <1>5 DEF SInv

\* The record of a call whose transaction is over.
Ended(c, answer, kept) ==
    [call[c] EXCEPT !.stage = "ending", !.answer = answer, !.kept = kept]

\* The record of a request whose transaction is over.
LEMMA EndingRecord ==
    ASSUME SInv, NEW c \in Change, call[c].stage \in {"connected", "working"},
           NEW answer \in {"done", "refused", "unknown"}, NEW kept \in BOOLEAN,
           answer = "done" => kept, answer = "refused" => ~ kept
    PROVE  /\ Ended(c, answer, kept) \in Request /\ Honest(Ended(c, answer, kept))
           /\ Ended(c, answer, kept).stage = "ending"
           /\ Ended(c, answer, kept).waited = call[c].waited
           /\ ~ kept => Ending(c, answer) = [call EXCEPT ![c] = Ended(c, answer, kept)]
           /\ [Ending(c, answer) EXCEPT ![c].kept = kept]
                = [call EXCEPT ![c] = Ended(c, answer, kept)]
<1> DEFINE r == [call[c] EXCEPT !.stage = "ending", !.answer = answer, !.kept = kept]
<1>1. call \in [Caller -> Request] /\ call[c] \in Request /\ Honest(call[c]) /\ c \in Caller
    BY CallerKnown DEF Caller
<1>2. r \in Request /\ r.stage = "ending" /\ r.waited = call[c].waited /\ Honest(r)
    BY <1>1 DEF Request, Holding, Honest
<1>3. call[c].kept = FALSE
    BY <1>1 DEF Honest, Request
<1>4. ~ kept => [call[c] EXCEPT !.stage = "ending", !.answer = answer] = r
    BY <1>1, <1>3 DEF Request
<1>5. ~ kept => Ending(c, answer) = [call EXCEPT ![c] = r]
    BY <1>4 DEF Ending
<1>6. [Ending(c, answer) EXCEPT ![c].kept = kept] = [call EXCEPT ![c] = r]
    BY <1>1 DEF Ending
<1> QED BY <1>2, <1>5, <1>6 DEF Ended

\* A transaction ends without an effect: nobody is told it had one.
LEMMA EndOK ==
    ASSUME IInv, SInv, NEW c \in Change, call[c].stage \in {"connected", "working"},
           NEW answer \in {"refused", "unknown"}, call' = Ending(c, answer),
           UNCHANGED <<poolVars, server>>,
           RollBack(c) \/ (UNCHANGED vars /\ call[c].stage = "connected")
    PROVE  SInv'
<1> DEFINE r == Ended(c, answer, FALSE)
<1>1. /\ r \in Request /\ Honest(r) /\ r.stage = "ending" /\ r.waited = call[c].waited
      /\ call' = [call EXCEPT ![c] = r]
    BY EndingRecord
<1>2. c \in Caller /\ (call[c].stage = "connected" => change[c].pc = "idle")
    BY CallerKnown DEF Caller
<1>3. (\A d \in Change \ {c} : change'[d] = change[d]) /\ change'[c].pc = "idle"
    <2>1. CASE RollBack(c)
        <3>1. change' = [change EXCEPT ![c] = Idle]
            BY <2>1 DEF RollBack
        <3>2. change'[c] = Idle /\ \A d \in Change \ {c} : change'[d] = change[d]
            BY <3>1 DEF IInv, PricesTypeOK
        <3> QED BY <3>2 DEF Idle
    <2>2. CASE UNCHANGED vars /\ call[c].stage = "connected"
        BY <1>2, <2>2 DEF vars
    <2> QED BY <2>1, <2>2
<1> HIDE DEF r
<1> QED BY <1>1, <1>3, TransactOK

LEMMA BeginsOK == ASSUME IInv, SInv, NEW c \in Change, Begin(c) PROVE SInv'
<1>1. call[c].stage = "connected" /\ UNCHANGED <<poolVars, server>>
    BY DEF Begin
<1>2. CASE call' = Ending(c, "unknown") /\ UNCHANGED vars
    BY <1>1, <1>2, EndOK
<1>3. ASSUME NEW price \in Price, BeginChange(c, price),
             call' = [call EXCEPT ![c].stage = "working"]
      PROVE  SInv'
    <2> DEFINE r == [call[c] EXCEPT !.stage = "working"]
    <2>1. call \in [Caller -> Request] /\ call[c] \in Request /\ Honest(call[c])
        BY CallerKnown DEF Caller
    <2>2. r \in Request /\ Honest(r) /\ r.stage = "working" /\ r.waited = call[c].waited
        BY <1>1, <2>1 DEF Request, Holding, Honest
    <2>3. call' = [call EXCEPT ![c] = r]
        BY <1>3
    <2>4. \A d \in Change \ {c} : change'[d] = change[d]
        BY <1>3 DEF BeginChange, IInv, PricesTypeOK
    <2> HIDE DEF r
    <2> QED BY <1>1, <2>2, <2>3, <2>4, TransactOK
<1> QED BY <1>2, <1>3 DEF Begin

LEMMA WorkOK == ASSUME IInv, SInv, NEW c \in Change, Work(c) PROVE SInv'
<1>1. call[c].stage = "working" /\ UNCHANGED <<call, poolVars, server>>
    BY DEF Work
<1>2. call \in [Caller -> Request] /\ call[c] \in Request /\ Honest(call[c])
    BY CallerKnown DEF Caller
<1>3. call' = [call EXCEPT ![c] = call[c]]
    BY <1>1, <1>2
<1>4. ASSUME NEW d \in Change \ {c} PROVE change'[d] = change[d]
    <2>1. \E r : change' = [change EXCEPT ![c] = r]
        BY DEF Work, CloseOpenPeriod, OpenPeriod, PassConstraints
    <2> QED BY <2>1 DEF IInv, PricesTypeOK
<1> QED BY <1>1, <1>2, <1>3, <1>4, TransactOK

\* What a commit is told to have done, it did.
LEMMA CommitsOK == ASSUME IInv, SInv, NEW c \in Change, Commit(c) PROVE SInv'
<1>1. call[c].stage = "working" /\ CommitChange(c) /\ UNCHANGED <<poolVars, server>>
    BY DEF Commit
<1>2. history' # history
    <2>1. Last' = Last + 1 /\ Last \in Nat
        BY <1>1, Extended, OpenIsLast
    <2> QED BY <2>1 DEF Last
<1>3. PICK answer \in {"done", "unknown"} :
            call' = [Ending(c, answer) EXCEPT ![c].kept = history' # history]
    BY DEF Commit, CommitAnswers
<1>4. PICK kept \in BOOLEAN : kept /\ kept = (history' # history)
    BY <1>2
<1>5. call' = [Ending(c, answer) EXCEPT ![c].kept = kept]
    BY <1>3, <1>4
<1> DEFINE r == Ended(c, answer, kept)
<1>6. /\ r \in Request /\ Honest(r) /\ r.stage = "ending" /\ r.waited = call[c].waited
      /\ call' = [call EXCEPT ![c] = r]
    <2>1. /\ answer \in {"done", "refused", "unknown"} /\ kept \in BOOLEAN
          /\ answer = "done" => kept
          /\ answer = "refused" => ~ kept
        BY <1>4
    <2>2. call[c].stage \in {"connected", "working"}
        BY <1>1
    <2>3. /\ r \in Request /\ Honest(r) /\ r.stage = "ending" /\ r.waited = call[c].waited
          /\ [Ending(c, answer) EXCEPT ![c].kept = kept] = [call EXCEPT ![c] = r]
        BY <2>1, <2>2, EndingRecord
    <2> HIDE DEF r
    <2> QED BY <1>5, <2>3
<1>7. (\A d \in Change \ {c} : change'[d] = change[d]) /\ change'[c].pc = "idle"
    <2>1. change'[c] = Idle /\ \A d \in Change \ {c} : change'[d] = change[d]
        BY <1>1 DEF CommitChange, IInv, PricesTypeOK
    <2> QED BY <2>1 DEF Idle
<1> HIDE DEF r
<1> QED BY <1>1, <1>6, <1>7, TransactOK

-----------------------------------------------------------------------------
\* The end of the process, or its beginning: no request, every connection free.
LEMMA FreshOK ==
    ASSUME call = [c \in Caller |-> NoRequest], free = PoolMax, queue = <<>>,
           \A c \in Change : change[c].pc = "idle"
    PROVE  SInv
<1>1. call \in [Caller -> Request] /\ \A c \in Caller : call[c] = NoRequest
    BY NoRequestOK
<1>2. CallsInv
    BY <1>1, NoRequestOK DEF CallsInv
<1>3. QueueInv
    BY EmptySeq DEF QueueInv
<1>4. Holders = {}
    BY <1>1 DEF Holders, NoRequest
<1>5. PoolInv
    BY <1>4, FS_EmptySet, ServiceConstantsOK DEF PoolInv, ServiceConstantsOK
<1> QED BY <1>2, <1>3, <1>5 DEF SInv, WorkInv

LEMMA HaltOK == ASSUME NEW how, Halt(how) PROVE SInv'
<1>1. \A c \in Change : change'[c].pc = "idle"
    BY DEF Halt, Idle
<1>2. call' = [c \in Caller |-> NoRequest] /\ free' = PoolMax /\ queue' = <<>>
    BY DEF Halt
<1>3. call' \in [Caller -> Request] /\ \A c \in Caller : call'[c] = NoRequest
    BY <1>2, NoRequestOK
<1>4. CallsInv'
    BY <1>3, NoRequestOK DEF CallsInv
<1>5. QueueInv'
    BY <1>2, EmptySeq DEF QueueInv
<1>6. Holders' = {}
    BY <1>3 DEF Holders, NoRequest
<1>7. PoolInv'
    BY <1>2, <1>6, FS_EmptySet, ServiceConstantsOK DEF PoolInv, ServiceConstantsOK
<1> QED BY <1>1, <1>4, <1>5, <1>7 DEF SInv, WorkInv

\* Steps that leave the requests and the pool alone; the pool drains once nobody waits.
LEMMA AsideOK ==
    ASSUME SInv, UNCHANGED <<call, poolVars, change>>,
           server' = "draining" => server = "draining" \/ \A c \in Caller : ~ call[c].waited
    PROVE  SInv'
<1>1. UNCHANGED <<call, free, queue, change>>
    BY DEF poolVars
<1>2. CallsInv'
    BY <1>1 DEF SInv, CallsInv
<1>3. QueueInv'
    BY <1>1 DEF SInv, QueueInv
<1>4. Holders' = Holders
    BY <1>1 DEF Holders
<1>5. PoolInv'
    BY <1>1, <1>4 DEF SInv, PoolInv
<1>6. WorkInv'
    BY <1>1 DEF SInv, WorkInv
<1> QED BY <1>2, <1>3, <1>5, <1>6 DEF SInv

LEMMA ServiceStep == ASSUME IInv, SInv, [ServiceNext]_serviceVars PROVE SInv'
<1>1. ASSUME NEW c \in Change, Arrive(c) PROVE SInv'
    BY <1>1, AskOK DEF Arrive, Caller, vars
<1>2. ASSUME NEW c \in Change, HangUp(c) PROVE SInv'
    BY <1>2, LeaveOK DEF HangUp, Caller
<1>3. ASSUME NEW c \in Change, Guarded(c) PROVE SInv'
    BY <1>3, GuardedOK
<1>4. ASSUME NEW c \in Change, Begin(c) PROVE SInv'
    BY <1>4, BeginsOK
<1>5. ASSUME NEW c \in Change, Work(c) \/ Commit(c) PROVE SInv'
    BY <1>5, WorkOK, CommitsOK
<1>6. ASSUME NEW c \in Change, Conflict(c) PROVE SInv'
    <2>1. RollBack(c)
        BY <1>6 DEF Conflict, Refuse, BreakDeadlock
    <2> QED BY <1>6, <2>1, EndOK DEF Conflict
<1>7. ASSUME NEW c \in Change, StatementTimeout(c) \/ LoseConnection(c) PROVE SInv'
    <2>1. /\ RollBack(c) /\ call[c].stage = "working" /\ call' = Ending(c, "unknown")
          /\ UNCHANGED <<poolVars, server>>
        BY <1>7 DEF StatementTimeout, LoseConnection, Fail
    <2> QED BY <2>1, EndOK
<1>8. ASSUME NEW c \in Change, Release(c) PROVE SInv'
    BY <1>8, GiveBackOK DEF Release, Returned, Caller
<1>9. ASSUME NEW c \in Caller, Connect(c) \/ ConnectTimeout(c) PROVE SInv'
    BY <1>9, ConnectOK, TimeoutOK
<1>10. ASSUME CheckReadiness PROVE SInv'
    BY <1>10, AskOK DEF CheckReadiness, Caller, vars
<1>11. ASSUME ReadinessTimeout PROVE SInv'
    BY <1>11, LeaveOK DEF ReadinessTimeout, Caller
<1>12. ASSUME Probed PROVE SInv'
    BY <1>12, GiveBackOK DEF Probed, Caller
<1>13. ASSUME Signal \/ CloseServer PROVE SInv'
    BY <1>13, AsideOK DEF Signal, CloseServer, vars
<1>14. ASSUME PoolEnded \/ Watchdog PROVE SInv'
    BY <1>14, HaltOK DEF PoolEnded, Watchdog
<1>15. ASSUME Tick, UNCHANGED <<call, poolVars, server>> PROVE SInv'
    BY <1>15, AsideOK DEF Tick
<1>16. ASSUME UNCHANGED serviceVars PROVE SInv'
    BY <1>16, AsideOK DEF serviceVars, vars
<1> QED BY <1>1, <1>2, <1>3, <1>4, <1>5, <1>6, <1>7, <1>8, <1>9, <1>10, <1>11, <1>12, <1>13,
           <1>14, <1>15, <1>16 DEF ServiceNext

\* The invariant of the service, with the history's.
THEOREM ServiceInvariant == ServiceSpec => [](IInv /\ SInv)
<1>1. ASSUME ServiceInit PROVE IInv /\ SInv
    <2>1. IInv
        BY <1>1, InitOK DEF ServiceInit
    <2>2. \A c \in Change : change[c].pc = "idle"
        BY <1>1 DEF ServiceInit, Init, Idle
    <2> QED BY <1>1, <2>1, <2>2, FreshOK DEF ServiceInit
<1>2. ASSUME IInv /\ SInv, [ServiceNext]_serviceVars PROVE (IInv /\ SInv)'
    BY <1>2, PricesKept, ServiceStep
<1> QED BY <1>1, <1>2, PTL DEF ServiceSpec

\* Behind the pool the history is what it is without it (routes.service.ts inside
\* DatabaseService.transaction): gapless, mirrored and append-only, also when the process
\* ends in the middle of a change.
THEOREM ServedHistoryGapless == ServiceSpec => []PeriodsAbut
<1>1. IInv => PeriodsAbut
    BY DEF IInv
<1> QED BY <1>1, ServiceInvariant, PTL

\* The price trips are created at is the open period's.
THEOREM ServedMirrorHonest == ServiceSpec => []MirrorShowsOpenPrice
<1>1. IInv => MirrorShowsOpenPrice
    BY DEF IInv
<1> QED BY <1>1, ServiceInvariant, PTL

\* No request, no failure and no end of the process alters a recorded period.
THEOREM ServedPastIsFixed == ServiceSpec => HistoryAppendOnly
<1>1. ASSUME IInv, [ServiceNext]_serviceVars PROVE [KeepsHistory]_vars
    <2>1. CASE AllLost
        <3>1. history' = history /\ Last' = Last
            BY <2>1 DEF AllLost, Last
        <3> QED BY <3>1 DEF KeepsHistory
    <2> QED BY <1>1, <2>1, PricesStep, KeepsOK
<1> QED BY <1>1, ServiceInvariant, PTL DEF ServiceSpec, HistoryAppendOnly

\* Every connection is free or in the hands of one request, whatever failed
\* (the finally of Transaction.run, and what pg-pool does on its own).
THEOREM PoolAccounted == ServiceSpec => []ConnectionsAccounted
<1>1. SInv => ConnectionsAccounted
    BY DEF SInv, PoolInv, WorkInv, ConnectionsAccounted
<1> QED BY <1>1, ServiceInvariant, PTL

\* A client that is told a change was made or refused is told the truth
\* (all-exceptions.filter.ts after a COMMIT whose answer may be lost).
THEOREM ClientsToldTheTruth == ServiceSpec => []AnswerTellsOutcome
<1>1. SInv => AnswerTellsOutcome
    BY DEF SInv, CallsInv, Honest, AnswerTellsOutcome, Caller
<1> QED BY <1>1, ServiceInvariant, PTL

\* The pool ends when nobody waits and no transaction is open (shutdown hooks of main.ts).
THEOREM GracefulStop == ServiceSpec => StopsCleanly
<1>1. ASSUME SInv, [ServiceNext]_serviceVars PROVE [CutsNothing]_serviceVars
    <2>1. CASE PoolEnded
        <3>1. server = "draining" /\ free = PoolMax /\ Halt("stopped")
            BY <2>1 DEF PoolEnded, Drained
        <3>2. \A c \in Caller : ~ call[c].waited
            BY <1>1, <3>1 DEF SInv, CallsInv
        <3>3. Holders = {}
            <4>1. IsFiniteSet(Holders) /\ Cardinality(Holders) \in Nat
                  /\ free + Cardinality(Holders) = PoolMax /\ free \in Nat
                BY <1>1, FS_CardinalityType DEF SInv, PoolInv
            <4>2. Cardinality(Holders) = 0
                BY <3>1, <4>1
            <4> QED BY <4>1, <4>2, FS_EmptySet
        <3>4. \A c \in Change : change[c].pc = "idle"
            BY <1>1, <3>3 DEF SInv, WorkInv, Holders, Caller
        <3> QED BY <3>2, <3>4 DEF CutsNothing
    <2>2. CASE ~ PoolEnded
        <3>1. server' = "stopped" => server = "stopped"
            BY <1>1, <2>2 DEF ServiceNext, Arrive, HangUp, Guarded, Begin, Work, Commit, Conflict,
                StatementTimeout, LoseConnection, Release, Connect, ConnectTimeout,
                CheckReadiness, ReadinessTimeout, Probed, Signal, CloseServer, Watchdog, Halt,
                serviceVars
        <3> QED BY <3>1 DEF CutsNothing
    <2> QED BY <2>1, <2>2
<1> QED BY <1>1, ServiceInvariant, PTL DEF ServiceSpec, StopsCleanly
=============================================================================
