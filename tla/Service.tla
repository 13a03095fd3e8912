-------------------------------- MODULE Service --------------------------------
(***************************************************************************)
(* The server around the transactions: price changes of RoutePrices as     *)
(* requests that queue for the connections of the pool, first for a query  *)
(* of the guards, then for their transaction; failures and the answers     *)
(* they become; the readiness probe, which queues with them; and the end   *)
(* of the process -- the HTTP server closes, the pool drains, a watchdog   *)
(* waits.                                                                  *)
(*                                                                         *)
(* A client may be gone while its request is handled.  A connection may be *)
(* lost at any statement, a COMMIT the database has done included.  Time   *)
(* is left out: a timeout may strike whenever what it limits is not over.  *)
(* X_Mutant, placed before X, is X with a plausible slip.                  *)
(***************************************************************************)
EXTENDS RoutePrices, FiniteSets

CONSTANTS
    PoolMax,   \* DATABASE_POOL_MAX
    Probe      \* the readiness probe

ASSUME ServiceConstantsOK == PoolMax \in Nat \ {0} /\ Probe \notin Change

VARIABLES
    call,      \* the requests
    free,      \* connections nobody has borrowed
    queue,     \* who waits for one, first come first
    server     \* the life of the process

poolVars == <<free, queue>>
serviceVars == <<vars, call, poolVars, server>>

Caller == Change \cup {Probe}

\* asking and looking: the guard's query (or the probe's) waits, and has a connection;
\* queued, connected, working and ending: the transaction's.  waited: somebody still
\* waits for the answer.  kept: the transaction took effect.
NoRequest == [stage |-> "idle", waited |-> FALSE, kept |-> FALSE, answer |-> "none"]

Holders == {c \in Caller : call[c].stage \in {"looking", "connected", "working", "ending"}}

ServiceInit ==
    /\ Init
    /\ call = [c \in Caller |-> NoRequest]
    /\ free = PoolMax
    /\ queue = <<>>
    /\ server = "serving"

-----------------------------------------------------------------------------
(***************************************************************************)
(* The pool.                                                               *)
(***************************************************************************)

\* The request is over: answered, or failed with 403, 500 or 503.
Answered(c) == [call EXCEPT ![c] = NoRequest]

\* pool.connect(): once the pool is ending it refuses.
WantConnection(c, stage) ==
    IF server = "draining"
    THEN call' = Answered(c) /\ UNCHANGED queue
    ELSE /\ call' = [call EXCEPT ![c].stage = stage]
         /\ queue' = Append(queue, c)

Connect(c) ==
    /\ queue # <<>> /\ Head(queue) = c
    /\ free > 0
    /\ server # "draining"
    /\ queue' = Tail(queue)
    /\ \/ /\ free' = free - 1
          /\ call' = [call EXCEPT ![c].stage = IF @ = "asking" THEN "looking" ELSE "connected"]
       \/ /\ call' = Answered(c) /\ UNCHANGED free
    /\ UNCHANGED <<vars, server>>

\* The queue without its i-th, spliced out.
Spliced(i) == SubSeq(queue, 1, i - 1) \o SubSeq(queue, i + 1, Len(queue))

\* connectionTimeoutMillis.
ConnectTimeout(c) ==
    /\ \E i \in DOMAIN queue : queue[i] = c /\ queue' = Spliced(i)
    /\ call' = Answered(c)
    /\ UNCHANGED <<vars, free, server>>

-----------------------------------------------------------------------------
(***************************************************************************)
(* A request.                                                              *)
(***************************************************************************)
Arrive(c) ==
    /\ server = "serving"
    /\ call[c].stage = "idle"
    /\ call' = [call EXCEPT ![c] = [NoRequest EXCEPT !.stage = "asking", !.waited = TRUE]]
    /\ queue' = Append(queue, c)
    /\ UNCHANGED <<vars, free, server>>

\* The client hangs up; nothing tells the handler, and only the server's end asks.
HangUp(c) ==
    /\ server = "closing"
    /\ call[c].stage # "idle" /\ call[c].waited
    /\ call' = [call EXCEPT ![c].waited = FALSE]
    /\ UNCHANGED <<vars, poolVars, server>>

\* The guard's query answers, and the handler's transaction wants a connection; or the
\* caller is denied, or the query fails.
Guarded(c) ==
    /\ c # Probe /\ call[c].stage = "looking"
    /\ free' = free + 1
    /\ \/ WantConnection(c, "queued")
       \/ call' = Answered(c) /\ UNCHANGED queue
    /\ UNCHANGED <<vars, server>>

\* The transaction is over, its connection not yet given back; a lost connection or a
\* timeout leaves the outcome unknown to the client (503, or 500 without a code).
Ending(c, answer) == [call EXCEPT ![c] = [@ EXCEPT !.stage = "ending", !.answer = answer]]

Begin(c) ==
    /\ call[c].stage = "connected"
    /\ \/ /\ \E price \in Price : BeginChange(c, price)
          /\ call' = [call EXCEPT ![c].stage = "working"]
       \/ call' = Ending(c, "unknown") /\ UNCHANGED vars
    /\ UNCHANGED <<poolVars, server>>

\* A COMMIT without an answer taken for a conflict.
CommitAnswers_Mutant == {"done", "refused"}

\* COMMIT: the database has done it, though the connection may be lost before it says so.
CommitAnswers == {"done", "unknown"}

Work(c) ==
    /\ call[c].stage = "working"
    /\ \/ CloseOpenPeriod(c) \/ OpenPeriod(c) \/ PassConstraints(c)
    /\ UNCHANGED <<call, poolVars, server>>

Commit(c) ==
    /\ call[c].stage = "working"
    /\ CommitChange(c)
    /\ \E answer \in CommitAnswers :
          call' = [Ending(c, answer) EXCEPT ![c].kept = history' # history]
    /\ UNCHANGED <<poolVars, server>>

\* A constraint or a deadlock: 409 and 422.
Conflict(c) ==
    /\ call[c].stage = "working"
    /\ Refuse(c) \/ BreakDeadlock(c)
    /\ call' = Ending(c, "refused")
    /\ UNCHANGED <<poolVars, server>>

StatementTimeout(c) ==
    /\ call[c].stage = "working"
    /\ Waiting(c) /\ RollBack(c)
    /\ call' = Ending(c, "unknown")
    /\ UNCHANGED <<poolVars, server>>

LoseConnection(c) ==
    /\ call[c].stage = "working"
    /\ Fail(c)
    /\ call' = Ending(c, "unknown")
    /\ UNCHANGED <<poolVars, server>>

\* The client given back only when the transaction went through.
Returned_Mutant(c) == IF call[c].kept THEN 1 ELSE 0

\* Not given back when a conflict or a deadlock is thrown.
Returned_AfterConflict(c) == IF call[c].answer = "refused" THEN 0 ELSE 1

\* finally { client.release() }: a lost connection leaves the pool, which may open another.
Returned(c) == 1

Release(c) ==
    /\ call[c].stage = "ending"
    /\ call' = Answered(c)
    /\ free' = free + Returned(c)
    /\ UNCHANGED <<vars, queue, server>>

-----------------------------------------------------------------------------
(***************************************************************************)
(* Readiness: SELECT 1 under a timeout of its own.                         *)
(***************************************************************************)
CheckReadiness ==
    /\ server = "serving"
    /\ call[Probe].stage = "idle"
    /\ call' = [call EXCEPT ![Probe] = [NoRequest EXCEPT !.stage = "asking", !.waited = TRUE]]
    /\ queue' = Append(queue, Probe)
    /\ UNCHANGED <<vars, free, server>>

\* The answer is down; the query stays where it is and its late result is dropped.
ReadinessTimeout ==
    /\ server = "closing"
    /\ call[Probe].stage # "idle" /\ call[Probe].waited
    /\ call' = [call EXCEPT ![Probe].waited = FALSE]
    /\ UNCHANGED <<vars, poolVars, server>>

Probed ==
    /\ call[Probe].stage = "looking"
    /\ free' = free + 1
    /\ call' = Answered(Probe)
    /\ UNCHANGED <<vars, queue, server>>

-----------------------------------------------------------------------------
(***************************************************************************)
(* The end.                                                                *)
(***************************************************************************)
Signal ==
    /\ server = "serving"
    /\ server' = "closing"
    /\ UNCHANGED <<vars, call, poolVars>>

\* The HTTP server has closed when the last client is gone, which one may never be; the
\* hooks then end the pool.
CloseServer ==
    /\ server = "closing"
    /\ \A c \in Caller : ~call[c].waited
    /\ server' = "draining"
    /\ UNCHANGED <<vars, call, poolVars>>

\* What is under way when the process exits is lost with it; the database rolls back.
Halt(how) ==
    /\ server' = how
    /\ change' = [c \in Change |-> Idle]
    /\ call' = [c \in Caller |-> NoRequest]
    /\ free' = PoolMax /\ queue' = <<>>
    /\ UNCHANGED <<clock, history, mirror>>

\* pool.end() not waited for.
Drained_Mutant == TRUE

Drained == free = PoolMax

PoolEnded == server = "draining" /\ Drained /\ Halt("stopped")

\* The timer dropped by the second signal instead of kept.
Armed_Mutant == FALSE

\* Armed by the first signal, and left so.
Armed == server \in {"closing", "draining"}

Watchdog == Armed /\ Halt("killed")

ServiceNext ==
    \/ \E c \in Change :
        \/ Arrive(c) \/ HangUp(c)
        \/ Guarded(c) \/ Begin(c) \/ Work(c) \/ Commit(c) \/ Conflict(c)
        \/ StatementTimeout(c) \/ LoseConnection(c) \/ Release(c)
    \/ \E c \in Caller : Connect(c) \/ ConnectTimeout(c)
    \/ CheckReadiness \/ ReadinessTimeout \/ Probed
    \/ Signal \/ CloseServer \/ PoolEnded \/ Watchdog
    \/ Tick /\ UNCHANGED <<call, poolVars, server>>

ServiceSpec == ServiceInit /\ [][ServiceNext]_serviceVars

\* Whoever is at the head of the queue gets the connection that is free; the event loop
\* runs every handler on; the database answers what nothing blocks, the waiters of a row
\* in their order (SF).  The timers of the pool and of the statements may be switched
\* off (0), and nothing counts on them; the watchdog's cannot.
Fairness ==
    /\ \A c \in Caller : WF_serviceVars(Connect(c))
    /\ \A c \in Change :
        /\ WF_serviceVars(Guarded(c)) /\ WF_serviceVars(Begin(c)) /\ WF_serviceVars(Release(c))
        /\ SF_serviceVars(Work(c) \/ Commit(c) \/ Conflict(c))
    /\ WF_serviceVars(Probed)
    /\ WF_serviceVars(Watchdog)

FairServiceSpec == ServiceSpec /\ Fairness

-----------------------------------------------------------------------------
(***************************************************************************)
(* Properties.                                                             *)
(***************************************************************************)

\* Every connection is free or in the hands of one request, whatever failed.
ConnectionsAccounted ==
    /\ free + Cardinality(Holders) = PoolMax
    /\ \A c \in Change : change[c].pc # "idle" => call[c].stage = "working"

\* What a client is told is so: a change that was answered took effect, one that was
\* refused did not.  Only a failure leaves it open.
AnswerTellsOutcome ==
    \A c \in Change :
        /\ call[c].answer = "done" => call[c].kept
        /\ call[c].answer = "refused" => ~call[c].kept

\* A graceful stop cuts nothing off: no client still waits and no transaction is open
\* (README: "in-flight queries can finish and connections are released cleanly").
CutsNothing ==
    server # "stopped" /\ server' = "stopped" =>
        /\ \A c \in Caller : ~call[c].waited
        /\ \A c \in Change : change[c].pc = "idle"

StopsCleanly == [][CutsNothing]_serviceVars

\* Every request is answered though connections are lost, requests keep coming, and no
\* timeout helps.
EveryRequestEnds == \A c \in Change : call[c].stage # "idle" ~> call[c].stage = "idle"

\* "The process can never hang" (README): a client that never closes its connection, or
\* a transaction that never ends, does not keep it alive.
ShutdownEnds == server = "closing" ~> server \in {"stopped", "killed"}
=============================================================================
