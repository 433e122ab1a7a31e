----------------------------- MODULE Collector -----------------------------
(***************************************************************************)
(* A market data collector: the life cycle of base.collector.ts (start,    *)
(* stop, reconnection with backoff, circuit breaker), the two sources that *)
(* extend it, Binance over a socket ("push") and Yahoo polled over HTTP    *)
(* ("poll"), and the registry that starts it and subscribes it once.       *)
(***************************************************************************)
EXTENDS MarketSymbols, Naturals, Sequences, SequencesExt, FiniteSets

CONSTANT
    Threshold   \* CIRCUIT_BREAKER_THRESHOLD: failures that open the circuit

ASSUME ThresholdAssumption == Threshold \in Nat \ {0}

VARIABLES
    kind,        \* which of the two sources this is
    up,          \* whether the source answers
    base,        \* the fields of BaseCollector: state, failures, circuit
    timers,      \* the reconnection timers that run
    attempts,    \* the calls of doConnect that are awaited
    socket,      \* push: the connection
    followed,    \* push: streams asked for on the socket; poll: polledSymbols
    subscribed,  \* subscribedSymbols
    asking,      \* poll: the symbols of a subscribe() that awaits its first poll
    registry     \* how far the registry is with this collector

vars == <<kind, up, base, timers, attempts, socket, followed, subscribed, asking, registry>>

subscriptions == <<followed, subscribed, asking>>

States == {"disconnected", "connecting", "connected", "reconnecting", "error", "stopped"}

\* The circuit is closed when circuitOpenedAt is null; otherwise it is open, and
\* the cooldown has passed or not.
Circuits == {"closed", "cooling", "cooled"}

TypeOK ==
    /\ kind \in {"push", "poll"} /\ up \in BOOLEAN
    /\ base \in [state : States, failures : 0..Threshold, circuit : Circuits]
    /\ timers \in Seq({"backoff", "cooldown"})
    /\ attempts \in Seq({"start", "reconnect", "aborted"})
    /\ socket \in {"none", "open", "broken"}
    /\ followed \subseteq Symbols /\ subscribed \subseteq Symbols /\ asking \subseteq Symbols
    /\ registry \in {"new", "starting", "ready", "done", "stopped"}

Init ==
    /\ kind \in {"push", "poll"} /\ up \in BOOLEAN
    /\ base = [state |-> "disconnected", failures |-> 0, circuit |-> "closed"]
    /\ timers = <<>> /\ attempts = <<>>
    /\ socket = "none"
    /\ followed = {} /\ subscribed = {} /\ asking = {}
    /\ registry = "new"

-----------------------------------------------------------------------------
(* The circuit breaker and the reconnection timer                           *)

\* recordFailure and openCircuit; the count only matters up to the threshold.
RecordFailure(b) ==
    LET counted == [b EXCEPT !.failures = IF @ < Threshold THEN @ + 1 ELSE @]
    IN  IF counted.failures = Threshold /\ b.circuit = "closed"
        THEN [counted EXCEPT !.circuit = "cooling", !.state = "error"]
        ELSE counted

\* What asking isCircuitOpen() leaves behind: a cooled circuit is closed again.
CheckCircuit(b) ==
    IF b.circuit = "cooled" THEN [b EXCEPT !.circuit = "closed", !.failures = 0] ELSE b

ResetCircuitBreaker(b) == [b EXCEPT !.circuit = "closed", !.failures = 0]

\* A plausible slip: the delay ignores the circuit.
DelayAlwaysBackoff(b) == "backoff"

Delay(b) == IF b.circuit = "cooling" THEN "cooldown" ELSE "backoff"

\* A plausible slip: with an open circuit nothing is scheduled.
ScheduleUnlessOpen(b) ==
    /\ base' = CheckCircuit(b)
    /\ timers' = IF base'.circuit = "cooling" THEN timers ELSE Append(timers, "backoff")

\* scheduleReconnect, which keeps only the handle of its last timer.
ScheduleReconnect(b) ==
    /\ base' = CheckCircuit(b)
    /\ timers' = Append(timers, Delay(CheckCircuit(b)))

\* Time passes: the cooldown ends.
Cool ==
    /\ base.circuit = "cooling"
    /\ base' = [base EXCEPT !.circuit = "cooled"]
    /\ UNCHANGED <<kind, up, timers, attempts, socket, subscriptions, registry>>

\* getHealth asks whether the circuit is open.
GetHealth ==
    /\ base.circuit = "cooled"
    /\ base' = CheckCircuit(base)
    /\ UNCHANGED <<kind, up, timers, attempts, socket, subscriptions, registry>>

-----------------------------------------------------------------------------
(* Connecting                                                               *)

\* The registry calls start().
Start ==
    /\ registry = "new"
    /\ registry' = "starting"
    /\ base.state \notin {"connected", "connecting"}
    /\ CheckCircuit(base).circuit = "closed"
    /\ base' = [CheckCircuit(base) EXCEPT !.state = "connecting"]
    /\ attempts' = Append(attempts, "start")
    /\ UNCHANGED <<kind, up, timers, socket, subscriptions>>

\* A timer fires attemptReconnect, which neither asks the circuit nor changes the
\* state; a cooldown's timer fires when the cooldown is over.
AttemptReconnect(t) ==
    /\ timers[t] = "cooldown" => base.circuit # "cooling"
    /\ timers' = RemoveAt(timers, t)
    /\ attempts' = Append(attempts, "reconnect")
    /\ UNCHANGED <<kind, up, base, socket, subscriptions, registry>>

\* The registry waits for start() only.
Returned(i) == registry' = IF attempts[i] = "start" /\ registry = "starting" THEN "ready" ELSE registry

\* A plausible slip: the symbols stay in subscribedSymbols, so that subscribe()
\* has nothing to ask for.
ResubscribeKnown ==
    /\ followed' = IF kind = "push" THEN {} ELSE followed
    /\ UNCHANGED <<subscribed, asking>>

\* After a reconnection the symbols are forgotten and subscribed again, and a poll is
\* awaited first. The catch around it has nothing to catch: of a push collector the
\* continuation of doConnect runs before any other event of the open socket, so the
\* send does not throw, and pollSymbols logs every error of its source.
Resubscribe ==
    IF kind = "push"
    THEN followed' = subscribed /\ UNCHANGED <<subscribed, asking>>
    ELSE followed' = followed \cup subscribed /\ subscribed' = {} /\ asking' = subscribed

\* doConnect resolves.
Connect(i) ==
    /\ up /\ attempts[i] # "aborted"
    /\ attempts' = RemoveAt(attempts, i)
    /\ base' = [ResetCircuitBreaker(base) EXCEPT !.state = "connected"]
    /\ socket' = IF kind = "push" THEN "open" ELSE "none"
    /\ \/ attempts[i] = "start" /\ UNCHANGED subscriptions
       \/ attempts[i] = "reconnect" /\ Resubscribe
    /\ Returned(i)
    /\ UNCHANGED <<kind, up, timers>>

\* A plausible slip: "close" does not look at the state, so a socket that fails to
\* connect schedules a reconnection before the rejection of start() does.
FailStartTwice(i) ==
    /\ attempts[i] = "start" /\ ~up
    /\ attempts' = RemoveAt(attempts, i)
    /\ base' = [RecordFailure(RecordFailure(base)) EXCEPT !.state = "reconnecting"]
    /\ timers' = timers \o (IF kind = "push" THEN <<"backoff", "backoff">> ELSE <<"backoff">>)
    /\ Returned(i)
    /\ UNCHANGED <<kind, up, socket, subscriptions>>

\* start() fails: handleConnectionFailure counts the failure twice, itself and
\* through emitError. A socket that stop() closed while it connected fails too.
FailStart(i) ==
    /\ attempts[i] \in (IF up THEN {"aborted"} ELSE {"start", "aborted"})
    /\ attempts' = RemoveAt(attempts, i)
    /\ ScheduleReconnect([RecordFailure(RecordFailure(base)) EXCEPT !.state = "reconnecting"])
    /\ Returned(i)
    /\ UNCHANGED <<kind, up, socket, subscriptions>>

\* A poll of attemptReconnect rejects.
FailReconnect(i) ==
    /\ kind = "poll" /\ attempts[i] = "reconnect" /\ ~up
    /\ attempts' = RemoveAt(attempts, i)
    /\ ScheduleReconnect(RecordFailure(base))
    /\ UNCHANGED <<kind, up, socket, subscriptions, registry>>

\* The socket of attemptReconnect fails. Its state is not "connecting", so the error
\* is emitted and the promise neither rejects nor resolves, then or at its timeout.
LoseReconnect(i) ==
    /\ kind = "push" /\ attempts[i] = "reconnect" /\ ~up
    /\ attempts' = RemoveAt(attempts, i)
    /\ base' = RecordFailure(base)
    /\ UNCHANGED <<kind, up, timers, socket, subscriptions, registry>>

-----------------------------------------------------------------------------
(* Connected                                                                *)

\* The socket reports an error, and closes next.
SocketError ==
    /\ socket = "open"
    /\ socket' = "broken"
    /\ base' = RecordFailure(base)
    /\ UNCHANGED <<kind, up, timers, attempts, subscriptions, registry>>

\* The socket closes, with or without an error.
SocketClose ==
    /\ socket # "none"
    /\ socket' = "none"
    /\ IF base.state = "connected"
       THEN ScheduleReconnect([base EXCEPT !.state = "reconnecting"])
       ELSE UNCHANGED <<base, timers>>
    /\ UNCHANGED <<kind, up, attempts, subscriptions, registry>>

\* A poll is rate limited: the only failure of a poll that is counted.
RateLimit ==
    /\ kind = "poll" /\ followed # {}
    /\ base' = RecordFailure(base)
    /\ UNCHANGED <<kind, up, timers, attempts, socket, subscriptions, registry>>

\* The registry subscribes once, when every collector's start() has returned. A
\* collector that is not connected then throws, and nothing asks again.
Subscribe ==
    /\ registry = "ready"
    /\ registry' = "done"
    /\ IF base.state # "connected" THEN UNCHANGED subscriptions
       ELSE IF kind = "push"
       THEN followed' = Symbols /\ subscribed' = Symbols /\ UNCHANGED asking
       ELSE followed' = Symbols /\ asking' = Symbols /\ UNCHANGED subscribed
    /\ UNCHANGED <<kind, up, base, timers, attempts, socket>>

\* The first poll of a subscribe() ends.
Subscribed ==
    /\ asking # {}
    /\ subscribed' = subscribed \cup asking
    /\ asking' = {}
    /\ UNCHANGED <<kind, up, base, timers, attempts, socket, followed, registry>>

\* unsubscribe(): a socket that is not open is not told.
Unsubscribe(S) ==
    /\ S # {} /\ S \subseteq subscribed
    /\ subscribed' = subscribed \ S
    /\ followed' = IF kind = "push" /\ socket # "open" THEN followed ELSE followed \ S
    /\ UNCHANGED <<kind, up, base, timers, attempts, socket, asking, registry>>

\* stop() clears the last timer, but an attempt goes on; a socket that is still
\* connecting is cut, which rejects start() and is an error of attemptReconnect().
Stop ==
    /\ registry \notin {"new", "stopped"}
    /\ registry' = "stopped"
    /\ timers' = IF timers = <<>> THEN <<>> ELSE Front(timers)
    /\ attempts' = IF kind = "poll" THEN attempts
                   ELSE IF Contains(attempts, "start") THEN <<"aborted">> ELSE <<>>
    /\ base' = [IF kind = "push" /\ Contains(attempts, "reconnect") THEN RecordFailure(base) ELSE base
                EXCEPT !.state = "stopped"]
    /\ socket' = "none"
    /\ followed' = {} /\ subscribed' = {}
    /\ UNCHANGED <<kind, up, asking>>

\* The source fails or recovers.
Flip ==
    /\ up' = ~up
    /\ UNCHANGED <<kind, base, timers, attempts, socket, subscriptions, registry>>

-----------------------------------------------------------------------------
Elapse == Cool \/ \E t \in DOMAIN timers : AttemptReconnect(t)

Settle == \E i \in DOMAIN attempts :
    Connect(i) \/ FailStart(i) \/ FailReconnect(i) \/ LoseReconnect(i)

Next ==
    \/ Start \/ Subscribe \/ Subscribed \/ Stop \/ GetHealth
    \/ Elapse \/ Settle
    \/ SocketError \/ SocketClose \/ RateLimit \/ Flip
    \/ \E S \in SUBSET Symbols : Unsubscribe(S)

\* Timers fire, and an attempt is answered: with a connection by a source that
\* answers, with an error or the timeout of the connection by one that does not.
Spec == Init /\ [][Next]_vars /\ WF_vars(Elapse) /\ WF_vars(Settle)

-----------------------------------------------------------------------------
(* Properties                                                               *)

\* At most one reconnection is on its way, waiting for its timer or for the source:
\* a lost connection, a failed start and a failed attempt each schedule the next
\* one, and no two of them do so for the same loss.
OneReconnect == Len(timers) + Len(attempts) <= 1

\* A collector that says it is connected receives the symbols it says are
\* subscribed: after a reconnection they were asked for on the new socket.
SubscribedAreFollowed ==
    base.state = "connected" =>
        /\ subscribed \subseteq followed
        /\ kind = "push" => socket # "none"

\* While the circuit is open and the cooldown lasts, the source is left alone.
NoAttemptWhileCooling ==
    [][Len(attempts') > Len(attempts) => base.circuit # "cooling"]_vars

\* A polled collector that waits to reconnect is connected again once the source
\* answers for good, through an open circuit too, unless it is stopped.
PollRecovers ==
    <>[]up => [](kind = "poll" /\ base.state = "reconnecting"
                    => <>(base.state \in {"connected", "stopped"}))

\* The header of base.collector.ts on its circuit breaker: "Allows automatic
\* recovery after cooldown". A collector that waits to reconnect is connected again
\* once the source answers for good.
Recovers ==
    <>[]up => [](base.state = "reconnecting" => <>(base.state \in {"connected", "stopped"}))
=============================================================================
